--------------------------- MODULE TreeWalkProofs ---------------------------
(***************************************************************************)
(* The parallel walk keeps every promise of the walk and implements the    *)
(* sequential one, for every limit, concurrency and cluster.  First what   *)
(* the loop of build guarantees whoever fetches the children: an inductive *)
(* invariant of the steps of Walk, which SequentialWalk and TreeWalk both  *)
(* take.  Then what the windows guarantee: whatever the goroutines bring   *)
(* back, and in whatever order, the cache holds for a key only what a Get  *)
(* for exactly that key may return, and a composite costs no more Gets and *)
(* no more round-trips than its children call for.                         *)
(***************************************************************************)
EXTENDS TreeWalk, FiniteSetTheorems, SequenceTheorems, WellFoundedInduction, TLAPS

\* The steps of a walk.
Step == LoopStep \/ Fetched \/ Cancel

\* Activations are of nodes above the depth limit, at or after a ref.
FramesInv ==
  /\ \A f \in 1..Len(stack) :
       /\ nodes[stack[f].node].depth < MaxDepth
       /\ stack[f].i <= Len(nodes[stack[f].node].obj.refs) + 1
  /\ pending # NoKey => ~Done /\ Top.i <= Len(Refs)

\* The child being fetched has no node yet, and its ref was followed.
PendingInv ==
  pending # NoKey =>
    /\ \A n \in 1..Len(nodes) : nodes[n].id # KeyIdentity(pending)
    /\ \E t \in Resolutions(cluster, Refs[Top.i]) :
         IdentityKey(t, Refs[Top.i], ParentNs) \in visited

FollowedUpTo(n, last) ==
  \A j \in 1..last : Followed(nodes[n], nodes[n].obj.refs[j])

\* Unless something was cut off, the refs of a node were all followed, or its
\* activation is on the stack and those before its loop index were.
FollowedInv ==
  capped \/ \A n \in 1..Len(nodes) :
    \/ FollowedUpTo(n, Len(nodes[n].obj.refs))
    \/ \E f \in 1..Len(stack) :
         stack[f].node = n /\ FollowedUpTo(n, stack[f].i - 1)

WalkInv ==
  /\ TypeOK
  /\ FramesInv
  /\ WithinLimits
  /\ VisitedIsBuilt
  /\ UniqueNodes
  /\ PendingInv
  /\ FollowedInv

-----------------------------------------------------------------------------
\* What a Resolve may answer is a Target.
LEMMA ResolutionType ==
  ASSUME NEW c \in Clusters, NEW r \in Ref
  PROVE  Resolutions(c, r) \subseteq Target
<1>1. \A t \in DOMAIN c.types : c.types[t] \in Target
  BY ClustersAssumption DEF ClusterType
<1>2. Unresolved \in Target
  BY NamesAssumption DEF Unresolved, Target
<1>3. Resolved(c, r) \in Target
  BY <1>1, <1>2 DEF Resolved
<1> QED BY <1>2, <1>3 DEF Resolutions

\* The key of a ref and the identity under which it is visited agree, and a
\* well-formed ref never has the key that stands for no key.
LEMMA KeyOfRef ==
  ASSUME NEW t \in Target, NEW r \in Ref, NEW ns \in Names
  PROVE  /\ IdentityKey(t, r, ns) \in Identity
         /\ GetKey(t, r, ns) \in Key
         /\ t # Unresolved => KeyIdentity(GetKey(t, r, ns)) = IdentityKey(t, r, ns)
         /\ ~Malformed(r) => GetKey(t, r, ns) # NoKey
<1>1. EffectiveNs(t, r, ns) \in Names
  BY DEF EffectiveNs, Ref
<1>2. IdentityKey(t, r, ns) \in Identity
  BY <1>1 DEF IdentityKey, Identity, Target, Ref
<1>3. GetKey(t, r, ns) \in Key
  BY <1>1 DEF GetKey, Key, Target, Ref
<1>4. t # Unresolved => KeyIdentity(GetKey(t, r, ns)) = IdentityKey(t, r, ns)
  BY DEF KeyIdentity, GetKey, IdentityKey
<1>5. ~Malformed(r) => GetKey(t, r, ns) # NoKey
  BY DEF Malformed, GetKey, NoKey
<1> QED BY <1>2, <1>3, <1>4, <1>5

\* What a Get may return is an object, or an error and then no refs.
ErrorHasNoRefs(obj) == obj.err # "" => obj.refs = <<>>

\* What a Get may return is an object, and a failed one names no children.
LEMMA OutcomeType ==
  ASSUME cluster \in Clusters, NEW k \in Key, NEW obj \in Outcomes(k)
  PROVE  obj \in Object /\ ErrorHasNoRefs(obj)
<1>1. KeyIdentity(k) \in Identity /\ k.version \in Names /\ k.namespaced \in BOOLEAN
  BY DEF KeyIdentity, Identity, Key
<1> DEFINE Good(o) == o \in Object /\ ErrorHasNoRefs(o)
<1>2. \A err \in Errors : Good(Failure(err, k.version, KeyIdentity(k)))
  <2>1. <<>> \in Seq(Ref)
    OBVIOUS
  <2> QED BY <1>1, <2>1 DEF Failure, Object, ErrorHasNoRefs
<1>3. Good(Answer(cluster, k))
  <2> DEFINE id == <<k.kind, IF k.namespaced THEN k.ns ELSE "", k.name>>
  <2> DEFINE found == [err |-> "", version |-> k.version, id |-> id,
                       refs |-> cluster.objects[id]]
  <2>1. \/ Answer(cluster, k) = Failure("namespace required", k.version, KeyIdentity(k))
        \/ Answer(cluster, k) = Failure("not found", k.version, KeyIdentity(k))
        \/ id \in DOMAIN cluster.objects /\ Answer(cluster, k) = found
    BY DEF Answer
  <2>2. ASSUME id \in DOMAIN cluster.objects
        PROVE  Good(found)
    <3> HIDE DEF id
    <3>1. id \in Identity /\ cluster.objects[id] \in Seq(Ref)
      BY <2>2, ClustersAssumption DEF ClusterType
    <3> QED BY <1>1, <3>1 DEF Object, Errors, ErrorHasNoRefs
  <2> HIDE DEF id, found, Good
  <2> QED BY <1>2, <2>1, <2>2 DEF Errors
<1> HIDE DEF Good
<1>4. Good(obj)
  BY <1>2, <1>3 DEF Outcomes, CtxError, Errors
<1> QED BY <1>4 DEF Good

-----------------------------------------------------------------------------
(* The stack.                                                              *)

\* Moving to the next ref changes only the place in the top frame.
LEMMA StackOfAdvance ==
  ASSUME TypeOK, ~Done
  PROVE  /\ Len(stack) \in Nat \ {0} /\ Top \in Frame /\ Top.node \in 1..Len(nodes)
         /\ Advance \in Seq(Frame) /\ Len(Advance) = Len(stack)
         /\ \A f \in 1..Len(stack) :
              /\ stack[f] \in Frame /\ stack[f].i \in Nat \ {0}
              /\ Advance[f].node = stack[f].node
              /\ Advance[f].i = IF f = Len(stack) THEN stack[f].i + 1 ELSE stack[f].i
<1>1. stack \in Seq(Frame) /\ stack # <<>>
  BY DEF TypeOK, Done
<1>2. Len(stack) \in Nat \ {0} /\ Top \in Frame
  BY <1>1 DEF Top
<1>3. \A f \in 1..Len(stack) : stack[f] \in Frame
  BY <1>1
<1>4. [Top EXCEPT !.i = @ + 1] \in Frame
  BY <1>2 DEF Frame
<1>5. Advance = [stack EXCEPT ![Len(stack)] = [Top EXCEPT !.i = @ + 1]]
  BY DEF Advance, Top
<1>6. Advance \in Seq(Frame) /\ Len(Advance) = Len(stack)
  BY <1>1, <1>2, <1>4, <1>5
<1>7. \A f \in 1..Len(stack) :
        Advance[f] = IF f = Len(stack) THEN [Top EXCEPT !.i = @ + 1] ELSE stack[f]
  BY <1>1, <1>2, <1>5
<1>8. \A f \in 1..Len(stack) :
        /\ Advance[f].node = stack[f].node
        /\ Advance[f].i = IF f = Len(stack) THEN stack[f].i + 1 ELSE stack[f].i
  BY <1>2, <1>3, <1>7 DEF Frame, Top
<1>9. Top.node \in 1..Len(nodes)
  BY <1>2 DEF TypeOK, Top
<1>10. \A f \in 1..Len(stack) : stack[f].i \in Nat \ {0}
  BY <1>3 DEF Frame
<1> QED BY <1>2, <1>3, <1>6, <1>8, <1>9, <1>10

\* Returning leaves the frames below as they were.
LEMMA StackOfPop ==
  ASSUME TypeOK, ~Done
  PROVE  /\ Pop \in Seq(Frame) /\ Len(Pop) = Len(stack) - 1
         /\ \A f \in 1..Len(Pop) : f \in 1..Len(stack) /\ f # Len(stack) /\ Pop[f] = stack[f]
<1>1. stack \in Seq(Frame) /\ stack # <<>> /\ Len(stack) \in Nat \ {0}
  BY DEF TypeOK, Done
<1>2. \A f \in 1..(Len(stack) - 1) : stack[f] \in Frame
  BY <1>1
<1>3. /\ Pop \in Seq(Frame) /\ Len(Pop) = Len(stack) - 1
      /\ \A f \in 1..(Len(stack) - 1) : Pop[f] = stack[f]
  <2> DEFINE m == Len(stack) - 1
  <2>1. m \in Nat /\ \A f \in 1..m : stack[f] \in Frame
    BY <1>1, <1>2
  <2> HIDE DEF m
  <2>2. /\ SubSeq(stack, 1, m) \in Seq(Frame)
        /\ Len(SubSeq(stack, 1, m)) = IF 1 <= m THEN m - 1 + 1 ELSE 0
        /\ \A f \in 1..(m - 1 + 1) : SubSeq(stack, 1, m)[f] = stack[1 + f - 1]
    BY <2>1, SubSeqProperties
  <2>3. /\ SubSeq(stack, 1, m) \in Seq(Frame) /\ Len(SubSeq(stack, 1, m)) = m
        /\ \A f \in 1..m : SubSeq(stack, 1, m)[f] = stack[f]
    BY <2>1, <2>2
  <2> QED BY <2>3 DEF Pop, m
<1> QED BY <1>1, <1>3

\* The refs of a node are a sequence of refs.
LEMMA RefsAreRefs ==
  ASSUME TypeOK, NEW n \in 1..Len(nodes)
  PROVE  nodes[n].obj \in Object /\ nodes[n].obj.refs \in Seq(Ref)
         /\ Len(nodes[n].obj.refs) \in Nat
<1>1. nodes[n] \in Node
  BY DEF TypeOK
<1>2. nodes[n].obj \in Object
  BY <1>1 DEF Node
<1>3. nodes[n].obj.refs \in Seq(Ref)
  BY <1>2 DEF Object
<1> QED BY <1>2, <1>3

\* Returning from an activation: all of its refs were followed, or the budget
\* is spent and capped records it.
LEMMA PopInv ==
  ASSUME WalkInv, ~Done, pending = NoKey, stack' = Pop,
         UNCHANGED <<cluster, nodes, visited, pending, cancelled>>,
         \/ capped' = capped /\ Top.i > Len(Refs)
         \/ capped' = TRUE /\ Len(nodes) >= MaxNodes
  PROVE  WalkInv'
<1> USE StackOfPop DEF WalkInv
<1>1. TypeOK'
  BY DEF TypeOK
<1>2. FramesInv'
  BY DEF FramesInv
<1>3. WithinLimits' /\ VisitedIsBuilt' /\ UniqueNodes' /\ PendingInv'
  BY DEF WithinLimits, VisitedIsBuilt, UniqueNodes, PendingInv
<1>4. FollowedInv'
  <2>1. CASE capped'
    BY <2>1 DEF FollowedInv
  <2>2. CASE ~capped'
    <3>1. ~capped /\ Top.i > Len(Refs)
      BY <2>2
    <3>2. \A n \in 1..Len(nodes) :
            \/ FollowedUpTo(n, Len(nodes[n].obj.refs))
            \/ \E f \in 1..Len(Pop) :
                 Pop[f].node = n /\ FollowedUpTo(n, Pop[f].i - 1)
      <4> TAKE n \in 1..Len(nodes)
      <4>1. CASE FollowedUpTo(n, Len(nodes[n].obj.refs))
        BY <4>1
      <4>2. CASE ~FollowedUpTo(n, Len(nodes[n].obj.refs))
        <5>1. PICK f \in 1..Len(stack) :
                stack[f].node = n /\ FollowedUpTo(n, stack[f].i - 1)
          BY <3>1, <4>2 DEF FollowedInv
        <5>2. f # Len(stack)
          <6>1. SUFFICES ASSUME f = Len(stack) PROVE FALSE
            OBVIOUS
          <6>2. Refs = nodes[n].obj.refs /\ Top.i = stack[f].i
            BY <5>1, <6>1 DEF Top, Refs, Parent
          <6>3. Top.i \in Nat /\ Len(Refs) \in Nat
            BY <5>1, <6>2, RefsAreRefs, StackOfAdvance
          <6>4. \A j \in 1..Len(Refs) : j \in 1..(stack[f].i - 1)
            BY <3>1, <6>2, <6>3
          <6> QED BY <4>2, <5>1, <6>2, <6>4 DEF FollowedUpTo
        <5>3. f \in 1..Len(Pop)
          BY <5>1, <5>2 DEF TypeOK
        <5> QED BY <5>1, <5>3
      <4> QED BY <4>1, <4>2
    <3>3. \A n, l : FollowedUpTo(n, l) => FollowedUpTo(n, l)'
      BY DEF FollowedUpTo, Followed
    <3> QED BY <3>2, <3>3 DEF FollowedInv
  <2> QED BY <2>1, <2>2
<1> QED BY <1>1, <1>2, <1>3, <1>4

\* The ref the loop is on, and what it needs to become a child.
LEMMA RefAtHand ==
  ASSUME WalkInv, ~Done, Top.i <= Len(Refs)
  PROVE  /\ Top.i \in Nat \ {0} /\ Refs[Top.i] \in Ref /\ Len(Refs) \in Nat
         /\ ParentNs \in Names /\ Parent \in Node /\ Parent.depth < MaxDepth /\ Top.node \in 1..Len(nodes)
<1>1. Top \in Frame /\ Top.node \in 1..Len(nodes) /\ Len(stack) \in 1..Len(stack)
  BY StackOfAdvance DEF WalkInv
<1>2. Parent \in Node
  BY <1>1 DEF WalkInv, TypeOK, Parent
<1>3. Parent.obj \in Object /\ Parent.depth < MaxDepth
  BY <1>1, <1>2 DEF WalkInv, FramesInv, Parent, Top, Node
<1>4. Refs \in Seq(Ref) /\ Parent.obj.id \in Identity
  BY <1>3 DEF Refs, Object
<1>5. Top.i \in Nat \ {0} /\ Top.i \in 1..Len(Refs)
  BY <1>1, <1>4 DEF Frame
<1>6. Refs[Top.i] \in Ref
  BY <1>4, <1>5
<1>7. ParentNs \in Names
  BY <1>4 DEF ParentNs, Identity
<1> QED BY <1>1, <1>2, <1>3, <1>4, <1>5, <1>6, <1>7

\* Passing over a ref that was followed.
LEMMA AdvanceInv ==
  ASSUME WalkInv, AtRef, stack' = Advance, Followed(Parent, Refs[Top.i]),
         UNCHANGED <<cluster, nodes, visited, capped, pending, cancelled>>
  PROVE  WalkInv'
<1> USE DEF WalkInv
<1>0. TypeOK /\ ~Done /\ pending = NoKey /\ Top.i <= Len(Refs)
  BY DEF AtRef
<1> USE <1>0, StackOfAdvance
<1>1. TypeOK'
  BY DEF TypeOK
<1>2. FramesInv'
  <2>1. /\ Len(Refs) \in Nat /\ Top.i \in Nat
        /\ Refs = nodes[stack[Len(stack)].node].obj.refs /\ Top = stack[Len(stack)]
    BY RefAtHand DEF Refs, Parent, Top
  <2> SUFFICES ASSUME NEW f \in 1..Len(stack)
               PROVE  /\ nodes[Advance[f].node].depth < MaxDepth
                      /\ Advance[f].i <= Len(nodes[Advance[f].node].obj.refs) + 1
    BY DEF FramesInv
  <2>2. CASE f = Len(stack)
    <3>1. Advance[f].node = stack[f].node /\ Advance[f].i = Top.i + 1
      BY <2>1, <2>2
    <3>2. nodes[stack[f].node].depth < MaxDepth
      BY DEF FramesInv
    <3>3. Top.i + 1 <= Len(nodes[stack[f].node].obj.refs) + 1
      <4>1. nodes[stack[f].node].obj.refs = Refs
        BY <2>1, <2>2
      <4> DEFINE L == Len(Refs)
                 i == Top.i
      <4>2. L \in Nat /\ i \in Nat /\ i <= L
        BY <1>0, <2>1
      <4> HIDE DEF L, i
      <4>3. i + 1 <= L + 1
        BY <4>2
      <4> QED BY <4>1, <4>3 DEF L, i
    <3> QED BY <3>1, <3>2, <3>3
  <2>3. CASE f # Len(stack)
    BY <2>3 DEF FramesInv
  <2> QED BY <2>2, <2>3
<1>3. WithinLimits' /\ VisitedIsBuilt' /\ UniqueNodes' /\ PendingInv'
  BY DEF WithinLimits, VisitedIsBuilt, UniqueNodes, PendingInv
<1>4. FollowedInv'
  <2>1. CASE capped
    BY <2>1 DEF FollowedInv
  <2>2. CASE ~capped
    <3>1. \A n \in 1..Len(nodes) :
            \/ FollowedUpTo(n, Len(nodes[n].obj.refs))
            \/ \E f \in 1..Len(Advance) :
                 Advance[f].node = n /\ FollowedUpTo(n, Advance[f].i - 1)
      <4> TAKE n \in 1..Len(nodes)
      <4>1. CASE FollowedUpTo(n, Len(nodes[n].obj.refs))
        BY <4>1
      <4>2. CASE ~FollowedUpTo(n, Len(nodes[n].obj.refs))
        <5>1. PICK f \in 1..Len(stack) :
                stack[f].node = n /\ FollowedUpTo(n, stack[f].i - 1)
          BY <2>2, <4>2 DEF FollowedInv
        <5>2. stack[f].i \in Nat
          BY <5>1
        <5>3. FollowedUpTo(n, Advance[f].i - 1)
          <6>1. CASE f # Len(stack)
            BY <5>1, <6>1
          <6>2. CASE f = Len(stack)
            <7>1. Followed(nodes[n], nodes[n].obj.refs[stack[f].i])
              BY <5>1, <6>2 DEF Parent, Refs, Top
            <7>2. Advance[f].i = stack[f].i + 1
              BY <5>1, <6>2
            <7>3. Advance[f].i - 1 = stack[f].i
              BY <5>2, <7>2
            <7>4. FollowedUpTo(n, stack[f].i)
              <8>1. \A j \in 1..stack[f].i : j \in 1..(stack[f].i - 1) \/ j = stack[f].i
                BY <5>2
              <8>2. \A j \in 1..(stack[f].i - 1) : Followed(nodes[n], nodes[n].obj.refs[j])
                BY <5>1 DEF FollowedUpTo
              <8> QED BY <7>1, <8>1, <8>2 DEF FollowedUpTo
            <7> QED BY <7>3, <7>4
          <6> QED BY <6>1, <6>2
        <5> QED BY <5>1, <5>3
      <4> QED BY <4>1, <4>2
    <3>2. \A n, l : FollowedUpTo(n, l) => FollowedUpTo(n, l)'
      BY DEF FollowedUpTo, Followed
    <3> QED BY <3>1, <3>2 DEF FollowedInv
  <2> QED BY <2>1, <2>2
<1> QED BY <1>1, <1>2, <1>3, <1>4

-----------------------------------------------------------------------------
(* A new child.                                                            *)

\* A node is appended: id is new and obj is an object or an error.
LEMMA NewNode ==
  ASSUME WalkInv, ~Done, Top.i <= Len(Refs), Len(nodes) < MaxNodes,
         NEW id \in Identity, NEW obj \in Object,
         \A n \in 1..Len(nodes) : nodes[n].id # id,
         nodes' = Append(nodes, NewChild(id, obj))
  PROVE  /\ nodes' \in Seq(Node) /\ Len(nodes') = Len(nodes) + 1
         /\ \A n \in 1..Len(nodes) : nodes'[n] = nodes[n]
         /\ nodes'[Len(nodes) + 1] = NewChild(id, obj)
         /\ NewChild(id, obj).depth \in 1..MaxDepth
         /\ NewChild(id, obj).id = id /\ NewChild(id, obj).obj = obj
         /\ UniqueNodes'
         /\ Len(nodes') <= MaxNodes
         /\ \A n \in 1..Len(nodes') : nodes'[n].depth <= MaxDepth
<1>1. nodes \in Seq(Node) /\ Len(nodes) \in Nat
  BY DEF WalkInv, TypeOK
<1>2. Parent \in Node /\ Parent.depth < MaxDepth /\ Top.node \in Nat
  BY <1>1, RefAtHand
<1>3. Parent.depth \in Nat /\ MaxDepth \in Nat /\ MaxNodes \in Nat
  BY <1>2, LimitsAssumption DEF Node
<1>4. NewChild(id, obj) \in Node /\ NewChild(id, obj).depth \in 1..MaxDepth
  BY <1>2, <1>3 DEF NewChild, Node
<1>5. NewChild(id, obj).id = id /\ NewChild(id, obj).obj = obj
  BY DEF NewChild
<1>6. /\ nodes' \in Seq(Node) /\ Len(nodes') = Len(nodes) + 1
      /\ \A n \in 1..Len(nodes) : nodes'[n] = nodes[n]
      /\ nodes'[Len(nodes) + 1] = NewChild(id, obj)
  BY <1>1, <1>4
<1>7. UniqueNodes'
  BY <1>1, <1>5, <1>6 DEF WalkInv, UniqueNodes
<1>8. Len(nodes') <= MaxNodes /\ \A n \in 1..Len(nodes') : nodes'[n].depth <= MaxDepth
  BY <1>1, <1>3, <1>4, <1>6 DEF WalkInv, WithinLimits
<1> QED BY <1>4, <1>5, <1>6, <1>7, <1>8

\* What a step that adds a node and an identity leaves followed.
LEMMA FollowedGrows ==
  ASSUME TypeOK, cluster' = cluster, visited \subseteq visited',
         \A n \in 1..Len(nodes) : nodes'[n] = nodes[n]
  PROVE  \A n \in 1..Len(nodes) : \A l : FollowedUpTo(n, l) => FollowedUpTo(n, l)'
BY DEF FollowedUpTo, Followed

\* The loop index has moved past a ref that was followed, and a node was
\* appended whose refs are all followed, or whose activation is at its start.
LEMMA FollowedAfterNewNode ==
  ASSUME WalkInv, ~Done, Top.i <= Len(Refs),
         cluster' = cluster, visited \subseteq visited',
         \E t \in Resolutions(cluster, Refs[Top.i]) :
           IdentityKey(t, Refs[Top.i], ParentNs) \in visited',
         Len(nodes') = Len(nodes) + 1,
         \A n \in 1..Len(nodes) : nodes'[n] = nodes[n],
         Len(stack') >= Len(stack),
         \A f \in 1..Len(stack) : stack'[f] = Advance[f],
         \/ nodes'[Len(nodes) + 1].obj.refs = <<>>
         \/ capped'
         \/ /\ Len(stack') = Len(stack) + 1
            /\ stack'[Len(stack')].node = Len(nodes) + 1
            /\ stack'[Len(stack')].i = 1,
         capped => capped'
  PROVE  FollowedInv'
<1>1. SUFFICES ASSUME ~capped'
               PROVE  \A n \in 1..(Len(nodes) + 1) :
                        \/ FollowedUpTo(n, Len(nodes[n].obj.refs))'
                        \/ \E f \in 1..Len(stack') :
                             stack'[f].node = n /\ FollowedUpTo(n, stack[f].i - 1)'
  BY DEF FollowedInv
<1>2. /\ TypeOK /\ Len(stack) \in Nat \ {0} /\ Len(nodes) \in Nat
      /\ Top.node \in 1..Len(nodes) /\ Top.i \in Nat \ {0}
  BY StackOfAdvance, RefAtHand DEF WalkInv, TypeOK
<1>3. \A n \in 1..Len(nodes) : \A l : FollowedUpTo(n, l) => FollowedUpTo(n, l)'
  BY <1>2, FollowedGrows
<1>4. ASSUME NEW n \in 1..Len(nodes)
      PROVE  \/ FollowedUpTo(n, Len(nodes[n].obj.refs))'
             \/ \E f \in 1..Len(stack') :
                  stack'[f].node = n /\ FollowedUpTo(n, stack[f].i - 1)'
  <2>1. CASE FollowedUpTo(n, Len(nodes[n].obj.refs))
    BY <1>3, <2>1
  <2>2. CASE ~FollowedUpTo(n, Len(nodes[n].obj.refs))
    <3>1. PICK f \in 1..Len(stack) :
            stack[f].node = n /\ FollowedUpTo(n, stack[f].i - 1)
      BY <1>1, <2>2 DEF WalkInv, FollowedInv
    <3>2. /\ stack'[f].node = n /\ stack[f].i \in Nat \ {0}
          /\ stack'[f].i = IF f = Len(stack) THEN stack[f].i + 1 ELSE stack[f].i
      BY <1>2, <3>1, StackOfAdvance
    <3>3. FollowedUpTo(n, stack[f].i - 1)'
      <4>1. \A j \in 1..(stack[f].i - 1) : Followed(nodes[n], nodes[n].obj.refs[j])'
        BY <1>3, <3>1 DEF FollowedUpTo
      <4>2. CASE f # Len(stack)
        BY <3>2, <4>1, <4>2 DEF FollowedUpTo
      <4>3. CASE f = Len(stack)
        <5>1. /\ Refs[Top.i] = nodes[n].obj.refs[stack[f].i]
              /\ ParentNs = nodes[n].obj.id[2] /\ nodes'[n] = nodes[n]
          BY <3>1, <4>3 DEF Refs, Parent, Top, ParentNs
        <5>2. \A j : j = stack[f].i => Followed(nodes[n], nodes[n].obj.refs[j])'
          BY <5>1 DEF Followed
        <5>3. \A j \in 1..stack[f].i : Followed(nodes[n], nodes[n].obj.refs[j])'
          BY <3>2, <4>1, <5>2
        <5>4. stack'[f].i - 1 = stack[f].i
          BY <3>2, <4>3
        <5> QED BY <5>3, <5>4 DEF FollowedUpTo
      <4> QED BY <4>2, <4>3
    <3>4. f \in 1..Len(stack')
      BY <1>2, <3>1
    <3> QED BY <3>2, <3>3, <3>4
  <2> QED BY <2>1, <2>2
<1>5. ASSUME NEW here, here = Len(nodes) + 1
      PROVE  \/ FollowedUpTo(here, Len(nodes[here].obj.refs))'
             \/ \E f \in 1..Len(stack') :
                  stack'[f].node = here /\ FollowedUpTo(here, stack[f].i - 1)'
  <2>1. CASE nodes'[here].obj.refs = <<>>
    <3>1. Len(nodes'[here].obj.refs) = 0
      BY <2>1
    <3> QED BY <3>1 DEF FollowedUpTo
  <2>2. CASE /\ Len(stack') = Len(stack) + 1
             /\ stack'[Len(stack')].node = here
             /\ stack'[Len(stack')].i = 1
    <3>1. Len(stack') \in 1..Len(stack') /\ stack'[Len(stack')].i - 1 = 0
      BY <1>2, <2>2
    <3>2. FollowedUpTo(here, stack[Len(stack)].i - 1)'
      BY <3>1 DEF FollowedUpTo
    <3> QED BY <2>2, <3>1, <3>2
  <2> QED BY <1>1, <1>5, <2>1, <2>2
<1>6. \A n \in 1..(Len(nodes) + 1) : n \in 1..Len(nodes) \/ n = Len(nodes) + 1
  BY <1>2
<1> QED BY <1>4, <1>5, <1>6

\* A ref that does not resolve becomes an error node.
LEMMA AttachUnresolvedInv ==
  ASSUME WalkInv, AtRef, NEW t \in Resolutions(cluster, Refs[Top.i]), AttachUnresolved(t)
  PROVE  WalkInv'
<1> DEFINE r   == Refs[Top.i]
           id  == IdentityKey(t, r, ParentNs)
           obj == Failure("resolve", r.version, id)
<1>1. /\ TypeOK /\ ~Done /\ pending = NoKey /\ Top.i <= Len(Refs)
      /\ Len(nodes) < MaxNodes /\ id \notin visited
  BY DEF WalkInv, AtRef, AttachUnresolved, BudgetLeft
<1>2. /\ visited' = visited \cup {id} /\ nodes' = Append(nodes, NewChild(id, obj))
      /\ stack' = Advance /\ UNCHANGED <<cluster, capped, pending, cancelled>>
  BY DEF AttachUnresolved
<1>3. r \in Ref /\ ParentNs \in Names /\ t \in Target
  BY <1>1, RefAtHand, ResolutionType DEF TypeOK
<1>4. id \in Identity
  BY <1>3, KeyOfRef
<1>5. obj \in Object /\ obj.refs = <<>>
  BY <1>3, <1>4 DEF Failure, Object, Ref, Errors
<1>6. \A n \in 1..Len(nodes) : nodes[n].id # id
  BY <1>1 DEF WalkInv, VisitedIsBuilt
<1> HIDE DEF r, id, obj
<1>7. /\ nodes' \in Seq(Node) /\ Len(nodes') = Len(nodes) + 1
      /\ \A n \in 1..Len(nodes) : nodes'[n] = nodes[n]
      /\ nodes'[Len(nodes) + 1].id = id /\ nodes'[Len(nodes) + 1].obj = obj
      /\ UniqueNodes' /\ Len(nodes') <= MaxNodes
      /\ \A n \in 1..Len(nodes') : nodes'[n].depth <= MaxDepth
  BY <1>1, <1>2, <1>4, <1>5, <1>6, NewNode
<1>8. Len(nodes) \in Nat /\ Len(nodes') \in Nat
  BY <1>1, <1>7 DEF TypeOK
<1>9. TypeOK'
  <2>1. \A f \in 1..Len(stack') : stack'[f].node \in 1..Len(nodes')
    BY <1>1, <1>2, <1>7, <1>8, StackOfAdvance DEF TypeOK
  <2>2. stack' \in Seq(Frame) /\ visited' \in SUBSET Identity
    BY <1>1, <1>2, <1>4, StackOfAdvance DEF TypeOK
  <2> QED BY <1>1, <1>2, <1>7, <2>1, <2>2 DEF TypeOK
<1>10. FramesInv'
  <2>1. SUFFICES ASSUME NEW f \in 1..Len(stack)
                 PROVE  /\ nodes'[stack'[f].node].depth < MaxDepth
                        /\ stack'[f].i <= Len(nodes'[stack'[f].node].obj.refs) + 1
    BY <1>1, <1>2, StackOfAdvance DEF FramesInv
  <2>2. /\ stack[f].node \in 1..Len(nodes) /\ stack'[f].node = stack[f].node
        /\ stack[f].i \in Nat
        /\ stack'[f].i = IF f = Len(stack) THEN stack[f].i + 1 ELSE stack[f].i
    BY <1>1, <1>2, StackOfAdvance DEF TypeOK
  <2>3. /\ nodes[stack[f].node].depth < MaxDepth
        /\ stack[f].i <= Len(nodes[stack[f].node].obj.refs) + 1
    BY DEF WalkInv, FramesInv
  <2>4. CASE f # Len(stack)
    BY <1>7, <2>2, <2>3, <2>4
  <2>5. CASE f = Len(stack)
    <3>1. Refs = nodes[stack[f].node].obj.refs /\ Top.i = stack[f].i /\ Len(Refs) \in Nat
      BY <1>1, <2>5, RefAtHand DEF Refs, Parent, Top
    <3>2. nodes'[stack'[f].node] = nodes[stack[f].node]
      BY <1>7, <2>2
    <3>3. stack[f].i <= Len(Refs) /\ stack'[f].i = stack[f].i + 1
      BY <1>1, <2>2, <2>5, <3>1 DEF AtRef
    <3>4. nodes'[stack'[f].node].depth < MaxDepth
      BY <2>3, <3>2
    <3>5. stack'[f].i <= Len(nodes[stack[f].node].obj.refs) + 1
      <4> DEFINE L == Len(Refs)
      <4>1. L \in Nat /\ stack[f].i \in Nat /\ stack[f].i <= L /\ stack'[f].i = stack[f].i + 1
        BY <2>2, <3>1, <3>3
      <4> HIDE DEF L
      <4>2. stack'[f].i <= L + 1
        BY <4>1
      <4> QED BY <3>1, <4>2 DEF L
    <3> QED BY <3>2, <3>4, <3>5
  <2> QED BY <2>4, <2>5
<1>11. WithinLimits' /\ PendingInv'
  BY <1>1, <1>2, <1>7 DEF WithinLimits, PendingInv
<1>12. VisitedIsBuilt'
  BY <1>1, <1>2, <1>7, <1>8, SMTT(30) DEF WalkInv, VisitedIsBuilt
<1>13. FollowedInv'
  <2>1. \E u \in Resolutions(cluster, Refs[Top.i]) :
          IdentityKey(u, Refs[Top.i], ParentNs) \in visited'
    BY <1>2 DEF id, r
  <2>2. /\ visited \subseteq visited' /\ Len(stack') >= Len(stack)
        /\ \A f \in 1..Len(stack) : stack'[f] = Advance[f]
    BY <1>1, <1>2, StackOfAdvance
  <2> QED BY <1>1, <1>2, <1>5, <1>7, <2>1, <2>2, FollowedAfterNewNode
<1> QED BY <1>7, <1>9, <1>10, <1>11, <1>12, <1>13 DEF WalkInv

\* A ref that resolves is reached.
LEMMA ReachInv ==
  ASSUME WalkInv, AtRef, NEW t \in Resolutions(cluster, Refs[Top.i]), Reach(t)
  PROVE  WalkInv'
<1> DEFINE r   == Refs[Top.i]
           id  == IdentityKey(t, r, ParentNs)
           key == GetKey(t, r, ParentNs)
<1>1. /\ TypeOK /\ ~Done /\ pending = NoKey /\ Top.i <= Len(Refs) /\ ~Malformed(r)
      /\ Len(nodes) < MaxNodes /\ id \notin visited /\ t # Unresolved
  BY DEF WalkInv, AtRef, Reach, BudgetLeft
<1>2. /\ visited' = visited \cup {id} /\ pending' = key
      /\ UNCHANGED <<cluster, nodes, stack, capped, cancelled>>
  BY DEF Reach
<1>3. r \in Ref /\ ParentNs \in Names /\ t \in Target
  BY <1>1, RefAtHand, ResolutionType DEF TypeOK
<1>4. id \in Identity /\ key \in Key /\ KeyIdentity(key) = id /\ key # NoKey
  BY <1>1, <1>3, KeyOfRef
<1>5. \A n \in 1..Len(nodes) : nodes[n].id # id
  BY <1>1 DEF WalkInv, VisitedIsBuilt
<1>6. (\E u \in Resolutions(cluster, Refs[Top.i]) :
         IdentityKey(u, Refs[Top.i], ParentNs) \in visited)'
  <2>1. id \in visited' /\ UNCHANGED <<Refs[Top.i], ParentNs>>
    BY <1>2 DEF Parent, Refs, Top, ParentNs
  <2> QED BY <1>2, <2>1
<1> HIDE DEF r, id, key
<1>7. TypeOK'
  BY <1>1, <1>2, <1>4 DEF TypeOK
<1>8. FramesInv' /\ WithinLimits' /\ UniqueNodes'
  BY <1>1, <1>2 DEF WalkInv, FramesInv, WithinLimits, UniqueNodes, Done, Top, Refs, Parent
<1>9. VisitedIsBuilt'
  BY <1>1, <1>2, <1>4 DEF WalkInv, VisitedIsBuilt
<1>10. PendingInv'
  BY <1>2, <1>4, <1>5, <1>6 DEF PendingInv
<1>11. FollowedInv'
  <2>1. \A n \in 1..Len(nodes) : \A l : FollowedUpTo(n, l) => FollowedUpTo(n, l)'
    BY <1>1, <1>2, FollowedGrows
  <2> QED BY <1>2, <2>1 DEF WalkInv, FollowedInv
<1> QED BY <1>7, <1>8, <1>9, <1>10, <1>11 DEF WalkInv

\* The child's object, or its error, has come: its node is appended, and build
\* is entered for an object above the depth limit.
LEMMA AttachInv ==
  ASSUME WalkInv, NEW obj \in Object, ErrorHasNoRefs(obj), Attach(obj)
  PROVE  WalkInv'
<1> DEFINE id     == KeyIdentity(pending)
           child  == NewChild(id, obj)
           enters == obj.err = "" /\ Parent.depth + 1 < MaxDepth
           frame  == [node |-> Len(nodes) + 1, i |-> 1]
<1>1. /\ TypeOK /\ ~Done /\ pending # NoKey /\ Top.i <= Len(Refs) /\ Len(nodes) < MaxNodes
  BY DEF WalkInv, FramesInv, WithinLimits, Attach
<1>2. /\ nodes' = Append(nodes, child) /\ capped' = (capped \/ DepthCut(Parent.depth + 1, obj))
      /\ stack' = IF enters THEN Append(Advance, frame) ELSE Advance
      /\ pending' = NoKey /\ UNCHANGED <<cluster, visited, cancelled>>
  BY DEF Attach
<1>3. id \in Identity
  BY <1>1 DEF TypeOK, KeyIdentity, Identity, Key
<1>4. \A n \in 1..Len(nodes) : nodes[n].id # id
  BY <1>1 DEF WalkInv, PendingInv
<1> HIDE DEF id, enters, frame
<1>5. /\ nodes' \in Seq(Node) /\ Len(nodes') = Len(nodes) + 1
      /\ \A n \in 1..Len(nodes) : nodes'[n] = nodes[n]
      /\ nodes'[Len(nodes) + 1] = child
      /\ UniqueNodes' /\ Len(nodes') <= MaxNodes
      /\ \A n \in 1..Len(nodes') : nodes'[n].depth <= MaxDepth
  BY <1>1, <1>2, <1>3, <1>4, NewNode
<1>6. child.id = id /\ child.obj = obj /\ child.depth = Parent.depth + 1
  BY DEF NewChild
<1> HIDE DEF child
<1>7. /\ Len(nodes) \in Nat /\ Len(nodes') \in Nat /\ MaxDepth \in Nat
      /\ Parent.depth \in Nat /\ Parent.depth < MaxDepth
  <2>1. Parent \in Node /\ Parent.depth < MaxDepth
    BY <1>1, RefAtHand
  <2>2. Len(nodes) \in Nat /\ Len(nodes') \in Nat
    BY <1>1, <1>5 DEF TypeOK
  <2>3. Parent.depth \in Nat
    BY <2>1 DEF Node
  <2> QED BY <2>1, <2>2, <2>3, LimitsAssumption
<1>8. frame \in Frame
  BY <1>7 DEF Frame, frame
<1>9. /\ stack' \in Seq(Frame)
      /\ Len(stack) \in Nat /\ Len(stack') = Len(stack) + (IF enters THEN 1 ELSE 0)
      /\ \A f \in 1..Len(stack) : stack'[f] = Advance[f]
      /\ enters => stack'[Len(stack) + 1] = frame
  <2>1. /\ Advance \in Seq(Frame) /\ Len(Advance) = Len(stack) /\ Len(stack) \in Nat
    BY <1>1, StackOfAdvance
  <2>2. CASE enters
    BY <1>2, <1>8, <2>1, <2>2
  <2>3. CASE ~enters
    BY <1>2, <2>1, <2>3
  <2> QED BY <2>2, <2>3
<1>10. TypeOK'
  <2>1. \A f \in 1..Len(stack) : stack'[f].node \in 1..Len(nodes')
    <3> TAKE f \in 1..Len(stack)
    <3>1. stack[f].node \in 1..Len(nodes)
      BY <1>1 DEF TypeOK
    <3>2. stack'[f].node = stack[f].node
      BY <1>1, <1>9, StackOfAdvance
    <3> QED BY <1>5, <1>7, <3>1, <3>2
  <2>2. \A f \in 1..Len(stack') : stack'[f].node \in 1..Len(nodes')
    BY <1>5, <1>7, <1>9, <2>1 DEF frame
  <2>3. capped' \in BOOLEAN
    BY <1>1, <1>2 DEF TypeOK, DepthCut
  <2>4. pending' \in Key
    BY <1>2, NamesAssumption DEF NoKey, Key
  <2> QED BY <1>1, <1>2, <1>5, <1>9, <2>2, <2>3, <2>4 DEF TypeOK
<1>11. FramesInv'
  <2>1. SUFFICES ASSUME NEW f \in 1..Len(stack')
                 PROVE  /\ nodes'[stack'[f].node].depth < MaxDepth
                        /\ stack'[f].i <= Len(nodes'[stack'[f].node].obj.refs) + 1
    BY <1>2 DEF FramesInv
  <2>2. CASE f \in 1..Len(stack)
    <3>1. /\ stack[f].node \in 1..Len(nodes) /\ stack'[f].node = stack[f].node
          /\ stack[f].i \in Nat
          /\ stack'[f].i = IF f = Len(stack) THEN stack[f].i + 1 ELSE stack[f].i
      BY <1>1, <1>9, <2>2, StackOfAdvance DEF TypeOK
    <3>2. /\ nodes[stack[f].node].depth < MaxDepth
          /\ stack[f].i <= Len(nodes[stack[f].node].obj.refs) + 1
      BY <2>2 DEF WalkInv, FramesInv
    <3>3. CASE f # Len(stack)
      BY <1>5, <3>1, <3>2, <3>3
    <3>4. CASE f = Len(stack)
      <4>1. /\ Refs = nodes[stack[f].node].obj.refs /\ Top.i = stack[f].i
            /\ Len(Refs) \in Nat
        BY <1>1, <3>4, RefAtHand DEF Refs, Parent, Top
      <4>2. Top.i <= Len(Refs)
        BY <1>1
      <4>3. nodes'[stack'[f].node] = nodes[stack[f].node]
        BY <1>5, <3>1
      <4>4. stack'[f].i = Top.i + 1 /\ Top.i \in Nat
        BY <3>1, <3>4, <4>1
      <4>5. Top.i + 1 <= Len(Refs) + 1
        <5>1. \A a, b \in Nat : a <= b => a + 1 <= b + 1
          OBVIOUS
        <5> QED BY <4>1, <4>2, <4>4, <5>1
      <4> QED BY <3>2, <4>1, <4>3, <4>4, <4>5
    <3> QED BY <3>3, <3>4
  <2>3. CASE f \notin 1..Len(stack)
    <3>1. enters /\ stack'[f] = frame
      BY <1>9, <2>3
    <3>2. nodes'[stack'[f].node] = child /\ stack'[f].i = 1
      BY <1>5, <3>1 DEF frame
    <3>4. child.depth < MaxDepth
      BY <1>6, <3>1, Zenon DEF enters
    <3>3. Len(nodes'[stack'[f].node].obj.refs) \in Nat
      BY <1>5, <1>6, <1>7, <3>1 DEF Object, frame
    <3> QED BY <3>2, <3>3, <3>4
  <2> QED BY <2>2, <2>3
<1>12. WithinLimits' /\ PendingInv'
  BY <1>2, <1>5 DEF WithinLimits, PendingInv
<1>13. VisitedIsBuilt'
  <2>1. visited = {nodes[n].id : n \in 1..Len(nodes)} \cup {id}
    BY <1>1 DEF WalkInv, VisitedIsBuilt, id
  <2>2. {nodes'[n].id : n \in 1..Len(nodes')} = {nodes[n].id : n \in 1..Len(nodes)} \cup {id}
    <3>1. \A n : n \in 1..Len(nodes') <=> n \in 1..Len(nodes) \/ n = Len(nodes) + 1
      BY <1>5, <1>7
    <3>2. /\ \A n \in 1..Len(nodes) : nodes'[n].id = nodes[n].id
          /\ nodes'[Len(nodes) + 1].id = id
      BY <1>5, <1>6
    <3> QED BY <3>1, <3>2
  <2> QED BY <1>2, <2>1, <2>2 DEF VisitedIsBuilt
<1>14. FollowedInv'
  <2>1. \E u \in Resolutions(cluster, Refs[Top.i]) :
          IdentityKey(u, Refs[Top.i], ParentNs) \in visited'
    BY <1>1, <1>2 DEF WalkInv, PendingInv
  <2>2. Len(stack') >= Len(stack)
    BY <1>9
  <2>4. visited \subseteq visited' /\ (capped => capped')
    BY <1>2
  <2>3. \/ nodes'[Len(nodes) + 1].obj.refs = <<>>
        \/ capped'
        \/ /\ Len(stack') = Len(stack) + 1
           /\ stack'[Len(stack')].node = Len(nodes) + 1
           /\ stack'[Len(stack')].i = 1
    <3>1. CASE enters
      BY <1>9, <3>1 DEF frame
    <3>2. CASE ~enters
      <4>1. obj.refs = <<>> \/ DepthCut(Parent.depth + 1, obj)
        <5>1. obj.err # "" \/ ~(Parent.depth + 1 < MaxDepth)
          BY <3>2, Zenon DEF enters
        <5>2. CASE obj.err # ""
          BY <5>2, Zenon DEF ErrorHasNoRefs
        <5>3. CASE ~(Parent.depth + 1 < MaxDepth)
          <6>1. Parent.depth + 1 >= MaxDepth
            BY <1>7, <5>3
          <6> QED BY <6>1 DEF DepthCut
        <5> QED BY <5>1, <5>2, <5>3, Zenon
      <4> QED BY <1>2, <1>5, <1>6, <4>1
    <3> QED BY <3>1, <3>2
  <2> QED BY <1>1, <1>2, <1>5, <1>9, <2>1, <2>2, <2>4, <2>3, FollowedAfterNewNode
<1> QED BY <1>5, <1>10, <1>11, <1>12, <1>13, <1>14 DEF WalkInv

-----------------------------------------------------------------------------
(* The whole walk.                                                         *)

\* The walk starts with its invariant.
LEMMA WalkInitInv == WalkInit => WalkInv
<1> SUFFICES ASSUME WalkInit PROVE WalkInv
  OBVIOUS
<1> DEFINE root == [parent |-> 0, depth |-> 0, id |-> cluster.root.id, obj |-> cluster.root]
           frame == [node |-> 1, i |-> 1]
<1>1. /\ cluster \in Clusters /\ nodes = <<root>> /\ stack = <<frame>>
      /\ visited = {cluster.root.id} /\ capped = FALSE /\ pending = NoKey /\ cancelled = FALSE
  BY DEF WalkInit, Seed
<1>2. cluster.root \in Object
  BY <1>1, ClustersAssumption DEF ClusterType
<1>3. cluster.root.id \in Identity /\ Len(cluster.root.refs) \in Nat
  BY <1>2 DEF Object
<1>4. root \in Node /\ root.depth = 0 /\ root.id = cluster.root.id /\ root.obj = cluster.root
  BY <1>2, <1>3 DEF Node
<1>5. frame \in Frame /\ frame.node = 1 /\ frame.i = 1
  BY DEF Frame
<1> HIDE DEF root, frame
<1>6. Len(nodes) = 1 /\ nodes[1] = root /\ Len(stack) = 1 /\ stack[1] = frame
  BY <1>1
<1>7. TypeOK
  <2>1. NoKey \in Key
    BY NamesAssumption DEF NoKey, Key
  <2>2. nodes \in Seq(Node) /\ stack \in Seq(Frame)
    BY <1>1, <1>4, <1>5
  <2>3. \A f \in 1..Len(stack) : stack[f].node \in 1..Len(nodes)
    BY <1>5, <1>6
  <2> QED BY <1>1, <1>3, <2>1, <2>2, <2>3 DEF TypeOK
<1>8. FramesInv
  BY <1>1, <1>3, <1>4, <1>5, <1>6, LimitsAssumption DEF FramesInv
<1>9. WithinLimits /\ PendingInv
  BY <1>1, <1>4, <1>6, LimitsAssumption DEF WithinLimits, PendingInv
<1>10. VisitedIsBuilt /\ UniqueNodes
  BY <1>1, <1>4, <1>6 DEF VisitedIsBuilt, UniqueNodes
<1>11. FollowedInv
  <2>1. FollowedUpTo(1, frame.i - 1)
    BY <1>5 DEF FollowedUpTo
  <2> QED BY <1>5, <1>6, <2>1 DEF FollowedInv
<1> QED BY <1>7, <1>8, <1>9, <1>10, <1>11 DEF WalkInv

\* Every step of the walk keeps the invariant.
LEMMA StepInv == WalkInv /\ [Step]_walkVars => WalkInv'
<1> SUFFICES ASSUME WalkInv, [Step]_walkVars PROVE WalkInv'
  OBVIOUS
<1>1. CASE Return
  <2>1. /\ ~Done /\ pending = NoKey /\ stack' = Pop
        /\ UNCHANGED <<cluster, nodes, visited, capped, pending, cancelled>>
    BY <1>1 DEF Return
  <2>2. capped' = capped /\ Top.i > Len(Refs)
    BY <1>1 DEF Return
  <2> QED BY <2>1, <2>2, PopInv
<1>2. CASE BudgetSpent
  <2>1. ~Done /\ pending = NoKey /\ ~BudgetLeft /\ stack' = Pop /\ capped' = TRUE
        /\ UNCHANGED <<cluster, nodes, visited, pending, cancelled>>
    BY <1>2 DEF BudgetSpent, AtRef
  <2>2. Len(nodes) >= MaxNodes
    BY <2>1, LimitsAssumption DEF BudgetLeft, WalkInv, TypeOK
  <2> QED BY <2>1, <2>2, PopInv
<1>3. CASE SkipMalformed
  BY <1>3, AdvanceInv DEF SkipMalformed, Followed
<1>4. ASSUME AtRef, NEW t \in Resolutions(cluster, Refs[Top.i]), SkipVisited(t)
      PROVE  WalkInv'
  BY <1>4, AdvanceInv DEF SkipVisited, Followed, ParentNs
<1>5. ASSUME AtRef, NEW t \in Resolutions(cluster, Refs[Top.i]), AttachUnresolved(t)
      PROVE  WalkInv'
  BY <1>5, AttachUnresolvedInv
<1>6. ASSUME AtRef, NEW t \in Resolutions(cluster, Refs[Top.i]), Reach(t)
      PROVE  WalkInv'
  BY <1>6, ReachInv
<1>7. CASE Fetched
  <2>1. PICK obj \in Outcomes(pending) : Attach(obj)
    BY <1>7 DEF Fetched
  <2>2. obj \in Object /\ ErrorHasNoRefs(obj)
    BY OutcomeType DEF WalkInv, TypeOK
  <2> QED BY <2>1, <2>2, AttachInv
<1>8. CASE Cancel \/ UNCHANGED walkVars
  <2>1. /\ UNCHANGED <<cluster, nodes, stack, visited, capped, pending>>
        /\ cancelled' = cancelled \/ cancelled' = TRUE
    BY <1>8 DEF Cancel, walkVars
  <2>2. TypeOK'
    BY <2>1 DEF WalkInv, TypeOK
  <2>3. FramesInv' /\ PendingInv'
    BY <2>1 DEF WalkInv, FramesInv, PendingInv, Done, Top, Refs, Parent, ParentNs
  <2>4. WithinLimits' /\ VisitedIsBuilt' /\ UniqueNodes'
    BY <2>1 DEF WalkInv, WithinLimits, VisitedIsBuilt, UniqueNodes
  <2>5. FollowedInv'
    BY <2>1, SMTT(30) DEF WalkInv, FollowedInv, FollowedUpTo, Followed
  <2> QED BY <2>2, <2>3, <2>4, <2>5 DEF WalkInv
<1> QED BY <1>1, <1>2, <1>3, <1>4, <1>5, <1>6, <1>7, <1>8 DEF Step, LoopStep

\* A finished, uncapped walk has followed every ref of every node.
LEMMA InvComplete == WalkInv => Complete
<1> SUFFICES ASSUME WalkInv, Done, ~capped,
                    NEW n \in 1..Len(nodes), NEW j \in 1..Len(nodes[n].obj.refs)
             PROVE  Followed(nodes[n], nodes[n].obj.refs[j])
  BY DEF Complete
<1>1. Len(stack) = 0
  BY DEF Done
<1>2. FollowedUpTo(n, Len(nodes[n].obj.refs))
  BY <1>1 DEF WalkInv, FollowedInv
<1> QED BY <1>2 DEF FollowedUpTo

-----------------------------------------------------------------------------
(* Why a walk is capped.                                                   *)

\* The activations are nested: whatever was built after the node of one is under
\* it, and its children are of refs before its loop index.
SpineInv ==
  /\ \A n \in 1..Len(nodes) : nodes[n].parent <= Len(nodes)
  /\ \A f \in 1..Len(stack) : NotPast(stack[f].node, stack[f].i)
  /\ \A f, g \in 1..Len(stack) : f < g => stack[f].node < stack[g].node

\* The child being fetched is that of the ref at hand.
PendingIsRef == pending # NoKey => MayBe(Parent, Refs[Top.i], KeyIdentity(pending))

CauseInv == SpineInv /\ PendingIsRef /\ CappedForCause

\* What is not past a ref is not past a later one.
LEMMA NotPastLater ==
  ASSUME NEW n, NEW i \in Nat, NEW j \in Nat, i <= j, NotPast(n, i)
  PROVE  NotPast(n, j)
<1>1. \A k \in 1..(i - 1) : k \in 1..(j - 1)
  OBVIOUS
<1> QED BY <1>1 DEF NotPast

\* While no node is added, what holds of the nodes stays.
LEMMA SameNodes ==
  ASSUME UNCHANGED <<cluster, nodes>>
  PROVE  /\ \A n, i : NotPast(n, i)' <=> NotPast(n, i)
         /\ \A n : CutByBudget(n)' <=> CutByBudget(n)
         /\ \A n, r, id : MayBe(n, r, id)' <=> MayBe(n, r, id)
         /\ capped' = capped => (CappedForCause' <=> CappedForCause)
BY DEF NotPast, CutByBudget, CutByDepth, MayBe, CappedForCause

\* Returning, for whatever cause.
LEMMA PopSpine ==
  ASSUME TypeOK, SpineInv, ~Done, stack' = Pop, UNCHANGED <<cluster, nodes>>
  PROVE  SpineInv'
<1>1. /\ Len(Pop) = Len(stack) - 1
      /\ \A f \in 1..Len(Pop) : f \in 1..Len(stack) /\ Pop[f] = stack[f]
  BY StackOfPop
<1> QED BY <1>1, SameNodes DEF SpineInv

\* Passing over a ref.
LEMMA AdvanceSpine ==
  ASSUME TypeOK, SpineInv, ~Done, stack' = Advance, UNCHANGED <<cluster, nodes>>
  PROVE  SpineInv'
<1>1. /\ Len(Advance) = Len(stack)
      /\ \A f \in 1..Len(stack) :
           /\ stack[f].i \in Nat /\ Advance[f].node = stack[f].node
           /\ Advance[f].i \in Nat /\ stack[f].i <= Advance[f].i
  BY StackOfAdvance
<1>2. \A f \in 1..Len(stack) : NotPast(stack[f].node, Advance[f].i)
  BY <1>1, NotPastLater DEF SpineInv
<1> QED BY <1>1, <1>2, SameNodes DEF SpineInv

\* The budget is spent at a ref: the node has refs, and the walk is not past the
\* last of them.
LEMMA BudgetCause ==
  ASSUME WalkInv, CauseInv, BudgetSpent
  PROVE  CauseInv'
<1>1. /\ TypeOK /\ ~Done /\ pending = NoKey /\ Top.i <= Len(Refs) /\ stack' = Pop
      /\ UNCHANGED <<cluster, nodes, pending>>
  BY DEF WalkInv, BudgetSpent, AtRef
<1>2. Len(nodes) = MaxNodes
  BY LimitsAssumption DEF BudgetSpent, BudgetLeft, WalkInv, WithinLimits, TypeOK
<1>3. /\ Top.node \in 1..Len(nodes) /\ Len(Refs) \in Nat /\ Top.i \in Nat \ {0}
      /\ Len(stack) \in 1..Len(stack)
  BY <1>1, RefAtHand, StackOfAdvance
<1>4. NotPast(Top.node, Top.i)
  BY <1>3 DEF CauseInv, SpineInv, Top
<1>5. NotPast(Top.node, Len(Refs))
  BY <1>1, <1>3, <1>4, NotPastLater
<1>6. CutByBudget(Top.node) /\ Refs # <<>>
  BY <1>1, <1>2, <1>3, <1>5 DEF CutByBudget, Refs, Parent
<1>7. \E n \in 1..Len(nodes) : nodes[n].obj.refs # <<>> /\ CutByBudget(n)
  BY <1>3, <1>6 DEF Refs, Parent
<1>8. CappedForCause'
  BY <1>1, <1>7, SameNodes DEF CappedForCause
<1>9. SpineInv'
  BY <1>1, PopSpine DEF CauseInv
<1> QED BY <1>1, <1>8, <1>9 DEF CauseInv, PendingIsRef

\* A child of the ref at hand is appended, and the loop moves on.
LEMMA NewNodeSpine ==
  ASSUME WalkInv, SpineInv, ~Done, Top.i <= Len(Refs), cluster' = cluster,
         NEW id, NEW obj, MayBe(Parent, Refs[Top.i], id),
         nodes' = Append(nodes, NewChild(id, obj)),
         Len(nodes') = Len(nodes) + 1,
         \A n \in 1..Len(nodes) : nodes'[n] = nodes[n],
         nodes'[Len(nodes) + 1] = NewChild(id, obj),
         \/ stack' = Advance
         \/ stack' = Append(Advance, [node |-> Len(nodes) + 1, i |-> 1])
  PROVE  SpineInv'
<1> DEFINE L == Len(nodes)
           S == Len(stack)
<1>1. /\ TypeOK /\ L \in Nat /\ S \in Nat \ {0} /\ Top.node \in 1..L /\ Parent \in Node
      /\ Top.i \in Nat \ {0}
  BY RefAtHand, StackOfAdvance DEF WalkInv, TypeOK
<1>2. /\ nodes'[L + 1].parent = Top.node /\ nodes'[L + 1].depth = Parent.depth + 1
      /\ nodes'[L + 1].id = id /\ Parent.depth \in Nat
  BY <1>1 DEF NewChild, Node
<1>3. \A n \in 1..L : nodes[n].parent \in Nat /\ nodes[n].depth \in Nat
  <2>1. \A n \in 1..L : nodes[n] \in Node
    BY <1>1 DEF TypeOK
  <2> QED BY <2>1 DEF Node
<1>4. \A f \in 1..S : /\ stack[f].node \in 1..L /\ stack[f].i \in Nat \ {0}
                       /\ Advance[f].node = stack[f].node
                       /\ Advance[f].i = IF f = S THEN stack[f].i + 1 ELSE stack[f].i
  BY <1>1, StackOfAdvance DEF TypeOK
<1>5. Len(Advance) = S /\ Advance \in Seq(Frame)
  BY <1>1, StackOfAdvance
<1>6. \A f \in 1..S : stack'[f] = Advance[f]
  BY <1>1, <1>5
<1>7. \/ Len(stack') = S
      \/ Len(stack') = S + 1 /\ stack'[S + 1] = [node |-> L + 1, i |-> 1]
  BY <1>1, <1>5
<1> HIDE DEF L, S
<1>8. /\ Top = stack[S] /\ Parent = nodes[Top.node] /\ Refs = nodes[Top.node].obj.refs
  BY DEF Top, Parent, Refs, S
<1>9. \A f \in 1..S : nodes[stack[f].node].depth <= Parent.depth
  <2> SUFFICES ASSUME NEW f \in 1..S, f # S
               PROVE  nodes[stack[f].node].depth <= Parent.depth
    BY <1>1, <1>2, <1>3, <1>8
  <2>1. stack[f].node < stack[S].node /\ NotPast(stack[f].node, stack[f].i)
    BY <1>1 DEF SpineInv, S
  <2>2. Top.node \in (stack[f].node + 1)..L
    BY <1>1, <1>4, <1>8, <2>1
  <2>3. Parent.depth > nodes[stack[f].node].depth
    BY <1>8, <2>1, <2>2 DEF NotPast, L
  <2> QED BY <1>2, <1>3, <1>4, <2>3
<1>10. \A n, r, d : MayBe(n, r, d)' <=> MayBe(n, r, d)
  BY DEF MayBe
<1>11. ASSUME NEW f \in 1..S, NEW n, NEW j, n = stack[f].node, j = Advance[f].i
       PROVE  NotPast(n, j)'
  <2>1. /\ n \in 1..L /\ nodes'[n] = nodes[n] /\ j \in Nat
        /\ stack[f].i <= j /\ stack[f].i \in Nat
    BY <1>4, <1>11 DEF L
  <2>2. NotPast(n, stack[f].i)
    BY <1>11 DEF SpineInv, S
  <2>3. NotPast(n, j)
    BY <2>1, <2>2, NotPastLater
  <2>5. ASSUME NEW m \in (n + 1)..(L + 1) PROVE nodes'[m].depth > nodes'[n].depth
    <3>1. CASE m = L + 1
      <4>1. nodes[n].depth <= Parent.depth /\ nodes[n].depth \in Nat
        BY <1>3, <1>9, <1>11, <2>1
      <4>2. nodes'[m].depth = Parent.depth + 1 /\ nodes'[n].depth = nodes[n].depth
        BY <1>2, <2>1, <3>1
      <4>3. \A a, b \in Nat : a <= b => b + 1 > a
        OBVIOUS
      <4> QED BY <1>2, <4>1, <4>2, <4>3
    <3>2. CASE m # L + 1
      <4>1. m \in (n + 1)..L /\ m \in 1..L
        BY <1>1, <2>1, <2>5, <3>2
      <4>2. nodes'[m] = nodes[m]
        BY <4>1 DEF L
      <4> QED BY <2>1, <2>3, <4>1, <4>2 DEF NotPast, L
    <3> QED BY <3>1, <3>2
  <2>6. ASSUME NEW m \in 1..(L + 1), nodes'[m].parent = n
        PROVE  \E k \in 1..(j - 1) : MayBe(nodes[n], nodes[n].obj.refs[k], nodes'[m].id)
    <3>1. CASE m = L + 1
      <4>1. n = Top.node
        BY <1>2, <2>6, <3>1
      <4>2. f = S
        <5> SUFFICES ASSUME f # S PROVE FALSE
          OBVIOUS
        <5>1. stack[f].node < stack[S].node
          BY <1>1, <1>11 DEF SpineInv, S
        <5>2. n \in Nat /\ stack[S].node = n /\ stack[f].node = n
          BY <1>1, <1>8, <1>11, <2>1, <4>1
        <5> QED BY <5>1, <5>2
      <4>3. Top.i \in 1..(j - 1)
        BY <1>1, <1>4, <1>8, <1>11, <4>2
      <4> QED BY <1>2, <1>8, <3>1, <4>1, <4>3
    <3>2. CASE m # L + 1
      <4>1. m \in 1..L /\ nodes'[m] = nodes[m]
        BY <1>1, <2>6, <3>2 DEF L
      <4> QED BY <2>3, <2>6, <4>1 DEF NotPast, L
    <3> QED BY <3>1, <3>2
  <2>7. nodes'[n].depth = nodes[n].depth /\ nodes'[n].obj = nodes[n].obj /\ Len(nodes') = L + 1
    BY <2>1 DEF L
  <2>8. \A m \in 1..(L + 1) : nodes'[m].parent = n =>
          \E k \in 1..(j - 1) : MayBe(nodes[n], nodes[n].obj.refs[k], nodes[m].id)'
    BY <1>10, <2>1, <2>6 DEF MayBe
  <2> QED BY <2>5, <2>7, <2>8 DEF NotPast
<1>12. ASSUME NEW n, n = L + 1 PROVE NotPast(n, 1)'
  <2>1. \A m \in 1..(L + 1) : nodes'[m].parent # n
    <3> SUFFICES ASSUME NEW m \in 1..(L + 1) PROVE nodes'[m].parent # n
      OBVIOUS
    <3>1. CASE m = L + 1
      <4>1. nodes'[m].parent = Top.node
        BY <1>2, <3>1
      <4>2. Top.node # n
        BY <1>1, <1>12
      <4> QED BY <4>1, <4>2
    <3>2. CASE m # L + 1
      <4>1. m \in 1..L /\ nodes'[m] = nodes[m] /\ nodes[m].parent <= L /\ nodes[m].parent \in Nat
        BY <1>1, <1>3, <3>2 DEF L, SpineInv
      <4> QED BY <1>1, <1>12, <4>1
    <3> QED BY <3>1, <3>2
  <2>2. \A m \in (n + 1)..Len(nodes') : FALSE
    BY <1>1, <1>12 DEF L
  <2> QED BY <2>1, <2>2 DEF NotPast, L
<1>13. ASSUME NEW f \in 1..Len(stack'), NEW n, NEW j, n = stack'[f].node, j = stack'[f].i
       PROVE  NotPast(n, j)'
  <2>1. CASE f \in 1..S
    BY <1>6, <1>11, <1>4, <1>13, <2>1
  <2>2. CASE f \notin 1..S
    <3>1. n = L + 1 /\ j = 1
      BY <1>1, <1>7, <1>13, <2>2
    <3> QED BY <1>12, <3>1
  <2> QED BY <2>1, <2>2
<1>14. \A n \in 1..Len(nodes') : nodes'[n].parent <= Len(nodes')
  BY <1>1, <1>2, <1>3 DEF L, SpineInv
<1>15. \A f, g \in 1..Len(stack') : f < g => stack'[f].node < stack'[g].node
  <2> SUFFICES ASSUME NEW f \in 1..Len(stack'), NEW g \in 1..Len(stack'), f < g
               PROVE  stack'[f].node < stack'[g].node
    OBVIOUS
  <2>1. f \in 1..S /\ stack'[f].node = stack[f].node
    BY <1>1, <1>4, <1>6, <1>7
  <2>2. CASE g \in 1..S
    BY <1>4, <1>6, <2>1, <2>2 DEF SpineInv, S
  <2>3. CASE g \notin 1..S
    BY <1>1, <1>4, <1>7, <2>1, <2>3
  <2> QED BY <2>2, <2>3
<1> QED BY <1>13, <1>14, <1>15 DEF SpineInv

\* The refs cut off by the depth limit stay cut off when a node is added.
LEMMA NewNodeCause ==
  ASSUME WalkInv, CappedForCause, Len(nodes) < MaxNodes, Len(nodes') = Len(nodes) + 1,
         \A n \in 1..Len(nodes) : nodes'[n] = nodes[n],
         \/ capped' = capped
         \/ /\ nodes'[Len(nodes) + 1].depth = MaxDepth
            /\ nodes'[Len(nodes) + 1].obj.refs # <<>>
  PROVE  CappedForCause'
<1>1. Len(nodes) \in Nat /\ Len(nodes) # MaxNodes
  BY LimitsAssumption DEF WalkInv, TypeOK
<1>2. CASE capped' = capped
  <2> SUFFICES ASSUME capped
               PROVE  \E n \in 1..Len(nodes') : nodes'[n].depth = MaxDepth /\ nodes'[n].obj.refs # <<>>
    BY <1>2 DEF CappedForCause, CutByDepth
  <2>1. PICK n \in 1..Len(nodes) : nodes[n].depth = MaxDepth /\ nodes[n].obj.refs # <<>>
    BY <1>1 DEF CappedForCause, CutByDepth, CutByBudget
  <2> QED BY <1>1, <2>1
<1>3. CASE /\ nodes'[Len(nodes) + 1].depth = MaxDepth
           /\ nodes'[Len(nodes) + 1].obj.refs # <<>>
  <2>1. Len(nodes) + 1 \in 1..Len(nodes')
    BY <1>1
  <2> QED BY <1>3, <2>1 DEF CappedForCause, CutByDepth
<1> QED BY <1>2, <1>3

\* An error node is appended.
LEMMA AttachUnresolvedCause ==
  ASSUME WalkInv, CauseInv, AtRef, NEW t \in Resolutions(cluster, Refs[Top.i]), AttachUnresolved(t)
  PROVE  CauseInv'
<1> DEFINE r   == Refs[Top.i]
           id  == IdentityKey(t, r, ParentNs)
           obj == Failure("resolve", r.version, id)
<1>1. /\ TypeOK /\ ~Done /\ pending = NoKey /\ Top.i <= Len(Refs)
      /\ Len(nodes) < MaxNodes /\ nodes \in Seq(Node)
      /\ nodes' = Append(nodes, NewChild(id, obj))
      /\ stack' = Advance /\ UNCHANGED <<cluster, capped, pending>>
  BY DEF WalkInv, TypeOK, AtRef, AttachUnresolved, BudgetLeft
<1>2. MayBe(Parent, r, id)
  BY DEF MayBe, ParentNs
<1> HIDE DEF r, id, obj
<1>3. /\ Len(nodes') = Len(nodes) + 1
      /\ \A n \in 1..Len(nodes) : nodes'[n] = nodes[n]
      /\ nodes'[Len(nodes) + 1] = NewChild(id, obj)
  BY <1>1
<1>4. SpineInv'
  BY <1>1, <1>2, <1>3, NewNodeSpine DEF CauseInv, r
<1>5. CappedForCause'
  BY <1>1, <1>3, NewNodeCause DEF CauseInv
<1> QED BY <1>1, <1>4, <1>5 DEF CauseInv, PendingIsRef

\* The child that was waited for is appended.
LEMMA AttachCause ==
  ASSUME WalkInv, CauseInv, NEW obj, Attach(obj)
  PROVE  CauseInv'
<1> DEFINE id == KeyIdentity(pending)
<1>1. /\ TypeOK /\ ~Done /\ pending # NoKey /\ Top.i <= Len(Refs)
      /\ Len(nodes) < MaxNodes /\ nodes \in Seq(Node)
  BY DEF WalkInv, TypeOK, FramesInv, WithinLimits, Attach
<1>2. /\ nodes' = Append(nodes, NewChild(id, obj))
      /\ capped' = (capped \/ DepthCut(Parent.depth + 1, obj))
      /\ \/ stack' = Advance
         \/ stack' = Append(Advance, [node |-> Len(nodes) + 1, i |-> 1])
      /\ pending' = NoKey /\ cluster' = cluster
  BY DEF Attach
<1>3. MayBe(Parent, Refs[Top.i], id)
  BY <1>1 DEF CauseInv, PendingIsRef
<1> HIDE DEF id
<1>4. /\ Len(nodes') = Len(nodes) + 1
      /\ \A n \in 1..Len(nodes) : nodes'[n] = nodes[n]
      /\ nodes'[Len(nodes) + 1] = NewChild(id, obj)
  BY <1>1, <1>2
<1>5. SpineInv'
  BY <1>1, <1>2, <1>3, <1>4, NewNodeSpine DEF CauseInv
<1>6. Parent.depth \in Nat /\ Parent.depth < MaxDepth /\ MaxDepth \in Nat
  BY <1>1, RefAtHand, LimitsAssumption DEF Node
<1>7. CappedForCause'
  <2>1. CASE DepthCut(Parent.depth + 1, obj)
    <3>1. Parent.depth + 1 = MaxDepth /\ obj.refs # <<>>
      BY <1>6, <2>1 DEF DepthCut
    <3>2. nodes'[Len(nodes) + 1].depth = MaxDepth /\ nodes'[Len(nodes) + 1].obj.refs # <<>>
      BY <1>4, <3>1 DEF NewChild
    <3> QED BY <1>1, <1>4, <3>2, NewNodeCause DEF CauseInv
  <2>2. CASE ~DepthCut(Parent.depth + 1, obj)
    <3>1. capped' = capped
      BY <1>1, <1>2, <2>2 DEF TypeOK
    <3> QED BY <1>1, <1>4, <3>1, NewNodeCause DEF CauseInv
  <2> QED BY <2>1, <2>2
<1> QED BY <1>2, <1>5, <1>7 DEF CauseInv, PendingIsRef

\* Every step keeps the causes.
LEMMA StepCause == WalkInv /\ CauseInv /\ [Step]_walkVars => CauseInv'
<1> SUFFICES ASSUME WalkInv, CauseInv, [Step]_walkVars PROVE CauseInv'
  OBVIOUS
<1> USE DEF WalkInv
<1>1. CASE Return
  <2>1. /\ ~Done /\ pending = NoKey /\ stack' = Pop /\ UNCHANGED <<cluster, nodes, capped, pending>>
    BY <1>1 DEF Return
  <2> QED BY <2>1, PopSpine, SameNodes DEF CauseInv, PendingIsRef
<1>2. CASE BudgetSpent
  BY <1>2, BudgetCause
<1>3. ASSUME ~Done, pending = NoKey, stack' = Advance, UNCHANGED <<cluster, nodes, capped, pending>>
      PROVE  CauseInv'
  BY <1>3, AdvanceSpine, SameNodes DEF CauseInv, PendingIsRef
<1>4. CASE SkipMalformed
  BY <1>3, <1>4 DEF SkipMalformed, AtRef
<1>5. ASSUME AtRef, NEW t \in Resolutions(cluster, Refs[Top.i]), SkipVisited(t)
      PROVE  CauseInv'
  BY <1>3, <1>5 DEF SkipVisited, AtRef
<1>6. ASSUME AtRef, NEW t \in Resolutions(cluster, Refs[Top.i]), AttachUnresolved(t)
      PROVE  CauseInv'
  BY <1>6, AttachUnresolvedCause
<1>7. ASSUME AtRef, NEW t \in Resolutions(cluster, Refs[Top.i]), Reach(t)
      PROVE  CauseInv'
  <2>1. /\ ~Done /\ Top.i <= Len(Refs) /\ t # Unresolved
        /\ pending' = GetKey(t, Refs[Top.i], ParentNs)
        /\ UNCHANGED <<cluster, nodes, stack, capped>>
    BY <1>7 DEF Reach, AtRef
  <2>2. KeyIdentity(pending') = IdentityKey(t, Refs[Top.i], ParentNs)
    BY <1>7, <2>1, RefAtHand, ResolutionType, KeyOfRef DEF TypeOK
  <2>3. MayBe(Parent, Refs[Top.i], KeyIdentity(pending'))
    BY <1>7, <2>2 DEF MayBe, ParentNs
  <2>4. UNCHANGED <<Parent, Refs, Top>>
    BY <2>1 DEF Parent, Refs, Top
  <2>5. PendingIsRef'
    BY <2>1, <2>3, <2>4 DEF PendingIsRef, MayBe
  <2> QED BY <2>1, <2>5, SameNodes DEF CauseInv, SpineInv
<1>8. CASE Fetched
  BY <1>8, AttachCause DEF Fetched
<1>9. CASE Cancel \/ UNCHANGED walkVars
  <2>1. UNCHANGED <<cluster, nodes, stack, capped, pending>>
    BY <1>9 DEF Cancel, walkVars
  <2>2. UNCHANGED <<Parent, Refs, Top>>
    BY <2>1 DEF Parent, Refs, Top
  <2>3. PendingIsRef'
    BY <2>1, <2>2 DEF CauseInv, PendingIsRef, MayBe
  <2> QED BY <2>1, <2>3, SameNodes DEF CauseInv, SpineInv
<1> QED BY <1>1, <1>2, <1>4, <1>5, <1>6, <1>7, <1>8, <1>9 DEF Step, LoopStep

\* The walk starts uncapped at its root.
LEMMA WalkInitCause == WalkInit => CauseInv
<1> SUFFICES ASSUME WalkInit PROVE CauseInv
  OBVIOUS
<1>1. /\ Len(nodes) = 1 /\ nodes[1].parent = 0 /\ Len(stack) = 1 /\ stack[1] = [node |-> 1, i |-> 1]
      /\ capped = FALSE /\ pending = NoKey
  BY DEF WalkInit
<1>2. NotPast(1, 1)
  BY <1>1 DEF NotPast
<1> QED BY <1>1, <1>2 DEF CauseInv, SpineInv, PendingIsRef, CappedForCause

-----------------------------------------------------------------------------
(* The windows.                                                            *)

\* What a Get brought is what a Get for that key may return.
CacheExact ==
  \A f \in 1..Len(stack) : \A k \in DOMAIN fetchers[f].cache :
    fetchers[f].cache[k] \in Outcomes(k)

\* So is what the goroutines hold before they join.
ResultsExact ==
  \A k \in DOMAIN workers :
    workers[k].status = "returned" => workers[k].obj \in Outcomes(k)

\* A window is open only while a child is awaited.
WindowAwaited == ~Joined => pending # NoKey

FetchInv == FetchersOK /\ WorkersOK /\ CacheExact /\ ResultsExact /\ WindowAwaited

-----------------------------------------------------------------------------
\* What a Get may return now, it may return later in the same walk.
LEMMA OutcomesGrow ==
  ASSUME cluster' = cluster, cancelled => cancelled', NEW k, NEW o, o \in Outcomes(k)
  PROVE  o \in Outcomes(k)'
BY DEF Outcomes

\* A step moves the stack by at most one activation and keeps the cluster.
LEMMA StepMoves ==
  ASSUME WalkInv, Step
  PROVE  /\ ~Done /\ Len(stack) \in Nat \ {0} /\ Len(stack') \in Nat
         /\ Len(stack') <= Len(stack) + 1
         /\ cluster' = cluster /\ (cancelled => cancelled')
<1>1. TypeOK /\ (pending # NoKey => ~Done)
  BY DEF WalkInv, FramesInv
<1> DEFINE Moves ==
      /\ ~Done /\ cluster' = cluster /\ (cancelled => cancelled')
      /\ \/ stack' = Pop \/ stack' = Advance \/ stack' = stack
         \/ \E fr \in {[node |-> Len(nodes) + 1, i |-> 1]} : stack' = Append(Advance, fr)
<1>2. Moves
  <2>1. CASE Return
    BY <2>1 DEF Return
  <2>2. CASE BudgetSpent
    BY <2>2 DEF BudgetSpent, AtRef
  <2>3. CASE SkipMalformed
    BY <2>3 DEF SkipMalformed, AtRef
  <2>4. ASSUME NEW t, SkipVisited(t) \/ AttachUnresolved(t) \/ Reach(t)
        PROVE  Moves
    BY <2>4 DEF SkipVisited, AttachUnresolved, Reach, AtRef
  <2>5. ASSUME NEW obj, Attach(obj)
        PROVE  Moves
    BY <1>1, <2>5 DEF Attach
  <2>6. CASE Cancel
    BY <2>6 DEF Cancel
  <2> QED BY <2>1, <2>2, <2>3, <2>4, <2>5, <2>6 DEF Step, LoopStep, Fetched
<1>3. /\ Len(stack) \in Nat \ {0}
      /\ Len(Pop) = Len(stack) - 1 /\ Len(Advance) = Len(stack)
      /\ Advance \in Seq(Frame)
  BY <1>1, <1>2, StackOfAdvance, StackOfPop
<1>4. \A fr : Len(Append(Advance, fr)) = Len(stack) + 1
  BY <1>3
<1> QED BY <1>2, <1>3, <1>4

\* A result served from the cache is one that a Get could return.
LEMMA ServedIsFetched ==
  ASSUME FetchInv, WalkInv, ServeCached
  PROVE  Fetched
<1>1. PICK obj \in CachedFor(pending) : Attach(obj)
  BY DEF ServeCached
<1>2. obj = Fetcher.cache[pending] /\ pending \in DOMAIN Fetcher.cache
  BY DEF CachedFor
<1>3. TypeOK /\ ~Done
  BY DEF ServeCached, WalkInv, FramesInv
<1>4. Len(stack) \in 1..Len(stack)
  BY <1>3, StackOfAdvance
<1>5. obj \in Outcomes(pending)
  BY <1>2, <1>4 DEF FetchInv, CacheExact, Fetcher
<1> QED BY <1>1, <1>5 DEF Fetched

\* Every step of the parallel walk is a step of the walk, or none.
LEMMA NextIsStep ==
  ASSUME FetchInv, WalkInv, [Next]_vars
  PROVE  [Step]_walkVars
<1>1. CASE Loop
  BY <1>1 DEF Loop, Step
<1>2. CASE ServeCached
  BY <1>2, ServedIsFetched DEF Step
<1>3. CASE DirectGet
  BY <1>3 DEF DirectGet, Step
<1>4. CASE OpenWindow \/ WorkerStep \/ Join
  BY <1>4 DEF OpenWindow, WorkerStep, WorkerSkip, WorkerStart, WorkerReturn, Join, walkVars
<1>5. CASE CancelCtx
  BY <1>5 DEF CancelCtx, Step
<1>6. CASE UNCHANGED vars
  BY <1>6 DEF vars, walkVars
<1> QED BY <1>1, <1>2, <1>3, <1>4, <1>5, <1>6 DEF Next, WalkStep

-----------------------------------------------------------------------------
(* FetchInv is inductive.                                                  *)

FetcherOK(f) ==
  /\ DOMAIN f = {"next", "cache", "rounds"}
  /\ f.next \in Nat \ {0} /\ f.rounds \in Nat
  /\ DOMAIN f.cache \subseteq Key
  /\ \A k \in DOMAIN f.cache : f.cache[k] \in Object

\* A frame gets a sound fetcher with an empty cache.
LEMMA NewFetcherOK ==
  FetcherOK(NewFetcher) /\ DOMAIN NewFetcher.cache = {}
BY DEF FetcherOK, NewFetcher

\* The frame at work has a sound fetcher.
LEMMA FetcherAtHand ==
  ASSUME FetchInv, WalkInv, ~Done
  PROVE  /\ Len(stack) \in DOMAIN fetchers /\ FetcherOK(Fetcher)
         /\ \A k \in DOMAIN Fetcher.cache : Fetcher.cache[k] \in Outcomes(k)
<1>1. Len(stack) \in 1..Len(stack)
  BY StackOfAdvance DEF WalkInv
<1> QED BY <1>1 DEF FetchInv, FetchersOK, FetcherOK, Fetcher, CacheExact

\* The fetchers follow the stack, whoever is on top of it.
LEMMA FetchersFollow ==
  ASSUME FetchInv, WalkInv, Step,
         NEW f, FetcherOK(f), f.cache = Fetcher.cache, fetchers' = FetchersWith(f)
  PROVE  FetchersOK' /\ CacheExact'
<1>1. /\ ~Done /\ Len(stack) \in Nat \ {0} /\ Len(stack') \in Nat
      /\ Len(stack') <= Len(stack) + 1
      /\ cluster' = cluster /\ (cancelled => cancelled')
  BY StepMoves
<1>2. DOMAIN fetchers' = 1..Len(stack')
  BY DEF FetchersWith
<1>3. ASSUME NEW n \in 1..Len(stack')
      PROVE  /\ FetcherOK(fetchers'[n])
             /\ \A k \in DOMAIN fetchers'[n].cache : fetchers'[n].cache[k] \in Outcomes(k)
  <2>1. CASE n > Len(stack)
    BY <2>1, NewFetcherOK DEF FetchersWith
  <2>2. CASE n = Len(stack)
    BY <1>1, <2>2, FetcherAtHand DEF FetchersWith
  <2>3. CASE n < Len(stack)
    <3>1. n \in 1..Len(stack) /\ fetchers'[n] = fetchers[n]
      BY <1>1, <2>3 DEF FetchersWith
    <3> QED BY <3>1 DEF FetchInv, FetchersOK, FetcherOK, CacheExact
  <2> QED BY <1>1, <2>1, <2>2, <2>3
<1>4. FetchersOK'
  BY <1>2, <1>3 DEF FetchersOK, FetcherOK
<1>5. CacheExact'
  BY <1>1, <1>3, OutcomesGrow DEF CacheExact
<1> QED BY <1>4, <1>5

\* With no window open, the goroutines' part of the invariant is void.
LEMMA JoinedInv ==
  ASSUME Joined'
  PROVE  WorkersOK' /\ ResultsExact' /\ WindowAwaited'
BY DEF Joined, WorkersOK, ResultsExact, WindowAwaited

\* The loop's own steps keep every fetcher sound.
LEMMA LoopFetch ==
  ASSUME FetchInv, WalkInv, Loop \/ ServeCached \/ DirectGet
  PROVE  FetchInv'
<1>1. Step /\ Joined'
  <2>1. CASE Loop
    <3>1. pending = NoKey
      BY <2>1 DEF Loop, LoopStep, Return, BudgetSpent, SkipMalformed, AtRef
    <3> QED BY <2>1, <3>1 DEF Loop, Step, FetchInv, WindowAwaited, Joined
  <2>2. CASE ServeCached
    BY <2>2, ServedIsFetched DEF ServeCached, Step, Joined
  <2>3. CASE DirectGet
    BY <2>3 DEF DirectGet, Step, Joined
  <2> QED BY <2>1, <2>2, <2>3
<1>2. ~Done
  BY <1>1, StepMoves
<1>3. PICK f : FetcherOK(f) /\ f.cache = Fetcher.cache /\ fetchers' = FetchersWith(f)
  <2>1. FetcherOK(Fetcher)
    BY <1>2, FetcherAtHand
  <2>2. CASE Loop \/ ServeCached
    BY <2>1, <2>2 DEF Loop, ServeCached
  <2>3. CASE DirectGet
    <3> DEFINE g == [Fetcher EXCEPT !.rounds = @ + 1]
    <3>1. FetcherOK(g) /\ g.cache = Fetcher.cache
      BY <2>1 DEF FetcherOK
    <3> QED BY <2>3, <3>1 DEF DirectGet
  <2> QED BY <2>2, <2>3
<1>4. FetchersOK' /\ CacheExact'
  BY <1>1, <1>3, FetchersFollow
<1> QED BY <1>1, <1>4, JoinedInv DEF FetchInv

\* A step that changes only the goroutines keeps what the cache holds.
LEMMA CacheKept ==
  ASSUME FetchInv, UNCHANGED <<stack, fetchers>>, cluster' = cluster, cancelled => cancelled'
  PROVE  FetchersOK' /\ CacheExact'
<1>1. FetchersOK'
  BY DEF FetchInv, FetchersOK
<1>2. CacheExact'
  BY OutcomesGrow DEF FetchInv, CacheExact
<1> QED BY <1>1, <1>2

\* A window asks for well-typed keys, and for finitely many refs.
LEMMA WindowType ==
  ASSUME WalkInv, WindowDue, NEW T,
         DOMAIN T = (Top.i + 1)..Len(Refs),
         \A j \in DOMAIN T : T[j] \in Target
  PROVE  WindowKeys(T) \subseteq Key /\ WindowEnd(T) \in Nat \ {0}
<1>1. TypeOK /\ ~Done /\ Top.i <= Len(Refs) /\ pending \in Key
  BY DEF WalkInv, WindowDue, FramesInv, TypeOK
<1>2. Top.i \in Nat \ {0} /\ Len(Refs) \in Nat /\ ParentNs \in Names
  BY <1>1, RefAtHand
<1>3. \A m \in DOMAIN T : Refs[m] \in Ref
  <2>1. Top.node \in 1..Len(nodes)
    BY <1>1, StackOfAdvance
  <2>2. Refs \in Seq(Ref)
    BY <1>1, <2>1, RefsAreRefs DEF Refs, Parent
  <2> QED BY <1>2, <2>2
<1>4. \A m \in Considered(T) : m \in DOMAIN T
  BY DEF Considered
<1>5. \A m \in DOMAIN T : GetKey(T[m], Refs[m], ParentNs) \in Key
  BY <1>2, <1>3, KeyOfRef
<1>6. IsFiniteSet(Considered(T))
  <2>1. IsFiniteSet((Top.i + 1)..Len(Refs))
    BY <1>2, FS_Interval, SMTT(30)
  <2> QED BY <1>4, <2>1, FS_Subset
<1>7. Cardinality(Considered(T)) \in Nat
  BY <1>6, FS_CardinalityType
<1> QED BY <1>1, <1>2, <1>4, <1>5, <1>7 DEF WindowKeys, WindowEnd

\* What a worker holds before it has a result is an object.
LEMMA NoObjectType == NoObject \in Object
<1>1. <<"", "", "">> \in Identity /\ "" \in Names
  BY NamesAssumption DEF Identity
<1>2. <<>> \in Seq(Ref) /\ "" \in Errors
  BY DEF Errors
<1> HIDE DEF Errors
<1> QED BY <1>1, <1>2 DEF NoObject, Failure, Object

\* Opening a window keeps every fetcher sound.
LEMMA OpenWindowFetch ==
  ASSUME FetchInv, WalkInv, OpenWindow
  PROVE  FetchInv'
<1>1. /\ pending # NoKey /\ Joined /\ ~Done /\ TypeOK /\ Top.i <= Len(Refs)
      /\ UNCHANGED walkVars
  BY DEF OpenWindow, WindowDue, WalkInv, FramesInv
<1>2. PICK T : /\ DOMAIN T = (Top.i + 1)..Len(Refs)
               /\ \A j \in DOMAIN T : T[j] \in Target
               /\ fetchers' = [fetchers EXCEPT
                    ![Len(stack)].next = WindowEnd(T),
                    ![Len(stack)].rounds = IF Cardinality(WindowKeys(T)) >= 2 THEN @ + 1 ELSE @]
               /\ workers' = IF Cardinality(WindowKeys(T)) >= 2
                             THEN [k \in WindowKeys(T) |-> [status |-> "spawned", obj |-> NoObject]]
                             ELSE workers
  <2>1. PICK failed \in SUBSET {j \in (Top.i + 1)..Len(Refs) : Refs[j].kind \in cluster.flaky} :
          LET T == [j \in (Top.i + 1)..Len(Refs) |->
                      IF j \in failed THEN Unresolved ELSE Resolved(cluster, Refs[j])]
          IN  /\ fetchers' = [fetchers EXCEPT
                   ![Len(stack)].next = WindowEnd(T),
                   ![Len(stack)].rounds = IF Cardinality(WindowKeys(T)) >= 2 THEN @ + 1 ELSE @]
              /\ workers' = IF Cardinality(WindowKeys(T)) >= 2
                            THEN [k \in WindowKeys(T) |-> [status |-> "spawned", obj |-> NoObject]]
                            ELSE workers
    BY DEF OpenWindow
  <2> DEFINE T == [j \in (Top.i + 1)..Len(Refs) |->
                     IF j \in failed THEN Unresolved ELSE Resolved(cluster, Refs[j])]
  <2>2. \A j \in (Top.i + 1)..Len(Refs) : Refs[j] \in Ref
    <3>1. Top.node \in 1..Len(nodes) /\ Top.i \in Nat /\ Len(Refs) \in Nat
      BY <1>1, StackOfAdvance, RefAtHand
    <3>2. Refs \in Seq(Ref)
      BY <1>1, <3>1, RefsAreRefs DEF Refs, Parent
    <3> QED BY <3>1, <3>2
  <2>3. \A j \in (Top.i + 1)..Len(Refs) :
          Resolved(cluster, Refs[j]) \in Target /\ Unresolved \in Target
    <3>1. Unresolved \in Target
      BY NamesAssumption DEF Unresolved, Target
    <3>2. cluster \in Clusters
      BY <1>1 DEF TypeOK
    <3> QED BY <2>2, <3>1, <3>2, ResolutionType DEF Resolutions
  <2>4. DOMAIN T = (Top.i + 1)..Len(Refs) /\ \A j \in DOMAIN T : T[j] \in Target
    BY <2>3
  <2> HIDE DEF T
  <2> QED BY <2>1, <2>4 DEF T
<1>3. WindowKeys(T) \subseteq Key /\ WindowEnd(T) \in Nat \ {0}
  BY <1>2, WindowType DEF OpenWindow
<1>4. /\ FetcherOK(Fetcher) /\ Len(stack) \in DOMAIN fetchers
      /\ \A k \in DOMAIN Fetcher.cache : Fetcher.cache[k] \in Outcomes(k)
  BY <1>1, FetcherAtHand
<1>5. /\ DOMAIN fetchers' = DOMAIN fetchers
      /\ \A n \in DOMAIN fetchers : n # Len(stack) => fetchers'[n] = fetchers[n]
      /\ FetcherOK(fetchers'[Len(stack)]) /\ fetchers'[Len(stack)].cache = Fetcher.cache
  <2>1. \E g : /\ fetchers' = [fetchers EXCEPT ![Len(stack)] = g]
               /\ FetcherOK(g) /\ g.cache = Fetcher.cache
    <3> DEFINE many == Cardinality(WindowKeys(T)) >= 2
               g == [Fetcher EXCEPT !.next = WindowEnd(T), !.rounds = IF many THEN @ + 1 ELSE @]
    <3> HIDE DEF many
    <3>1. FetcherOK(g) /\ g.cache = Fetcher.cache
      BY <1>3, <1>4 DEF FetcherOK
    <3>2. fetchers' = [fetchers EXCEPT ![Len(stack)] = g]
      BY <1>2, <1>4 DEF Fetcher, many, FetcherOK
    <3> QED BY <3>1, <3>2
  <2> QED BY <1>4, <2>1
<1>6. FetchersOK' /\ CacheExact'
  <2>1. DOMAIN fetchers = 1..Len(stack) /\ stack' = stack
    BY <1>1 DEF FetchInv, FetchersOK, walkVars
  <2>2. \A n \in 1..Len(stack) :
          /\ FetcherOK(fetchers'[n])
          /\ \A k \in DOMAIN fetchers'[n].cache : fetchers'[n].cache[k] \in Outcomes(k)
    BY <1>4, <1>5, <2>1 DEF FetchInv, FetchersOK, FetcherOK, CacheExact
  <2>3. FetchersOK'
    BY <1>5, <2>1, <2>2 DEF FetchersOK, FetcherOK
  <2>4. cluster' = cluster /\ (cancelled => cancelled')
    BY <1>1 DEF walkVars
  <2> QED BY <2>1, <2>2, <2>3, <2>4, OutcomesGrow DEF CacheExact
<1>7. WorkersOK' /\ ResultsExact'
  <2>1. CASE workers' = workers
    BY <1>1, <2>1 DEF WorkersOK, ResultsExact, Joined
  <2>2. CASE workers' = [k \in WindowKeys(T) |-> [status |-> "spawned", obj |-> NoObject]]
    BY <1>3, <2>2, NoObjectType DEF WorkersOK, ResultsExact, Worker
  <2> QED BY <1>2, <2>1, <2>2
<1>8. WindowAwaited'
  BY <1>1 DEF WindowAwaited, walkVars
<1> QED BY <1>6, <1>7, <1>8 DEF FetchInv

\* So does a step of a worker,
LEMMA WorkerFetch ==
  ASSUME FetchInv, WalkInv, NEW k \in DOMAIN workers,
         WorkerSkip(k) \/ WorkerStart(k) \/ WorkerReturn(k)
  PROVE  FetchInv'
<1>1. UNCHANGED walkVars /\ UNCHANGED fetchers /\ k \in Key /\ workers[k] \in Worker
  BY DEF WorkerSkip, WorkerStart, WorkerReturn, FetchInv, WorkersOK
<1>2. FetchersOK' /\ CacheExact'
  BY <1>1, CacheKept DEF walkVars
<1>3. PICK w : /\ workers' = [workers EXCEPT ![k] = w] /\ w \in Worker
               /\ w.status = "returned" => w.obj \in Outcomes(k)
  <2>1. CASE WorkerSkip(k)
    <3> DEFINE w == [workers[k] EXCEPT !.status = "skipped"]
    <3>1. workers' = [workers EXCEPT ![k] = w] /\ w \in Worker /\ w.status = "skipped"
      BY <1>1, <2>1 DEF WorkerSkip, Worker
    <3> QED BY <3>1
  <2>2. CASE WorkerStart(k)
    <3> DEFINE w == [workers[k] EXCEPT !.status = "getting"]
    <3>1. workers' = [workers EXCEPT ![k] = w] /\ w \in Worker /\ w.status = "getting"
      BY <1>1, <2>2 DEF WorkerStart, Worker
    <3> QED BY <3>1
  <2>3. CASE WorkerReturn(k)
    <3>1. PICK obj \in Outcomes(k) :
            workers' = [workers EXCEPT ![k] = [status |-> "returned", obj |-> obj]]
      BY <2>3 DEF WorkerReturn
    <3>2. obj \in Object
      BY <1>1, OutcomeType DEF WalkInv, TypeOK
    <3> DEFINE w == [status |-> "returned", obj |-> obj]
    <3>3. w \in Worker /\ w.obj = obj
      BY <3>2 DEF Worker
    <3> QED BY <3>1, <3>3
  <2> QED BY <2>1, <2>2, <2>3
<1>4. /\ DOMAIN workers' = DOMAIN workers
      /\ \A c \in DOMAIN workers : workers'[c] = IF c = k THEN w ELSE workers[c]
  BY <1>3
<1>5. \A c : Outcomes(c)' = Outcomes(c)
  BY <1>1 DEF Outcomes, walkVars
<1>6. WorkersOK' /\ ResultsExact'
  BY <1>3, <1>4, <1>5 DEF FetchInv, WorkersOK, ResultsExact
<1>7. WindowAwaited'
  BY <1>1, <1>4 DEF FetchInv, WindowAwaited, Joined, walkVars
<1> QED BY <1>2, <1>6, <1>7 DEF FetchInv

\* the join of its window,
LEMMA JoinFetch ==
  ASSUME FetchInv, WalkInv, Join
  PROVE  FetchInv'
<1>1. ~Done /\ UNCHANGED walkVars /\ workers' = <<>>
  BY DEF Join, FetchInv, WindowAwaited, WalkInv, FramesInv
<1>2. /\ FetcherOK(Fetcher) /\ Len(stack) \in DOMAIN fetchers
      /\ \A k \in DOMAIN Fetcher.cache : Fetcher.cache[k] \in Outcomes(k)
  BY <1>1, FetcherAtHand
<1> DEFINE got == {k \in DOMAIN workers : workers[k].status = "returned"}
           old == Fetcher.cache
           new == [k \in got \cup DOMAIN old |-> IF k \in got THEN workers[k].obj ELSE old[k]]
           g   == [Fetcher EXCEPT !.cache = new]
<1>3. /\ DOMAIN new \subseteq Key
      /\ \A k \in DOMAIN new : new[k] \in Object /\ new[k] \in Outcomes(k)
  <2>1. \A k \in got : k \in Key /\ workers[k].obj \in Object /\ workers[k].obj \in Outcomes(k)
    BY DEF FetchInv, WorkersOK, ResultsExact, Worker
  <2> QED BY <1>2, <2>1 DEF FetcherOK
<1>4. fetchers' = [fetchers EXCEPT ![Len(stack)] = g]
  BY <1>2 DEF Join, Fetcher
<1> HIDE DEF new
<1>5. FetcherOK(g) /\ g.cache = new
  BY <1>2, <1>3 DEF FetcherOK
<1>6. /\ DOMAIN fetchers' = DOMAIN fetchers
      /\ \A n \in DOMAIN fetchers : fetchers'[n] = IF n = Len(stack) THEN g ELSE fetchers[n]
  BY <1>4
<1> HIDE DEF g
<1>7. DOMAIN fetchers = 1..Len(stack) /\ stack' = stack
  BY <1>1 DEF FetchInv, FetchersOK, walkVars
<1>8. \A n \in 1..Len(stack) :
        /\ FetcherOK(fetchers'[n])
        /\ \A k \in DOMAIN fetchers'[n].cache : fetchers'[n].cache[k] \in Outcomes(k)
  BY <1>3, <1>5, <1>6, <1>7 DEF FetchInv, FetchersOK, FetcherOK, CacheExact
<1>9. FetchersOK'
  BY <1>6, <1>7, <1>8 DEF FetchersOK, FetcherOK
<1>10. \A c : Outcomes(c)' = Outcomes(c)
  BY <1>1 DEF Outcomes, walkVars
<1>11. CacheExact'
  BY <1>7, <1>8, <1>10 DEF CacheExact
<1>12. Joined'
  BY <1>1 DEF Joined
<1> QED BY <1>9, <1>11, <1>12, JoinedInv DEF FetchInv

\* and the end of the context.
LEMMA CancelFetch ==
  ASSUME FetchInv, CancelCtx
  PROVE  FetchInv'
<1>1. /\ cluster' = cluster /\ cancelled' /\ UNCHANGED <<stack, pending, fetchers, workers>>
  BY DEF CancelCtx, Cancel
<1>2. FetchersOK' /\ CacheExact'
  BY <1>1, CacheKept
<1>3. ResultsExact'
  BY <1>1, OutcomesGrow DEF FetchInv, ResultsExact
<1>4. WorkersOK' /\ WindowAwaited'
  BY <1>1 DEF FetchInv, WorkersOK, WindowAwaited, Joined
<1> QED BY <1>2, <1>3, <1>4 DEF FetchInv

\* A step of nobody.
LEMMA StutterFetch ==
  ASSUME FetchInv, UNCHANGED vars
  PROVE  FetchInv'
<1>1. UNCHANGED <<cluster, stack, pending, cancelled, fetchers, workers>>
  BY DEF vars
<1>2. FetchersOK' /\ CacheExact'
  BY <1>1, CacheKept
<1>3. \A c : Outcomes(c)' = Outcomes(c)
  BY <1>1 DEF Outcomes
<1> QED BY <1>1, <1>2, <1>3 DEF FetchInv, WorkersOK, ResultsExact, WindowAwaited, Joined

-----------------------------------------------------------------------------
(* What a fetcher holds, and what it cost.                                 *)

\* The refs of an activation, and what the cluster says of them.
RefsAt(f) == nodes[stack[f].node].obj.refs
NsAt(f) == nodes[stack[f].node].obj.id[2]
Means(f, j) == Resolved(cluster, RefsAt(f)[j])
IdAt(f, j) == IdentityKey(Means(f, j), RefsAt(f)[j], NsAt(f))
KeyAt(f, j) == GetKey(Means(f, j), RefsAt(f)[j], NsAt(f))
ToFetch(f, j) == ~Malformed(RefsAt(f)[j]) /\ Means(f, j) # Unresolved

\* The keys that were prefetched for an activation or are on their way.
HeldBy(f) ==
  DOMAIN fetchers[f].cache \cup (IF f = Len(stack) THEN DOMAIN workers ELSE {})

\* The refs that some window considered.
Seen(f) == 1..(fetchers[f].next - 1)

FromRefs(f, k) == \E j \in Seen(f) : ToFetch(f, j) /\ k = KeyAt(f, j)

\* The refs before the loop index were followed, also once capped is set; what
\* a fetcher holds is for refs its windows considered; a window is no larger
\* than the concurrency and fetches the child that is awaited.
HeldInv ==
  /\ \A f \in 1..Len(stack) :
       /\ FollowedUpTo(stack[f].node, stack[f].i - 1)
       /\ fetchers[f].next <= Len(RefsAt(f)) + 1
       /\ IsFiniteSet(DOMAIN fetchers[f].cache)
       /\ \A k \in HeldBy(f) : FromRefs(f, k)
  /\ pending # NoKey => ToFetch(Len(stack), Top.i) /\ pending = KeyAt(Len(stack), Top.i)
  /\ ~Joined => /\ pending \in DOMAIN workers /\ IsFiniteSet(DOMAIN workers)
                /\ Cardinality(DOMAIN workers) <= WalkConcurrency
                /\ Top.i < Fetcher.next

\* A ref that a window considered and the loop has not followed is held, or
\* an earlier one with its identity is.
HeldAhead(f, j) ==
  ToFetch(f, j) /\ IdAt(f, j) \notin visited =>
    \E m \in stack[f].i..j : /\ ~Malformed(RefsAt(f)[m]) /\ IdAt(f, m) = IdAt(f, j)
                             /\ ToFetch(f, m) => KeyAt(f, m) \in HeldBy(f)

\* While Resolve and the context are stable: an identity is held once; what is
\* ahead of the loop is held; when a window is open, everything else that is
\* held was reached and nothing that it fetches was, but for the child that is
\* awaited; none of its goroutines gives up.
NewInv ==
  Stable =>
    /\ \A f \in 1..Len(stack) :
         /\ \A k, l \in HeldBy(f) : KeyIdentity(k) = KeyIdentity(l) => k = l
         /\ \A j \in Seen(f) : j >= stack[f].i => HeldAhead(f, j)
    /\ pending # NoKey /\ pending \notin HeldBy(Len(stack)) =>
         \A k \in HeldBy(Len(stack)) : KeyIdentity(k) # KeyIdentity(pending)
    /\ ~Joined => /\ \A k \in DOMAIN Fetcher.cache : KeyIdentity(k) \in visited /\ k # pending
                  /\ \A k \in DOMAIN workers : /\ workers[k].status # "skipped"
                                               /\ k # pending => KeyIdentity(k) \notin visited
    /\ BoundedWaste

\* The identities of some of an activation's refs.
Identities(f, S) == {IdAt(f, j) : j \in {j \in S : ~Malformed(RefsAt(f)[j])}}

\* No later window of this fetcher can open: its refs, or the budget, are
\* used up by what was considered.
Spent(f) ==
  \/ fetchers[f].next > Len(RefsAt(f))
  \/ Cardinality(visited \cup Identities(f, Seen(f))) >= MaxNodes

\* Every round-trip fetched a full window.
FullRounds(f) == fetchers[f].rounds * WalkConcurrency <= Cardinality(HeldBy(f))

\* But for the last one.
AllRounds(f) ==
  fetchers[f].rounds * WalkConcurrency
    < Cardinality(Fetchable(nodes[stack[f].node])) + WalkConcurrency

RoundsInv ==
  (Stable /\ WalkConcurrency > 1) =>
    /\ \A f \in 1..Len(stack) : FullRounds(f) \/ (Spent(f) /\ AllRounds(f))
    /\ pending # NoKey =>
         LET top == Len(stack)
         IN  /\ Top.i >= Fetcher.next => FullRounds(top)
             /\ Top.i < Fetcher.next =>
                  pending \in HeldBy(top) \/ (FullRounds(top) /\ Spent(top))

-----------------------------------------------------------------------------
(* How the activations move while no window is open.                       *)

\* A step of the loop, with the child that it asked for or served.
LoopMove == Loop \/ ServeCached \/ DirectGet

\* Followed, with the identities V reached.
FollowedIn(V, n, r) ==
  \/ Malformed(r)
  \/ \E t \in Resolutions(cluster, r) : IdentityKey(t, r, n.obj.id[2]) \in V

\* The activations that go on keep their node and follow the ref they pass.
LEMMA FramesMove ==
  ASSUME WalkInv, LoopStep \/ Fetched
  PROVE  /\ ~Done /\ cluster' = cluster /\ cancelled' = cancelled /\ visited \subseteq visited'
         /\ Len(stack) \in Nat \ {0} /\ Len(stack') \in Nat /\ Len(stack') <= Len(stack) + 1
         /\ \A f \in 1..Len(stack') : f <= Len(stack) =>
              /\ stack'[f].node = stack[f].node
              /\ nodes'[stack[f].node] = nodes[stack[f].node]
              /\ \/ stack'[f].i = stack[f].i
                 \/ /\ f = Len(stack) /\ stack'[f].i = stack[f].i + 1
                    /\ FollowedIn(visited', nodes[stack[f].node], RefsAt(f)[stack[f].i])
         /\ Len(stack') = Len(stack) + 1 => stack'[Len(stack')].i = 1
<1>1. TypeOK /\ (pending # NoKey => ~Done)
  BY DEF WalkInv, FramesInv
<1>2. ~Done /\ cluster' = cluster /\ cancelled' = cancelled /\ visited \subseteq visited'
  BY <1>1 DEF LoopStep, Return, BudgetSpent, SkipMalformed, AtRef, SkipVisited,
              AttachUnresolved, Reach, Fetched, Attach
<1>3. /\ Len(stack) \in Nat \ {0} /\ stack \in Seq(Frame) /\ Advance \in Seq(Frame)
      /\ Len(Advance) = Len(stack) /\ Pop \in Seq(Frame) /\ Len(Pop) = Len(stack) - 1
      /\ \A f \in 1..Len(stack) :
           /\ Advance[f].node = stack[f].node
           /\ Advance[f].i = IF f = Len(stack) THEN stack[f].i + 1 ELSE stack[f].i
      /\ \A f \in 1..Len(Pop) : f \in 1..Len(stack) /\ Pop[f] = stack[f]
  BY <1>1, <1>2, StackOfAdvance, StackOfPop DEF TypeOK
<1>4. \/ nodes' = nodes \/ \E x : nodes' = Append(nodes, x)
  BY DEF LoopStep, Return, BudgetSpent, SkipMalformed, SkipVisited,
         AttachUnresolved, Reach, Fetched, Attach
<1>5. \A f \in 1..Len(stack) : nodes'[stack[f].node] = nodes[stack[f].node]
  BY <1>1, <1>4 DEF TypeOK
<1> DEFINE Passed ==
      FollowedIn(visited', nodes[stack[Len(stack)].node], RefsAt(Len(stack))[stack[Len(stack)].i])
<1>6. ASSUME stack' = Advance \/ \E x : x.i = 1 /\ stack' = Append(Advance, x), Passed
      PROVE  /\ Len(stack') \in Nat /\ Len(stack') <= Len(stack) + 1
             /\ \A f \in 1..Len(stack') : f <= Len(stack) =>
                  /\ stack'[f].node = stack[f].node
                  /\ \/ stack'[f].i = stack[f].i
                     \/ f = Len(stack) /\ stack'[f].i = stack[f].i + 1 /\ Passed
             /\ Len(stack') = Len(stack) + 1 => stack'[Len(stack')].i = 1
  <2> HIDE DEF Passed
  <2>1. CASE stack' = Advance
    BY <1>3, <1>6, <2>1
  <2>2. CASE \E x : x.i = 1 /\ stack' = Append(Advance, x)
    <3>1. PICK x : x.i = 1 /\ stack' = Append(Advance, x)
      BY <2>2
    <3>2. /\ Len(stack') = Len(stack) + 1 /\ stack'[Len(stack) + 1] = x
          /\ \A f \in 1..Len(stack) : stack'[f] = Advance[f]
      BY <1>3, <3>1
    <3> QED BY <1>3, <1>6, <3>1, <3>2
  <2> QED BY <1>6, <2>1, <2>2
<1>7. CASE stack' = stack \/ stack' = Pop
  BY <1>2, <1>3, <1>5, <1>7, SMTT(30)
<1>8. CASE (stack' = Advance \/ \E x : x.i = 1 /\ stack' = Append(Advance, x)) /\ Passed
  <2> HIDE DEF Passed
  <2>1. /\ Len(stack') \in Nat /\ Len(stack') <= Len(stack) + 1
        /\ \A f \in 1..Len(stack') : f <= Len(stack) =>
             /\ stack'[f].node = stack[f].node
             /\ \/ stack'[f].i = stack[f].i
                \/ f = Len(stack) /\ stack'[f].i = stack[f].i + 1 /\ Passed
        /\ Len(stack') = Len(stack) + 1 => stack'[Len(stack')].i = 1
    BY <1>6, <1>8
  <2>2. \A f \in 1..Len(stack') : f <= Len(stack) => f \in 1..Len(stack)
    BY <1>3, <2>1
  <2> QED BY <1>2, <1>3, <1>5, <2>1, <2>2 DEF Passed
<1>9. \/ stack' = stack \/ stack' = Pop
      \/ (stack' = Advance \/ \E x : x.i = 1 /\ stack' = Append(Advance, x)) /\ Passed
  <2> DEFINE Goal == \/ stack' = stack \/ stack' = Pop
                     \/ (stack' = Advance \/ \E x : x.i = 1 /\ stack' = Append(Advance, x)) /\ Passed
  <2>0. /\ RefsAt(Len(stack))[stack[Len(stack)].i] = Refs[Top.i]
        /\ nodes[stack[Len(stack)].node] = Parent
    BY DEF RefsAt, Refs, Parent, Top
  <2>1. CASE Return \/ BudgetSpent
    BY <2>1 DEF Return, BudgetSpent
  <2>2. CASE SkipMalformed
    <3>1. stack' = Advance /\ Malformed(Refs[Top.i])
      BY <2>2 DEF SkipMalformed
    <3> QED BY <2>0, <3>1 DEF FollowedIn
  <2>3. ASSUME NEW t \in Resolutions(cluster, Refs[Top.i]),
               SkipVisited(t) \/ AttachUnresolved(t) \/ Reach(t)
        PROVE  Goal
    <3>1. CASE SkipVisited(t) \/ AttachUnresolved(t)
      <4>1. stack' = Advance /\ IdentityKey(t, Refs[Top.i], ParentNs) \in visited'
        BY <3>1 DEF SkipVisited, AttachUnresolved
      <4> QED BY <2>0, <2>3, <4>1 DEF FollowedIn, ParentNs
    <3>2. CASE Reach(t)
      BY <3>2 DEF Reach
    <3> QED BY <2>3, <3>1, <3>2
  <2>4. ASSUME NEW obj, Attach(obj)
        PROVE  Goal
    <3>1. /\ pending # NoKey /\ visited' = visited
          /\ stack' = Advance \/ \E x \in {[node |-> Len(nodes) + 1, i |-> 1]} :
                                  stack' = Append(Advance, x)
      BY <2>4 DEF Attach
    <3>2. \E t \in Resolutions(cluster, Refs[Top.i]) : IdentityKey(t, Refs[Top.i], ParentNs) \in visited
      BY <3>1 DEF WalkInv, PendingInv
    <3>3. Passed
      BY <2>0, <3>1, <3>2 DEF FollowedIn, ParentNs
    <3>4. stack' = Advance \/ \E x : x.i = 1 /\ stack' = Append(Advance, x)
      BY <3>1
    <3> QED BY <3>3, <3>4
  <2> QED BY <2>1, <2>2, <2>3, <2>4 DEF LoopStep, Fetched
<1> QED BY <1>7, <1>8, <1>9

\* A Get that is asked for is one for the ref at hand, new in the walk.
LEMMA PendingMove ==
  ASSUME WalkInv, LoopStep \/ Fetched, pending' # NoKey
  PROVE  /\ pending = NoKey /\ ~Done /\ Top.i <= Len(Refs) /\ BudgetLeft
         /\ stack' = stack /\ nodes' = nodes
         /\ ToFetch(Len(stack), Top.i) /\ pending' = KeyAt(Len(stack), Top.i)
         /\ IdAt(Len(stack), Top.i) \notin visited
         /\ visited' = visited \cup {IdAt(Len(stack), Top.i)}
<1>1. \E t \in Resolutions(cluster, Refs[Top.i]) : Reach(t)
  BY DEF LoopStep, Return, BudgetSpent, SkipMalformed, AtRef, SkipVisited,
         AttachUnresolved, Fetched, Attach
<1>2. PICK t \in Resolutions(cluster, Refs[Top.i]) : Reach(t)
  BY <1>1
<1>3. t = Resolved(cluster, Refs[Top.i])
  BY <1>2 DEF Reach, Resolutions
<1>4. /\ RefsAt(Len(stack)) = Refs /\ NsAt(Len(stack)) = ParentNs
  BY DEF RefsAt, NsAt, Refs, ParentNs, Parent, Top
<1> QED BY <1>2, <1>3, <1>4 DEF Reach, AtRef, ToFetch, Means, KeyAt, IdAt

\* The fetchers move with their activations.
LEMMA FetchersMove ==
  ASSUME WalkInv, FetchInv, LoopMove
  PROVE  /\ LoopStep \/ Fetched
         /\ DOMAIN workers = {} /\ workers' = workers
         /\ \A f \in 1..Len(stack') : f <= Len(stack) =>
              /\ fetchers'[f].next = fetchers[f].next /\ fetchers'[f].cache = fetchers[f].cache
              /\ \/ fetchers'[f].rounds = fetchers[f].rounds
                 \/ /\ DirectGet /\ f = Len(stack)
                    /\ fetchers'[f].rounds = fetchers[f].rounds + 1
         /\ Len(stack') = Len(stack) + 1 => fetchers'[Len(stack')] = NewFetcher
<1>1. (LoopStep \/ Fetched) /\ Joined /\ workers' = workers
  <2>1. CASE Loop
    <3>1. pending = NoKey
      BY <2>1 DEF Loop, LoopStep, Return, BudgetSpent, SkipMalformed, AtRef
    <3> QED BY <2>1, <3>1 DEF Loop, FetchInv, WindowAwaited
  <2>2. CASE ServeCached
    BY <2>2, ServedIsFetched DEF ServeCached
  <2>3. CASE DirectGet
    BY <2>3 DEF DirectGet
  <2> QED BY <2>1, <2>2, <2>3 DEF LoopMove
<1>2. DOMAIN workers = {}
  BY <1>1 DEF Joined
<1>3. ~Done /\ Len(stack) \in Nat \ {0} /\ Len(stack') \in Nat
  BY <1>1, FramesMove
<1>4. FetcherOK(Fetcher)
  BY <1>3, FetcherAtHand
<1>5. PICK g : /\ fetchers' = FetchersWith(g) /\ g.next = Fetcher.next /\ g.cache = Fetcher.cache
               /\ \/ g.rounds = Fetcher.rounds
                  \/ DirectGet /\ g.rounds = Fetcher.rounds + 1
  <2>1. CASE Loop \/ ServeCached
    BY <2>1 DEF Loop, ServeCached
  <2>2. CASE DirectGet
    <3> DEFINE g == [Fetcher EXCEPT !.rounds = @ + 1]
    <3>1. g.next = Fetcher.next /\ g.cache = Fetcher.cache /\ g.rounds = Fetcher.rounds + 1
      BY <1>4 DEF FetcherOK
    <3>2. fetchers' = FetchersWith(g)
      BY <2>2 DEF DirectGet
    <3> QED BY <2>2, <3>1, <3>2
  <2> QED BY <2>1, <2>2 DEF LoopMove
<1>6. \A f \in 1..Len(stack') :
        fetchers'[f] = IF f > Len(stack) THEN NewFetcher
                       ELSE IF f = Len(stack) THEN g ELSE fetchers[f]
  BY <1>5 DEF FetchersWith
<1>7. ASSUME NEW f \in 1..Len(stack'), f <= Len(stack)
      PROVE  /\ fetchers'[f].next = fetchers[f].next /\ fetchers'[f].cache = fetchers[f].cache
             /\ \/ fetchers'[f].rounds = fetchers[f].rounds
                \/ /\ DirectGet /\ f = Len(stack)
                   /\ fetchers'[f].rounds = fetchers[f].rounds + 1
  <2>1. CASE f = Len(stack)
    BY <1>5, <1>6, <1>7, <1>3, <2>1 DEF Fetcher
  <2>2. CASE f # Len(stack)
    <3>1. fetchers'[f] = fetchers[f]
      BY <1>3, <1>6, <1>7, <2>2
    <3> QED BY <3>1
  <2> QED BY <2>1, <2>2
<1>8. Len(stack') = Len(stack) + 1 => fetchers'[Len(stack')] = NewFetcher
  BY <1>3, <1>6
<1> QED BY <1>1, <1>2, <1>7, <1>8

\* What an activation's refs are to it does not change while it lasts.
LEMMA FrameKept ==
  ASSUME NEW f, cluster' = cluster, stack'[f].node = stack[f].node,
         nodes'[stack[f].node] = nodes[stack[f].node]
  PROVE  /\ RefsAt(f)' = RefsAt(f)
         /\ \A j : /\ IdAt(f, j)' = IdAt(f, j) /\ KeyAt(f, j)' = KeyAt(f, j)
                   /\ ToFetch(f, j)' = ToFetch(f, j)
BY DEF RefsAt, NsAt, Means, IdAt, KeyAt, ToFetch

-----------------------------------------------------------------------------
(* HeldInv is inductive.                                                   *)

\* The objects of nodes have identities and refs.
LEMMA NodesHaveRefs ==
  ASSUME NEW ns \in Seq(Node), NEW n \in 1..Len(ns)
  PROVE  /\ ns[n] \in Node /\ ns[n].obj \in Object /\ ns[n].obj.id \in Identity
         /\ ns[n].obj.refs \in Seq(Ref) /\ Len(ns[n].obj.refs) \in Nat
<1>1. ns[n] \in Node
  OBVIOUS
<1>2. ns[n].obj \in Object
  BY <1>1 DEF Node
<1>3. ns[n].obj.refs \in Seq(Ref) /\ ns[n].obj.id \in Identity
  BY <1>2 DEF Object
<1> QED BY <1>1, <1>2, <1>3

\* The loop keeps what is held.
LEMMA LoopHeld ==
  ASSUME WalkInv, FetchInv, HeldInv, LoopMove
  PROVE  HeldInv'
<1>1. LoopStep \/ Fetched
  BY FetchersMove
<1>2. Joined /\ Joined' /\ DOMAIN workers = {} /\ DOMAIN workers' = {}
  BY FetchersMove DEF Joined
<1>3. /\ cluster' = cluster /\ visited \subseteq visited' /\ ~Done
      /\ Len(stack) \in Nat \ {0} /\ Len(stack') \in Nat /\ Len(stack') <= Len(stack) + 1
  BY <1>1, FramesMove
<1>4. ASSUME NEW f \in 1..Len(stack')
      PROVE  /\ FollowedUpTo(stack[f].node, stack[f].i - 1)'
             /\ fetchers'[f].next <= Len(RefsAt(f)') + 1
             /\ IsFiniteSet(DOMAIN fetchers'[f].cache)
             /\ \A k \in HeldBy(f)' : FromRefs(f, k)'
  <2>1. CASE f <= Len(stack)
    <3>1. f \in 1..Len(stack)
      BY <1>3, <2>1
    <3>2. /\ stack'[f].node = stack[f].node /\ nodes'[stack[f].node] = nodes[stack[f].node]
          /\ \/ stack'[f].i = stack[f].i
             \/ /\ stack'[f].i = stack[f].i + 1
                /\ FollowedIn(visited', nodes[stack[f].node], RefsAt(f)[stack[f].i])
      BY <1>1, <2>1, FramesMove
    <3>3. fetchers'[f].next = fetchers[f].next /\ fetchers'[f].cache = fetchers[f].cache
      BY <2>1, FetchersMove
    <3>4. /\ RefsAt(f)' = RefsAt(f)
          /\ \A j : KeyAt(f, j)' = KeyAt(f, j) /\ ToFetch(f, j)' = ToFetch(f, j)
      BY <1>3, <3>2, FrameKept
    <3>5. HeldBy(f)' = HeldBy(f)
      BY <1>2, <3>3 DEF HeldBy
    <3>6. \A k \in HeldBy(f)' : FromRefs(f, k)'
      <4>1. \A k : FromRefs(f, k)' <=> FromRefs(f, k)
        BY <3>3, <3>4 DEF FromRefs, Seen
      <4> QED BY <3>1, <3>5, <4>1 DEF HeldInv
    <3>7. FollowedUpTo(stack[f].node, stack[f].i - 1)'
      <4>1. \A r : FollowedIn(visited, nodes[stack[f].node], r) => FollowedIn(visited', nodes[stack[f].node], r)
        BY <1>3 DEF FollowedIn
      <4>2. stack[f].i \in Nat \ {0}
        BY <1>3, <3>1, StackOfAdvance DEF WalkInv
      <4>3. \A j \in 1..(stack[f].i - 1) : FollowedIn(visited, nodes[stack[f].node], RefsAt(f)[j])
        BY <3>1 DEF HeldInv, FollowedUpTo, Followed, FollowedIn, RefsAt
      <4>4. \A j \in 1..(stack'[f].i - 1) : FollowedIn(visited', nodes[stack[f].node], RefsAt(f)[j])
        BY <3>2, <4>1, <4>2, <4>3
      <4> QED BY <1>3, <3>2, <4>4 DEF FollowedUpTo, Followed, FollowedIn, RefsAt
    <3> QED BY <3>1, <3>3, <3>4, <3>6, <3>7 DEF HeldInv
  <2>2. CASE ~(f <= Len(stack))
    <3>1. f = Len(stack') /\ Len(stack') = Len(stack) + 1
      BY <1>3, <2>2
    <3>2. stack'[f].i = 1 /\ fetchers'[f] = NewFetcher
      BY <1>1, <3>1, FramesMove, FetchersMove
    <3>3. FollowedUpTo(stack[f].node, stack[f].i - 1)'
      BY <3>2 DEF FollowedUpTo
    <3>4. fetchers'[f].next = 1 /\ DOMAIN fetchers'[f].cache = {}
      BY <3>2 DEF NewFetcher
    <3>5. HeldBy(f)' = {} /\ IsFiniteSet(DOMAIN fetchers'[f].cache)
      BY <1>2, <3>4, FS_EmptySet DEF HeldBy
    <3>6. Len(RefsAt(f)') \in Nat
      <4>1. TypeOK'
        BY <1>1, StepInv DEF WalkInv, Step
      <4>2. stack'[f].node \in 1..Len(nodes')
        BY <4>1 DEF TypeOK
      <4>3. nodes' \in Seq(Node)
        BY <4>1 DEF TypeOK
      <4> QED BY <4>2, <4>3, NodesHaveRefs DEF RefsAt
    <3> QED BY <3>3, <3>4, <3>5, <3>6
  <2> QED BY <2>1, <2>2
<1>5. pending' # NoKey => ToFetch(Len(stack), Top.i)' /\ pending' = KeyAt(Len(stack), Top.i)'
  <2> SUFFICES ASSUME pending' # NoKey
               PROVE  ToFetch(Len(stack), Top.i)' /\ pending' = KeyAt(Len(stack), Top.i)'
    OBVIOUS
  <2>1. /\ stack' = stack /\ nodes' = nodes
        /\ ToFetch(Len(stack), Top.i) /\ pending' = KeyAt(Len(stack), Top.i)
    BY <1>1, PendingMove
  <2> QED BY <1>3, <2>1 DEF ToFetch, KeyAt, Means, RefsAt, NsAt, Top
<1> QED BY <1>2, <1>4, <1>5 DEF HeldInv

\* What a window's own Resolve may have said of the refs after the current.
WindowOf(T) ==
  /\ DOMAIN T = (Top.i + 1)..Len(Refs)
  /\ \A j \in DOMAIN T : \/ T[j] = Resolved(cluster, Refs[j])
                         \/ T[j] = Unresolved /\ Refs[j].kind \in cluster.flaky

\* Two keys are worth a window.
Worthwhile(T) == Cardinality(WindowKeys(T)) >= 2

\* What opening a window does.
Opened(T) ==
  /\ WindowOf(T) /\ UNCHANGED walkVars
  /\ DOMAIN fetchers' = 1..Len(stack)
  /\ \A f \in 1..Len(stack) :
       f # Len(stack) => fetchers'[f] = fetchers[f]
  /\ fetchers'[Len(stack)].next = WindowEnd(T)
  /\ fetchers'[Len(stack)].cache = Fetcher.cache
  /\ fetchers'[Len(stack)].rounds = IF Worthwhile(T) THEN Fetcher.rounds + 1 ELSE Fetcher.rounds
  /\ DOMAIN workers' = IF Worthwhile(T) THEN WindowKeys(T) ELSE {}
  /\ \A k \in DOMAIN workers' : workers'[k].status = "spawned"

\* What OpenWindow does, with the mapping of each ref it looked at named.
LEMMA WindowOpened ==
  ASSUME WalkInv, FetchInv, OpenWindow
  PROVE  \E T : Opened(T)
<1>1. PICK failed \in SUBSET {j \in (Top.i + 1)..Len(Refs) : Refs[j].kind \in cluster.flaky} :
        LET T == [j \in (Top.i + 1)..Len(Refs) |->
                    IF j \in failed THEN Unresolved ELSE Resolved(cluster, Refs[j])]
        IN  /\ fetchers' = [fetchers EXCEPT
                 ![Len(stack)].next = WindowEnd(T),
                 ![Len(stack)].rounds = IF Cardinality(WindowKeys(T)) >= 2 THEN @ + 1 ELSE @]
            /\ workers' = IF Cardinality(WindowKeys(T)) >= 2
                          THEN [k \in WindowKeys(T) |-> [status |-> "spawned", obj |-> NoObject]]
                          ELSE workers
  BY DEF OpenWindow
<1> DEFINE T == [j \in (Top.i + 1)..Len(Refs) |->
                   IF j \in failed THEN Unresolved ELSE Resolved(cluster, Refs[j])]
<1>2. WindowOf(T)
  BY DEF WindowOf
<1>3. /\ fetchers' = [fetchers EXCEPT
           ![Len(stack)].next = WindowEnd(T),
           ![Len(stack)].rounds = IF Worthwhile(T) THEN @ + 1 ELSE @]
      /\ workers' = IF Worthwhile(T)
                    THEN [k \in WindowKeys(T) |-> [status |-> "spawned", obj |-> NoObject]]
                    ELSE workers
  BY <1>1 DEF Worthwhile
<1>4. Joined /\ UNCHANGED walkVars /\ ~Done
  BY DEF OpenWindow, WindowDue, WalkInv, FramesInv
<1>5. FetcherOK(Fetcher) /\ Len(stack) \in DOMAIN fetchers /\ DOMAIN fetchers = 1..Len(stack)
  BY <1>4, FetcherAtHand DEF FetchInv, FetchersOK
<1> HIDE DEF T
<1> DEFINE g == [Fetcher EXCEPT !.next = WindowEnd(T),
                                !.rounds = IF Worthwhile(T) THEN @ + 1 ELSE @]
<1>6. fetchers' = [fetchers EXCEPT ![Len(stack)] = g]
  BY <1>3, <1>5 DEF Fetcher, FetcherOK
<1>7. /\ g.next = WindowEnd(T) /\ g.cache = Fetcher.cache
      /\ g.rounds = IF Worthwhile(T) THEN Fetcher.rounds + 1 ELSE Fetcher.rounds
  BY <1>5 DEF FetcherOK
<1> HIDE DEF g
<1>8. /\ DOMAIN workers' = IF Worthwhile(T) THEN WindowKeys(T) ELSE {}
      /\ \A k \in DOMAIN workers' : workers'[k].status = "spawned"
  BY <1>3, <1>4 DEF Joined
<1>9. /\ DOMAIN fetchers' = 1..Len(stack) /\ fetchers'[Len(stack)] = g
      /\ \A f \in 1..Len(stack) : f # Len(stack) => fetchers'[f] = fetchers[f]
  BY <1>5, <1>6
<1>10. Opened(T)
  BY <1>2, <1>4, <1>7, <1>8, <1>9 DEF Opened
<1> QED BY <1>10

\* The refs that a window fetches.
Fetches(T) == {m \in Considered(T) : Survives(m, T) /\ T[m] # Unresolved}

\* A window runs over the refs up to where it stops, and has room there for
\* the child that is awaited.
LEMMA WindowRuns ==
  ASSUME WalkInv, WindowDue, NEW T, DOMAIN T = (Top.i + 1)..Len(Refs)
  PROVE  LET e == WindowEnd(T)
         IN  /\ e \in (Top.i + 1)..(Len(Refs) + 1)
             /\ Considered(T) = (Top.i + 1)..(e - 1)
             /\ WindowStops(e, T) /\ \A m \in Considered(T) : ~WindowStops(m, T)
             /\ Fetches(T) = FetchedBefore(e, T)
<1> DEFINE i == Top.i
           L == Len(Refs)
           S == {j \in Nat : j >= i + 1 /\ WindowStops(j, T)}
<1>1. i \in Nat \ {0} /\ L \in Nat /\ i <= L
  BY RefAtHand DEF WalkInv, WindowDue, FramesInv
<1>2. L + 1 \in S
  BY <1>1 DEF WindowStops
<1> HIDE DEF S, i, L
<1>3. PICK e \in S : \A y \in S : ~(y < e)
  <2>1. S \subseteq Nat /\ S # {}
    BY <1>2 DEF S
  <2>2. PICK x \in S : \A y \in S : <<y, x>> \notin OpToRel(<, Nat)
    BY <2>1, NatLessThanWellFounded, WFMin
  <2> QED BY <2>1, <2>2 DEF OpToRel
<1>4. e \in Nat /\ e >= i + 1 /\ WindowStops(e, T)
  BY <1>3 DEF S
<1>5. e <= L + 1
  BY <1>1, <1>2, <1>3, <1>4
<1>6. \A m \in (i + 1)..(e - 1) : ~WindowStops(m, T)
  BY <1>1, <1>3, <1>4 DEF S
<1>7. Considered(T) = (i + 1)..(e - 1)
  <2>1. ASSUME NEW m \in Considered(T) PROVE m \in (i + 1)..(e - 1)
    <3>1. m \in (i + 1)..L /\ \A n \in (i + 1)..m : ~WindowStops(n, T)
      BY <2>1 DEF Considered, i, L
    <3>2. ~(e <= m)
      BY <1>1, <1>4, <3>1
    <3> QED BY <1>1, <1>4, <3>1, <3>2
  <2>2. ASSUME NEW m \in (i + 1)..(e - 1) PROVE m \in Considered(T)
    <3>1. m \in (i + 1)..L /\ \A n \in (i + 1)..m : n \in (i + 1)..(e - 1)
      BY <1>1, <1>4, <1>5, <2>2
    <3> QED BY <1>6, <3>1 DEF Considered, i, L
  <2> QED BY <2>1, <2>2
<1>8. WindowEnd(T) = e
  <2>1. Cardinality((i + 1)..(e - 1)) = IF i + 1 > e - 1 THEN 0 ELSE (e - 1) - (i + 1) + 1
    BY <1>1, <1>4, FS_Interval
  <2> QED BY <1>1, <1>4, <1>7, <2>1 DEF WindowEnd, i
<1>9. Fetches(T) = FetchedBefore(e, T)
  BY <1>7 DEF Fetches, FetchedBefore, SurvivorsBefore, i
<1> QED BY <1>1, <1>4, <1>5, <1>6, <1>7, <1>8, <1>9 DEF i, L

\* The image of a finite set.
LEMMA ImageSize ==
  ASSUME NEW S, IsFiniteSet(S), NEW g, DOMAIN g = S, g = [x \in S |-> g[x]]
  PROVE  LET T == {g[x] : x \in S}
         IN  /\ IsFiniteSet(T) /\ Cardinality(T) \in Nat /\ Cardinality(S) \in Nat
             /\ Cardinality(T) <= Cardinality(S)
             /\ (\A x, y \in S : g[x] = g[y] => x = y) => Cardinality(T) = Cardinality(S)
<1> DEFINE T == {g[x] : x \in S}
<1>1. g \in Surjection(S, T)
  BY DEF Surjection
<1>2. /\ IsFiniteSet(T) /\ Cardinality(T) <= Cardinality(S)
      /\ Cardinality(T) = Cardinality(S) <=> g \in Injection(S, T)
  BY <1>1, FS_Surjection
<1>3. (\A x, y \in S : g[x] = g[y] => x = y) => g \in Injection(S, T)
  BY <1>1 DEF Injection, IsInjective, Surjection
<1> QED BY <1>2, <1>3, FS_CardinalityType

\* The identity of a key is that of the ref it is for.
LEMMA KeyIdentityAt ==
  ASSUME NEW f, NEW j, ToFetch(f, j)
  PROVE  KeyIdentity(KeyAt(f, j)) = IdAt(f, j)
BY DEF ToFetch, KeyAt, IdAt, KeyIdentity, GetKey, IdentityKey

\* With the child that is awaited, a window has no more than it may fetch.
LEMMA FetchesBounded ==
  ASSUME WalkInv, WindowDue, NEW T, DOMAIN T = (Top.i + 1)..Len(Refs)
  PROVE  /\ IsFiniteSet(Fetches(T)) /\ Cardinality(Fetches(T)) \in Nat
         /\ Cardinality(Fetches(T)) + 1 <= WalkConcurrency
<1> DEFINE e == WindowEnd(T)
           W == Fetches(T)
           B == FetchedBefore(e - 1, T)
<1>1. Top.i \in Nat \ {0} /\ Len(Refs) \in Nat
  BY RefAtHand DEF WalkInv, WindowDue, FramesInv
<1>2. /\ e \in (Top.i + 1)..(Len(Refs) + 1)
      /\ Considered(T) = (Top.i + 1)..(e - 1)
      /\ \A m \in Considered(T) : ~WindowStops(m, T)
      /\ W = FetchedBefore(e, T)
  BY WindowRuns
<1>3. W \subseteq (Top.i + 1)..(e - 1) /\ B \subseteq (Top.i + 1)..(e - 2)
  BY <1>1, <1>2 DEF FetchedBefore, SurvivorsBefore
<1>4. IsFiniteSet(W) /\ IsFiniteSet(B) /\ Cardinality(W) \in Nat /\ Cardinality(B) \in Nat
  <2>0. Top.i + 1 \in Int /\ e - 1 \in Int /\ e - 2 \in Int
    BY <1>1, <1>2
  <2> HIDE DEF e
  <2>1. IsFiniteSet((Top.i + 1)..(e - 1)) /\ IsFiniteSet((Top.i + 1)..(e - 2))
    BY <2>0, FS_Interval
  <2> QED BY <1>3, <2>1, FS_Subset, FS_CardinalityType
<1>5. WalkConcurrency \in Nat /\ WalkConcurrency > 1
  BY ConcurrencyAssumption DEF WindowDue
<1>6. CASE e = Top.i + 1
  <2>1. W = {}
    BY <1>1, <1>3, <1>6
  <2> QED BY <1>4, <1>5, <2>1, FS_EmptySet
<1>7. CASE e # Top.i + 1
  <2>1. e - 1 \in Considered(T)
    BY <1>1, <1>2, <1>7
  <2>2. Cardinality(B) + 1 < WalkConcurrency
    <3>1. ~(Cardinality(B) + 1 >= WalkConcurrency)
      BY <1>2, <2>1 DEF WindowStops
    <3> HIDE DEF B
    <3> QED BY <1>4, <1>5, <3>1
  <2>3. W \subseteq B \cup {e - 1}
    BY <1>1, <1>2 DEF FetchedBefore, SurvivorsBefore
  <2> HIDE DEF W, B
  <2>4. IsFiniteSet(B \cup {e - 1}) /\ Cardinality(B \cup {e - 1}) <= Cardinality(B) + 1
    <3>1. /\ IsFiniteSet(B \cup {e - 1})
          /\ Cardinality(B \cup {e - 1}) = IF e - 1 \in B THEN Cardinality(B) ELSE Cardinality(B) + 1
      BY <1>4, FS_AddElement
    <3> QED BY <1>4, <3>1
  <2>5. Cardinality(W) <= Cardinality(B \cup {e - 1})
    BY <2>3, <2>4, FS_Subset
  <2>6. Cardinality(B \cup {e - 1}) \in Nat
    BY <2>4, FS_CardinalityType
  <2>7. Cardinality(W) + 1 <= WalkConcurrency
    BY <1>4, <1>5, <2>2, <2>4, <2>5, <2>6
  <2> QED BY <1>4, <2>7 DEF W
<1> QED BY <1>6, <1>7

\* What a window fetches with the awaited child: refs it considered, that
\* resolve, each of another identity, none of them reached before.
LEMMA WindowFetches ==
  ASSUME WalkInv, WindowDue, NEW T, WindowOf(T)
  PROVE  LET top == Len(stack)
         IN  /\ WindowKeys(T) = {pending} \cup {KeyAt(top, m) : m \in Fetches(T)}
             /\ \A m \in Fetches(T) :
                  /\ m \in (Top.i + 1)..(WindowEnd(T) - 1)
                  /\ ToFetch(top, m) /\ KeyIdentity(KeyAt(top, m)) = IdAt(top, m)
                  /\ IdAt(top, m) \notin visited
             /\ \A m, n \in Fetches(T) : IdAt(top, m) = IdAt(top, n) => m = n
             /\ IsFiniteSet(WindowKeys(T)) /\ Cardinality(WindowKeys(T)) \in Nat
             /\ Cardinality(WindowKeys(T)) <= Cardinality(Fetches(T)) + 1
             /\ pending \notin {KeyAt(top, m) : m \in Fetches(T)} =>
                  Cardinality(WindowKeys(T)) = Cardinality(Fetches(T)) + 1
<1> DEFINE top == Len(stack)
           e == WindowEnd(T)
           W == Fetches(T)
<1>1. Top.i \in Nat \ {0} /\ Len(Refs) \in Nat
  BY RefAtHand DEF WalkInv, WindowDue, FramesInv
<1>2. DOMAIN T = (Top.i + 1)..Len(Refs)
  BY DEF WindowOf
<1>3. e \in (Top.i + 1)..(Len(Refs) + 1) /\ Considered(T) = (Top.i + 1)..(e - 1)
  BY <1>2, WindowRuns
<1>4. RefsAt(top) = Refs /\ NsAt(top) = ParentNs
  BY DEF RefsAt, NsAt, Refs, ParentNs, Parent, Top
<1>5. ASSUME NEW m \in W
      PROVE  /\ m \in (Top.i + 1)..(e - 1) /\ T[m] = Resolved(cluster, Refs[m]) /\ Survives(m, T)
             /\ ToFetch(top, m) /\ KeyIdentity(KeyAt(top, m)) = IdAt(top, m)
             /\ KeyAt(top, m) = GetKey(T[m], Refs[m], ParentNs)
             /\ IdAt(top, m) = IdentityKey(T[m], Refs[m], ParentNs)
             /\ IdAt(top, m) \notin visited
  <2>1. m \in Considered(T) /\ Survives(m, T) /\ T[m] # Unresolved
    BY <1>5 DEF Fetches
  <2>2. m \in (Top.i + 1)..(e - 1) /\ m \in DOMAIN T
    BY <1>3, <2>1 DEF Considered
  <2>3. T[m] = Resolved(cluster, Refs[m])
    BY <2>1, <2>2 DEF WindowOf
  <2>4. /\ ToFetch(top, m) /\ KeyAt(top, m) = GetKey(T[m], Refs[m], ParentNs)
        /\ IdAt(top, m) = IdentityKey(T[m], Refs[m], ParentNs)
    BY <1>4, <2>1, <2>3 DEF ToFetch, Means, KeyAt, IdAt, Survives
  <2>5. IdAt(top, m) \notin visited
    BY <2>1, <2>4 DEF Survives
  <2> QED BY <2>1, <2>2, <2>3, <2>4, <2>5, KeyIdentityAt
<1>6. ASSUME NEW m \in W, NEW n \in W, m < n PROVE IdAt(top, m) # IdAt(top, n)
  <2>1. m \in (Top.i + 1)..(n - 1) /\ ~Malformed(Refs[m])
    BY <1>1, <1>3, <1>5, <1>6 DEF Survives
  <2>2. IdentityKey(T[m], Refs[m], ParentNs) # IdentityKey(T[n], Refs[n], ParentNs)
    BY <1>5, <2>1 DEF Survives
  <2> QED BY <1>5, <2>2
<1>7. ASSUME NEW m \in W, NEW n \in W, IdAt(top, m) = IdAt(top, n) PROVE m = n
  <2>1. ~(m < n) /\ ~(n < m)
    BY <1>6, <1>7
  <2>2. m \in Nat /\ n \in Nat
    BY <1>1, <1>3, <1>5
  <2> QED BY <2>1, <2>2
<1>8. WindowKeys(T) = {pending} \cup {KeyAt(top, m) : m \in W}
  BY <1>5 DEF WindowKeys, Fetches
<1>9. IsFiniteSet(W) /\ Cardinality(W) \in Nat
  BY <1>2, FetchesBounded
<1> DEFINE g == [m \in W |-> KeyAt(top, m)]
           G == {g[m] : m \in W}
<1>10. G = {KeyAt(top, m) : m \in W}
  OBVIOUS
<1>11. \A m, n \in W : g[m] = g[n] => m = n
  <2>1. \A m \in W : KeyIdentity(g[m]) = IdAt(top, m)
    BY <1>5
  <2> HIDE DEF g
  <2> QED BY <1>7, <2>1
<1>12. IsFiniteSet(G) /\ Cardinality(G) = Cardinality(W)
  <2>1. DOMAIN g = W /\ g = [x \in W |-> g[x]]
    OBVIOUS
  <2> HIDE DEF g, W
  <2> QED BY <1>9, <1>11, <2>1, ImageSize
<1> HIDE DEF G, W
<1>13. /\ IsFiniteSet({pending} \cup G)
       /\ Cardinality({pending} \cup G) = IF pending \in G THEN Cardinality(W) ELSE Cardinality(W) + 1
  <2>1. {pending} \cup G = G \cup {pending}
    OBVIOUS
  <2> QED BY <1>12, <2>1, FS_AddElement
<1>14. /\ IsFiniteSet(WindowKeys(T)) /\ Cardinality(WindowKeys(T)) \in Nat
       /\ Cardinality(WindowKeys(T)) <= Cardinality(W) + 1
       /\ pending \notin {KeyAt(top, m) : m \in W} => Cardinality(WindowKeys(T)) = Cardinality(W) + 1
  BY <1>8, <1>9, <1>10, <1>13
<1> QED BY <1>5, <1>7, <1>8, <1>14 DEF W

\* What the refs of the activations are does not change in a window.
LEMMA RefsKept ==
  ASSUME UNCHANGED walkVars
  PROVE  /\ \A f : RefsAt(f)' = RefsAt(f)
         /\ \A f, j : /\ IdAt(f, j)' = IdAt(f, j) /\ KeyAt(f, j)' = KeyAt(f, j)
                      /\ ToFetch(f, j)' = ToFetch(f, j)
         /\ \A n, l : FollowedUpTo(n, l)' = FollowedUpTo(n, l)
         /\ Top' = Top /\ Stable' = Stable
BY DEF walkVars, RefsAt, NsAt, Means, IdAt, KeyAt, ToFetch, FollowedUpTo, Followed, Top, Stable

\* A window holds keys of refs that it considered.
LEMMA OpenHeld ==
  ASSUME WalkInv, FetchInv, HeldInv, OpenWindow
  PROVE  HeldInv'
<1>1. PICK T : Opened(T)
  BY WindowOpened
<1> DEFINE top == Len(stack)
           e == WindowEnd(T)
<1>2. WindowDue /\ WindowOf(T) /\ UNCHANGED walkVars /\ ~Done /\ stack' = stack /\ pending' = pending
  BY <1>1 DEF OpenWindow, Opened, WindowDue, WalkInv, FramesInv, walkVars
<1>3. top \in Nat \ {0} /\ Top.i \in Nat \ {0} /\ Len(Refs) \in Nat /\ Top.i <= Len(Refs)
  BY <1>2, StackOfAdvance, RefAtHand DEF WalkInv, WindowDue, FramesInv
<1>4. e \in (Top.i + 1)..(Len(Refs) + 1)
  BY <1>2, WindowRuns DEF WindowOf
<1>5. RefsAt(top) = Refs /\ Fetcher = fetchers[top] /\ Top = stack[top]
  BY DEF RefsAt, Refs, Parent, Top, Fetcher
<1>6. Fetcher.next \in Nat \ {0} /\ Fetcher.next <= Top.i
  BY <1>2, FetcherAtHand DEF WindowDue, FetcherOK
<1>7. /\ fetchers'[top].next = e /\ fetchers'[top].cache = Fetcher.cache
      /\ \A f \in 1..Len(stack) : f # top => fetchers'[f] = fetchers[f]
      /\ DOMAIN workers' = IF Worthwhile(T) THEN WindowKeys(T) ELSE {}
  BY <1>1 DEF Opened
<1>8. Joined
  BY <1>2 DEF WindowDue
<1> HIDE DEF e
<1>9. \A j \in 1..(fetchers[top].next - 1) : j \in 1..(e - 1)
  BY <1>3, <1>4, <1>5, <1>6
<1>10. \A k \in WindowKeys(T) : \E j \in 1..(e - 1) : ToFetch(top, j) /\ k = KeyAt(top, j)
  <2>1. ToFetch(top, Top.i) /\ pending = KeyAt(top, Top.i) /\ Top.i \in 1..(e - 1)
    BY <1>2, <1>3, <1>4 DEF HeldInv, WindowDue
  <2>2. \A m \in Fetches(T) : m \in (Top.i + 1)..(e - 1) /\ ToFetch(top, m)
    BY <1>2, WindowFetches DEF e
  <2>3. \A m \in Fetches(T) : m \in 1..(e - 1) /\ ToFetch(top, m)
    BY <1>3, <1>4, <2>2
  <2>4. WindowKeys(T) = {pending} \cup {KeyAt(top, m) : m \in Fetches(T)}
    BY <1>2, WindowFetches
  <2> QED BY <2>1, <2>3, <2>4
<1>11. ASSUME NEW f \in 1..Len(stack)
       PROVE  /\ FollowedUpTo(stack[f].node, stack[f].i - 1)'
              /\ fetchers'[f].next <= Len(RefsAt(f)') + 1
              /\ IsFiniteSet(DOMAIN fetchers'[f].cache)
              /\ \A k \in HeldBy(f)' : FromRefs(f, k)'
  <2>1. FollowedUpTo(stack[f].node, stack[f].i - 1)'
    BY <1>2, RefsKept DEF HeldInv, FollowedUpTo, Followed, walkVars
  <2>2. CASE f = top
    <3>1. fetchers'[f].next <= Len(RefsAt(f)') + 1
      BY <1>2, <1>3, <1>4, <1>5, <1>7, <2>2, RefsKept
    <3>2. fetchers'[f].cache = fetchers[f].cache
      BY <1>5, <1>7, <2>2
    <3>3. IsFiniteSet(DOMAIN fetchers'[f].cache)
      BY <3>2 DEF HeldInv
    <3>4. HeldBy(f)' \subseteq HeldBy(f) \cup WindowKeys(T)
      BY <1>2, <1>7, <2>2, <3>2 DEF HeldBy
    <3>5. ASSUME NEW k \in HeldBy(f) PROVE FromRefs(f, k)'
      <4>1. PICK j \in Seen(f) : ToFetch(f, j) /\ k = KeyAt(f, j)
        BY <3>5 DEF HeldInv, FromRefs
      <4>2. j \in Seen(f)'
        BY <1>7, <1>9, <2>2 DEF Seen
      <4> QED BY <1>2, <4>1, <4>2, RefsKept DEF FromRefs
    <3>6. ASSUME NEW k \in WindowKeys(T) PROVE FromRefs(f, k)'
      <4>1. PICK j \in 1..(e - 1) : ToFetch(top, j) /\ k = KeyAt(top, j)
        BY <1>10
      <4>2. j \in Seen(f)'
        BY <1>2, <1>7, <2>2 DEF Seen
      <4> QED BY <1>2, <2>2, <4>1, <4>2, RefsKept DEF FromRefs
    <3> QED BY <2>1, <3>1, <3>3, <3>4, <3>5, <3>6
  <2>3. CASE f # top
    <3>1. fetchers'[f] = fetchers[f] /\ HeldBy(f)' = HeldBy(f)
      BY <1>2, <1>7, <2>3 DEF HeldBy
    <3>2. \A k : FromRefs(f, k) => FromRefs(f, k)'
      BY <1>2, <3>1, RefsKept DEF FromRefs, Seen
    <3>3. fetchers'[f].next <= Len(RefsAt(f)') + 1
      BY <1>2, <3>1, RefsKept DEF HeldInv
    <3> QED BY <2>1, <3>1, <3>2, <3>3 DEF HeldInv
  <2> QED BY <2>2, <2>3
<1>12. pending' # NoKey => ToFetch(Len(stack), Top.i)' /\ pending' = KeyAt(Len(stack), Top.i)'
  BY <1>2 DEF HeldInv, ToFetch, KeyAt, Means, RefsAt, NsAt, Top, walkVars
<1>13. ~Joined' => /\ pending' \in DOMAIN workers' /\ IsFiniteSet(DOMAIN workers')
                   /\ Cardinality(DOMAIN workers') <= WalkConcurrency
                   /\ Top'.i < Fetcher'.next
  <2> SUFFICES ASSUME ~Joined'
               PROVE  /\ pending' \in DOMAIN workers' /\ IsFiniteSet(DOMAIN workers')
                      /\ Cardinality(DOMAIN workers') <= WalkConcurrency
                      /\ Top'.i < Fetcher'.next
    OBVIOUS
  <2>1. DOMAIN workers' = WindowKeys(T)
    BY <1>7 DEF Joined
  <2>2. pending \in WindowKeys(T)
    BY DEF WindowKeys
  <2>3. /\ IsFiniteSet(WindowKeys(T)) /\ Cardinality(WindowKeys(T)) \in Nat
        /\ Cardinality(WindowKeys(T)) <= Cardinality(Fetches(T)) + 1
    BY <1>2, WindowFetches
  <2>4. Cardinality(Fetches(T)) \in Nat /\ Cardinality(Fetches(T)) + 1 <= WalkConcurrency
    BY <1>2, FetchesBounded DEF WindowOf
  <2>5. Cardinality(WindowKeys(T)) <= WalkConcurrency
    BY <2>3, <2>4, ConcurrencyAssumption
  <2>6. Top'.i < Fetcher'.next
    BY <1>2, <1>3, <1>4, <1>7, RefsKept DEF Fetcher
  <2> QED BY <1>2, <2>1, <2>2, <2>3, <2>5, <2>6
<1>14. \A f \in 1..Len(stack') : f \in 1..Len(stack)
  BY <1>2
<1> QED BY <1>2, <1>11, <1>12, <1>13, <1>14 DEF HeldInv

\* What is held does not depend on how far the goroutines are.
LEMMA WorkHeld ==
  ASSUME FetchInv, HeldInv, UNCHANGED walkVars,
         DOMAIN workers' = DOMAIN workers /\ fetchers' = fetchers
  PROVE  HeldInv'
<1>1. \A f : HeldBy(f)' = HeldBy(f) /\ Seen(f)' = Seen(f)
  BY DEF HeldBy, Seen, walkVars
<1>2. \A f, k : FromRefs(f, k)' = FromRefs(f, k)
  BY <1>1, RefsKept DEF FromRefs
<1>3. (ToFetch(Len(stack), Top.i)' <=> ToFetch(Len(stack), Top.i))
      /\ KeyAt(Len(stack), Top.i)' = KeyAt(Len(stack), Top.i) /\ Fetcher' = Fetcher
  BY DEF ToFetch, KeyAt, Means, RefsAt, NsAt, Top, walkVars, Fetcher
<1>4. stack' = stack /\ pending' = pending /\ Joined' = Joined
  BY DEF walkVars, Joined
<1>5. \A f \in 1..Len(stack) :
        FollowedUpTo(stack[f].node, stack[f].i - 1)' = FollowedUpTo(stack[f].node, stack[f].i - 1)
  BY <1>4, RefsKept DEF FollowedUpTo, Followed, walkVars
<1> QED BY <1>1, <1>2, <1>3, <1>4, <1>5, RefsKept DEF HeldInv

\* What the goroutines bring back stays held; what they skipped does not.
LEMMA JoinHeld ==
  ASSUME WalkInv, FetchInv, HeldInv, Join
  PROVE  /\ HeldInv'
         /\ \A f \in 1..Len(stack) :
              /\ f # Len(stack) => fetchers'[f] = fetchers[f]
              /\ fetchers'[f].next = fetchers[f].next /\ fetchers'[f].rounds = fetchers[f].rounds
              /\ HeldBy(f)' \subseteq HeldBy(f)
              /\ DOMAIN fetchers[f].cache \subseteq DOMAIN fetchers'[f].cache
              /\ (\A k \in DOMAIN workers : workers[k].status # "skipped") => HeldBy(f)' = HeldBy(f)
<1>1. UNCHANGED walkVars /\ workers' = <<>> /\ ~Joined /\ ~Done /\ AllDone
  BY DEF Join, FetchInv, WindowAwaited, WalkInv, FramesInv
<1> DEFINE top == Len(stack)
           got == {k \in DOMAIN workers : workers[k].status = "returned"}
           old == Fetcher.cache
           new == [k \in got \cup DOMAIN old |-> IF k \in got THEN workers[k].obj ELSE old[k]]
           g   == [Fetcher EXCEPT !.cache = new]
<1>2. FetcherOK(Fetcher) /\ top \in DOMAIN fetchers /\ DOMAIN fetchers = 1..Len(stack)
  BY <1>1, FetcherAtHand DEF FetchInv, FetchersOK
<1>3. fetchers' = [fetchers EXCEPT ![top] = g]
  BY <1>2 DEF Join, Fetcher
<1>4. DOMAIN new = got \cup DOMAIN old
  OBVIOUS
<1> HIDE DEF new
<1>5. g.next = Fetcher.next /\ g.rounds = Fetcher.rounds /\ g.cache = new
  BY <1>2 DEF FetcherOK
<1> HIDE DEF g
<1>6. /\ DOMAIN fetchers' = 1..Len(stack) /\ fetchers'[top] = g
      /\ \A f \in 1..Len(stack) : f # top => fetchers'[f] = fetchers[f]
  BY <1>2, <1>3
<1>7. IsFiniteSet(DOMAIN new)
  <2>1. IsFiniteSet(DOMAIN old) /\ IsFiniteSet(DOMAIN workers)
    BY <1>1, <1>2 DEF HeldInv, Fetcher
  <2>2. IsFiniteSet(got)
    BY <2>1, FS_Subset
  <2> QED BY <1>4, <2>1, <2>2, FS_Union, ZenonT(40)
<1>8. DOMAIN workers' = {} /\ stack' = stack /\ pending' = pending
  BY <1>1 DEF walkVars
<1>9. ASSUME NEW f \in 1..Len(stack)
      PROVE  /\ f # Len(stack) => fetchers'[f] = fetchers[f]
             /\ fetchers'[f].next = fetchers[f].next /\ fetchers'[f].rounds = fetchers[f].rounds
             /\ HeldBy(f)' \subseteq HeldBy(f)
             /\ DOMAIN fetchers[f].cache \subseteq DOMAIN fetchers'[f].cache
             /\ (\A k \in DOMAIN workers : workers[k].status # "skipped") => HeldBy(f)' = HeldBy(f)
             /\ IsFiniteSet(DOMAIN fetchers'[f].cache)
  <2>1. CASE f = top
    <3>1. fetchers'[f] = g /\ DOMAIN fetchers[f].cache = DOMAIN old /\ fetchers[f] = Fetcher
      BY <1>6, <2>1 DEF Fetcher
    <3>2. HeldBy(f)' = got \cup DOMAIN old /\ HeldBy(f) = DOMAIN old \cup DOMAIN workers
      BY <1>4, <1>5, <1>8, <2>1, <3>1 DEF HeldBy
    <3>3. (\A k \in DOMAIN workers : workers[k].status # "skipped") => got = DOMAIN workers
      BY <1>1 DEF AllDone
    <3> QED BY <1>4, <1>5, <1>7, <2>1, <3>1, <3>2, <3>3
  <2>2. CASE f # top
    <3>1. fetchers'[f] = fetchers[f]
      BY <1>6, <2>2
    <3>2. HeldBy(f)' = HeldBy(f)
      BY <1>8, <2>2, <3>1 DEF HeldBy
    <3> QED BY <2>2, <3>1, <3>2 DEF HeldInv
  <2> QED BY <2>1, <2>2
<1>10. ASSUME NEW f \in 1..Len(stack)
       PROVE  /\ FollowedUpTo(stack[f].node, stack[f].i - 1)'
              /\ fetchers'[f].next <= Len(RefsAt(f)') + 1
              /\ IsFiniteSet(DOMAIN fetchers'[f].cache)
              /\ \A k \in HeldBy(f)' : FromRefs(f, k)'
  <2>1. FollowedUpTo(stack[f].node, stack[f].i - 1)'
    BY <1>1, <1>8, RefsKept DEF HeldInv, FollowedUpTo, Followed, walkVars
  <2>2. fetchers'[f].next <= Len(RefsAt(f)') + 1
    BY <1>1, <1>9, RefsKept DEF HeldInv
  <2>3. \A k \in HeldBy(f)' : FromRefs(f, k)'
    <3>1. \A k : FromRefs(f, k) => FromRefs(f, k)'
      BY <1>1, <1>9, RefsKept DEF FromRefs, Seen
    <3> QED BY <1>9, <3>1 DEF HeldInv
  <2> QED BY <1>9, <2>1, <2>2, <2>3
<1>11. pending' # NoKey => ToFetch(Len(stack), Top.i)' /\ pending' = KeyAt(Len(stack), Top.i)'
  BY <1>1 DEF HeldInv, ToFetch, KeyAt, Means, RefsAt, NsAt, Top, walkVars
<1>12. HeldInv'
  BY <1>8, <1>10, <1>11 DEF HeldInv, Joined
<1> QED BY <1>9, <1>12

\* HeldInv is inductive.
LEMMA HeldStep ==
  ASSUME WalkInv, FetchInv, HeldInv, [Next]_vars
  PROVE  HeldInv'
<1>1. CASE Loop \/ ServeCached \/ DirectGet
  BY <1>1, LoopHeld DEF LoopMove
<1>2. CASE OpenWindow
  BY <1>2, OpenHeld
<1>3. CASE WorkerStep
  <2>1. UNCHANGED walkVars /\ fetchers' = fetchers /\ DOMAIN workers' = DOMAIN workers
    BY <1>3 DEF WorkerStep, WorkerSkip, WorkerStart, WorkerReturn
  <2> QED BY <2>1, WorkHeld
<1>4. CASE Join
  BY <1>4, JoinHeld
<1>5. CASE CancelCtx
  <2>1. UNCHANGED <<cluster, nodes, stack, visited, capped, pending, fetchers, workers>>
    BY <1>5 DEF CancelCtx, Cancel
  <2>2. /\ \A f : HeldBy(f)' = HeldBy(f) /\ RefsAt(f)' = RefsAt(f)
        /\ \A f, k : FromRefs(f, k)' = FromRefs(f, k)
        /\ \A n, l : FollowedUpTo(n, l)' = FollowedUpTo(n, l)
        /\ ToFetch(Len(stack), Top.i)' = ToFetch(Len(stack), Top.i)
        /\ KeyAt(Len(stack), Top.i)' = KeyAt(Len(stack), Top.i)
        /\ Joined' = Joined /\ Top' = Top /\ Fetcher' = Fetcher
    BY <2>1 DEF HeldBy, RefsAt, FromRefs, Seen, FollowedUpTo, Followed, ToFetch, KeyAt, Means,
                NsAt, Top, Joined, Fetcher
  <2>3. \A f \in 1..Len(stack) : FollowedUpTo(stack[f].node, stack[f].i - 1)'
    BY <2>1 DEF HeldInv, FollowedUpTo, Followed
  <2> QED BY <2>1, <2>2, <2>3 DEF HeldInv
<1>6. CASE UNCHANGED vars
  <2>1. UNCHANGED walkVars /\ fetchers' = fetchers /\ DOMAIN workers' = DOMAIN workers
    BY <1>6 DEF vars, walkVars
  <2> QED BY <2>1, WorkHeld
<1> QED BY <1>1, <1>2, <1>3, <1>4, <1>5, <1>6 DEF Next, WalkStep

-----------------------------------------------------------------------------
(* NewInv is inductive.                                                    *)

\* With a stable Resolve, a ref that was followed has an identity reached.
LEMMA StableFollowed ==
  ASSUME Stable, NEW V, NEW f, NEW j, ~Malformed(RefsAt(f)[j]),
         FollowedIn(V, nodes[stack[f].node], RefsAt(f)[j])
  PROVE  IdAt(f, j) \in V
<1>1. cluster.flaky = {}
  BY DEF Stable
<1>2. PICK t \in Resolutions(cluster, RefsAt(f)[j]) : IdentityKey(t, RefsAt(f)[j], NsAt(f)) \in V
  BY DEF FollowedIn, NsAt
<1>3. t = Means(f, j)
  BY <1>1, <1>2 DEF Resolutions, Means
<1> QED BY <1>2, <1>3 DEF IdAt

\* The refs before the loop index are reached.
LEMMA BehindReached ==
  ASSUME Stable, HeldInv, NEW f \in 1..Len(stack), NEW j \in 1..(stack[f].i - 1),
         ~Malformed(RefsAt(f)[j])
  PROVE  IdAt(f, j) \in visited
<1>1. FollowedIn(visited, nodes[stack[f].node], RefsAt(f)[j])
  BY DEF HeldInv, FollowedUpTo, Followed, FollowedIn, RefsAt
<1> QED BY <1>1, StableFollowed

\* When the loop is past all that the windows considered, all that is held was
\* reached.
LEMMA HeldReached ==
  ASSUME Stable, HeldInv, NEW f \in 1..Len(stack), stack[f].i \in Nat, fetchers[f].next \in Nat,
         fetchers[f].next <= stack[f].i, NEW k \in HeldBy(f)
  PROVE  KeyIdentity(k) \in visited
<1>1. PICK j \in Seen(f) : ToFetch(f, j) /\ k = KeyAt(f, j)
  BY DEF HeldInv, FromRefs
<1>2. j \in 1..(stack[f].i - 1)
  BY <1>1 DEF Seen
<1>3. IdAt(f, j) \in visited
  BY <1>1, <1>2, BehindReached DEF ToFetch
<1> QED BY <1>1, <1>3, KeyIdentityAt

\* A fetcher's waste shrinks as the walk reaches more.
LEMMA WasteShrinks ==
  ASSUME NEW C, IsFiniteSet(C), NEW V, NEW U, V \subseteq U,
         LET waste == {k \in C : KeyIdentity(k) \notin V}
         IN  waste = {} \/ Cardinality(waste) < WalkConcurrency
  PROVE  LET waste == {k \in C : KeyIdentity(k) \notin U}
         IN  waste = {} \/ Cardinality(waste) < WalkConcurrency
<1> DEFINE v == {k \in C : KeyIdentity(k) \notin V}
           u == {k \in C : KeyIdentity(k) \notin U}
<1>1. v \in SUBSET C /\ u \in SUBSET v
  OBVIOUS
<1>2. v = {} \/ Cardinality(v) < WalkConcurrency
  OBVIOUS
<1> HIDE DEF u, v
<1>3. IsFiniteSet(v) /\ Cardinality(v) \in Nat
  BY <1>1, FS_Subset, FS_CardinalityType
<1>4. IsFiniteSet(u) /\ Cardinality(u) \in Nat /\ Cardinality(u) <= Cardinality(v)
  BY <1>1, <1>3, FS_Subset, FS_CardinalityType
<1>5. u = {} \/ Cardinality(u) < WalkConcurrency
  BY <1>1, <1>2, <1>3, <1>4, ConcurrencyAssumption
<1> QED BY <1>5 DEF u

\* The loop passes only refs whose identity it reached, and asks for what is
\* held when a window considered it.
LEMMA LoopNew ==
  ASSUME WalkInv, FetchInv, HeldInv, NewInv, LoopMove
  PROVE  NewInv'
<1> SUFFICES ASSUME Stable' PROVE
      /\ \A f \in 1..Len(stack') :
           /\ \A k, l \in HeldBy(f)' : KeyIdentity(k) = KeyIdentity(l) => k = l
           /\ \A j \in Seen(f)' : j >= stack'[f].i => HeldAhead(f, j)'
      /\ pending' # NoKey /\ pending' \notin HeldBy(Len(stack))' =>
           \A k \in HeldBy(Len(stack))' : KeyIdentity(k) # KeyIdentity(pending')
      /\ Joined'
      /\ BoundedWaste'
  BY DEF NewInv
<1>1. (LoopStep \/ Fetched) /\ Joined /\ Joined' /\ DOMAIN workers = {} /\ DOMAIN workers' = {}
  BY FetchersMove DEF Joined
<1>2. /\ cluster' = cluster /\ cancelled' = cancelled /\ visited \subseteq visited' /\ ~Done
      /\ Len(stack) \in Nat \ {0} /\ Len(stack') \in Nat /\ Len(stack') <= Len(stack) + 1
  BY <1>1, FramesMove
<1>3. Stable
  BY <1>2 DEF Stable
<1>4. ASSUME NEW f \in 1..Len(stack'), f <= Len(stack)
      PROVE  /\ f \in 1..Len(stack) /\ HeldBy(f)' = HeldBy(f) /\ Seen(f)' = Seen(f)
             /\ fetchers'[f].cache = fetchers[f].cache
             /\ \A j \in Seen(f)' : j >= stack'[f].i => HeldAhead(f, j)'
  <2>1. f \in 1..Len(stack) /\ stack[f].i \in Nat \ {0}
    BY <1>2, <1>4, StackOfAdvance DEF WalkInv
  <2>2. /\ stack'[f].node = stack[f].node /\ nodes'[stack[f].node] = nodes[stack[f].node]
        /\ \/ stack'[f].i = stack[f].i
           \/ /\ stack'[f].i = stack[f].i + 1
              /\ FollowedIn(visited', nodes[stack[f].node], RefsAt(f)[stack[f].i])
    BY <1>1, <1>4, FramesMove
  <2>3. fetchers'[f].next = fetchers[f].next /\ fetchers'[f].cache = fetchers[f].cache
    BY <1>4, FetchersMove
  <2>4. /\ RefsAt(f)' = RefsAt(f)
        /\ \A j : /\ IdAt(f, j)' = IdAt(f, j) /\ KeyAt(f, j)' = KeyAt(f, j)
                  /\ ToFetch(f, j)' = ToFetch(f, j)
    BY <1>2, <2>2, FrameKept
  <2>5. HeldBy(f)' = HeldBy(f) /\ Seen(f)' = Seen(f)
    BY <1>1, <2>3 DEF HeldBy, Seen
  <2>6. ASSUME NEW j \in Seen(f), j >= stack'[f].i, ToFetch(f, j), IdAt(f, j) \notin visited'
        PROVE  \E m \in stack'[f].i..j :
                 /\ ~Malformed(RefsAt(f)[m]) /\ IdAt(f, m) = IdAt(f, j)
                 /\ ToFetch(f, m) => KeyAt(f, m) \in HeldBy(f)
    <3>1. j \in Int /\ j >= stack[f].i /\ IdAt(f, j) \notin visited
      <4>1. fetchers[f].next \in Nat
        BY <2>1 DEF FetchInv, FetchersOK
      <4> QED BY <1>2, <2>1, <2>2, <2>6, <4>1 DEF Seen
    <3>2. PICK m \in stack[f].i..j :
            /\ ~Malformed(RefsAt(f)[m]) /\ IdAt(f, m) = IdAt(f, j)
            /\ ToFetch(f, m) => KeyAt(f, m) \in HeldBy(f)
      BY <1>3, <2>1, <2>6, <3>1 DEF NewInv, HeldAhead
    <3>3. m \in stack'[f].i..j
      <4>1. CASE stack'[f].i = stack[f].i
        BY <3>2, <4>1
      <4>2. CASE /\ stack'[f].i = stack[f].i + 1
                 /\ FollowedIn(visited', nodes[stack[f].node], RefsAt(f)[stack[f].i])
        <5>1. m # stack[f].i
          BY <1>3, <2>6, <3>2, <4>2, StableFollowed
        <5> QED BY <2>1, <3>1, <3>2, <4>2, <5>1
      <4> QED BY <2>2, <4>1, <4>2
    <3> QED BY <3>2, <3>3
  <2>7. \A j \in Seen(f)' : j >= stack'[f].i => HeldAhead(f, j)'
    BY <2>4, <2>5, <2>6 DEF HeldAhead
  <2> QED BY <2>1, <2>3, <2>5, <2>7
<1>5. ASSUME NEW f \in 1..Len(stack'), ~(f <= Len(stack))
      PROVE  HeldBy(f)' = {} /\ Seen(f)' = {} /\ DOMAIN fetchers'[f].cache = {}
  <2>1. f = Len(stack') /\ Len(stack') = Len(stack) + 1
    BY <1>2, <1>5
  <2>2. fetchers'[f] = NewFetcher
    BY <2>1, FetchersMove
  <2>3. fetchers'[f].next = 1 /\ DOMAIN fetchers'[f].cache = {}
    BY <2>2 DEF NewFetcher
  <2> QED BY <1>1, <2>3 DEF HeldBy, Seen
<1>6. ASSUME NEW f \in 1..Len(stack')
      PROVE  /\ \A k, l \in HeldBy(f)' : KeyIdentity(k) = KeyIdentity(l) => k = l
             /\ \A j \in Seen(f)' : j >= stack'[f].i => HeldAhead(f, j)'
  <2>1. CASE f <= Len(stack)
    BY <1>3, <1>4, <2>1 DEF NewInv
  <2>2. CASE ~(f <= Len(stack))
    BY <1>5, <2>2
  <2> QED BY <2>1, <2>2
<1>7. pending' # NoKey /\ pending' \notin HeldBy(Len(stack))' =>
        \A k \in HeldBy(Len(stack))' : KeyIdentity(k) # KeyIdentity(pending')
  <2> SUFFICES ASSUME pending' # NoKey, pending' \notin HeldBy(Len(stack))',
                      NEW k \in HeldBy(Len(stack))'
               PROVE  KeyIdentity(k) # KeyIdentity(pending')
    OBVIOUS
  <2>1. PICK top : top = Len(stack)
    OBVIOUS
  <2>2. /\ stack' = stack /\ ToFetch(top, Top.i) /\ pending' = KeyAt(top, Top.i)
        /\ IdAt(top, Top.i) \notin visited
    BY <1>1, <2>1, PendingMove
  <2>3. top \in 1..Len(stack') /\ top <= Len(stack) /\ top = Len(stack') /\ Top = stack[top]
    BY <1>2, <2>1, <2>2 DEF Top
  <2>4. HeldBy(top)' = HeldBy(top) /\ top \in 1..Len(stack)
    BY <1>4, <2>3
  <2>5. k \in HeldBy(top) /\ pending' \notin HeldBy(top)
    BY <2>3, <2>4
  <2>6. stack[top].i \in Nat \ {0} /\ fetchers[top].next \in Nat
    BY <1>2, <2>4, StackOfAdvance DEF WalkInv, FetchInv, FetchersOK
  <2>7. CASE fetchers[top].next <= stack[top].i
    <3>1. KeyIdentity(k) \in visited
      BY <1>3, <2>4, <2>5, <2>6, <2>7, HeldReached
    <3> QED BY <2>2, <3>1, KeyIdentityAt
  <2>8. CASE ~(fetchers[top].next <= stack[top].i)
    <3>1. stack[top].i \in Seen(top)
      BY <2>6, <2>8 DEF Seen
    <3>2. HeldAhead(top, stack[top].i)
      BY <1>3, <2>4, <2>6, <3>1 DEF NewInv
    <3>3. \A m \in stack[top].i..stack[top].i : m = stack[top].i
      BY <2>6
    <3>4. KeyAt(top, stack[top].i) \in HeldBy(top)
      BY <2>2, <2>3, <3>2, <3>3 DEF HeldAhead
    <3> QED BY <2>2, <2>3, <2>5, <3>4
  <2> QED BY <2>7, <2>8
<1>8. BoundedWaste'
  <2> SUFFICES ASSUME NEW f \in 1..Len(stack')
               PROVE  LET waste == {k \in DOMAIN fetchers'[f].cache : KeyIdentity(k) \notin visited'}
                      IN  waste = {} \/ Cardinality(waste) < WalkConcurrency
    BY DEF BoundedWaste
  <2>1. CASE f <= Len(stack)
    <3>1. fetchers'[f].cache = fetchers[f].cache /\ f \in 1..Len(stack)
      BY <1>4, <2>1
    <3>2. IsFiniteSet(DOMAIN fetchers[f].cache)
      BY <3>1 DEF HeldInv
    <3>3. LET waste == {k \in DOMAIN fetchers[f].cache : KeyIdentity(k) \notin visited}
          IN  waste = {} \/ Cardinality(waste) < WalkConcurrency
      BY <1>3, <3>1 DEF NewInv, BoundedWaste
    <3> QED BY <1>2, <3>1, <3>2, <3>3, WasteShrinks
  <2>2. CASE ~(f <= Len(stack))
    BY <1>5, <2>2
  <2> QED BY <2>1, <2>2
<1> QED BY <1>1, <1>6, <1>7, <1>8

\* Of the refs with an identity that is not reached, the first after the
\* current one is fetched by a window that considers it.
LEMMA ConsideredIsFetched ==
  ASSUME WalkInv, WindowDue, Stable, NEW T, WindowOf(T), NEW j \in Considered(T),
         ~Malformed(RefsAt(Len(stack))[j]), IdAt(Len(stack), j) \notin visited
  PROVE  \E m \in (Top.i + 1)..j :
           /\ ~Malformed(RefsAt(Len(stack))[m]) /\ IdAt(Len(stack), m) = IdAt(Len(stack), j)
           /\ m \in SurvivorsBefore(WindowEnd(T), T)
           /\ ToFetch(Len(stack), m) => m \in Fetches(T)
<1> DEFINE top == Len(stack)
           e == WindowEnd(T)
           S == {m \in (Top.i + 1)..j : ~Malformed(RefsAt(top)[m]) /\ IdAt(top, m) = IdAt(top, j)}
<1>1. Top.i \in Nat \ {0} /\ Len(Refs) \in Nat
  BY RefAtHand DEF WalkInv, WindowDue, FramesInv
<1>2. e \in (Top.i + 1)..(Len(Refs) + 1) /\ Considered(T) = (Top.i + 1)..(e - 1)
  BY WindowRuns DEF WindowOf
<1>3. j \in (Top.i + 1)..(e - 1)
  BY <1>2
<1> HIDE DEF e
<1>4. j \in S /\ S \subseteq Nat
  BY <1>1, <1>2, <1>3
<1> HIDE DEF S
<1>5. PICK m \in S : \A n \in S : ~(n < m)
  <2>1. PICK x \in S : \A n \in S : <<n, x>> \notin OpToRel(<, Nat)
    BY <1>4, NatLessThanWellFounded, WFMin
  <2> QED BY <1>4, <2>1 DEF OpToRel
<1>6. m \in (Top.i + 1)..j /\ ~Malformed(RefsAt(top)[m]) /\ IdAt(top, m) = IdAt(top, j)
  BY <1>5 DEF S
<1>7. RefsAt(top) = Refs /\ NsAt(top) = ParentNs
  BY DEF RefsAt, NsAt, Refs, ParentNs, Parent, Top
<1>8. \A n \in (Top.i + 1)..(e - 1) : /\ T[n] = Resolved(cluster, Refs[n])
                                      /\ IdentityKey(T[n], Refs[n], ParentNs) = IdAt(top, n)
  <2>1. cluster.flaky = {}
    BY DEF Stable
  <2>2. \A n \in (Top.i + 1)..(e - 1) : n \in DOMAIN T
    BY <1>1, <1>2 DEF WindowOf
  <2>3. \A n \in (Top.i + 1)..(e - 1) : T[n] = Resolved(cluster, Refs[n])
    BY <2>1, <2>2 DEF WindowOf
  <2> QED BY <1>7, <2>3 DEF IdAt, Means
<1>9. m \in (Top.i + 1)..(e - 1)
  BY <1>1, <1>2, <1>3, <1>6
<1>10. Survives(m, T)
  <2>1. ~Malformed(Refs[m]) /\ IdentityKey(T[m], Refs[m], ParentNs) \notin visited
    BY <1>6, <1>7, <1>8, <1>9
  <2>2. ASSUME NEW n \in (Top.i + 1)..(m - 1), ~Malformed(Refs[n])
        PROVE  IdentityKey(T[n], Refs[n], ParentNs) # IdentityKey(T[m], Refs[m], ParentNs)
    <3>1. n \in (Top.i + 1)..(e - 1) /\ n \in (Top.i + 1)..j /\ n < m
      BY <1>1, <1>2, <1>3, <1>6, <2>2
    <3>2. n \notin S
      BY <1>5, <3>1
    <3>3. IdAt(top, n) # IdAt(top, m)
      BY <1>6, <1>7, <2>2, <3>1, <3>2 DEF S
    <3> QED BY <1>8, <1>9, <3>1, <3>3
  <2> QED BY <2>1, <2>2 DEF Survives
<1>11. m \in SurvivorsBefore(e, T)
  BY <1>9, <1>10 DEF SurvivorsBefore
<1>12. ToFetch(top, m) => m \in Fetches(T)
  BY <1>2, <1>7, <1>8, <1>9, <1>10 DEF ToFetch, Means, Fetches
<1> QED BY <1>6, <1>11, <1>12 DEF e

\* The identity of the awaited child is reached.
LEMMA PendingReached ==
  ASSUME WalkInv, pending # NoKey
  PROVE  KeyIdentity(pending) \in visited
BY DEF WalkInv, VisitedIsBuilt

\* A window fetches what is new and what it needs.
LEMMA OpenNew ==
  ASSUME WalkInv, FetchInv, HeldInv, NewInv, OpenWindow
  PROVE  NewInv'
<1>1. PICK T : Opened(T)
  BY WindowOpened
<1>2. PICK top : top = Len(stack)
  OBVIOUS
<1> DEFINE e == WindowEnd(T)
<1>3. /\ WindowDue /\ WindowOf(T) /\ UNCHANGED walkVars /\ ~Done /\ Joined /\ pending # NoKey
      /\ stack' = stack /\ pending' = pending /\ visited' = visited
  BY <1>1 DEF OpenWindow, Opened, WindowDue, WalkInv, FramesInv, walkVars
<1> SUFFICES ASSUME Stable' PROVE
      /\ \A f \in 1..Len(stack) :
           /\ \A k, l \in HeldBy(f)' : KeyIdentity(k) = KeyIdentity(l) => k = l
           /\ \A j \in Seen(f)' : j >= stack[f].i => HeldAhead(f, j)'
      /\ pending \notin HeldBy(Len(stack))' =>
           \A k \in HeldBy(Len(stack))' : KeyIdentity(k) # KeyIdentity(pending)
      /\ ~Joined' => /\ \A k \in DOMAIN Fetcher'.cache : KeyIdentity(k) \in visited /\ k # pending
                     /\ \A k \in DOMAIN workers' : /\ workers'[k].status # "skipped"
                                                   /\ k # pending => KeyIdentity(k) \notin visited
      /\ BoundedWaste'
  BY <1>3 DEF NewInv
<1>4. Stable
  BY <1>3, RefsKept
<1>5. top \in 1..Len(stack) /\ Top = stack[top] /\ Fetcher = fetchers[top] /\ Top.i \in Nat \ {0} /\ Len(Refs) \in Nat
  BY <1>2, <1>3, StackOfAdvance, RefAtHand DEF WalkInv, WindowDue, FramesInv, Top, Fetcher
<1>6. fetchers[top].next \in Nat \ {0} /\ fetchers[top].next <= stack[top].i
  BY <1>3, <1>5, FetcherAtHand DEF WindowDue, FetcherOK
<1>7. /\ fetchers'[top].next = e /\ fetchers'[top].cache = fetchers[top].cache
      /\ \A f \in 1..Len(stack) : f # top => fetchers'[f] = fetchers[f]
      /\ DOMAIN workers' = IF Worthwhile(T) THEN WindowKeys(T) ELSE {}
      /\ \A k \in DOMAIN workers' : workers'[k].status = "spawned"
  BY <1>1, <1>2, <1>5 DEF Opened
<1>8. HeldBy(top) = DOMAIN fetchers[top].cache /\ HeldBy(top)' = DOMAIN fetchers[top].cache \cup DOMAIN workers'
  BY <1>2, <1>3, <1>7 DEF HeldBy, Joined
<1>9. pending \notin HeldBy(top)
  BY <1>3, <1>5, <1>8 DEF WindowDue, CacheHit, CachedFor
<1>10. \A k \in HeldBy(top) : KeyIdentity(k) \in visited /\ KeyIdentity(k) # KeyIdentity(pending)
  <2>1. \A k \in HeldBy(top) : KeyIdentity(k) \in visited
    BY <1>4, <1>5, <1>6, HeldReached
  <2>2. \A k \in HeldBy(top) : KeyIdentity(k) # KeyIdentity(pending)
    BY <1>2, <1>3, <1>4, <1>9 DEF NewInv
  <2> QED BY <2>1, <2>2
<1>11. KeyIdentity(pending) \in visited
  BY <1>3, PendingReached
<1>12. /\ WindowKeys(T) = {pending} \cup {KeyAt(top, m) : m \in Fetches(T)}
       /\ \A m \in Fetches(T) :
            /\ m \in (Top.i + 1)..(e - 1)
            /\ ToFetch(top, m) /\ KeyIdentity(KeyAt(top, m)) = IdAt(top, m)
            /\ IdAt(top, m) \notin visited
       /\ \A m, n \in Fetches(T) : IdAt(top, m) = IdAt(top, n) => m = n
  BY <1>2, <1>3, WindowFetches
<1>13. e \in (Top.i + 1)..(Len(Refs) + 1) /\ Considered(T) = (Top.i + 1)..(e - 1)
  BY <1>3, WindowRuns DEF WindowOf
<1> HIDE DEF e
<1>14. \A f \in 1..Len(stack) : f # top => HeldBy(f)' = HeldBy(f) /\ Seen(f)' = Seen(f)
  BY <1>2, <1>3, <1>7 DEF HeldBy, Seen
<1>15. \A k, l \in HeldBy(top)' : KeyIdentity(k) = KeyIdentity(l) => k = l
  <2>1. \A k, l \in WindowKeys(T) : KeyIdentity(k) = KeyIdentity(l) => k = l
    BY <1>11, <1>12
  <2>2. \A k \in HeldBy(top), l \in WindowKeys(T) : KeyIdentity(k) # KeyIdentity(l)
    BY <1>10, <1>12
  <2>3. \A k, l \in HeldBy(top) : KeyIdentity(k) = KeyIdentity(l) => k = l
    BY <1>4, <1>5 DEF NewInv
  <2> QED BY <1>7, <1>8, <2>1, <2>2, <2>3
<1>16. ASSUME NEW j \in Seen(top)', j >= stack[top].i, ToFetch(top, j), IdAt(top, j) \notin visited
       PROVE  \E m \in stack[top].i..j :
                /\ ~Malformed(RefsAt(top)[m]) /\ IdAt(top, m) = IdAt(top, j)
                /\ ToFetch(top, m) => KeyAt(top, m) \in HeldBy(top)'
  <2>1. j \in 1..(e - 1) /\ j # Top.i
    <3>1. j \in 1..(e - 1)
      BY <1>3, <1>7 DEF Seen
    <3>2. KeyIdentity(pending) = IdAt(top, Top.i)
      BY <1>2, <1>3, KeyIdentityAt DEF HeldInv
    <3> QED BY <1>11, <1>16, <3>1, <3>2
  <2>2. j \in Considered(T)
    BY <1>5, <1>13, <1>16, <2>1
  <2>3. PICK m \in (Top.i + 1)..j :
          /\ ~Malformed(RefsAt(top)[m]) /\ IdAt(top, m) = IdAt(top, j)
          /\ ToFetch(top, m) => m \in Fetches(T)
    BY <1>2, <1>3, <1>4, <1>16, <2>2, ConsideredIsFetched DEF ToFetch
  <2>4. m \in stack[top].i..j
    BY <1>5, <2>1, <2>3
  <2>5. ASSUME ToFetch(top, m) PROVE KeyAt(top, m) \in HeldBy(top)'
    <3>1. m \in Fetches(T) /\ KeyAt(top, m) \in WindowKeys(T) /\ pending \in WindowKeys(T) /\ KeyAt(top, m) # pending
      BY <1>11, <1>12, <2>3, <2>5
    <3>2. Worthwhile(T)
      <4>1. IsFiniteSet(WindowKeys(T)) /\ Cardinality(WindowKeys(T)) \in Nat
        BY <1>3, WindowFetches
      <4>2. Cardinality(WindowKeys(T)) # 0 /\ Cardinality(WindowKeys(T)) # 1
        BY <3>1, <4>1, FS_EmptySet, FS_Singleton
      <4> QED BY <4>1, <4>2 DEF Worthwhile
    <3> QED BY <1>7, <1>8, <3>1, <3>2
  <2> QED BY <2>3, <2>4, <2>5
<1>17. ASSUME NEW f \in 1..Len(stack)
       PROVE  /\ \A k, l \in HeldBy(f)' : KeyIdentity(k) = KeyIdentity(l) => k = l
              /\ \A j \in Seen(f)' : j >= stack[f].i => HeldAhead(f, j)'
  <2>1. /\ RefsAt(f)' = RefsAt(f)
        /\ \A j : /\ IdAt(f, j)' = IdAt(f, j) /\ KeyAt(f, j)' = KeyAt(f, j)
                  /\ ToFetch(f, j)' = ToFetch(f, j)
    BY <1>3, RefsKept
  <2>2. CASE f = top
    BY <1>3, <1>15, <1>16, <2>1, <2>2 DEF HeldAhead
  <2>3. CASE f # top
    <3>1. HeldBy(f)' = HeldBy(f) /\ Seen(f)' = Seen(f)
      BY <1>14, <2>3
    <3>2. \A j \in Seen(f) : j >= stack[f].i => HeldAhead(f, j)
      BY <1>4 DEF NewInv
    <3>3. \A j : HeldAhead(f, j) => HeldAhead(f, j)'
      BY <1>3, <2>1, <3>1 DEF HeldAhead
    <3>4. \A k, l \in HeldBy(f) : KeyIdentity(k) = KeyIdentity(l) => k = l
      BY <1>4 DEF NewInv
    <3> QED BY <3>1, <3>2, <3>3, <3>4
  <2> QED BY <2>2, <2>3
<1>18. pending \notin HeldBy(Len(stack))' =>
         \A k \in HeldBy(Len(stack))' : KeyIdentity(k) # KeyIdentity(pending)
  <2>1. HeldBy(Len(stack))' = HeldBy(top)'
    BY <1>2, <1>3
  <2>2. pending \in WindowKeys(T)
    BY <1>12
  <2> QED BY <1>7, <1>8, <1>10, <2>1, <2>2
<1>19. ~Joined' => /\ \A k \in DOMAIN Fetcher'.cache : KeyIdentity(k) \in visited /\ k # pending
                   /\ \A k \in DOMAIN workers' : /\ workers'[k].status # "skipped"
                                                 /\ k # pending => KeyIdentity(k) \notin visited
  <2>1. DOMAIN Fetcher'.cache = HeldBy(top)
    BY <1>2, <1>3, <1>7, <1>8 DEF Fetcher
  <2>2. DOMAIN workers' \subseteq WindowKeys(T)
    BY <1>7
  <2> QED BY <1>7, <1>9, <1>10, <1>12, <2>1, <2>2
<1>20. BoundedWaste'
  <2>1. \A f \in 1..Len(stack) : fetchers'[f].cache = fetchers[f].cache
    BY <1>7
  <2> QED BY <1>3, <1>4, <2>1 DEF NewInv, BoundedWaste
<1> QED BY <1>17, <1>18, <1>19, <1>20

\* The goroutines do not give up while the context is alive.
LEMMA WorkNew ==
  ASSUME FetchInv, HeldInv, NewInv, WorkerStep \/ UNCHANGED vars
  PROVE  NewInv'
<1>1. UNCHANGED walkVars /\ fetchers' = fetchers /\ DOMAIN workers' = DOMAIN workers
  BY DEF WorkerStep, WorkerSkip, WorkerStart, WorkerReturn, vars, walkVars
<1>2. Stable => \A k \in DOMAIN workers :
                  workers[k].status # "skipped" => workers'[k].status # "skipped"
  <2>1. CASE UNCHANGED vars
    BY <2>1 DEF vars
  <2>2. CASE WorkerStep
    <3>1. PICK c \in DOMAIN workers : WorkerSkip(c) \/ WorkerStart(c) \/ WorkerReturn(c)
      BY <2>2 DEF WorkerStep
    <3>2. workers[c] \in Worker
      BY DEF FetchInv, WorkersOK
    <3>3. CASE WorkerSkip(c)
      BY <3>3 DEF WorkerSkip, Stable
    <3>4. CASE WorkerStart(c)
      BY <3>2, <3>4 DEF WorkerStart, Worker
    <3>5. CASE WorkerReturn(c)
      <4>1. PICK obj : workers' = [workers EXCEPT ![c] = [status |-> "returned", obj |-> obj]]
        BY <3>5 DEF WorkerReturn
      <4> QED BY <4>1
    <3> QED BY <3>1, <3>3, <3>4, <3>5
  <2> QED BY <2>1, <2>2
<1>3. \A f : HeldBy(f)' = HeldBy(f) /\ Seen(f)' = Seen(f)
  BY <1>1 DEF HeldBy, Seen, walkVars
<1>4. \A f, j : HeldAhead(f, j)' = HeldAhead(f, j)
  BY <1>1, <1>3, RefsKept DEF HeldAhead, walkVars
<1>5. /\ BoundedWaste' = BoundedWaste /\ Stable' = Stable /\ Joined' = Joined /\ Fetcher' = Fetcher
      /\ stack' = stack /\ pending' = pending /\ visited' = visited
  BY <1>1, RefsKept DEF BoundedWaste, Joined, Fetcher, walkVars
<1> QED BY <1>1, <1>2, <1>3, <1>4, <1>5 DEF NewInv

\* What a window brings that is not reached is less than the concurrency.
LEMMA JoinNew ==
  ASSUME WalkInv, FetchInv, HeldInv, NewInv, Join
  PROVE  NewInv'
<1>1. UNCHANGED walkVars /\ DOMAIN workers' = {} /\ ~Joined /\ ~Done /\ pending # NoKey
  BY DEF Join, FetchInv, WindowAwaited, WalkInv, FramesInv
<1>2. /\ stack' = stack /\ pending' = pending /\ visited' = visited /\ Stable' = Stable /\ Joined'
  BY <1>1, RefsKept DEF walkVars, Joined
<1> SUFFICES ASSUME Stable PROVE
      /\ \A f \in 1..Len(stack) :
           /\ \A k, l \in HeldBy(f)' : KeyIdentity(k) = KeyIdentity(l) => k = l
           /\ \A j \in Seen(f)' : j >= stack[f].i => HeldAhead(f, j)'
      /\ pending \notin HeldBy(Len(stack))' =>
           \A k \in HeldBy(Len(stack))' : KeyIdentity(k) # KeyIdentity(pending)
      /\ BoundedWaste'
  BY <1>2 DEF NewInv
<1>3. \A k \in DOMAIN workers : workers[k].status # "skipped"
  BY <1>1 DEF NewInv
<1>4. \A f \in 1..Len(stack) : HeldBy(f)' = HeldBy(f) /\ Seen(f)' = Seen(f)
  BY <1>3, JoinHeld DEF Seen
<1>5. \A f \in 1..Len(stack) : \A j : HeldAhead(f, j)' = HeldAhead(f, j)
  BY <1>1, <1>2, <1>4, RefsKept DEF HeldAhead
<1>6. Len(stack) \in 1..Len(stack)
  BY <1>1, StackOfAdvance DEF WalkInv
<1>7. HeldBy(Len(stack))' = HeldBy(Len(stack))
  BY <1>2, <1>4, <1>6
<1>8. BoundedWaste'
  <2> SUFFICES ASSUME NEW f \in 1..Len(stack)
               PROVE  LET waste == {k \in DOMAIN fetchers'[f].cache : KeyIdentity(k) \notin visited}
                      IN  waste = {} \/ Cardinality(waste) < WalkConcurrency
    BY <1>2 DEF BoundedWaste
  <2>1. CASE f # Len(stack)
    <3>1. fetchers'[f] = fetchers[f]
      BY <2>1, JoinHeld
    <3> QED BY <3>1 DEF NewInv, BoundedWaste
  <2>2. CASE f = Len(stack)
    <3> DEFINE C == DOMAIN fetchers'[f].cache
               waste == {k \in C : KeyIdentity(k) \notin visited}
               W == DOMAIN workers
    <3>1. C \subseteq HeldBy(f)'
      BY DEF HeldBy
    <3>2. C \subseteq DOMAIN Fetcher.cache \cup W
      BY <1>4, <2>2, <3>1 DEF HeldBy, Fetcher
    <3>3. /\ \A k \in DOMAIN Fetcher.cache : KeyIdentity(k) \in visited
          /\ KeyIdentity(pending) \in visited
      BY <1>1, PendingReached DEF NewInv
    <3>4. waste \in SUBSET (W \ {pending})
      BY <3>2, <3>3
    <3>5. pending \in W /\ IsFiniteSet(W) /\ Cardinality(W) <= WalkConcurrency
      BY <1>1 DEF HeldInv
    <3> HIDE DEF waste, W
    <3>6. IsFiniteSet(W \ {pending}) /\ Cardinality(W \ {pending}) = Cardinality(W) - 1 /\ Cardinality(W) \in Nat
      BY <3>5, FS_RemoveElement, FS_CardinalityType
    <3>7. Cardinality(waste) <= Cardinality(W \ {pending}) /\ Cardinality(waste) \in Nat
      BY <3>4, <3>6, FS_Subset, FS_CardinalityType
    <3>8. Cardinality(waste) < WalkConcurrency
      BY <3>5, <3>6, <3>7, ConcurrencyAssumption
    <3> QED BY <3>8 DEF waste
  <2> QED BY <2>1, <2>2
<1>9. \A f \in 1..Len(stack) :
        /\ \A k, l \in HeldBy(f) : KeyIdentity(k) = KeyIdentity(l) => k = l
        /\ \A j \in Seen(f) : j >= stack[f].i => HeldAhead(f, j)
  BY DEF NewInv
<1>10. pending \notin HeldBy(Len(stack)) =>
         \A k \in HeldBy(Len(stack)) : KeyIdentity(k) # KeyIdentity(pending)
  BY <1>1 DEF NewInv
<1>11. \A f \in 1..Len(stack) :
         /\ \A k, l \in HeldBy(f)' : KeyIdentity(k) = KeyIdentity(l) => k = l
         /\ \A j \in Seen(f)' : j >= stack[f].i => HeldAhead(f, j)'
  BY <1>4, <1>5, <1>9
<1>12. pending \notin HeldBy(Len(stack))' =>
         \A k \in HeldBy(Len(stack))' : KeyIdentity(k) # KeyIdentity(pending)
  BY <1>7, <1>10
<1> QED BY <1>8, <1>11, <1>12

\* NewInv is inductive.
LEMMA NewStep ==
  ASSUME WalkInv, FetchInv, HeldInv, NewInv, [Next]_vars
  PROVE  NewInv'
<1>1. CASE CancelCtx
  <2>1. ~Stable'
    BY <1>1 DEF CancelCtx, Cancel, Stable
  <2> QED BY <2>1 DEF NewInv
<1> QED BY <1>1, LoopNew, OpenNew, WorkNew, JoinNew DEF LoopMove, Next, WalkStep

-----------------------------------------------------------------------------
(* RoundsInv is inductive.                                                 *)

\* visited counts the nodes and the child that is awaited.
LEMMA VisitedSize ==
  ASSUME WalkInv
  PROVE  /\ IsFiniteSet(visited) /\ Len(nodes) \in Nat
         /\ Cardinality(visited) = IF pending = NoKey THEN Len(nodes) ELSE Len(nodes) + 1
<1> DEFINE I == 1..Len(nodes)
           g == [n \in I |-> nodes[n].id]
           B == {g[n] : n \in I}
<1>1. Len(nodes) \in Nat /\ IsFiniteSet(I) /\ Cardinality(I) = Len(nodes)
  <2>1. Len(nodes) \in Nat
    BY DEF WalkInv, TypeOK
  <2>2. IsFiniteSet(1..Len(nodes)) /\ Cardinality(1..Len(nodes)) = IF 1 > Len(nodes) THEN 0 ELSE Len(nodes) - 1 + 1
    BY <2>1, FS_Interval
  <2> QED BY <2>1, <2>2
<1>2. /\ visited = B \cup (IF pending = NoKey THEN {} ELSE {KeyIdentity(pending)})
      /\ pending # NoKey => KeyIdentity(pending) \notin B
      /\ \A m, n \in I : g[m] = g[n] => m = n
  BY DEF WalkInv, VisitedIsBuilt, PendingInv, UniqueNodes
<1>3. IsFiniteSet(B) /\ Cardinality(B) = Len(nodes)
  <2>1. DOMAIN g = I /\ g = [x \in I |-> g[x]]
    OBVIOUS
  <2> HIDE DEF g, I
  <2> QED BY <1>1, <1>2, <2>1, ImageSize
<1> HIDE DEF B
<1>4. CASE pending = NoKey
  BY <1>1, <1>2, <1>3, <1>4
<1>5. CASE pending # NoKey
  <2>1. visited = B \cup {KeyIdentity(pending)}
    BY <1>2, <1>5
  <2>2. /\ IsFiniteSet(visited)
        /\ Cardinality(visited) = IF KeyIdentity(pending) \in B THEN Cardinality(B) ELSE Cardinality(B) + 1
    BY <1>3, <2>1, FS_AddElement
  <2> QED BY <1>1, <1>2, <1>3, <1>5, <2>2
<1> QED BY <1>4, <1>5

\* Finitely many refs name finitely many identities.
LEMMA IdentitiesFinite ==
  ASSUME NEW f, NEW S, IsFiniteSet(S)
  PROVE  IsFiniteSet(Identities(f, S))
<1> DEFINE U == {j \in S : ~Malformed(RefsAt(f)[j])}
           g == [j \in U |-> IdAt(f, j)]
<1>1. IsFiniteSet(U)
  BY FS_Subset
<1>2. DOMAIN g = U /\ g = [j \in U |-> g[j]] /\ Identities(f, S) = {g[j] : j \in U}
  BY DEF Identities
<1> HIDE DEF g, U
<1> QED BY <1>1, <1>2, ImageSize

\* A child that a ref stands for is fetchable, and there are finitely many.
LEMMA FetchableRefs ==
  ASSUME NEW f, Len(RefsAt(f)) \in Nat
  PROVE  /\ IsFiniteSet(Fetchable(nodes[stack[f].node]))
         /\ \A j \in 1..Len(RefsAt(f)) :
              ToFetch(f, j) => IdAt(f, j) \in Fetchable(nodes[stack[f].node])
<1> DEFINE n == nodes[stack[f].node]
           I == 1..Len(RefsAt(f))
           g == [j \in I |-> KeyIdentity(KeyAt(f, j))]
<1>1. RefsAt(f) = n.obj.refs /\ NsAt(f) = n.obj.id[2]
  BY DEF RefsAt, NsAt
<1>2. \A j \in I : ToFetch(f, j) => IdAt(f, j) \in Fetchable(n)
  <2> SUFFICES ASSUME NEW j \in I, ToFetch(f, j) PROVE IdAt(f, j) \in Fetchable(n)
    OBVIOUS
  <2> DEFINE r == RefsAt(f)[j]
             t == Means(f, j)
             childrenOf(q) == {KeyIdentity(GetKey(u, q, n.obj.id[2])) :
                                 u \in Resolutions(cluster, q) \ {Unresolved}}
             named == {n.obj.refs[m] : m \in 1..Len(n.obj.refs)}
             wellFormed == {q \in named : ~Malformed(q)}
  <2>1. ~Malformed(r) /\ t \in Resolutions(cluster, r) \ {Unresolved}
    BY DEF ToFetch, Means, Resolutions
  <2>2. IdAt(f, j) = KeyIdentity(GetKey(t, r, n.obj.id[2]))
    BY <1>1, KeyIdentityAt DEF KeyAt
  <2>3. r \in named
    BY <1>1
  <2>4. Fetchable(n) = UNION {childrenOf(q) : q \in wellFormed}
    BY DEF Fetchable
  <2> HIDE DEF r, t, n, named
  <2>5. r \in wellFormed
    BY <2>1, <2>3
  <2>6. IdAt(f, j) \in childrenOf(r)
    BY <2>1, <2>2
  <2> HIDE DEF childrenOf, wellFormed
  <2> QED BY <2>4, <2>5, <2>6
<1>3. Fetchable(n) \in SUBSET {g[j] : j \in I}
  <2> SUFFICES ASSUME NEW x \in Fetchable(n) PROVE x \in {g[j] : j \in I}
    OBVIOUS
  <2>1. PICK j \in I : \E t \in Resolutions(cluster, RefsAt(f)[j]) \ {Unresolved} :
                         x = KeyIdentity(GetKey(t, RefsAt(f)[j], NsAt(f)))
    BY <1>1 DEF Fetchable
  <2>2. x = KeyIdentity(KeyAt(f, j))
    BY <2>1 DEF Resolutions, KeyAt, Means
  <2> QED BY <2>2
<1>4. IsFiniteSet({g[j] : j \in I})
  <2>1. IsFiniteSet(I)
    <3>1. IsFiniteSet(1..Len(RefsAt(f)))
      BY FS_Interval
    <3> QED BY <3>1
  <2>2. DOMAIN g = I /\ g = [x \in I |-> g[x]]
    OBVIOUS
  <2> HIDE DEF g, I
  <2> QED BY <2>1, <2>2, ImageSize
<1> QED BY <1>2, <1>3, <1>4, FS_Subset

\* Keys of distinct identities are no more than the identities.
LEMMA DistinctFit ==
  ASSUME NEW S, IsFiniteSet(S), NEW F, IsFiniteSet(F),
         \A k \in S : KeyIdentity(k) \in F,
         \A k, l \in S : KeyIdentity(k) = KeyIdentity(l) => k = l
  PROVE  Cardinality(S) <= Cardinality(F) /\ Cardinality(S) \in Nat /\ Cardinality(F) \in Nat
<1> DEFINE g == [k \in S |-> KeyIdentity(k)]
           G == {g[k] : k \in S}
<1>1. DOMAIN g = S /\ g = [k \in S |-> g[k]]
  OBVIOUS
<1>2. G \in SUBSET F /\ \A k, l \in S : g[k] = g[l] => k = l
  OBVIOUS
<1>3. Cardinality(G) = Cardinality(S) /\ Cardinality(S) \in Nat
  <2> HIDE DEF g
  <2> QED BY <1>1, <1>2, ImageSize
<1> HIDE DEF G
<1> QED BY <1>2, <1>3, FS_Subset, FS_CardinalityType

\* What a fetcher holds, and the child it is asked for, are among the
\* fetchable children.
LEMMA HeldFits ==
  ASSUME WalkInv, FetchInv, HeldInv, NewInv, Stable, NEW f \in 1..Len(stack)
  PROVE  LET F == Fetchable(nodes[stack[f].node])
         IN  /\ IsFiniteSet(HeldBy(f)) /\ Cardinality(HeldBy(f)) \in Nat /\ Cardinality(F) \in Nat
             /\ Cardinality(HeldBy(f)) <= Cardinality(F)
             /\ f = Len(stack) /\ pending # NoKey /\ pending \notin HeldBy(f) =>
                  Cardinality(HeldBy(f)) + 1 <= Cardinality(F)
<1> DEFINE F == Fetchable(nodes[stack[f].node])
           H == HeldBy(f)
<1>1. Len(RefsAt(f)) \in Nat
  <2>1. stack[f].node \in 1..Len(nodes) /\ nodes \in Seq(Node)
    BY DEF WalkInv, TypeOK
  <2> QED BY <2>1, NodesHaveRefs DEF RefsAt
<1>2. IsFiniteSet(H)
  <2>1. IsFiniteSet(DOMAIN fetchers[f].cache)
    BY DEF HeldInv
  <2>2. IsFiniteSet(DOMAIN workers)
    <3>1. CASE Joined
      BY <3>1, FS_EmptySet DEF Joined
    <3>2. CASE ~Joined
      BY <3>2 DEF HeldInv
    <3> QED BY <3>1, <3>2
  <2> QED BY <2>1, <2>2, FS_Union DEF HeldBy
<1>3. IsFiniteSet(F) /\ \A j \in 1..Len(RefsAt(f)) : ToFetch(f, j) => IdAt(f, j) \in F
  BY <1>1, FetchableRefs
<1> HIDE DEF F
<1>4. \A k \in H : KeyIdentity(k) \in F
  <2> SUFFICES ASSUME NEW k \in H PROVE KeyIdentity(k) \in F
    OBVIOUS
  <2>1. PICK j \in Seen(f) : ToFetch(f, j) /\ k = KeyAt(f, j)
    BY DEF HeldInv, FromRefs
  <2>2. fetchers[f].next \in Nat /\ fetchers[f].next <= Len(RefsAt(f)) + 1
    BY DEF HeldInv, FetchInv, FetchersOK
  <2>3. j \in 1..Len(RefsAt(f))
    BY <1>1, <2>2 DEF Seen
  <2> QED BY <1>3, <2>1, <2>3, KeyIdentityAt
<1>5. \A k, l \in H : KeyIdentity(k) = KeyIdentity(l) => k = l
  BY DEF NewInv
<1>6. Cardinality(H) <= Cardinality(F) /\ Cardinality(H) \in Nat /\ Cardinality(F) \in Nat
  <2> HIDE DEF H
  <2> QED BY <1>2, <1>3, <1>4, <1>5, DistinctFit
<1>7. ASSUME f = Len(stack), pending # NoKey, pending \notin H
      PROVE  Cardinality(H) + 1 <= Cardinality(F)
  <2>1. KeyIdentity(pending) \in F
    <3>1. ToFetch(f, Top.i) /\ pending = KeyAt(f, Top.i)
      BY <1>7 DEF HeldInv
    <3>2. Top.i \in 1..Len(RefsAt(f))
      <4>1. Top.i \in Nat \ {0} /\ Top.i <= Len(Refs)
        BY <1>7, RefAtHand DEF WalkInv, FramesInv
      <4>2. RefsAt(f) = Refs
        BY <1>7 DEF RefsAt, Refs, Parent, Top
      <4> QED BY <1>1, <4>1, <4>2
    <3> QED BY <1>3, <3>1, <3>2, KeyIdentityAt
  <2>2. \A k \in H : KeyIdentity(k) # KeyIdentity(pending)
    BY <1>7 DEF NewInv
  <2> DEFINE S == H \cup {pending}
  <2>3. IsFiniteSet(S) /\ Cardinality(S) = Cardinality(H) + 1
    <3> HIDE DEF H
    <3>1. /\ IsFiniteSet(H \cup {pending})
          /\ Cardinality(H \cup {pending}) = IF pending \in H THEN Cardinality(H) ELSE Cardinality(H) + 1
      BY <1>2, FS_AddElement
    <3> QED BY <1>7, <3>1
  <2>4. /\ \A k \in S : KeyIdentity(k) \in F
        /\ \A k, l \in S : KeyIdentity(k) = KeyIdentity(l) => k = l
    <3> HIDE DEF H
    <3> QED BY <1>4, <1>5, <2>1, <2>2
  <2> HIDE DEF S, H
  <2> QED BY <1>3, <2>3, <2>4, DistinctFit
<1> QED BY <1>2, <1>6, <1>7 DEF F

\* A child asked for beyond what the windows considered finds a fetcher that
\* may open another one.
LEMMA NotSpent ==
  ASSUME WalkInv, FetchInv, HeldInv, Stable, pending = NoKey, ~Done, BudgetLeft,
         Top.i <= Len(Refs), Fetcher.next <= Top.i
  PROVE  ~Spent(Len(stack))
<1>1. PICK top : top = Len(stack)
  OBVIOUS
<1>2. top \in 1..Len(stack) /\ stack[top] = Top /\ fetchers[top] = Fetcher /\ RefsAt(top) = Refs
  BY <1>1, StackOfAdvance DEF WalkInv, Top, Fetcher, RefsAt, Refs, Parent
<1>3. Top.i \in Nat \ {0} /\ Len(Refs) \in Nat /\ fetchers[top].next \in Nat
  BY <1>2, RefAtHand DEF FetchInv, FetchersOK
<1>4. Identities(top, Seen(top)) \subseteq visited
  <2> SUFFICES ASSUME NEW j \in Seen(top), ~Malformed(RefsAt(top)[j]) PROVE IdAt(top, j) \in visited
    BY DEF Identities
  <2>1. j \in 1..(stack[top].i - 1)
    BY <1>2, <1>3 DEF Seen
  <2> QED BY <1>2, <2>1, BehindReached
<1>5. visited \cup Identities(top, Seen(top)) = visited
  BY <1>4
<1>6. Cardinality(visited) < MaxNodes /\ Cardinality(visited) \in Nat
  BY VisitedSize DEF BudgetLeft
<1>7. ~(Cardinality(visited \cup Identities(top, Seen(top))) >= MaxNodes)
  <2> DEFINE c == Cardinality(visited)
  <2>1. Cardinality(visited \cup Identities(top, Seen(top))) = c /\ c < MaxNodes /\ c \in Nat
    BY <1>5, <1>6
  <2> HIDE DEF c
  <2>2. ~(c >= MaxNodes)
    BY <2>1, LimitsAssumption
  <2> QED BY <2>1, <2>2
<1> QED BY <1>1, <1>2, <1>3, <1>7 DEF Spent

\* Full windows are at most as many as the fetchable children fill.
LEMMA FullFits ==
  ASSUME WalkInv, FetchInv, HeldInv, NewInv, Stable, WalkConcurrency > 1,
         NEW f \in 1..Len(stack), FullRounds(f)
  PROVE  /\ AllRounds(f)
         /\ f = Len(stack) /\ pending # NoKey /\ pending \notin HeldBy(f) =>
              (fetchers[f].rounds + 1) * WalkConcurrency
                < Cardinality(Fetchable(nodes[stack[f].node])) + WalkConcurrency
<1> DEFINE F == Cardinality(Fetchable(nodes[stack[f].node]))
           H == Cardinality(HeldBy(f))
           r == fetchers[f].rounds
<1>1. /\ H \in Nat /\ F \in Nat /\ H <= F
      /\ f = Len(stack) /\ pending # NoKey /\ pending \notin HeldBy(f) => H + 1 <= F
  BY HeldFits
<1>2. r * WalkConcurrency <= H
  BY DEF FullRounds
<1>3. r \in Nat /\ WalkConcurrency \in Nat
  BY ConcurrencyAssumption DEF FetchInv, FetchersOK
<1> HIDE DEF F, H, r
<1>4. (r + 1) * WalkConcurrency = r * WalkConcurrency + WalkConcurrency /\ r * WalkConcurrency \in Nat
  BY <1>3
<1>5. r * WalkConcurrency < F + WalkConcurrency
  BY <1>1, <1>2, <1>3, <1>4
<1>6. f = Len(stack) /\ pending # NoKey /\ pending \notin HeldBy(f) => (r + 1) * WalkConcurrency < F + WalkConcurrency
  BY <1>1, <1>2, <1>3, <1>4
<1> QED BY <1>5, <1>6 DEF AllRounds, F, r

\* The loop makes a round-trip of its own only when no window can open.
LEMMA LoopRounds ==
  ASSUME WalkInv, FetchInv, HeldInv, NewInv, RoundsInv, LoopMove
  PROVE  RoundsInv'
<1> SUFFICES ASSUME Stable', WalkConcurrency > 1 PROVE
      /\ \A f \in 1..Len(stack') : FullRounds(f)' \/ (Spent(f)' /\ AllRounds(f)')
      /\ pending' # NoKey =>
           LET top == Len(stack')
           IN  /\ Top'.i >= Fetcher'.next => FullRounds(Len(stack))'
               /\ Top'.i < Fetcher'.next =>
                    pending' \in HeldBy(Len(stack))' \/ (FullRounds(Len(stack))' /\ Spent(Len(stack))')
  BY DEF RoundsInv
<1>1. (LoopStep \/ Fetched) /\ Joined /\ Joined' /\ DOMAIN workers = {} /\ DOMAIN workers' = {}
  BY FetchersMove DEF Joined
<1>2. /\ cluster' = cluster /\ cancelled' = cancelled /\ visited \subseteq visited' /\ ~Done
      /\ Len(stack) \in Nat \ {0} /\ Len(stack') \in Nat /\ Len(stack') <= Len(stack) + 1
  BY <1>1, FramesMove
<1>3. Stable
  BY <1>2 DEF Stable
<1>4. IsFiniteSet(visited')
  <2>1. visited' = visited \/ \E id : visited' = visited \cup {id}
    BY <1>1 DEF LoopStep, Return, BudgetSpent, SkipMalformed, SkipVisited,
                AttachUnresolved, Reach, Fetched, Attach
  <2> QED BY <2>1, VisitedSize, FS_AddElement
<1>5. ASSUME NEW f \in 1..Len(stack'), f <= Len(stack)
      PROVE  /\ f \in 1..Len(stack) /\ HeldBy(f)' = HeldBy(f)
             /\ fetchers'[f].next = fetchers[f].next
             /\ Spent(f) => Spent(f)'
             /\ fetchers'[f].rounds = fetchers[f].rounds =>
                  /\ FullRounds(f) => FullRounds(f)'
                  /\ AllRounds(f) => AllRounds(f)'
             /\ \/ fetchers'[f].rounds = fetchers[f].rounds
                \/ DirectGet /\ f = Len(stack) /\ AllRounds(f)' /\ Spent(f)'
  <2>1. f \in 1..Len(stack)
    BY <1>2, <1>5
  <2>2. stack'[f].node = stack[f].node /\ nodes'[stack[f].node] = nodes[stack[f].node]
    BY <1>1, <1>5, FramesMove
  <2>3. /\ fetchers'[f].next = fetchers[f].next /\ fetchers'[f].cache = fetchers[f].cache
        /\ \/ fetchers'[f].rounds = fetchers[f].rounds
           \/ /\ DirectGet /\ f = Len(stack)
              /\ fetchers'[f].rounds = fetchers[f].rounds + 1
    BY <1>5, FetchersMove
  <2>4. RefsAt(f)' = RefsAt(f) /\ \A j : IdAt(f, j)' = IdAt(f, j)
    BY <1>2, <2>2, FrameKept
  <2>5. HeldBy(f)' = HeldBy(f) /\ Seen(f)' = Seen(f)
    BY <1>1, <2>3 DEF HeldBy, Seen
  <2>6. Identities(f, Seen(f))' = Identities(f, Seen(f))
    BY <2>4, <2>5 DEF Identities
  <2>7. fetchers[f].next \in Int
    BY <2>1 DEF FetchInv, FetchersOK
  <2>8. Spent(f) => Spent(f)'
    <3> DEFINE A == Identities(f, Seen(f))
    <3>1. IsFiniteSet(A)
      <4>1. fetchers[f].next - 1 \in Int /\ 1 \in Int
        BY <2>7
      <4>2. IsFiniteSet(Seen(f))
        BY <4>1, FS_Interval DEF Seen
      <4> QED BY <4>2, IdentitiesFinite
    <3> HIDE DEF A
    <3>2. IsFiniteSet(visited' \cup A) /\ visited \cup A \in SUBSET (visited' \cup A)
      BY <1>2, <1>4, <3>1, FS_Union
    <3>3. IsFiniteSet(visited \cup A) /\ Cardinality(visited \cup A) <= Cardinality(visited' \cup A)
      BY <3>2, FS_Subset
    <3>4. Cardinality(visited \cup A) \in Nat /\ Cardinality(visited' \cup A) \in Nat /\ MaxNodes \in Nat
      BY <3>2, <3>3, FS_CardinalityType, LimitsAssumption
    <3>5. Cardinality(visited \cup A) >= MaxNodes => Cardinality(visited' \cup A) >= MaxNodes
      BY <3>3, <3>4
    <3> QED BY <2>3, <2>4, <2>6, <3>5 DEF Spent, A
  <2>9. Fetchable(nodes[stack[f].node])' = Fetchable(nodes[stack[f].node])
    BY <1>2, <2>2 DEF Fetchable
  <2>10. fetchers'[f].rounds = fetchers[f].rounds =>
           /\ FullRounds(f) => FullRounds(f)'
           /\ AllRounds(f) => AllRounds(f)'
    BY <2>5, <2>9 DEF FullRounds, AllRounds
  <2>11. ASSUME DirectGet, f = Len(stack), fetchers'[f].rounds = fetchers[f].rounds + 1
         PROVE  AllRounds(f)' /\ Spent(f)'
    <3>1. /\ pending # NoKey /\ pending \notin DOMAIN fetchers[f].cache /\ Top.i < Fetcher.next
      <4>1. pending # NoKey /\ ~CacheHit(pending) /\ ~(Top.i >= Fetcher.next)
        BY <2>11 DEF DirectGet, WindowDue
      <4>2. Top.i \in Nat /\ Fetcher.next \in Nat
        BY <1>2, <2>1, <2>7, <2>11, <4>1, RefAtHand DEF WalkInv, FramesInv, FetchInv, FetchersOK, Fetcher
      <4>3. pending \notin DOMAIN Fetcher.cache
        BY <4>1 DEF CacheHit, CachedFor
      <4>4. Fetcher = fetchers[f]
        BY <2>11 DEF Fetcher
      <4>5. Top.i < Fetcher.next
        BY <4>1, <4>2
      <4> QED BY <4>1, <4>3, <4>4, <4>5
    <3>2. pending \notin HeldBy(f)
      BY <1>1, <3>1 DEF HeldBy
    <3>3. FullRounds(f) /\ Spent(f)
      BY <1>3, <2>11, <3>1, <3>2 DEF RoundsInv
    <3>4. (fetchers[f].rounds + 1) * WalkConcurrency
            < Cardinality(Fetchable(nodes[stack[f].node])) + WalkConcurrency
      BY <1>3, <2>1, <2>11, <3>1, <3>2, <3>3, FullFits
    <3> QED BY <2>8, <2>9, <2>11, <3>3, <3>4 DEF AllRounds
  <2> QED BY <2>1, <2>3, <2>5, <2>8, <2>10, <2>11
<1>6. ASSUME NEW f \in 1..Len(stack'), ~(f <= Len(stack))
      PROVE  FullRounds(f)'
  <2>1. f = Len(stack') /\ Len(stack') = Len(stack) + 1
    BY <1>2, <1>6
  <2>2. fetchers'[f] = NewFetcher
    BY <2>1, FetchersMove
  <2>3. fetchers'[f].rounds = 0 /\ DOMAIN fetchers'[f].cache = {}
    BY <2>2 DEF NewFetcher
  <2>4. HeldBy(f)' = {}
    BY <1>1, <2>3 DEF HeldBy
  <2>5. Cardinality(HeldBy(f)') = 0
    BY <2>4, FS_EmptySet
  <2>6. 0 * WalkConcurrency = 0
    BY ConcurrencyAssumption
  <2> QED BY <2>3, <2>5, <2>6 DEF FullRounds
<1>7. \A f \in 1..Len(stack') : FullRounds(f)' \/ (Spent(f)' /\ AllRounds(f)')
  <2> SUFFICES ASSUME NEW f \in 1..Len(stack') PROVE FullRounds(f)' \/ (Spent(f)' /\ AllRounds(f)')
    OBVIOUS
  <2>1. CASE f <= Len(stack)
    <3>1. FullRounds(f) \/ (Spent(f) /\ AllRounds(f))
      BY <1>3, <1>5, <2>1 DEF RoundsInv
    <3> QED BY <1>5, <2>1, <3>1
  <2>2. CASE ~(f <= Len(stack))
    BY <1>6, <2>2
  <2> QED BY <2>1, <2>2
<1>8. ASSUME pending' # NoKey
      PROVE  /\ Top'.i >= Fetcher'.next => FullRounds(Len(stack))'
             /\ Top'.i < Fetcher'.next => pending' \in HeldBy(Len(stack))'
  <2>1. PICK top : top = Len(stack)
    OBVIOUS
  <2>2. /\ stack' = stack /\ pending = NoKey /\ BudgetLeft /\ Top.i <= Len(Refs)
        /\ ToFetch(top, Top.i) /\ pending' = KeyAt(top, Top.i) /\ IdAt(top, Top.i) \notin visited
    BY <1>1, <1>8, <2>1, PendingMove
  <2>3. /\ top \in 1..Len(stack') /\ top <= Len(stack) /\ top = Len(stack') /\ top \in 1..Len(stack)
        /\ Top = stack[top] /\ Top' = stack[top] /\ Fetcher = fetchers[top] /\ Fetcher' = fetchers'[top]
    BY <1>2, <2>1, <2>2 DEF Top, Fetcher
  <2>4. HeldBy(top)' = HeldBy(top) /\ Fetcher'.next = Fetcher.next
    BY <1>5, <2>3
  <2>5. Top.i \in Nat \ {0} /\ Fetcher.next \in Nat
    BY <1>2, <2>2, <2>3, RefAtHand DEF FetchInv, FetchersOK
  <2>6. Top.i >= Fetcher.next => FullRounds(top)'
    <3> SUFFICES ASSUME Top.i >= Fetcher.next PROVE FullRounds(top)'
      OBVIOUS
    <3>1. ~Spent(top)
      BY <1>2, <1>3, <2>1, <2>2, <2>5, NotSpent
    <3>2. FullRounds(top)
      BY <1>3, <2>3, <3>1 DEF RoundsInv
    <3>3. ~DirectGet
      BY <2>2 DEF DirectGet
    <3> QED BY <1>5, <2>3, <3>2, <3>3
  <2>7. Top.i < Fetcher.next => pending' \in HeldBy(top)'
    <3> SUFFICES ASSUME Top.i < Fetcher.next PROVE pending' \in HeldBy(top)
      BY <2>4
    <3>1. Top.i \in Seen(top)
      BY <2>3, <2>5 DEF Seen
    <3>2. HeldAhead(top, Top.i)
      BY <1>3, <2>3, <2>5, <3>1 DEF NewInv
    <3>3. \A m \in Top.i..Top.i : m = Top.i
      BY <2>5
    <3>4. KeyAt(top, Top.i) \in HeldBy(top)
      BY <2>2, <2>3, <3>2, <3>3 DEF HeldAhead
    <3> QED BY <2>2, <3>4
  <2>8. FullRounds(Len(stack))' = FullRounds(top)' /\ HeldBy(Len(stack))' = HeldBy(top)'
    BY <2>3
  <2> QED BY <2>3, <2>4, <2>6, <2>7, <2>8
<1> QED BY <1>7, <1>8

\* A window that fetches less than a full one used up the refs or the budget.
LEMMA WindowSpends ==
  ASSUME WalkInv, WindowDue, Stable, NEW T, WindowOf(T),
         Cardinality(Fetches(T)) + 1 < WalkConcurrency
  PROVE  LET top == Len(stack)
         IN  \/ WindowEnd(T) > Len(Refs)
             \/ Cardinality(visited \cup Identities(top, 1..(WindowEnd(T) - 1))) >= MaxNodes
<1> DEFINE top == Len(stack)
           e == WindowEnd(T)
           W == SurvivorsBefore(e, T)
           g == [m \in W |-> IdAt(top, m)]
           G == {g[m] : m \in W}
           A == Identities(top, 1..(e - 1))
<1>1. Top.i \in Nat \ {0} /\ Len(Refs) \in Nat /\ pending # NoKey
  BY RefAtHand DEF WalkInv, WindowDue, FramesInv
<1>2. /\ e \in (Top.i + 1)..(Len(Refs) + 1) /\ Considered(T) = (Top.i + 1)..(e - 1)
      /\ WindowStops(e, T) /\ Fetches(T) = FetchedBefore(e, T)
  BY WindowRuns DEF WindowOf
<1> SUFFICES ASSUME ~(e > Len(Refs)) PROVE Cardinality(visited \cup A) >= MaxNodes
  OBVIOUS
<1>3. Cardinality(W) + 1 >= MaxNodes - Len(nodes)
  <2>1. ~(Cardinality(Fetches(T)) + 1 >= WalkConcurrency)
    <3>1. Cardinality(Fetches(T)) \in Nat
      BY FetchesBounded DEF WindowOf
    <3> QED BY <3>1, ConcurrencyAssumption
  <2> QED BY <1>2, <2>1 DEF WindowStops
<1>4. RefsAt(top) = Refs /\ NsAt(top) = ParentNs
  BY DEF RefsAt, NsAt, Refs, ParentNs, Parent, Top
<1>5. ASSUME NEW m \in W
      PROVE  /\ m \in (Top.i + 1)..(e - 1) /\ Survives(m, T)
             /\ ~Malformed(RefsAt(top)[m]) /\ IdAt(top, m) \notin visited
             /\ IdentityKey(T[m], Refs[m], ParentNs) = IdAt(top, m)
  <2>1. m \in (Top.i + 1)..(e - 1) /\ Survives(m, T)
    BY <1>5 DEF SurvivorsBefore
  <2>2. m \in DOMAIN T /\ cluster.flaky = {}
    BY <1>1, <1>2, <2>1 DEF WindowOf, Stable
  <2>3. T[m] = Resolved(cluster, Refs[m])
    BY <2>2 DEF WindowOf
  <2>4. IdentityKey(T[m], Refs[m], ParentNs) = IdAt(top, m)
    BY <1>4, <2>3 DEF IdAt, Means
  <2> QED BY <1>4, <2>1, <2>4 DEF Survives
<1>6. ASSUME NEW m \in W, NEW n \in W, m < n PROVE IdAt(top, m) # IdAt(top, n)
  <2>1. m \in (Top.i + 1)..(n - 1) /\ ~Malformed(Refs[m])
    BY <1>1, <1>2, <1>4, <1>5, <1>6
  <2>2. IdentityKey(T[m], Refs[m], ParentNs) # IdentityKey(T[n], Refs[n], ParentNs)
    BY <1>5, <2>1 DEF Survives
  <2> QED BY <1>5, <2>2
<1>7. \A m, n \in W : g[m] = g[n] => m = n
  <2> SUFFICES ASSUME NEW m \in W, NEW n \in W, IdAt(top, m) = IdAt(top, n) PROVE m = n
    OBVIOUS
  <2>1. ~(m < n) /\ ~(n < m)
    BY <1>6
  <2>2. m \in Nat /\ n \in Nat
    BY <1>1, <1>2, <1>5
  <2> QED BY <2>1, <2>2
<1>8. \A m \in W : m \in 1..(e - 1)
  BY <1>1, <1>2, <1>5
<1>9. IsFiniteSet(1..(e - 1)) /\ IsFiniteSet(W)
  <2>1. e - 1 \in Int /\ 1 \in Int
    BY <1>1, <1>2
  <2> HIDE DEF e, W
  <2>2. IsFiniteSet(1..(e - 1))
    BY <2>1, FS_Interval
  <2>3. W \in SUBSET (1..(e - 1))
    BY <1>8
  <2> QED BY <2>2, <2>3, FS_Subset
<1>10. IsFiniteSet(A)
  BY <1>9, IdentitiesFinite
<1>11. G \cap visited = {} /\ visited \cup G \in SUBSET (visited \cup A)
  <2>1. \A m \in W : g[m] \notin visited /\ g[m] \in A
    BY <1>5, <1>8 DEF Identities
  <2> QED BY <2>1
<1>12. IsFiniteSet(G) /\ Cardinality(G) = Cardinality(W) /\ Cardinality(W) \in Nat
  <2>1. DOMAIN g = W /\ g = [m \in W |-> g[m]]
    OBVIOUS
  <2> HIDE DEF g, W
  <2> QED BY <1>7, <1>9, <2>1, ImageSize
<1> HIDE DEF G, A, W, e
<1>13. IsFiniteSet(visited) /\ Cardinality(visited) = Len(nodes) + 1 /\ Len(nodes) \in Nat
  BY <1>1, VisitedSize
<1>14. Cardinality(visited \cup G) = Cardinality(visited) + Cardinality(G) /\ IsFiniteSet(visited \cup G)
  <2>1. /\ IsFiniteSet(visited \cup G)
        /\ Cardinality(visited \cup G) = Cardinality(visited) + Cardinality(G) - Cardinality(visited \cap G)
    BY <1>12, <1>13, FS_Union
  <2>2. Cardinality(visited \cap G) = 0
    BY <1>11, FS_EmptySet
  <2> QED BY <1>12, <1>13, <2>1, <2>2
<1>15. IsFiniteSet(visited \cup A)
  BY <1>10, <1>13, FS_Union
<1>16. Cardinality(visited \cup G) <= Cardinality(visited \cup A) /\ Cardinality(visited \cup A) \in Nat
  BY <1>11, <1>15, FS_Subset, FS_CardinalityType
<1> DEFINE c == Cardinality(visited \cup A)
<1>17. Len(nodes) + 1 + Cardinality(W) <= c /\ c \in Nat
  BY <1>12, <1>13, <1>14, <1>16
<1> HIDE DEF c
<1>18. c >= MaxNodes
  BY <1>3, <1>12, <1>13, <1>17, LimitsAssumption
<1> QED BY <1>18 DEF c

\* A window costs a round-trip and is full, or is the last one.
LEMMA OpenRounds ==
  ASSUME WalkInv, FetchInv, HeldInv, NewInv, RoundsInv, OpenWindow
  PROVE  RoundsInv'
<1>1. PICK T : Opened(T)
  BY WindowOpened
<1>2. PICK top : top = Len(stack)
  OBVIOUS
<1> DEFINE e == WindowEnd(T)
<1>3. /\ WindowDue /\ WindowOf(T) /\ UNCHANGED walkVars /\ ~Done /\ Joined /\ pending # NoKey
      /\ stack' = stack /\ pending' = pending /\ visited' = visited /\ nodes' = nodes /\ cluster' = cluster
  BY <1>1 DEF OpenWindow, Opened, WindowDue, WalkInv, FramesInv, walkVars
<1> SUFFICES ASSUME Stable', WalkConcurrency > 1 PROVE
      /\ \A f \in 1..Len(stack) : FullRounds(f)' \/ (Spent(f)' /\ AllRounds(f)')
      /\ Top'.i >= Fetcher'.next => FullRounds(Len(stack))'
      /\ Top'.i < Fetcher'.next =>
           pending \in HeldBy(Len(stack))' \/ (FullRounds(Len(stack))' /\ Spent(Len(stack))')
  BY <1>3 DEF RoundsInv
<1>4. Stable
  BY <1>3, RefsKept
<1>5. top \in 1..Len(stack) /\ Top = stack[top] /\ Fetcher = fetchers[top] /\ Top.i \in Nat \ {0} /\ Len(Refs) \in Nat
  BY <1>2, <1>3, StackOfAdvance, RefAtHand DEF WalkInv, WindowDue, FramesInv, Top, Fetcher
<1>6. fetchers[top].next \in Nat \ {0} /\ fetchers[top].next <= Top.i
  BY <1>3, <1>5, FetcherAtHand DEF WindowDue, FetcherOK
<1>7. /\ fetchers'[top].next = e /\ fetchers'[top].cache = fetchers[top].cache
      /\ fetchers'[top].rounds = IF Worthwhile(T) THEN fetchers[top].rounds + 1 ELSE fetchers[top].rounds
      /\ \A f \in 1..Len(stack) : f # top => fetchers'[f] = fetchers[f]
      /\ DOMAIN workers' = IF Worthwhile(T) THEN WindowKeys(T) ELSE {}
  BY <1>1, <1>2, <1>5 DEF Opened
<1>8. HeldBy(top) = DOMAIN fetchers[top].cache /\ HeldBy(top)' = DOMAIN fetchers[top].cache \cup DOMAIN workers'
  BY <1>2, <1>3, <1>7 DEF HeldBy, Joined
<1>9. pending \notin HeldBy(top) /\ FullRounds(top)
  <2>1. pending \notin DOMAIN Fetcher.cache
    BY <1>3 DEF WindowDue, CacheHit, CachedFor
  <2>2. Top.i >= Fetcher.next
    BY <1>3 DEF WindowDue
  <2> QED BY <1>2, <1>3, <1>4, <1>5, <1>8, <2>1, <2>2 DEF RoundsInv
<1>10. e \in (Top.i + 1)..(Len(Refs) + 1)
  BY <1>3, WindowRuns DEF WindowOf
<1>11. \A k \in HeldBy(top) : KeyIdentity(k) \in visited /\ k # pending
  BY <1>4, <1>5, <1>6, <1>9, HeldReached
<1>12. /\ WindowKeys(T) = {pending} \cup {KeyAt(top, m) : m \in Fetches(T)}
       /\ \A m \in Fetches(T) : KeyIdentity(KeyAt(top, m)) \notin visited
       /\ IsFiniteSet(WindowKeys(T))
       /\ Cardinality(WindowKeys(T)) \in Nat
       /\ pending \notin {KeyAt(top, m) : m \in Fetches(T)} =>
            Cardinality(WindowKeys(T)) = Cardinality(Fetches(T)) + 1
  <2>1. WindowKeys(T) = {pending} \cup {KeyAt(top, m) : m \in Fetches(T)}
    BY <1>2, <1>3, WindowFetches
  <2>2. \A m \in Fetches(T) : KeyIdentity(KeyAt(top, m)) \notin visited
    BY <1>2, <1>3, WindowFetches
  <2> QED BY <1>2, <1>3, <2>1, <2>2, WindowFetches
<1>13. Cardinality(WindowKeys(T)) = Cardinality(Fetches(T)) + 1
  BY <1>3, <1>12, PendingReached
<1>14. Cardinality(Fetches(T)) \in Nat /\ Cardinality(Fetches(T)) + 1 <= WalkConcurrency
  BY <1>3, FetchesBounded DEF WindowOf
<1>15. Cardinality(WindowKeys(T)) < WalkConcurrency => Spent(top)'
  <2> SUFFICES ASSUME Cardinality(WindowKeys(T)) < WalkConcurrency PROVE Spent(top)'
    OBVIOUS
  <2>1. \/ e > Len(Refs)
        \/ Cardinality(visited \cup Identities(top, 1..(e - 1))) >= MaxNodes
    BY <1>2, <1>3, <1>4, <1>13, WindowSpends
  <2>2. RefsAt(top)' = Refs
    BY <1>2, <1>3, RefsKept DEF RefsAt, Refs, Parent, Top
  <2>3. Identities(top, Seen(top))' = Identities(top, 1..(e - 1))
    BY <1>3, <1>7, RefsKept DEF Identities, Seen
  <2> QED BY <1>3, <1>7, <2>1, <2>2, <2>3 DEF Spent
<1>16. Worthwhile(T) => /\ IsFiniteSet(HeldBy(top)')
                        /\ Cardinality(HeldBy(top)') = Cardinality(HeldBy(top)) + Cardinality(WindowKeys(T))
  <2> SUFFICES ASSUME Worthwhile(T)
               PROVE  /\ IsFiniteSet(HeldBy(top)')
                      /\ Cardinality(HeldBy(top)') = Cardinality(HeldBy(top)) + Cardinality(WindowKeys(T))
    OBVIOUS
  <2> DEFINE H == HeldBy(top)
             K == WindowKeys(T)
  <2>1. HeldBy(top)' = H \cup K
    BY <1>7, <1>8
  <2>2. H \cap K = {}
    BY <1>11, <1>12
  <2>3. IsFiniteSet(H) /\ Cardinality(H) \in Nat /\ IsFiniteSet(K) /\ Cardinality(K) \in Nat
    BY <1>4, <1>5, <1>12, HeldFits
  <2> HIDE DEF H, K
  <2>4. IsFiniteSet(H \cup K) /\ Cardinality(H \cup K) = Cardinality(H) + Cardinality(K) - Cardinality(H \cap K)
    BY <2>3, FS_Union
  <2>5. Cardinality(H \cap K) = 0
    BY <2>2, FS_EmptySet
  <2>6. Cardinality(HeldBy(top)') = Cardinality(H) + Cardinality(K)
    BY <2>1, <2>3, <2>4, <2>5
  <2> QED BY <2>1, <2>4, <2>6 DEF H, K
<1>17. Fetchable(nodes[stack[top].node])' = Fetchable(nodes[stack[top].node])
  BY <1>3 DEF Fetchable
<1> DEFINE F == Cardinality(Fetchable(nodes[stack[top].node]))
           H == Cardinality(HeldBy(top))
           K == Cardinality(WindowKeys(T))
           r == fetchers[top].rounds
<1>18. /\ H \in Nat /\ K \in Nat /\ r \in Nat /\ WalkConcurrency \in Nat
       /\ r * WalkConcurrency <= H /\ K <= WalkConcurrency
       /\ (r + 1) * WalkConcurrency < F + WalkConcurrency
  <2>1. r \in Nat
    BY <1>5 DEF FetchInv, FetchersOK
  <2>2. H \in Nat
    BY <1>4, <1>5, HeldFits
  <2>3. (r + 1) * WalkConcurrency < F + WalkConcurrency
    BY <1>2, <1>3, <1>4, <1>5, <1>9, FullFits
  <2>4. r * WalkConcurrency <= H
    BY <1>9 DEF FullRounds
  <2> QED BY <1>12, <1>13, <1>14, <2>1, <2>2, <2>3, <2>4, ConcurrencyAssumption
<1>19. ASSUME Worthwhile(T)
      PROVE  /\ FullRounds(top)' \/ (Spent(top)' /\ AllRounds(top)')
             /\ pending \in HeldBy(top)' \/ (FullRounds(top)' /\ Spent(top)')
  <2>1. /\ fetchers'[top].rounds = r + 1 /\ Cardinality(HeldBy(top)') = H + K
        /\ pending \in HeldBy(top)'
    BY <1>7, <1>8, <1>12, <1>16, <1>19
  <2>2. AllRounds(top)'
    BY <1>17, <1>18, <2>1 DEF AllRounds
  <2>3. CASE K < WalkConcurrency
    BY <1>15, <2>1, <2>2, <2>3
  <2>4. CASE ~(K < WalkConcurrency)
    <3>1. FullRounds(top)'
      <4>1. (r + 1) * WalkConcurrency <= H + K
        <5> HIDE DEF H, K, F, r
        <5>1. (r + 1) * WalkConcurrency = r * WalkConcurrency + WalkConcurrency /\ r * WalkConcurrency \in Nat
          BY <1>18
        <5> QED BY <1>18, <2>4, <5>1
      <4> QED BY <2>1, <4>1 DEF FullRounds
    <3> QED BY <2>1, <3>1
  <2> QED BY <2>3, <2>4
<1>20. ASSUME ~Worthwhile(T)
      PROVE  /\ FullRounds(top)' \/ (Spent(top)' /\ AllRounds(top)')
             /\ pending \in HeldBy(top)' \/ (FullRounds(top)' /\ Spent(top)')
  <2>1. fetchers'[top].rounds = r /\ HeldBy(top)' = HeldBy(top)
    BY <1>7, <1>8, <1>20
  <2>2. FullRounds(top)'
    BY <1>9, <2>1 DEF FullRounds
  <2>3. K < WalkConcurrency
    <3>1. ~(K >= 2)
      BY <1>20 DEF Worthwhile
    <3> HIDE DEF K
    <3> QED BY <1>18, <3>1
  <2> QED BY <1>15, <2>2, <2>3
<1>21. ASSUME NEW f \in 1..Len(stack), f # top
       PROVE  FullRounds(f)' \/ (Spent(f)' /\ AllRounds(f)')
  <2>1. fetchers'[f] = fetchers[f]
    BY <1>7, <1>21
  <2>2. HeldBy(f)' = HeldBy(f) /\ Seen(f)' = Seen(f)
    BY <1>2, <1>3, <1>21, <2>1 DEF HeldBy, Seen
  <2>3. Fetchable(nodes[stack[f].node])' = Fetchable(nodes[stack[f].node])
    BY <1>3 DEF Fetchable
  <2>4. Identities(f, Seen(f))' = Identities(f, Seen(f)) /\ RefsAt(f)' = RefsAt(f)
    BY <1>3, <2>2, RefsKept DEF Identities
  <2>5. FullRounds(f) \/ (Spent(f) /\ AllRounds(f))
    BY <1>4 DEF RoundsInv
  <2> QED BY <1>3, <2>1, <2>2, <2>3, <2>4, <2>5 DEF FullRounds, Spent, AllRounds
<1>22. \A f \in 1..Len(stack) : FullRounds(f)' \/ (Spent(f)' /\ AllRounds(f)')
  <2> SUFFICES ASSUME NEW f \in 1..Len(stack) PROVE FullRounds(f)' \/ (Spent(f)' /\ AllRounds(f)')
    OBVIOUS
  <2>1. CASE f = top
    BY <1>19, <1>20, <2>1
  <2>2. CASE f # top
    BY <1>21, <2>2
  <2> QED BY <2>1, <2>2
<1>23. ~(Top'.i >= Fetcher'.next)
  <2>1. Top'.i = Top.i /\ Fetcher'.next = e
    BY <1>2, <1>3, <1>7 DEF Top, Fetcher
  <2> HIDE DEF e
  <2> QED BY <1>5, <1>10, <2>1
<1>24. pending \in HeldBy(Len(stack))' \/ (FullRounds(Len(stack))' /\ Spent(Len(stack))')
  <2>1. /\ HeldBy(Len(stack))' = HeldBy(top)' /\ FullRounds(Len(stack))' = FullRounds(top)'
        /\ Spent(Len(stack))' = Spent(top)'
    BY <1>2, <1>3
  <2> QED BY <1>19, <1>20, <2>1
<1> QED BY <1>22, <1>23, <1>24

\* The goroutines and the join keep what is held.
LEMMA WindowRounds ==
  ASSUME WalkInv, FetchInv, HeldInv, NewInv, RoundsInv, WorkerStep \/ UNCHANGED vars \/ Join
  PROVE  RoundsInv'
<1> SUFFICES ASSUME Stable' PROVE RoundsInv'
  BY DEF RoundsInv
<1>1. UNCHANGED walkVars
  BY DEF WorkerStep, WorkerSkip, WorkerStart, WorkerReturn, Join, vars, walkVars
<1>2. Stable /\ stack' = stack /\ pending' = pending /\ nodes' = nodes /\ visited' = visited
  BY <1>1, RefsKept DEF walkVars
<1>3. /\ \A f \in 1..Len(stack) :
           /\ HeldBy(f)' = HeldBy(f) /\ fetchers'[f].next = fetchers[f].next
           /\ fetchers'[f].rounds = fetchers[f].rounds
      /\ cluster' = cluster
  <2>1. CASE Join
    <3>1. ~Joined
      BY <2>1 DEF Join
    <3>2. \A k \in DOMAIN workers : workers[k].status # "skipped"
      BY <1>2, <3>1 DEF NewInv
    <3> QED BY <1>1, <2>1, <3>2, JoinHeld DEF walkVars
  <2>2. CASE WorkerStep \/ UNCHANGED vars
    <3>1. fetchers' = fetchers /\ DOMAIN workers' = DOMAIN workers
      BY <2>2 DEF WorkerStep, WorkerSkip, WorkerStart, WorkerReturn, vars
    <3> QED BY <1>1, <3>1 DEF HeldBy, walkVars
  <2> QED BY <2>1, <2>2
<1>4. ASSUME NEW f \in 1..Len(stack)
      PROVE  /\ FullRounds(f)' = FullRounds(f) /\ Spent(f)' = Spent(f) /\ AllRounds(f)' = AllRounds(f)
             /\ HeldBy(f)' = HeldBy(f)
  <2>1. FullRounds(f)' = FullRounds(f)
    BY <1>3 DEF FullRounds
  <2>2. Seen(f)' = Seen(f)
    BY <1>3 DEF Seen
  <2>3. Identities(f, Seen(f))' = Identities(f, Seen(f)) /\ RefsAt(f)' = RefsAt(f)
    BY <1>1, <2>2, RefsKept DEF Identities
  <2>4. Spent(f)' = Spent(f)
    BY <1>2, <1>3, <2>3 DEF Spent
  <2>5. Fetchable(nodes[stack[f].node])' = Fetchable(nodes[stack[f].node])
    BY <1>2, <1>3 DEF Fetchable
  <2>6. AllRounds(f)' = AllRounds(f)
    BY <1>2, <1>3, <2>5 DEF AllRounds
  <2> QED BY <1>3, <2>1, <2>4, <2>6
<1>5. \A f \in 1..Len(stack') :
        WalkConcurrency > 1 => FullRounds(f)' \/ (Spent(f)' /\ AllRounds(f)')
  BY <1>2, <1>4 DEF RoundsInv
<1>6. ASSUME pending' # NoKey, WalkConcurrency > 1
      PROVE  /\ Top'.i >= Fetcher'.next => FullRounds(Len(stack))'
             /\ Top'.i < Fetcher'.next =>
                  pending' \in HeldBy(Len(stack))' \/ (FullRounds(Len(stack))' /\ Spent(Len(stack))')
  <2>1. PICK top : top = Len(stack)
    OBVIOUS
  <2>2. top \in 1..Len(stack)
    BY <1>2, <1>6, <2>1, StackOfAdvance DEF WalkInv, FramesInv
  <2>3. Top'.i = Top.i /\ Fetcher'.next = Fetcher.next
    BY <1>2, <1>3, <2>1, <2>2 DEF Top, Fetcher
  <2>4. /\ HeldBy(Len(stack))' = HeldBy(top)' /\ FullRounds(Len(stack))' = FullRounds(top)'
        /\ Spent(Len(stack))' = Spent(top)'
    BY <1>2, <2>1
  <2>5. /\ Top.i >= Fetcher.next => FullRounds(top)
        /\ Top.i < Fetcher.next => pending \in HeldBy(top) \/ (FullRounds(top) /\ Spent(top))
    BY <1>2, <1>6, <2>1 DEF RoundsInv
  <2> QED BY <1>2, <1>4, <2>2, <2>3, <2>4, <2>5
<1> QED BY <1>5, <1>6 DEF RoundsInv

\* RoundsInv is inductive.
LEMMA RoundsStep ==
  ASSUME WalkInv, FetchInv, HeldInv, NewInv, RoundsInv, [Next]_vars
  PROVE  RoundsInv'
<1>1. CASE CancelCtx
  <2>1. ~Stable'
    BY <1>1 DEF CancelCtx, Cancel, Stable
  <2> QED BY <2>1 DEF RoundsInv
<1> QED BY <1>1, LoopRounds, OpenRounds, WindowRounds DEF LoopMove, Next, WalkStep

-----------------------------------------------------------------------------
(* The theorems.                                                           *)

Inv == WalkInv /\ FetchInv

\* The invariant holds at the start,
LEMMA InitInv == Init => Inv
<1> SUFFICES ASSUME Init PROVE Inv
  OBVIOUS
<1>1. WalkInv
  BY WalkInitInv DEF Init
<1>2. stack = <<[node |-> 1, i |-> 1]>> /\ fetchers = <<NewFetcher>> /\ workers = <<>>
  BY DEF Init, WalkInit
<1>3. DOMAIN fetchers = 1..1 /\ Len(stack) = 1 /\ fetchers[1] = NewFetcher
  BY <1>2
<1>4. FetchersOK /\ CacheExact
  BY <1>3, NewFetcherOK DEF FetchersOK, FetcherOK, CacheExact
<1>5. WorkersOK /\ ResultsExact /\ WindowAwaited
  BY <1>2 DEF WorkersOK, ResultsExact, WindowAwaited, Joined
<1> QED BY <1>1, <1>4, <1>5 DEF Inv, FetchInv

\* every step keeps the fetchers sound,
LEMMA NextFetch ==
  ASSUME FetchInv, WalkInv, [Next]_vars
  PROVE  FetchInv'
<1>1. CASE Loop \/ ServeCached \/ DirectGet
  BY <1>1, LoopFetch
<1>2. CASE OpenWindow
  BY <1>2, OpenWindowFetch
<1>3. CASE WorkerStep
  BY <1>3, WorkerFetch DEF WorkerStep
<1>4. CASE Join
  BY <1>4, JoinFetch
<1>5. CASE CancelCtx
  BY <1>5, CancelFetch
<1>6. CASE UNCHANGED vars
  BY <1>6, StutterFetch
<1> QED BY <1>1, <1>2, <1>3, <1>4, <1>5, <1>6 DEF Next, WalkStep

\* and so every step keeps the invariant.
LEMMA NextInv == Inv /\ [Next]_vars => Inv'
<1> SUFFICES ASSUME WalkInv, FetchInv, [Next]_vars
             PROVE  WalkInv' /\ FetchInv'
  BY DEF Inv
<1>1. WalkInv'
  BY NextIsStep, StepInv
<1> QED BY <1>1, NextFetch

\* The invariant of the walk, whatever the windows do.
THEOREM SpecInv == Spec => []Inv
BY InitInv, NextInv, PTL DEF Spec

\* Every variable keeps its type: what the cache and the goroutines hold are
\* objects under well-formed keys, one fetcher for every activation.
THEOREM WalkTypes == Spec => []TypeInv
<1>1. Inv => TypeInv
  BY DEF Inv, WalkInv, FetchInv, TypeInv
<1> QED BY <1>1, SpecInv, PTL

\* The tree never outgrows maxNodes and maxDepth, whatever was prefetched.
THEOREM WalkLimits == Spec => []WithinLimits
<1>1. Inv => WithinLimits
  BY DEF Inv, WalkInv
<1> QED BY <1>1, SpecInv, PTL

\* visited is exactly the identities of the tree and of the pending child.
THEOREM WalkVisited == Spec => []VisitedIsBuilt
<1>1. Inv => VisitedIsBuilt
  BY DEF Inv, WalkInv
<1> QED BY <1>1, SpecInv, PTL

\* A resource has at most one node, on cyclic and shared compositions too.
THEOREM WalkUnique == Spec => []UniqueNodes
<1>1. Inv => UniqueNodes
  BY DEF Inv, WalkInv
<1> QED BY <1>1, SpecInv, PTL

\* A finished walk that is not Capped followed every ref it came across.
THEOREM WalkComplete == Spec => []Complete
<1>1. Inv => Complete
  BY InvComplete DEF Inv
<1> QED BY <1>1, SpecInv, PTL

\* Capped is set only when a limit kept the walk from refs of some node: a node
\* at maxDepth that has refs, or one whose last ref the walk had not come to when
\* the node budget was used up.
THEOREM WalkCapped == Spec => []CappedForCause
<1>1. Init => CauseInv
  BY WalkInitCause DEF Init
<1>2. Inv /\ CauseInv /\ [Next]_vars => CauseInv'
  BY NextIsStep, StepCause DEF Inv
<1>3. CauseInv => CappedForCause
  BY DEF CauseInv
<1> QED BY <1>1, <1>2, <1>3, SpecInv, PTL DEF Spec

-----------------------------------------------------------------------------
(* The bounds on what the windows fetch.                                   *)

\* Each of the three needs the ones before it, and all of them Inv.
WindowsInv == HeldInv /\ NewInv /\ RoundsInv

\* Before the first window nothing is held.
LEMMA InitWindows == Init => WindowsInv
<1> SUFFICES ASSUME Init PROVE WindowsInv
  OBVIOUS
<1>1. WalkInv /\ Joined /\ pending = NoKey
  BY WalkInitInv DEF Init, WalkInit, Joined
<1>2. stack = <<[node |-> 1, i |-> 1]>> /\ fetchers = <<NewFetcher>> /\ DOMAIN workers = {}
  BY DEF Init, WalkInit
<1>3. \A f \in 1..Len(stack) :
        /\ f = 1 /\ stack[f].i = 1 /\ fetchers[f].next = 1 /\ DOMAIN fetchers[f].cache = {}
        /\ fetchers[f].rounds = 0
  BY <1>2 DEF NewFetcher
<1>4. \A f \in 1..Len(stack) : HeldBy(f) = {} /\ Seen(f) = {}
  BY <1>2, <1>3 DEF HeldBy, Seen
<1>5. HeldInv
  <2> SUFFICES ASSUME NEW f \in 1..Len(stack)
               PROVE  /\ FollowedUpTo(stack[f].node, stack[f].i - 1)
                      /\ fetchers[f].next <= Len(RefsAt(f)) + 1
                      /\ IsFiniteSet(DOMAIN fetchers[f].cache)
    BY <1>1, <1>4 DEF HeldInv
  <2>1. FollowedUpTo(stack[f].node, stack[f].i - 1)
    BY <1>3 DEF FollowedUpTo
  <2>2. Len(RefsAt(f)) \in Nat
    <3>1. stack[f].node \in 1..Len(nodes) /\ nodes \in Seq(Node)
      BY <1>1 DEF WalkInv, TypeOK
    <3> QED BY <3>1, NodesHaveRefs DEF RefsAt
  <2>3. fetchers[f].next <= Len(RefsAt(f)) + 1
    BY <1>3, <2>2
  <2>4. IsFiniteSet(DOMAIN fetchers[f].cache)
    BY <1>3, FS_EmptySet
  <2> QED BY <2>1, <2>3, <2>4
<1>6. NewInv
  <2>1. BoundedWaste
    BY <1>3 DEF BoundedWaste
  <2> QED BY <1>1, <1>4, <2>1 DEF NewInv
<1>7. RoundsInv
  <2>1. 0 * WalkConcurrency = 0
    BY ConcurrencyAssumption
  <2>2. \A f \in 1..Len(stack) : FullRounds(f)
    <3> SUFFICES ASSUME NEW f \in 1..Len(stack) PROVE FullRounds(f)
      OBVIOUS
    <3>1. Cardinality(HeldBy(f)) = 0
      BY <1>4, FS_EmptySet
    <3>2. fetchers[f].rounds * WalkConcurrency = 0
      BY <1>3, <2>1
    <3> QED BY <3>1, <3>2 DEF FullRounds
  <2> QED BY <1>1, <2>2 DEF RoundsInv
<1> QED BY <1>5, <1>6, <1>7 DEF WindowsInv

\* Every step keeps the invariant of the windows.
LEMMA NextWindows == Inv /\ WindowsInv /\ [Next]_vars => WindowsInv'
BY HeldStep, NewStep, RoundsStep DEF Inv, WindowsInv

\* Both invariants hold throughout.
LEMMA WindowsAlways == Spec => [](Inv /\ WindowsInv)
BY InitInv, InitWindows, NextInv, NextWindows, PTL DEF Spec

\* At most walkConcurrency Gets are on their way at once, and none of them is
\* for what the fetcher already has.
THEOREM FanOutBounded == Spec => []BoundedFanOut
<1>1. Inv /\ WindowsInv => BoundedFanOut
  <2> SUFFICES ASSUME Inv, WindowsInv PROVE BoundedFanOut
    OBVIOUS
  <2>1. CASE Joined
    <3>1. Cardinality(DOMAIN workers) = 0 /\ DOMAIN workers = {}
      BY <2>1, FS_EmptySet DEF Joined
    <3>2. Cardinality(DOMAIN workers) <= WalkConcurrency
      BY <3>1, ConcurrencyAssumption
    <3> QED BY <3>1, <3>2 DEF BoundedFanOut
  <2>2. CASE ~Joined
    <3>1. Cardinality(DOMAIN workers) <= WalkConcurrency
      BY <2>2 DEF WindowsInv, HeldInv
    <3>2. ASSUME Stable, NEW k \in DOMAIN workers PROVE ~CacheHit(k)
      <4>1. /\ \A c \in DOMAIN Fetcher.cache : KeyIdentity(c) \in visited /\ c # pending
            /\ k # pending => KeyIdentity(k) \notin visited
        BY <2>2, <3>2 DEF WindowsInv, NewInv
      <4>2. k \notin DOMAIN Fetcher.cache
        BY <4>1
      <4> QED BY <4>2 DEF CacheHit, CachedFor
    <3> QED BY <3>1, <3>2 DEF BoundedFanOut
  <2> QED BY <2>1, <2>2
<1> QED BY <1>1, WindowsAlways, PTL

\* What is fetched and never used is less than walkConcurrency objects per
\* ancestor.
THEOREM WasteBounded == Spec => []BoundedWaste
<1>1. WindowsInv => BoundedWaste
  BY DEF WindowsInv, NewInv, BoundedWaste
<1> QED BY <1>1, WindowsAlways, PTL

\* A composite never costs more round-trips than its fetchable children fill.
THEOREM RoundsBounded == Spec => []BoundedRounds
<1>1. Inv /\ WindowsInv => BoundedRounds
  <2> SUFFICES ASSUME Inv, WindowsInv, Stable, WalkConcurrency > 1, NEW f \in 1..Len(stack)
               PROVE  AllRounds(f)
    BY DEF BoundedRounds, AllRounds
  <2>1. FullRounds(f) \/ AllRounds(f)
    BY DEF WindowsInv, RoundsInv
  <2> QED BY <2>1, FullFits DEF Inv, WindowsInv
<1> QED BY <1>1, WindowsAlways, PTL

-----------------------------------------------------------------------------
(* The parallel walk implements the sequential one.  The mapping is the    *)
(* identity: TreeWalk adds the fetchers and their goroutines and hides     *)
(* them again.  The lemmas say that the definitions SequentialWalk takes   *)
(* from Walk mean, as seen from TreeWalk, the same as TreeWalk's own; the  *)
(* content is in NextIsStep and in FetchInv, that a step served from the   *)
(* cache is one a Get of the sequential walk could have made.              *)

\* What is read of the cluster.
LEMMA SameReads ==
  /\ Sequential!Unresolved = Unresolved /\ Sequential!NoKey = NoKey
  /\ \A c, r : Sequential!Resolutions(c, r) = Resolutions(c, r)
  /\ \A t, r, ns : Sequential!IdentityKey(t, r, ns) = IdentityKey(t, r, ns)
  /\ \A t, r, ns : Sequential!GetKey(t, r, ns) = GetKey(t, r, ns)
  /\ \A k : Sequential!KeyIdentity(k) = KeyIdentity(k)
  /\ \A r : Sequential!Malformed(r) = Malformed(r)
  /\ \A e, v, id : Sequential!Failure(e, v, id) = Failure(e, v, id)
  /\ \A k : Sequential!Outcomes(k) = Outcomes(k)
<1>1. Sequential!Unresolved = Unresolved /\ Sequential!NoKey = NoKey
  BY DEF Sequential!Unresolved, Unresolved, Sequential!NoKey, NoKey
<1>2. \A c, r : Sequential!Resolutions(c, r) = Resolutions(c, r)
  BY <1>1 DEF Sequential!Resolutions, Resolutions, Sequential!Resolved, Resolved
<1>3. \A t, r, ns : Sequential!EffectiveNs(t, r, ns) = EffectiveNs(t, r, ns)
  BY <1>1 DEF Sequential!EffectiveNs, EffectiveNs
<1>4. \A t, r, ns : Sequential!IdentityKey(t, r, ns) = IdentityKey(t, r, ns)
  BY <1>1, <1>3 DEF Sequential!IdentityKey, IdentityKey
<1>5. \A t, r, ns : Sequential!GetKey(t, r, ns) = GetKey(t, r, ns)
  BY <1>3 DEF Sequential!GetKey, GetKey
<1>6. \A k : Sequential!KeyIdentity(k) = KeyIdentity(k)
  BY DEF Sequential!KeyIdentity, KeyIdentity
<1>7. \A r : Sequential!Malformed(r) = Malformed(r)
  BY DEF Sequential!Malformed, Malformed
<1>8. \A e, v, id : Sequential!Failure(e, v, id) = Failure(e, v, id)
  BY DEF Sequential!Failure, Failure
<1>9. \A c, k : Sequential!Answer(c, k) = Answer(c, k)
  BY <1>6, <1>8 DEF Sequential!Answer, Answer
<1>10. \A k : Sequential!CtxError(k) = CtxError(k)
  BY <1>6, <1>8 DEF Sequential!CtxError, CtxError
<1>11. \A k : Sequential!Outcomes(k) = Outcomes(k)
  BY <1>9, <1>10 DEF Sequential!Outcomes, Outcomes
<1> QED BY <1>1, <1>2, <1>4, <1>5, <1>6, <1>7, <1>8, <1>11

\* The state of the loop.
LEMMA SameState ==
  /\ Sequential!Top = Top /\ Sequential!Parent = Parent /\ Sequential!Refs = Refs
  /\ Sequential!ParentNs = ParentNs /\ Sequential!Done = Done
  /\ Sequential!Advance = Advance /\ Sequential!Pop = Pop
  /\ Sequential!BudgetLeft = BudgetLeft /\ Sequential!AtRef = AtRef
  /\ \A d, o : Sequential!DepthCut(d, o) = DepthCut(d, o)
  /\ \A id, o : Sequential!NewChild(id, o) = NewChild(id, o)
<1>1. Sequential!Top = Top
  BY DEF Sequential!Top, Top
<1>2. Sequential!Parent = Parent
  BY <1>1 DEF Sequential!Parent, Parent
<1>3. Sequential!Refs = Refs /\ Sequential!ParentNs = ParentNs
  BY <1>2 DEF Sequential!Refs, Refs, Sequential!ParentNs, ParentNs
<1>4. Sequential!Done = Done /\ Sequential!BudgetLeft = BudgetLeft
  BY DEF Sequential!Done, Done, Sequential!BudgetLeft, BudgetLeft
<1>5. Sequential!Advance = Advance /\ Sequential!Pop = Pop
  BY DEF Sequential!Advance, Advance, Sequential!Pop, Pop
<1>6. Sequential!AtRef = AtRef
  BY <1>1, <1>3, <1>4, SameReads DEF Sequential!AtRef, AtRef
<1>7. \A d, o : Sequential!DepthCut(d, o) = DepthCut(d, o)
  BY DEF Sequential!DepthCut, DepthCut
<1>8. \A id, o : Sequential!NewChild(id, o) = NewChild(id, o)
  BY <1>1, <1>2 DEF Sequential!NewChild, NewChild
<1> QED BY <1>1, <1>2, <1>3, <1>4, <1>5, <1>6, <1>7, <1>8

\* Initial states are initial states.
LEMMA InitIsInit == Init => Sequential!Init
<1>1. Sequential!Seed = Seed
  BY DEF Sequential!Seed, Seed
<1> QED BY <1>1, SameReads
        DEF Init, WalkInit, Sequential!Init, Sequential!WalkInit

\* Attaching a child is the same step without the prefetch,
LEMMA AttachIsAttach ==
  ASSUME NEW obj, Attach(obj)
  PROVE  Sequential!Attach(obj)
<1> USE SameReads, SameState
<1> DEFINE enters == obj.err = "" /\ Parent.depth + 1 < MaxDepth
<1>1. /\ pending # NoKey
      /\ nodes' = Append(nodes, NewChild(KeyIdentity(pending), obj))
      /\ capped' = (capped \/ DepthCut(Parent.depth + 1, obj))
      /\ stack' = IF enters
                  THEN Append(Advance, [node |-> Len(nodes) + 1, i |-> 1])
                  ELSE Advance
      /\ pending' = NoKey
      /\ UNCHANGED <<cluster, visited, cancelled>>
  BY DEF Attach
<1>2. /\ pending # Sequential!NoKey /\ pending' = Sequential!NoKey
      /\ nodes' = Append(nodes, Sequential!NewChild(Sequential!KeyIdentity(pending), obj))
      /\ capped' = (capped \/ Sequential!DepthCut(Sequential!Parent.depth + 1, obj))
  BY <1>1
<1>3. stack' = IF obj.err = "" /\ Sequential!Parent.depth + 1 < MaxDepth
               THEN Append(Sequential!Advance, [node |-> Len(nodes) + 1, i |-> 1])
               ELSE Sequential!Advance
  BY <1>1
<1> QED BY <1>1, <1>2, <1>3 DEF Sequential!Attach

\* and so is every other step of the loop.
LEMMA LoopStepIsLoopStep == LoopStep => Sequential!LoopStep
<1> USE SameReads, SameState
<1>1. Return => Sequential!Return
  BY DEF Return, Sequential!Return
<1>2. BudgetSpent => Sequential!BudgetSpent
  BY DEF BudgetSpent, Sequential!BudgetSpent
<1>3. SkipMalformed => Sequential!SkipMalformed
  BY DEF SkipMalformed, Sequential!SkipMalformed
<1>4. \A t : SkipVisited(t) => Sequential!SkipVisited(t)
  BY DEF SkipVisited, Sequential!SkipVisited
<1>5. \A t : AttachUnresolved(t) => Sequential!AttachUnresolved(t)
  BY DEF AttachUnresolved, Sequential!AttachUnresolved
<1>6. \A t : Reach(t) => Sequential!Reach(t)
  BY DEF Reach, Sequential!Reach
<1> QED BY <1>1, <1>2, <1>3, <1>4, <1>5, <1>6 DEF LoopStep, Sequential!LoopStep

\* Every step of a walk is a step of the sequential walk.
LEMMA StepIsSequential == [Step]_walkVars => [Sequential!Next]_(Sequential!walkVars)
<1>1. LoopStep => Sequential!Next
  BY LoopStepIsLoopStep DEF Sequential!Next
<1>2. Fetched => Sequential!Next
  BY AttachIsAttach, SameReads
     DEF Fetched, Sequential!Next, Sequential!Get, Sequential!Fetched
<1>3. Cancel => Sequential!Next
  BY SameState DEF Cancel, Sequential!Next, Sequential!Cancel
<1>4. UNCHANGED walkVars => UNCHANGED Sequential!walkVars
  BY DEF walkVars, Sequential!walkVars
<1> QED BY <1>1, <1>2, <1>3, <1>4 DEF Step

\* Windows change nothing that the walk builds: every behaviour of the
\* parallel walk, at every concurrency, is one of the sequential walk.
THEOREM ParallelIsSequential == Spec => RefinesSequential
<1>1. Inv /\ [Next]_vars => [Sequential!Next]_(Sequential!walkVars)
  BY NextIsStep, StepIsSequential DEF Inv
<1> QED BY <1>1, InitIsInit, SpecInv, PTL DEF Spec, RefinesSequential, Sequential!Safety
-----------------------------------------------------------------------------
(* The tree and the cluster.  What the walk ought to reach is told by the  *)
(* cluster alone, with no loop, no order and no fetching in it.            *)

ServedKinds(c) == {c.types[t].kind : t \in DOMAIN c.types}

Scoped(c, kind) == \E t \in DOMAIN c.types : c.types[t].kind = kind /\ c.types[t].namespaced

\* The refs that anything in the cluster has.
Mentioned(c) ==
  {c.root.refs[j] : j \in 1..Len(c.root.refs)}
  \cup UNION {{c.objects[id][j] : j \in 1..Len(c.objects[id])} : id \in DOMAIN c.objects}

\* Resolve never fails now and then, a kind has one scope, and a ref that does not
\* resolve is to no served kind: an identity stands for one object, by whatever
\* ref it is reached.
Steady(c) ==
  /\ c.flaky = {}
  /\ \A t, u \in DOMAIN c.types :
       c.types[t].kind = c.types[u].kind => c.types[t].namespaced = c.types[u].namespaced
  /\ \A r \in Mentioned(c) : Resolved(c, r) = Unresolved => r.kind \notin ServedKinds(c)

\* The object that an identity stands for.
ObjectOf(c, id) ==
  IF id = c.root.id THEN c.root
  ELSE IF id[1] \in ServedKinds(c)
  THEN Answer(c, [version |-> "", kind |-> id[1], namespaced |-> Scoped(c, id[1]),
                  ns |-> id[2], name |-> id[3]])
  ELSE Failure("resolve", "", id)

\* The identities that its refs name.
Children(c, id) ==
  LET o == ObjectOf(c, id)
  IN  {IdentityKey(Resolved(c, o.refs[j]), o.refs[j], o.id[2]) :
         j \in {j \in 1..Len(o.refs) : ~Malformed(o.refs[j])}}

Closed(c, S) == c.root.id \in S /\ \A id \in S : Children(c, id) \subseteq S

\* The composition: the least set with the root that has the children of each of
\* its members.
Reachable(c) == {id \in Identity : \A S \in SUBSET Identity : Closed(c, S) => id \in S}

\* A node has the refs of the object that its identity stands for, or says that the
\* context had ended.
Shown(c, obj, id) ==
  \/ obj.refs = ObjectOf(c, id).refs /\ obj.id[2] = ObjectOf(c, id).id[2]
  \/ obj.err = "context done" /\ obj.refs = <<>>

ReachedInv ==
  /\ Len(nodes) >= 1 /\ nodes[1].id = cluster.root.id
  /\ visited \subseteq Reachable(cluster)
  /\ pending # NoKey =>
       pending.kind \in ServedKinds(cluster) /\ pending.namespaced = Scoped(cluster, pending.kind)
  /\ \A n \in 1..Len(nodes) : Shown(cluster, nodes[n].obj, nodes[n].id)

\* What an identity stands for is an object, whose refs the cluster mentions.
LEMMA ObjectOfType ==
  ASSUME NEW c \in Clusters, NEW id \in Identity
  PROVE  /\ ObjectOf(c, id) \in Object
         /\ \A j \in 1..Len(ObjectOf(c, id).refs) : ObjectOf(c, id).refs[j] \in Mentioned(c)
<1> DEFINE key == [version |-> "", kind |-> id[1], namespaced |-> Scoped(c, id[1]),
                   ns |-> id[2], name |-> id[3]]
           place == <<key.kind, IF key.namespaced THEN key.ns ELSE "", key.name>>
<1>1. ClusterType(c)
  BY ClustersAssumption
<1>2. id[1] \in Names /\ id[2] \in Names /\ id[3] \in Names
  BY DEF Identity
<1>3. CASE id = c.root.id
  BY <1>1, <1>3 DEF ObjectOf, Mentioned, ClusterType
<1>4. \A err \in Errors, v \in Names, i \in Identity :
        /\ Failure(err, v, i) \in Object
        /\ \A j \in 1..Len(Failure(err, v, i).refs) : Failure(err, v, i).refs[j] \in Mentioned(c)
  <2> TAKE err \in Errors, v \in Names, i \in Identity
  <2>1. Failure(err, v, i).refs = <<>> /\ <<>> \in Seq(Ref)
    BY DEF Failure
  <2>2. Failure(err, v, i) \in Object
    BY <2>1 DEF Failure, Object
  <2> QED BY <2>1, <2>2
<1>5. "" \in Names /\ "resolve" \in Errors /\ "not found" \in Errors /\ "namespace required" \in Errors
  BY NamesAssumption DEF Errors
<1>6. CASE id # c.root.id /\ id[1] \notin ServedKinds(c)
  BY <1>4, <1>5, <1>6 DEF ObjectOf
<1>7. CASE id # c.root.id /\ id[1] \in ServedKinds(c)
  <2>1. ObjectOf(c, id) = Answer(c, key)
    BY <1>7 DEF ObjectOf
  <2>2. key.version = "" /\ KeyIdentity(key) \in Identity
    BY <1>2 DEF KeyIdentity, Identity
  <2> DEFINE found == [err |-> "", version |-> key.version, id |-> place,
                       refs |-> c.objects[place]]
  <2>3. \/ Answer(c, key) = Failure("namespace required", key.version, KeyIdentity(key))
        \/ Answer(c, key) = Failure("not found", key.version, KeyIdentity(key))
        \/ place \in DOMAIN c.objects /\ Answer(c, key) = found
    BY DEF Answer
  <2> HIDE DEF key, place
  <2>4. ASSUME place \in DOMAIN c.objects
        PROVE  /\ found \in Object
               /\ \A j \in 1..Len(found.refs) : found.refs[j] \in Mentioned(c)
    <3>1. place \in Identity /\ c.objects[place] \in Seq(Ref)
      BY <1>1, <2>4 DEF ClusterType
    <3>2. found \in Object
      BY <1>5, <2>2, <3>1 DEF Object, Errors
    <3>3. found.refs = c.objects[place]
      OBVIOUS
    <3>4. \A j \in 1..Len(c.objects[place]) : c.objects[place][j] \in Mentioned(c)
      BY <2>4 DEF Mentioned
    <3> QED BY <3>2, <3>3, <3>4
  <2> HIDE DEF found
  <2> QED BY <1>4, <1>5, <2>1, <2>2, <2>3, <2>4
<1> QED BY <1>3, <1>6, <1>7

\* The children of an identity are identities.
LEMMA ChildrenType ==
  ASSUME NEW c \in Clusters, NEW id \in Identity PROVE Children(c, id) \subseteq Identity
<1> DEFINE o == ObjectOf(c, id)
<1>1. o \in Object
  BY ObjectOfType
<1> HIDE DEF o
<1>2. o.refs \in Seq(Ref) /\ o.id[2] \in Names
  BY <1>1 DEF Object, Identity
<1>3. \A j \in 1..Len(o.refs) : IdentityKey(Resolved(c, o.refs[j]), o.refs[j], o.id[2]) \in Identity
  <2> TAKE j \in 1..Len(o.refs)
  <2>1. o.refs[j] \in Ref
    BY <1>2
  <2>2. Resolved(c, o.refs[j]) \in Target
    BY <2>1, ResolutionType DEF Resolutions
  <2> QED BY <1>2, <2>1, <2>2, KeyOfRef
<1> QED BY <1>3 DEF Children, o

\* Reachable is closed itself,
LEMMA ReachableClosed ==
  ASSUME NEW c \in Clusters, NEW id \in Reachable(c) PROVE Children(c, id) \subseteq Reachable(c)
<1>1. id \in Identity
  BY DEF Reachable
<1>2. Children(c, id) \subseteq Identity
  BY <1>1, ChildrenType
<1>3. \A S \in SUBSET Identity : Closed(c, S) => Children(c, id) \subseteq S
  BY DEF Reachable, Closed
<1> QED BY <1>2, <1>3 DEF Reachable

\* the root is in it,
LEMMA RootReachable == ASSUME NEW c \in Clusters PROVE c.root.id \in Reachable(c)
<1>1. c.root.id \in Identity
  BY ClustersAssumption DEF ClusterType, Object
<1> QED BY <1>1 DEF Reachable, Closed

\* and a Get for a served kind gives what the identity stands for.
LEMMA AnswerIsObject ==
  ASSUME NEW c \in Clusters, NEW k \in Key, KeyIdentity(k) # c.root.id,
         k.kind \in ServedKinds(c), k.namespaced = Scoped(c, k.kind)
  PROVE  Shown(c, Answer(c, k), KeyIdentity(k))
<1> DEFINE id  == KeyIdentity(k)
           key == [version |-> "", kind |-> id[1], namespaced |-> Scoped(c, id[1]),
                   ns |-> id[2], name |-> id[3]]
<1>1. id[1] = k.kind /\ id[2] = k.ns /\ id[3] = k.name
  BY DEF KeyIdentity
<1>2. ObjectOf(c, id) = Answer(c, key)
  BY <1>1 DEF ObjectOf
<1>3. /\ key.kind = k.kind /\ key.namespaced = k.namespaced /\ key.ns = k.ns /\ key.name = k.name
      /\ KeyIdentity(key) = KeyIdentity(k)
  BY <1>1 DEF KeyIdentity
<1> HIDE DEF key
<1>4. Answer(c, key).refs = Answer(c, k).refs /\ Answer(c, key).id = Answer(c, k).id
  BY <1>3 DEF Answer, Failure
<1> QED BY <1>2, <1>4 DEF Shown

\* The ref at hand names a child of what its parent stands for.
LEMMA RefReached ==
  ASSUME WalkInv, ReachedInv, Steady(cluster), AtRef, ~Malformed(Refs[Top.i]),
         NEW t \in Resolutions(cluster, Refs[Top.i])
  PROVE  /\ t = Resolved(cluster, Refs[Top.i])
         /\ Refs[Top.i] \in Mentioned(cluster)
         /\ IdentityKey(t, Refs[Top.i], ParentNs) \in Reachable(cluster)
<1>1. /\ ~Done /\ Top.i <= Len(Refs) /\ cluster \in Clusters
      /\ Top.i \in Nat \ {0} /\ Len(Refs) \in Nat /\ Top.node \in 1..Len(nodes)
  BY RefAtHand DEF AtRef, WalkInv, TypeOK
<1>2. t = Resolved(cluster, Refs[Top.i])
  BY DEF Steady, Resolutions
<1> DEFINE id == Parent.id
<1>3. id \in visited
  BY <1>1 DEF WalkInv, VisitedIsBuilt, Parent
<1>4. id \in Reachable(cluster) /\ id \in Identity
  BY <1>3 DEF ReachedInv, WalkInv, TypeOK
<1>5. Shown(cluster, Parent.obj, id)
  BY <1>1 DEF ReachedInv, Parent
<1>6. Refs # <<>>
  BY <1>1
<1>7. Refs = ObjectOf(cluster, id).refs /\ ParentNs = ObjectOf(cluster, id).id[2]
  BY <1>5, <1>6 DEF Shown, Refs, ParentNs
<1> HIDE DEF id
<1>8. Top.i \in 1..Len(Refs)
  BY <1>1
<1>9. Refs[Top.i] \in Mentioned(cluster)
  BY <1>1, <1>4, <1>7, <1>8, ObjectOfType
<1>10. IdentityKey(t, Refs[Top.i], ParentNs) \in Children(cluster, id)
  BY <1>2, <1>7, <1>8 DEF Children
<1>11. Children(cluster, id) \subseteq Reachable(cluster)
  BY <1>1, <1>4, ReachableClosed
<1> QED BY <1>2, <1>9, <1>10, <1>11

\* A node that shows what its identity stands for keeps ReachedInv.
LEMMA GrowReached ==
  ASSUME WalkInv, ReachedInv, NEW id, NEW obj, nodes' = Append(nodes, NewChild(id, obj)),
         Shown(cluster, obj, id), pending' = NoKey, UNCHANGED cluster,
         visited' \subseteq Reachable(cluster)
  PROVE  ReachedInv'
<1>1. nodes \in Seq(Node) /\ Len(nodes) \in Nat
  BY DEF WalkInv, TypeOK
<1> DEFINE child == NewChild(id, obj)
<1>2. child.id = id /\ child.obj = obj
  BY DEF NewChild
<1> HIDE DEF child
<1>3. Len(nodes') = Len(nodes) + 1 /\ nodes'[Len(nodes) + 1] = child
  BY <1>1 DEF child
<1>4. \A n \in 1..Len(nodes) : nodes'[n] = nodes[n]
  BY <1>1
<1>5. Len(nodes') >= 1 /\ nodes'[1].id = cluster.root.id
  BY <1>1, <1>3, <1>4 DEF ReachedInv
<1>6. \A n \in 1..Len(nodes') : Shown(cluster, nodes'[n].obj, nodes'[n].id)
  <2> TAKE n \in 1..Len(nodes')
  <2>1. n \in 1..Len(nodes) \/ n = Len(nodes) + 1
    BY <1>1, <1>3
  <2>2. CASE n \in 1..Len(nodes)
    BY <1>4, <2>2 DEF ReachedInv
  <2>3. CASE n = Len(nodes) + 1
    BY <1>2, <1>3, <2>3
  <2> QED BY <2>1, <2>2, <2>3
<1> QED BY <1>5, <1>6 DEF ReachedInv

\* Every step of a walk of a steady cluster keeps what was reached within it.
LEMMA StepReached ==
  ASSUME WalkInv, ReachedInv, Steady(cluster), [Step]_walkVars
  PROVE  ReachedInv'
<1>0. cluster \in Clusters /\ visited \subseteq Reachable(cluster)
  BY DEF WalkInv, TypeOK, ReachedInv
<1>1. CASE Return \/ BudgetSpent \/ SkipMalformed \/ Cancel \/ UNCHANGED walkVars
           \/ \E t \in Resolutions(cluster, Refs[Top.i]) : SkipVisited(t)
  <2>1. UNCHANGED <<cluster, nodes, visited, pending>>
    BY <1>1 DEF Return, BudgetSpent, SkipMalformed, Cancel, walkVars, SkipVisited
  <2> QED BY <2>1 DEF ReachedInv
<1>2. ASSUME NEW t \in Resolutions(cluster, Refs[Top.i]), AttachUnresolved(t)
      PROVE  ReachedInv'
  <2> DEFINE r   == Refs[Top.i]
             id  == IdentityKey(t, r, ParentNs)
             obj == Failure("resolve", r.version, id)
  <2>1. /\ AtRef /\ ~Malformed(r) /\ id \notin visited /\ t = Unresolved
        /\ visited' = visited \cup {id} /\ nodes' = Append(nodes, NewChild(id, obj))
        /\ UNCHANGED <<cluster, pending>> /\ pending = NoKey
    BY <1>2 DEF AttachUnresolved, AtRef
  <2>2. t = Resolved(cluster, r) /\ r \in Mentioned(cluster) /\ id \in Reachable(cluster)
    BY <2>1, RefReached
  <2>3. id[1] = r.kind /\ r.kind \notin ServedKinds(cluster)
    BY <2>1, <2>2 DEF IdentityKey, Steady
  <2> HIDE DEF r, id
  <2>4. id # cluster.root.id
    BY <2>1 DEF ReachedInv, WalkInv, VisitedIsBuilt
  <2>5. Shown(cluster, obj, id)
    BY <2>3, <2>4 DEF Shown, ObjectOf, Failure
  <2>6. visited' \subseteq Reachable(cluster)
    BY <1>0, <2>1, <2>2
  <2> QED BY <2>1, <2>5, <2>6, GrowReached
<1>3. ASSUME NEW t \in Resolutions(cluster, Refs[Top.i]), Reach(t)
      PROVE  ReachedInv'
  <2> DEFINE r   == Refs[Top.i]
             id  == IdentityKey(t, r, ParentNs)
             key == GetKey(t, r, ParentNs)
  <2>1. /\ AtRef /\ ~Malformed(r) /\ t # Unresolved
        /\ visited' = visited \cup {id} /\ pending' = key
        /\ UNCHANGED <<cluster, nodes>>
    BY <1>3 DEF Reach
  <2>2. t = Resolved(cluster, r) /\ id \in Reachable(cluster)
    BY <2>1, RefReached
  <2>3. key.kind = t.kind /\ key.namespaced = t.namespaced
    BY DEF GetKey
  <2> HIDE DEF r, id, key
  <2>4. PICK u \in DOMAIN cluster.types : t = cluster.types[u]
    BY <2>1, <2>2 DEF Resolved
  <2>5. t.kind \in ServedKinds(cluster)
    BY <2>4 DEF ServedKinds
  <2>6. t.namespaced \in BOOLEAN
    BY <1>0, <2>4, ClustersAssumption DEF ClusterType, Target
  <2>7. t.namespaced = Scoped(cluster, t.kind)
    <3>1. \A v \in DOMAIN cluster.types :
            cluster.types[v].kind = t.kind => cluster.types[v].namespaced = t.namespaced
      BY <2>4 DEF Steady
    <3>2. Scoped(cluster, t.kind) <=> t.namespaced
      BY <2>4, <3>1 DEF Scoped
    <3>3. Scoped(cluster, t.kind) \in BOOLEAN
      BY Zenon DEF Scoped
    <3>4. \A a, b \in BOOLEAN : (a <=> b) => b = a
      OBVIOUS
    <3> QED BY <2>6, <3>2, <3>3, <3>4, Zenon
  <2>8. visited' \subseteq Reachable(cluster)
    BY <1>0, <2>1, <2>2
  <2> QED BY <2>1, <2>3, <2>5, <2>7, <2>8 DEF ReachedInv
<1>4. CASE Fetched
  <2>1. PICK obj \in Outcomes(pending) : Attach(obj)
    BY <1>4 DEF Fetched
  <2> DEFINE id == KeyIdentity(pending)
  <2>2. /\ pending # NoKey /\ nodes' = Append(nodes, NewChild(id, obj)) /\ pending' = NoKey
        /\ UNCHANGED <<cluster, visited>>
    BY <2>1 DEF Attach
  <2>3. pending \in Key /\ Len(nodes) \in Nat
    BY DEF WalkInv, TypeOK
  <2>4. id # cluster.root.id
    BY <2>2, <2>3 DEF WalkInv, PendingInv, ReachedInv
  <2>5. Shown(cluster, Answer(cluster, pending), id)
    BY <1>0, <2>2, <2>3, <2>4, AnswerIsObject DEF ReachedInv
  <2>6. Shown(cluster, CtxError(pending), id)
    BY DEF Shown, CtxError, Failure
  <2>7. Shown(cluster, obj, id)
    BY <2>5, <2>6 DEF Outcomes
  <2> HIDE DEF id
  <2> QED BY <1>0, <2>2, <2>7, GrowReached
<1> QED BY <1>1, <1>2, <1>3, <1>4 DEF Step, LoopStep

\* The walk starts with its root.
LEMMA InitReached == WalkInit => ReachedInv
<1> SUFFICES ASSUME WalkInit PROVE ReachedInv
  OBVIOUS
<1>1. /\ cluster \in Clusters /\ Len(nodes) = 1 /\ pending = NoKey /\ visited = {cluster.root.id}
      /\ nodes[1].id = cluster.root.id /\ nodes[1].obj = cluster.root
  BY DEF WalkInit, Seed
<1>2. visited \subseteq Reachable(cluster)
  BY <1>1, RootReachable
<1>3. Shown(cluster, cluster.root, cluster.root.id)
  BY DEF Shown, ObjectOf
<1>4. \A n \in 1..Len(nodes) : n = 1
  BY <1>1
<1> QED BY <1>1, <1>2, <1>3, <1>4 DEF ReachedInv

\* The identities of the tree.
Ids == {nodes[n].id : n \in 1..Len(nodes)}

Interrupted == \E n \in 1..Len(nodes) : nodes[n].obj.err = "context done"

\* A walk that is done, was not Capped and shows no node whose Get the end of the
\* context prevented, has built exactly what is reachable from its root: nothing
\* is missing, and nothing else is in the tree.
TreeIsReachable ==
  (Done /\ ~capped /\ ~Interrupted /\ Steady(cluster)) => Ids = Reachable(cluster)

\* What was followed is closed, and nothing else was reached.
LEMMA ReachedAll == ASSUME WalkInv, Steady(cluster) => ReachedInv PROVE TreeIsReachable
<1> SUFFICES ASSUME Done, ~capped, ~Interrupted, Steady(cluster)
             PROVE  Ids = Reachable(cluster)
  BY DEF TreeIsReachable
<1>1. ReachedInv /\ cluster \in Clusters /\ visited \subseteq Identity /\ nodes \in Seq(Node)
  BY DEF WalkInv, TypeOK
<1>2. Ids = visited
  BY DEF WalkInv, FramesInv, VisitedIsBuilt, Ids
<1>3. Closed(cluster, visited)
  <2>1. 1 \in 1..Len(nodes)
    <3>1. Len(nodes) \in Nat
      BY <1>1
    <3>2. Len(nodes) >= 1
      BY <1>1 DEF ReachedInv
    <3> QED BY <3>1, <3>2
  <2>2. cluster.root.id \in visited
    BY <1>1, <1>2, <2>1 DEF ReachedInv, Ids
  <2> SUFFICES ASSUME NEW id \in visited, NEW kid \in Children(cluster, id)
               PROVE  kid \in visited
    BY <2>2 DEF Closed
  <2>3. PICK n \in 1..Len(nodes) : id = nodes[n].id
    BY <1>2 DEF Ids
  <2> DEFINE o == nodes[n].obj
  <2>4. o.refs = ObjectOf(cluster, id).refs /\ o.id[2] = ObjectOf(cluster, id).id[2]
    BY <1>1, <2>3 DEF ReachedInv, Shown, Interrupted
  <2>5. PICK j \in 1..Len(o.refs) :
          /\ ~Malformed(o.refs[j])
          /\ kid = IdentityKey(Resolved(cluster, o.refs[j]), o.refs[j], o.id[2])
    BY <2>4 DEF Children
  <2>6. Followed(nodes[n], o.refs[j])
    BY <2>5, InvComplete DEF Complete
  <2>7. Resolutions(cluster, o.refs[j]) = {Resolved(cluster, o.refs[j])}
    BY DEF Resolutions, Steady
  <2> QED BY <2>5, <2>6, <2>7 DEF Followed
<1>4. Reachable(cluster) \subseteq visited
  BY <1>1, <1>3 DEF Reachable
<1> QED BY <1>1, <1>2, <1>4 DEF ReachedInv

\* The tree that the parallel walk shows is the composition, for every limit,
\* concurrency and cluster, whatever the windows prefetched.
THEOREM TreeIsTheComposition == Spec => []TreeIsReachable
<1> DEFINE R == Steady(cluster) => ReachedInv
<1>1. Init => R
  BY InitReached DEF Init
<1>2. Inv /\ R /\ [Next]_vars => R'
  <2> SUFFICES ASSUME WalkInv, FetchInv, R, [Next]_vars, Steady(cluster)' PROVE ReachedInv'
    BY DEF Inv
  <2>1. [Step]_walkVars
    BY NextIsStep
  <2>2. cluster' = cluster
    BY <2>1 DEF Step, LoopStep, Return, BudgetSpent, SkipMalformed, SkipVisited, AttachUnresolved,
                Reach, Fetched, Attach, Cancel, walkVars
  <2>3. Steady(cluster)
    BY <2>2
  <2> QED BY <2>1, <2>3, StepReached
<1>3. Inv /\ R => TreeIsReachable
  BY ReachedAll DEF Inv
<1> QED BY <1>1, <1>2, <1>3, SpecInv, PTL DEF Spec
-----------------------------------------------------------------------------
(* The walk ends: its steps go down in an order without endless descents,  *)
(* on cyclic compositions, in clusters that answer now this way and now    *)
(* that, and whatever the goroutines and the context do.                   *)

WithStatus(s) == {k \in DOMAIN workers : workers[k].status = s}

\* How many nodes may still be made; whether a child may still be reached before the
\* next node is; the activations; the refs that are left to the one at work; whether
\* it may open a window before its next ref; and what its goroutines have to do.
Rank ==
  <<MaxNodes - Len(nodes),
    IF pending = NoKey THEN 1 ELSE 0,
    Len(stack),
    IF Done THEN 0 ELSE Len(Refs) + 1 - Top.i,
    IF ~Done /\ Top.i >= Fetcher.next THEN 1 ELSE 0,
    IF Joined THEN 0
    ELSE 1 + 2 * Cardinality(WithStatus("spawned")) + Cardinality(WithStatus("getting"))>>

Ranks == [1..6 -> Nat]

\* The lexicographic order of ranks.
Below == {p \in Nat \X Nat : p[1] < p[2]}
Lower == LexProductOrdering(Below, Nat, 6)

\* There is no endless descent in it.
LEMMA NoEndlessDescent == IsWellFoundedOn(Lower, Ranks)
<1>1. OpToRel(<, Nat) = Below
  BY DEF OpToRel, Below
<1>2. IsWellFoundedOn(Below, Nat)
  BY <1>1, NatLessThanWellFounded
<1>3. 6 \in Nat
  OBVIOUS
<1> QED BY <1>2, <1>3, WFLexProductOrdering DEF Lower, Ranks

\* Six naturals are a rank.
LEMMA RankOfSix ==
  ASSUME NEW a \in Nat, NEW b \in Nat, NEW c \in Nat, NEW d \in Nat, NEW e \in Nat, NEW f \in Nat
  PROVE  <<a, b, c, d, e, f>> \in Ranks
BY DEF Ranks

\* A rank is lower when its first number that differs is.
LEMMA LowerAt ==
  ASSUME NEW r \in Ranks, NEW s \in Ranks, NEW j \in 1..6, r[j] < s[j],
         \A i \in 1..(j - 1) : r[i] = s[i]
  PROVE  <<r, s>> \in Lower
<1>1. r[j] \in Nat /\ s[j] \in Nat
  BY DEF Ranks
<1>2. <<r[j], s[j]>> \in Below
  BY <1>1 DEF Below
<1> QED BY <1>2 DEF Lower, LexProductOrdering, Ranks

\* The six numbers of a rank.
LEMMA RankParts ==
  /\ Rank[1] = MaxNodes - Len(nodes)
  /\ Rank[2] = IF pending = NoKey THEN 1 ELSE 0
  /\ Rank[3] = Len(stack)
  /\ Rank[4] = IF Done THEN 0 ELSE Len(Refs) + 1 - Top.i
  /\ Rank[5] = IF ~Done /\ Top.i >= Fetcher.next THEN 1 ELSE 0
  /\ Rank[6] = IF Joined THEN 0
               ELSE 1 + 2 * Cardinality(WithStatus("spawned")) + Cardinality(WithStatus("getting"))
BY DEF Rank

\* The goroutines with a status are finitely many.
LEMMA StatusFinite ==
  ASSUME HeldInv, ~Joined, NEW s
  PROVE  IsFiniteSet(WithStatus(s)) /\ Cardinality(WithStatus(s)) \in Nat
<1>1. IsFiniteSet(DOMAIN workers)
  BY DEF HeldInv
<1>2. WithStatus(s) \subseteq DOMAIN workers
  BY DEF WithStatus
<1> QED BY <1>1, <1>2, FS_Subset, FS_CardinalityType

\* The rank is one, by the limits of the walk.
LEMMA RankType == ASSUME Inv, HeldInv PROVE Rank \in Ranks
<1>1. /\ Len(nodes) \in Nat /\ Len(stack) \in Nat /\ MaxNodes \in Nat /\ Len(nodes) <= MaxNodes
  BY LimitsAssumption DEF Inv, WalkInv, TypeOK, WithinLimits
<1>2. MaxNodes - Len(nodes) \in Nat
  BY <1>1
<1>3. (IF Done THEN 0 ELSE Len(Refs) + 1 - Top.i) \in Nat
  <2>1. CASE Done
    BY <2>1
  <2>2. CASE ~Done
    <3>1. /\ Len(stack) \in 1..Len(stack) /\ Top = stack[Len(stack)] /\ Top \in Frame
          /\ Top.node \in 1..Len(nodes)
      BY <2>2, StackOfAdvance DEF Inv, WalkInv, Top
    <3>2. Top.i \in Nat /\ Len(Refs) \in Nat
      BY <3>1, RefsAreRefs DEF Inv, WalkInv, Refs, Parent, Frame
    <3>3. Top.i <= Len(Refs) + 1
      BY <3>1 DEF Inv, WalkInv, FramesInv, Refs, Parent
    <3> QED BY <2>2, <3>2, <3>3
  <2> QED BY <2>1, <2>2
<1>4. (IF Joined THEN 0 ELSE 1 + 2 * Cardinality(WithStatus("spawned"))
                               + Cardinality(WithStatus("getting"))) \in Nat
  BY StatusFinite
<1> QED BY <1>1, <1>2, <1>3, <1>4, RankOfSix DEF Rank

\* A step of the loop, or a child that has come.
LEMMA MoveDescends ==
  ASSUME Inv, HeldInv, Rank \in Ranks, Rank' \in Ranks, LoopMove
  PROVE  <<Rank', Rank>> \in Lower
<1>1. WalkInv /\ TypeOK /\ nodes \in Seq(Node) /\ Len(nodes) \in Nat /\ MaxNodes \in Nat
  BY LimitsAssumption DEF Inv, WalkInv, TypeOK
<1>2. ASSUME NEW child, nodes' = Append(nodes, child) PROVE <<Rank', Rank>> \in Lower
  <2>1. Len(nodes') = Len(nodes) + 1
    BY <1>1, <1>2
  <2>2. Rank'[1] = MaxNodes - (Len(nodes) + 1) /\ Rank[1] = MaxNodes - Len(nodes)
    BY <2>1 DEF Rank
  <2>3. Rank'[1] < Rank[1]
    BY <1>1, <2>2
  <2> QED BY <2>3, LowerAt
<1>3. CASE Return \/ BudgetSpent
  <2>1. ~Done /\ pending = NoKey /\ pending' = NoKey /\ nodes' = nodes /\ stack' = Pop
    BY <1>3 DEF Return, BudgetSpent, AtRef
  <2>2. Len(stack) \in Nat /\ Len(stack') = Len(stack) - 1
    BY <1>1, <2>1, StackOfPop, StackOfAdvance
  <2>3. Rank'[1] = Rank[1] /\ Rank'[2] = Rank[2] /\ Rank'[3] < Rank[3]
    BY <2>1, <2>2 DEF Rank
  <2> QED BY <2>3, LowerAt
<1>4. ASSUME AtRef, stack' = Advance, UNCHANGED <<nodes, pending>> PROVE <<Rank', Rank>> \in Lower
  <2>1. ~Done /\ Top.i <= Len(Refs)
    BY <1>4 DEF AtRef
  <2>2. Len(stack) \in Nat \ {0} /\ Len(stack') = Len(stack) /\ Len(stack) \in 1..Len(stack)
    BY <1>1, <1>4, <2>1, StackOfAdvance
  <2>3. stack'[Len(stack)].node = Top.node /\ stack'[Len(stack)].i = Top.i + 1
    BY <1>1, <1>4, <2>1, <2>2, StackOfAdvance DEF Top
  <2>4. ~Done' /\ Refs' = Refs /\ Top'.i = Top.i + 1
    BY <1>4, <2>2, <2>3 DEF Done, Refs, Parent, Top
  <2>5. Top.i \in Nat /\ Len(Refs) \in Nat
    BY <1>1, <2>1, RefAtHand
  <2>6. Rank'[1] = Rank[1] /\ Rank'[2] = Rank[2] /\ Rank'[3] = Rank[3]
    BY <1>4, <2>2 DEF Rank
  <2>7. Rank[4] = Len(Refs) + 1 - Top.i /\ Rank'[4] = Len(Refs) + 1 - (Top.i + 1)
    BY <2>1, <2>4 DEF Rank
  <2>8. Rank'[4] < Rank[4]
    BY <2>5, <2>7
  <2> QED BY <2>6, <2>8, LowerAt
<1>5. ASSUME NEW t, Reach(t) PROVE <<Rank', Rank>> \in Lower
  <2>1. pending = NoKey /\ nodes' = nodes /\ pending' # NoKey
    <3>1. /\ AtRef /\ ~Malformed(Refs[Top.i]) /\ nodes' = nodes
          /\ pending' = GetKey(t, Refs[Top.i], ParentNs)
      BY <1>5 DEF Reach
    <3>2. pending'.name = Refs[Top.i].name /\ Refs[Top.i].name # "" /\ NoKey.name = ""
      BY <3>1 DEF GetKey, Malformed, NoKey
    <3> QED BY <3>1, <3>2 DEF AtRef
  <2>2. Rank'[1] = Rank[1] /\ Rank'[2] = 0 /\ Rank[2] = 1
    BY <2>1 DEF Rank
  <2> QED BY <2>2, LowerAt
<1>6. CASE LoopStep
  BY <1>2, <1>3, <1>4, <1>5, <1>6 DEF LoopStep, SkipMalformed, SkipVisited, AttachUnresolved
<1>7. ASSUME NEW obj, Attach(obj) PROVE <<Rank', Rank>> \in Lower
  BY <1>2, <1>7 DEF Attach
<1> QED BY <1>6, <1>7 DEF LoopMove, Loop, ServeCached, DirectGet, Fetched

\* A step that leaves the walk where it is, and its windows.
LEMMA SameWalk ==
  ASSUME UNCHANGED walkVars
  PROVE  /\ Rank'[1] = Rank[1] /\ Rank'[2] = Rank[2] /\ Rank'[3] = Rank[3] /\ Rank'[4] = Rank[4]
         /\ Rank'[5] = IF ~Done /\ Top.i >= Fetcher.next' THEN 1 ELSE 0
BY DEF Rank, walkVars, Done, Top, Refs, Parent

\* Opening a window.
LEMMA OpenDescends ==
  ASSUME Inv, HeldInv, Rank \in Ranks, Rank' \in Ranks, OpenWindow
  PROVE  <<Rank', Rank>> \in Lower
<1>1. WindowDue /\ ~Done /\ UNCHANGED walkVars /\ Top.i <= Len(Refs)
  BY DEF OpenWindow, WindowDue, Inv, WalkInv, FramesInv
<1>2. PICK T : Opened(T)
  BY WindowOpened DEF Inv
<1>3. DOMAIN T = (Top.i + 1)..Len(Refs)
  BY <1>2 DEF Opened, WindowOf
<1>4. WindowEnd(T) \in (Top.i + 1)..(Len(Refs) + 1)
  BY <1>1, <1>3, WindowRuns DEF Inv
<1>5. Top.i \in Nat /\ Len(Refs) \in Nat
  BY <1>1, RefAtHand DEF Inv
<1>6. Fetcher.next' = WindowEnd(T)
  BY <1>1, <1>2 DEF Opened, Fetcher, walkVars
<1>7. Rank[5] = 1 /\ Rank'[5] = 0
  BY <1>1, <1>4, <1>5, <1>6, SameWalk, RankParts DEF WindowDue
<1> QED BY <1>1, <1>7, SameWalk, LowerAt

\* The set of the goroutines with a status loses one of them.
LEMMA OneLess ==
  ASSUME NEW S, IsFiniteSet(S), NEW k \in S
  PROVE  IsFiniteSet(S \ {k}) /\ Cardinality(S \ {k}) = Cardinality(S) - 1 /\ Cardinality(S) \in Nat
BY FS_RemoveElement, FS_CardinalityType

\* A step of a goroutine.
LEMMA WorkerDescends ==
  ASSUME Inv, HeldInv, Rank \in Ranks, Rank' \in Ranks, NEW k \in DOMAIN workers,
         WorkerSkip(k) \/ WorkerStart(k) \/ WorkerReturn(k)
  PROVE  <<Rank', Rank>> \in Lower
<1> DEFINE S == WithStatus("spawned")
           G == WithStatus("getting")
<1>1. UNCHANGED walkVars /\ UNCHANGED fetchers /\ ~Joined /\ ~Joined'
  BY DEF WorkerSkip, WorkerStart, WorkerReturn, Joined
<1>2. /\ IsFiniteSet(S) /\ Cardinality(S) \in Nat /\ IsFiniteSet(G) /\ Cardinality(G) \in Nat
  BY <1>1, StatusFinite
<1>3. DOMAIN workers' = DOMAIN workers /\ \A c \in DOMAIN workers : c # k => workers'[c] = workers[c]
  BY DEF WorkerSkip, WorkerStart, WorkerReturn
<1>4. Rank'[5] = Rank[5]
  BY <1>1, SameWalk, RankParts DEF Fetcher, walkVars
<1>5. /\ Rank[6] = 1 + 2 * Cardinality(S) + Cardinality(G)
      /\ Rank'[6] = 1 + 2 * Cardinality(S') + Cardinality(G')
  BY <1>1 DEF Rank
<1>6. workers[k] \in Worker
  BY DEF Inv, FetchInv, WorkersOK
<1>7. Rank'[6] < Rank[6]
  <2>1. CASE WorkerSkip(k)
    <3>1. workers[k].status = "spawned" /\ workers'[k].status = "skipped"
      BY <1>6, <2>1 DEF WorkerSkip, Worker
    <3>2. k \in S /\ S' = S \ {k} /\ G' = G
      BY <1>3, <3>1 DEF WithStatus
    <3> HIDE DEF S, G
    <3>3. Cardinality(S \ {k}) = Cardinality(S) - 1
      BY <1>2, <3>2, OneLess
    <3>4. Rank'[6] = 1 + 2 * (Cardinality(S) - 1) + Cardinality(G)
      BY <1>5, <3>2, <3>3
    <3> QED BY <1>2, <1>5, <3>4
  <2>2. CASE WorkerStart(k)
    <3>1. workers[k].status = "spawned" /\ workers'[k].status = "getting"
      BY <1>6, <2>2 DEF WorkerStart, Worker
    <3>2. k \in S /\ k \notin G /\ S' = S \ {k} /\ G' = G \cup {k}
      BY <1>3, <3>1 DEF WithStatus
    <3> HIDE DEF S, G
    <3>3. Cardinality(G \cup {k}) = Cardinality(G) + 1
      BY <1>2, <3>2, FS_AddElement
    <3> QED BY <1>2, <1>5, <3>2, <3>3, OneLess
  <2>3. CASE WorkerReturn(k)
    <3>1. workers[k].status = "getting" /\ workers'[k].status = "returned"
      BY <1>6, <2>3 DEF WorkerReturn, Worker
    <3>2. k \in G /\ G' = G \ {k} /\ S' = S
      BY <1>3, <3>1 DEF WithStatus
    <3> HIDE DEF S, G
    <3> QED BY <1>2, <1>5, <3>2, OneLess
  <2> QED BY <2>1, <2>2, <2>3
<1> QED BY <1>1, <1>4, <1>7, SameWalk, LowerAt

\* The join.
LEMMA JoinDescends ==
  ASSUME Inv, HeldInv, Rank \in Ranks, Rank' \in Ranks, Join
  PROVE  <<Rank', Rank>> \in Lower
<1>1. UNCHANGED walkVars /\ ~Joined /\ Joined'
  BY DEF Join, Joined
<1>2. ~Done
  BY <1>1 DEF Inv, WalkInv, FetchInv, WindowAwaited, FramesInv
<1>3. FetcherOK(Fetcher) /\ Len(stack) \in DOMAIN fetchers
  BY <1>2, FetcherAtHand DEF Inv
<1>4. Fetcher.next' = Fetcher.next
  BY <1>1, <1>3 DEF Join, Fetcher, walkVars, FetcherOK
<1>5. Rank'[5] = Rank[5]
  BY <1>1, <1>4, SameWalk, RankParts
<1>6. Cardinality(WithStatus("spawned")) \in Nat /\ Cardinality(WithStatus("getting")) \in Nat
  BY <1>1, StatusFinite
<1>7. Rank'[6] = 0 /\ Rank[6] > 0
  BY <1>1, <1>6 DEF Rank
<1> QED BY <1>1, <1>5, <1>7, SameWalk, LowerAt

\* What lowers the rank: every step of the walk and of its goroutines.  The end of
\* the context is no step of theirs, and leaves it as it is.
WalkDescends ==
  /\ WalkStep => <<Rank', Rank>> \in Lower
  /\ CancelCtx => Rank' = Rank

\* In every behaviour the rank is a rank and goes down with each step of the walk,
\* and so, Lower having no endless descents, the walk takes finitely many of them.
THEOREM WalkIsFinite ==
  /\ IsWellFoundedOn(Lower, Ranks)
  /\ Spec => [](Rank \in Ranks) /\ [][WalkDescends]_vars
<1>1. Inv /\ WindowsInv => Rank \in Ranks
  BY RankType DEF WindowsInv
<1>2. ASSUME Inv, WindowsInv, Inv', WindowsInv', Next PROVE WalkDescends
  <2>1. Rank \in Ranks /\ Rank' \in Ranks
    <3>1. (Inv /\ WindowsInv)' => (Rank \in Ranks)'
      BY <1>1, PTL
    <3> QED BY <1>1, <1>2, <3>1
  <2>2. HeldInv
    BY <1>2 DEF WindowsInv
  <2>3. ASSUME WalkStep PROVE <<Rank', Rank>> \in Lower
    BY <1>2, <2>1, <2>2, <2>3, MoveDescends, OpenDescends, WorkerDescends, JoinDescends
       DEF WalkStep, WorkerStep, LoopMove
  <2>4. ASSUME CancelCtx PROVE Rank' = Rank
    BY <2>4 DEF CancelCtx, Cancel, Rank, Done, Refs, Parent, Top, Fetcher, Joined, WithStatus
  <2> QED BY <2>3, <2>4 DEF WalkDescends
<1>3. (Inv /\ WindowsInv) /\ (Inv /\ WindowsInv)' /\ [Next]_vars => [WalkDescends]_vars
  BY <1>2
<1>4. Spec => [](Rank \in Ranks) /\ [][WalkDescends]_vars
  BY <1>1, <1>3, WindowsAlways, PTL DEF Spec
<1> QED BY <1>4, NoEndlessDescent
=============================================================================
