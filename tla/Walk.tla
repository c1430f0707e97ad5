-------------------------------- MODULE Walk --------------------------------
(***************************************************************************)
(* The composition-tree walk of internal/xp/tree.go: what it reads (the    *)
(* cluster, through Client.Resolve and Client.Get), the tree it builds and *)
(* the loop of walker.build.  How the object of a child is obtained is     *)
(* left to the modules that extend this one: SequentialWalk issues one Get *)
(* per child, TreeWalk prefetches siblings in concurrent windows.          *)
(*                                                                         *)
(* The recursion of build is the stack.  A frame is one activation: the    *)
(* node it created and the index i of its loop over childRefs(obj).  nodes *)
(* holds the tree in creation order, which is the order of Node.Flatten,   *)
(* and Len(nodes) is st.Nodes.                                             *)
(*                                                                         *)
(* A definition Name_Fault is a faulty variant of Name; it is used only to *)
(* show that the properties tell the two apart.                            *)
(***************************************************************************)
EXTENDS Naturals, Sequences, FiniteSets

CONSTANTS
  MaxNodes,   \* maxNodes, 200 in the code
  MaxDepth,   \* maxDepth, 20 in the code
  Names,      \* versions, kinds, namespaces and names; "" is an absent one
  Clusters    \* the clusters a walk may meet

ASSUME LimitsAssumption == MaxNodes \in Nat \ {0} /\ MaxDepth \in Nat \ {0}
ASSUME NamesAssumption == "" \in Names

-----------------------------------------------------------------------------
(* What the walk reads.                                                    *)

\* One entry of childRefs(obj).  An absent field is "".
Ref == [version : Names, kind : Names, ns : Names, name : Names]

\* group/kind/namespace/name, without the version.  kind stands for the pair
\* of API group and kind.
Identity == Names \X Names \X Names

\* k8s.Target, and the value that stands for an error of Resolve.
Target == [version : Names, kind : Names, namespaced : BOOLEAN]
Unresolved == [version |-> "", kind |-> "", namespaced |-> FALSE]

\* getKey: the full input of Get.
Key == [version : Names, kind : Names, namespaced : BOOLEAN,
        ns : Names, name : Names]
NoKey == [version |-> "", kind |-> "", namespaced |-> FALSE,
          ns |-> "", name |-> ""]

\* What a Get returns: an object with its refs, or an error and no refs.
Errors == {"", "resolve", "not found", "namespace required", "context done"}
Object == [err : Errors, version : Names, id : Identity, refs : Seq(Ref)]

(***************************************************************************)
(* A cluster answers the same question the same way for the length of a    *)
(* walk:                                                                   *)
(*   root    - the object the walk starts from;                            *)
(*   types   - the (version, kind) pairs that Resolve maps to a Target,    *)
(*             canonical or lenient;                                       *)
(*   objects - the refs of every object that exists, by its identity;      *)
(*   flaky   - the kinds whose Resolve may fail now and then, the          *)
(*             transient discovery failures of the comment on walker.      *)
(***************************************************************************)
ClusterType(c) ==
  /\ c.root \in Object
  /\ \A t \in DOMAIN c.types : c.types[t] \in Target
  /\ \A id \in DOMAIN c.objects : id \in Identity /\ c.objects[id] \in Seq(Ref)

ASSUME ClustersAssumption == \A c \in Clusters : ClusterType(c)

\* Client.Resolve on a ref whose kind is served, or not.
Resolved(c, r) ==
  IF <<r.version, r.kind>> \in DOMAIN c.types
  THEN c.types[<<r.version, r.kind>>] ELSE Unresolved

\* The outcomes one call of it may have.
Resolutions(c, r) ==
  {Resolved(c, r)} \cup (IF r.kind \in c.flaky THEN {Unresolved} ELSE {})

\* A v2 composed resource that omits its namespace inherits its parent's.
EffectiveNs(t, r, parentNs) ==
  IF t # Unresolved /\ t.namespaced /\ r.ns = "" THEN parentNs ELSE r.ns

\* The key of the visited map: canonical kind when resolved, raw otherwise.
IdentityKey(t, r, parentNs) ==
  <<IF t # Unresolved THEN t.kind ELSE r.kind,
    EffectiveNs(t, r, parentNs), r.name>>

GetKey(t, r, parentNs) ==
  [version |-> t.version, kind |-> t.kind, namespaced |-> t.namespaced,
   ns |-> EffectiveNs(t, r, parentNs), name |-> r.name]

KeyIdentity(k) == <<k.kind, k.ns, k.name>>

Malformed(r) == r.name = "" \/ r.kind = ""

Failure(err, version, id) ==
  [err |-> err, version |-> version, id |-> id, refs |-> <<>>]

\* Client.Get on a cluster that is reachable.  The namespace of the key is
\* used only when the target is namespaced.
Answer(c, k) ==
  LET id == <<k.kind, IF k.namespaced THEN k.ns ELSE "", k.name>>
  IN  IF k.namespaced /\ k.ns = ""
      THEN Failure("namespace required", k.version, KeyIdentity(k))
      ELSE IF id \in DOMAIN c.objects
      THEN [err |-> "", version |-> k.version, id |-> id, refs |-> c.objects[id]]
      ELSE Failure("not found", k.version, KeyIdentity(k))

CtxError(k) == Failure("context done", k.version, KeyIdentity(k))

-----------------------------------------------------------------------------
VARIABLES
  cluster,    \* chosen once
  nodes,      \* the tree so far, in creation order
  stack,      \* the activations of build
  visited,    \* identities reached
  capped,     \* st.Capped
  pending,    \* the Get the top frame's fetchChild waits for, or NoKey
  cancelled   \* ctx.Err() # nil

walkVars == <<cluster, nodes, stack, visited, capped, pending, cancelled>>

Node == [parent : Nat, depth : Nat, id : Identity, obj : Object]
Frame == [node : Nat \ {0}, i : Nat \ {0}]

Top == stack[Len(stack)]
Parent == nodes[Top.node]
Refs == Parent.obj.refs
ParentNs == Parent.obj.id[2]

Done == stack = <<>>

Advance == [stack EXCEPT ![Len(stack)].i = @ + 1]
Pop == SubSeq(stack, 1, Len(stack) - 1)

BudgetLeft_OffByOne == Len(nodes) <= MaxNodes

\* The in-loop guard on the node budget.
BudgetLeft == Len(nodes) < MaxNodes

DepthCut_OffByOne(depth, obj) == depth > MaxDepth /\ obj.refs # <<>>

\* What a limit on the depth cuts off: an object at MaxDepth that has refs.
DepthCut(depth, obj) == depth >= MaxDepth /\ obj.refs # <<>>

TypeOK ==
  /\ cluster \in Clusters
  /\ nodes \in Seq(Node)
  /\ stack \in Seq(Frame)
  /\ \A f \in 1..Len(stack) : stack[f].node \in 1..Len(nodes)
  /\ visited \in SUBSET Identity
  /\ capped \in BOOLEAN
  /\ pending \in Key
  /\ cancelled \in BOOLEAN

Seed_None == {}

\* A child that refers back to the root must not be expanded again.
Seed == {cluster.root.id}

\* buildTree: the root's node, visited seeded with the root's own identity,
\* and the loop of build entered (MaxDepth > 0).
WalkInit ==
  /\ cluster \in Clusters
  /\ nodes = <<[parent |-> 0, depth |-> 0, id |-> cluster.root.id,
                obj |-> cluster.root]>>
  /\ stack = <<[node |-> 1, i |-> 1]>>
  /\ visited = Seed
  /\ capped = FALSE
  /\ pending = NoKey
  /\ cancelled = FALSE

-----------------------------------------------------------------------------
(* The loop of build.                                                      *)

\* No child is being fetched and the loop condition holds.
AtRef == ~Done /\ pending = NoKey /\ Top.i <= Len(Refs)

Return_AtBudget ==
  /\ ~Done /\ pending = NoKey /\ Top.i > Len(Refs)
  /\ capped' = (capped \/ ~BudgetLeft)
  /\ stack' = Pop
  /\ UNCHANGED <<cluster, nodes, visited, pending, cancelled>>

\* The loop is over: this activation returns to its caller.
Return ==
  /\ ~Done /\ pending = NoKey /\ Top.i > Len(Refs)
  /\ stack' = Pop
  /\ UNCHANGED <<cluster, nodes, visited, capped, pending, cancelled>>

\* The node budget is spent: the refs that are left are not inspected.
BudgetSpent ==
  /\ AtRef /\ ~BudgetLeft
  /\ capped' = TRUE
  /\ stack' = Pop
  /\ UNCHANGED <<cluster, nodes, visited, pending, cancelled>>

SkipMalformed ==
  /\ AtRef /\ BudgetLeft
  /\ Malformed(Refs[Top.i])
  /\ stack' = Advance
  /\ UNCHANGED <<cluster, nodes, visited, capped, pending, cancelled>>

\* The ref's identity was reached before, through this parent or another.
SkipVisited(t) ==
  /\ AtRef /\ BudgetLeft
  /\ ~Malformed(Refs[Top.i])
  /\ IdentityKey(t, Refs[Top.i], ParentNs) \in visited
  /\ stack' = Advance
  /\ UNCHANGED <<cluster, nodes, visited, capped, pending, cancelled>>

NewChild(id, obj) ==
  [parent |-> Top.node, depth |-> Parent.depth + 1, id |-> id, obj |-> obj]

\* A new ref that does not resolve becomes an error node at once.
AttachUnresolved(t) ==
  LET r  == Refs[Top.i]
      id == IdentityKey(t, r, ParentNs)
  IN  /\ AtRef /\ BudgetLeft
      /\ ~Malformed(r) /\ id \notin visited /\ t = Unresolved
      /\ visited' = visited \cup {id}
      /\ nodes' = Append(nodes, NewChild(id, Failure("resolve", r.version, id)))
      /\ stack' = Advance
      /\ UNCHANGED <<cluster, capped, pending, cancelled>>

\* A new ref that resolves is marked visited and its object is asked for.
Reach(t) ==
  LET r  == Refs[Top.i]
      id == IdentityKey(t, r, ParentNs)
  IN  /\ AtRef /\ BudgetLeft
      /\ ~Malformed(r) /\ id \notin visited /\ t # Unresolved
      /\ visited' = visited \cup {id}
      /\ pending' = GetKey(t, r, ParentNs)
      /\ UNCHANGED <<cluster, nodes, stack, capped, cancelled>>

\* fetchChild got obj: an error node, or a node that build walks in turn.
Attach(obj) ==
  LET depth  == Parent.depth + 1
      enters == obj.err = "" /\ depth < MaxDepth
  IN  /\ pending # NoKey
      /\ nodes' = Append(nodes, NewChild(KeyIdentity(pending), obj))
      /\ capped' = (capped \/ DepthCut(depth, obj))
      /\ stack' = IF enters
                  THEN Append(Advance, [node |-> Len(nodes) + 1, i |-> 1])
                  ELSE Advance
      /\ pending' = NoKey
      /\ UNCHANGED <<cluster, visited, cancelled>>

LoopStep ==
  \/ Return
  \/ BudgetSpent
  \/ SkipMalformed
  \/ /\ AtRef
     /\ \E t \in Resolutions(cluster, Refs[Top.i]) :
          SkipVisited(t) \/ AttachUnresolved(t) \/ Reach(t)

\* The tool call's context ends.
Cancel ==
  /\ ~Done /\ ~cancelled
  /\ cancelled' = TRUE
  /\ UNCHANGED <<cluster, nodes, stack, visited, capped, pending>>

\* The results one Get may have by now.
Outcomes(k) ==
  {Answer(cluster, k)} \cup (IF cancelled THEN {CtxError(k)} ELSE {})

\* fetchChild goes on with one of them.
Fetched == \E obj \in Outcomes(pending) : Attach(obj)

-----------------------------------------------------------------------------
(* Properties of the walk, whoever fetches.                                *)

\* The tree never outgrows the node budget, and a fetch is begun only while
\* a node for its result fits; no path is longer than MaxDepth.
WithinLimits ==
  /\ Len(nodes) <= MaxNodes
  /\ pending # NoKey => Len(nodes) < MaxNodes
  /\ \A n \in 1..Len(nodes) : nodes[n].depth <= MaxDepth

\* visited holds the identities of the nodes built and of the one being
\* fetched, and nothing else: the fact window's budget cut relies on.
VisitedIsBuilt ==
  visited = {nodes[n].id : n \in 1..Len(nodes)}
            \cup (IF pending = NoKey THEN {} ELSE {KeyIdentity(pending)})

\* A resource has at most one node: cycles and diamonds are cut.
UniqueNodes ==
  \A m, n \in 1..Len(nodes) : nodes[m].id = nodes[n].id => m = n

\* Ref r of node n was followed: it is malformed, or some outcome of Resolve
\* gives it an identity that has been reached.
Followed(n, r) ==
  \/ Malformed(r)
  \/ \E t \in Resolutions(cluster, r) : IdentityKey(t, r, n.obj.id[2]) \in visited

\* A walk that ends without Capped inspected everything reachable from the
\* root: every ref of every node in the tree was followed.
Complete ==
  (Done /\ ~capped) =>
    \A n \in 1..Len(nodes) : \A j \in 1..Len(nodes[n].obj.refs) :
      Followed(nodes[n], nodes[n].obj.refs[j])

\* Ref r of node n may be the resource of that identity.
MayBe(n, r, id) ==
  \E t \in Resolutions(cluster, r) : IdentityKey(t, r, n.obj.id[2]) = id

\* As the tree shows, the walk of node n has not come past its ref i: no node
\* was built after those under n, and none of its children is of a ref from i on.
NotPast(n, i) ==
  /\ \A m \in (n + 1)..Len(nodes) : nodes[m].depth > nodes[n].depth
  /\ \A m \in 1..Len(nodes) : nodes[m].parent = n =>
       \E k \in 1..(i - 1) : MayBe(nodes[n], nodes[n].obj.refs[k], nodes[m].id)

\* The budget was used up by the node the walk was at when it was yet to come to
\* the last ref of node n.
CutByBudget(n) == Len(nodes) = MaxNodes /\ NotPast(n, Len(nodes[n].obj.refs))

CutByDepth(n) == nodes[n].depth = MaxDepth

\* Capped is never set merely because a limit was reached: some node has refs
\* that the walk did not look at, for the depth limit or for the node budget.
\* (Whether it would have skipped them is, as documented, not asked.)
CappedForCause ==
  capped => \E n \in 1..Len(nodes) :
    nodes[n].obj.refs # <<>> /\ (CutByDepth(n) \/ CutByBudget(n))

\* Two nodes never show the same object of the API server.
UniqueObjects ==
  \A m, n \in 1..Len(nodes) :
    (nodes[m].obj.err = "" /\ nodes[n].obj.err = ""
       /\ nodes[m].obj.id = nodes[n].obj.id) => m = n
=============================================================================
