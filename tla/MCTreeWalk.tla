----------------------------- MODULE MCTreeWalk -----------------------------
(***************************************************************************)
(* Small clusters for the walk, one per hazard of tree.go.  Kinds: "X" a   *)
(* namespaced composite, "B" a namespaced managed resource, "P" a          *)
(* cluster-scoped one, "U" a kind the cluster does not serve.              *)
(***************************************************************************)
EXTENDS TreeWalk, TLC

MCNames == {"", "v1", "v2", "n", "m", "X", "x", "B", "b", "P", "U",
            "root", "a", "c", "d", "p", "q", "r", "s", "t", "u"}

R(version, kind, ns, name) ==
  [version |-> version, kind |-> kind, ns |-> ns, name |-> name]
T(version, kind, namespaced) ==
  [version |-> version, kind |-> kind, namespaced |-> namespaced]

\* "x" and "b" are the lenient spellings that resolve without a version.
Types ==
  (<<"v1", "X">> :> T("v1", "X", TRUE)) @@ (<<"", "x">> :> T("v1", "X", TRUE)) @@
  (<<"v1", "B">> :> T("v1", "B", TRUE)) @@ (<<"v2", "B">> :> T("v2", "B", TRUE)) @@
  (<<"", "b">> :> T("v1", "B", TRUE)) @@ (<<"v1", "P">> :> T("v1", "P", FALSE))

X(name) == <<"X", "n", name>>
B(name) == <<"B", "n", name>>
P(name) == <<"P", "", name>>

\* objects without the root, whose refs are given apart
Composition(rootId, refs, objects, flaky) ==
  [root    |-> [err |-> "", version |-> "v1", id |-> rootId, refs |-> refs],
   types   |-> Types,
   objects |-> (rootId :> refs) @@ objects,
   flaky   |-> flaky]

Leaf(id) == id :> <<>>
XRef(name) == R("v1", "X", "", name)
BRef(name) == R("v1", "B", "", name)

\* The same resources through several parents, in different windows.
Diamond == Composition(X("root"), <<XRef("a"), XRef("c"), BRef("p"), BRef("q")>>,
  (X("a") :> <<BRef("p"), R("", "b", "n", "q")>>) @@ (X("c") :> <<BRef("p")>>) @@
  Leaf(B("p")) @@ Leaf(B("q")), {})

\* Back to the root and to oneself, by inherited and by explicit namespace.
Cycle == Composition(X("root"), <<XRef("a"), R("v1", "X", "n", "a"), BRef("p"), XRef("c")>>,
  (X("a") :> <<R("", "x", "", "root"), R("v1", "X", "n", "a"), XRef("c")>>) @@
  (X("c") :> <<XRef("a"), BRef("p")>>) @@ Leaf(B("p")), {})

\* Two versions of one resource, a malformed ref, a kind not served, twice, an
\* object that is gone, and the same name under other kinds and namespaces.
Odd == Composition(X("root"),
  <<BRef("p"), R("v2", "B", "", "p"), R("v1", "", "", "p"), R("v1", "U", "", "p"),
    R("v1", "P", "", "p"), R("v1", "B", "m", "p"), R("v1", "U", "", "p")>>,
  Leaf(B("p")) @@ Leaf(P("p")), {})

\* More children than the budget, a repeated one among them.
Wide == Composition(X("root"),
  <<BRef("p"), BRef("q"), BRef("p"), BRef("r"), R("v1", "U", "", "s"), BRef("t"), BRef("u")>>,
  [id \in {B(n) : n \in {"p", "q", "r", "t", "u"}} |-> <<>>], {})

\* As many children as the budget allows.
Full == Composition(X("root"), <<BRef("p"), BRef("q"), BRef("r"), BRef("s"), BRef("t")>>,
  [id \in {B(n) : n \in {"p", "q", "r", "s", "t"}} |-> <<>>], {})

\* An early sibling whose subtree eats the budget of those prefetched with it.
Greedy == Composition(X("root"), <<XRef("a"), BRef("p"), BRef("q"), BRef("r")>>,
  (X("a") :> <<XRef("c"), BRef("s"), BRef("t")>>) @@
  [id \in {B(n) : n \in {"p", "q", "r", "s", "t"}} |-> <<>>] @@
  (X("c") :> <<BRef("u")>>) @@ Leaf(B("u")), {})

\* Exactly as deep as the limit allows, and one deeper.
Chain == Composition(X("root"), <<XRef("a")>>,
  (X("a") :> <<XRef("c")>>) @@ (X("c") :> <<BRef("p")>>) @@ Leaf(B("p")), {})
Deeper == Composition(X("root"), <<XRef("a"), BRef("q")>>,
  (X("a") :> <<XRef("c")>>) @@ (X("c") :> <<XRef("d"), BRef("r")>>) @@
  (X("d") :> <<BRef("p")>>) @@ Leaf(B("p")) @@ Leaf(B("q")) @@ Leaf(B("r")), {})

\* Resolve of B fails now and then.
Flaky == Composition(X("root"), <<BRef("q"), BRef("p"), R("v2", "B", "", "p"), BRef("r")>>,
  Leaf(B("p")) @@ Leaf(B("q")) @@ Leaf(B("r")), {"B"})

\* A cluster-scoped root gives no namespace to inherit.
ClusterScoped == Composition(P("root"), <<BRef("p"), R("v1", "B", "n", "p"), R("v1", "P", "", "q")>>,
  Leaf(B("p")) @@ Leaf(P("q")), {})

\* A cluster-scoped resource named once without and once with a namespace.
SpareNamespace == Composition(X("root"), <<R("v1", "P", "", "q"), R("v1", "P", "n", "q")>>,
  Leaf(P("q")), {})

MCClusters ==
  {Diamond, Cycle, Odd, Wide, Full, Greedy, Chain, Deeper, Flaky, ClusterScoped}
MCSpareNamespace == {SpareNamespace}
=============================================================================
