------------------------------ MODULE MCListing ------------------------------
(***************************************************************************)
(* A composite kind served in two versions and with a status subresource,  *)
(* in two pages; a cluster-scoped kind with a single page; a claim without *)
(* objects; and a kind of another category.                                *)
(***************************************************************************)
EXTENDS Listing

Entry(resource, version, namespaced, sub, categories) ==
  [resource |-> resource, version |-> version, namespaced |-> namespaced,
   sub |-> sub, categories |-> categories]

MCCatalogs ==
  {<<Entry("xbuckets", "v1", TRUE, FALSE, {"composite"}),
     Entry("xbuckets", "v1", TRUE, TRUE, {"composite"}),
     Entry("pods", "v1", TRUE, FALSE, {"all"}),
     Entry("xclusters", "v1", FALSE, FALSE, {"claim", "composite"}),
     Entry("xbuckets", "v1beta1", TRUE, FALSE, {"composite"}),
     Entry("claims", "v1", TRUE, FALSE, {"claim"})>>}

MCWanted == <<"composite", "claim">>

MCPages == [xbuckets |-> <<{"b1"}, {"b2"}>>, xclusters |-> <<{"c1"}>>,
            claims |-> <<{}>>, pods |-> <<{"p1"}>>]

\* Forbidden; a server error; throttling, with a minute or nothing to wait.
MCFailures ==
  {[reason |-> "forbidden", transient |-> FALSE, suggests |-> NoSuggestion],
   [reason |-> "unavailable", transient |-> TRUE, suggests |-> NoSuggestion],
   [reason |-> "server timeout", transient |-> TRUE, suggests |-> 0],
   [reason |-> "too many requests", transient |-> TRUE, suggests |-> 240]}
=============================================================================
