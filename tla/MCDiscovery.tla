----------------------------- MODULE MCDiscovery -----------------------------
(***************************************************************************)
(* One CRD that is served in two versions: its kind can be found by        *)
(* another of its names, and in the version that is not the preferred one. *)
(***************************************************************************)
EXTENDS Discovery

MCResources ==
  {[crd |-> "aws", gv |-> "aws/v1", kind |-> "Bucket", names |-> {"buckets"}, preferred |-> TRUE],
   [crd |-> "aws", gv |-> "aws/v1beta1", kind |-> "Bucket", names |-> {"buckets"}, preferred |-> FALSE]}

MCQueries ==
  {[gv |-> "", kind |-> "buckets"], [gv |-> "aws/v1beta1", kind |-> "Bucket"]}

MCOutages == {{}, {"server"}, {"aws/v1beta1"}}
=============================================================================
