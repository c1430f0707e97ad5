-------------------------------- MODULE MCTriage --------------------------------
(***************************************************************************)
(* Listings of up to four objects of two kinds, of every state, being      *)
(* deleted or not, with conditions that disagree with each other.          *)
(***************************************************************************)
EXTENDS Triage

C(type, status) == [type |-> type, status |-> status, text |-> "genuine", hints |-> <<>>]

MCKinds == {"XDatabase", "XNetwork"}

O(kind, place, conds, deleting) ==
  [kind |-> kind, place |-> place, conds |-> conds, deleting |-> deleting, paused |-> deleting,
   bulk |-> TRUE]

MCObjects ==
  {O("XDatabase", 3, <<C("Ready", "True"), C("Synced", "True")>>, FALSE),
   O("XDatabase", 2, <<C("Ready", "True")>>, TRUE),
   O("XDatabase", 1, <<>>, FALSE),
   O("XNetwork", 4, <<C("Synced", "False"), C("Ready", "True")>>, FALSE),
   O("XNetwork", 5, <<C("Healthy", "False")>>, TRUE),
   O("XNetwork", 1, <<C("Responsive", "False"), C("Ready", "Unknown")>>, FALSE)}

MCListings == UNION {[1..n -> MCObjects] : n \in 0..4}

MCQueries ==
  {[kind |-> kind, includeHealthy |-> all, limit |-> limit] :
     kind \in {{}, {"XNetwork"}}, all \in BOOLEAN, limit \in {0, 1, 9}}
=============================================================================
