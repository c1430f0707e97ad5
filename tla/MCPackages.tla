------------------------------- MODULE MCPackages -------------------------------
(***************************************************************************)
(* Two families of clusters.  One package with up to three revisions:      *)
(* every mix of healthy, failing, paused and orphaned ones, active, not    *)
(* active, or not yet told.                                                *)
(* And three packages of every state with a revision each, against a name  *)
(* filter and limits, so that all three caps cut.                          *)
(***************************************************************************)
EXTENDS Packages

C(type, status) == [type |-> type, status |-> status, text |-> "genuine", hints |-> <<>>]

Ok == <<C("Installed", "True"), C("Healthy", "True")>>
Bad == <<C("Installed", "True"), C("Healthy", "False")>>

P(name, conds, manual, rewritten, current) ==
  [name |-> name, uid |-> name \o "-uid", conds |-> conds, manual |-> manual,
   rewritten |-> rewritten, current |-> current, historyLimit |-> 1]

Rev(name, of, ordinal, desired, halted, conds) ==
  [name |-> name, of |-> of, label |-> of, owner |-> [uid |-> of \o "-uid", name |-> of],
   ordinal |-> ordinal, desired |-> desired, halted |-> halted, conds |-> conds]

\* Revision 2 has lost its label, and may have lost its owner with it.
Revisions1 == {Rev("r1", "p", 1, desired, halted, Ok) : desired \in {"Active", "Inactive"}, halted \in BOOLEAN}
Revisions2 ==
  {[Rev("r2", "p", 2, desired, FALSE, conds) EXCEPT !.label = "", !.owner = owner] :
     desired \in {"Active", "Inactive"}, conds \in {Ok, Bad},
     owner \in {[uid |-> "p-uid", name |-> "p"], [uid |-> "old-uid", name |-> "p"],
                [uid |-> "", name |-> ""]}}
Revisions3 ==
  {Rev("r3", "p", 3, desired, FALSE, conds) :
     desired \in {"Active", "Inactive", ""}, conds \in {Ok, Bad, <<C("RuntimeHealthy", "Unknown")>>}}

OnePackage ==
  {[pkgs |-> <<P("p", conds, manual, FALSE, "r3")>>, revs |-> revisions] :
     conds \in {Ok, Bad}, manual \in BOOLEAN,
     revisions \in {<<>>} \cup {<<a, b, c>> : a \in Revisions1, b \in Revisions2, c \in Revisions3}}

\* Their revisions: healthy, or failing behind whatever the package says.
ChoicesOf(name) ==
  {P(name, Ok, FALSE, FALSE, name \o "-1"), P(name, Bad, FALSE, TRUE, name \o "-1"),
   P(name, <<>>, FALSE, FALSE, "")}

ThreePackages ==
  {[pkgs |-> <<a, b, c>>,
    revs |-> <<Rev("a-1", "a", 1, "Active", FALSE, x), Rev("b-1", "b", 1, "Active", FALSE, y),
               Rev("c-1", "c", 1, "Active", FALSE, Bad)>>] :
     a \in ChoicesOf("a"), b \in ChoicesOf("b"), c \in ChoicesOf("c"),
     x \in {Ok, Bad}, y \in {Ok, Bad}}

MCClusters == OnePackage \cup ThreePackages

MCQueries ==
  {[only |-> {}, unhealthyOnly |-> FALSE, limit |-> 0],
   [only |-> {}, unhealthyOnly |-> TRUE, limit |-> 9],
   [only |-> {"p", "b", "c"}, unhealthyOnly |-> FALSE, limit |-> 2]}
=============================================================================
