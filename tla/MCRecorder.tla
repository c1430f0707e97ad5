------------------------------- MODULE MCRecorder -------------------------------
(***************************************************************************)
(* Either three concurrent calls, of which one fails and one cannot be     *)
(* encoded, or a call that reads one of the objects below, which nest      *)
(* every case of both walks in every other, or one that fails.             *)
(***************************************************************************)
EXTENDS RecordedCalls, TLC

CONSTANTS c0, c1, c2, c3

Secret(version, payload) ==
  Map([kind |-> Leaf("Secret"), apiVersion |-> version, data |-> payload,
       metadata |-> Map([name |-> Leaf("password"),
                         annotations |-> Map([lastApplied |-> Leaf("copy"), note |-> Leaf("x")])])])

Payloads == {Null, Leaf("x"), Map([name |-> Leaf("x"), other |-> Null]), List(<<Leaf("x")>>)}

Secrets ==
  {Secret(Leaf(version), payload) : version \in {"v1", "core/v1", "other/v1", "null"}, payload \in Payloads}
  \cup {Map([kind |-> Leaf(" secret"), stringData |-> Map([a |-> Leaf("x")])]),
        Map([kind |-> Leaf("ConfigMap"), data |-> Map([password |-> Leaf("x")])])}

\* Arguments with a write-only one: a scalar, a block of them, an absent one.
Arguments ==
  {Map([valueWo |-> v, region |-> Leaf("x"), password |-> Map([name |-> Leaf("ref")])]) :
     v \in {Leaf("x"), Leaf("1"), Null, Map([a |-> Leaf("x")]), List(<<Leaf("x")>>)}}
  \cup {Map([password |-> v]) : v \in {Leaf("x"), Null, List(<<Leaf("x")>>)}}

\* Environment variables and Terraform variables.
Pairs ==
  {Map([name |-> Leaf(n), value |-> v]) : n \in {"x", "password"}, v \in {Leaf("x"), Leaf("jwt"), List(<<Leaf("jwt")>>)}}
  \cup {Map([key |-> Leaf("token"), val |-> Leaf("x"), value |-> Leaf("1")])}

Specs ==
  {Map([forProvider |-> Map([manifest |-> s]), valueWo |-> Leaf("kept")]) : s \in Secrets}
  \cup {Map([forProvider |-> a]) : a \in Arguments}
  \cup {Map([initProvider |-> Map([block |-> List(<<a, Leaf("jwt")>>)])]) : a \in Arguments}
  \cup {Map([resources |-> List(<<Map([base |-> Map([spec |-> Map([forProvider |-> a])])])>>)]) : a \in Arguments}
  \cup {Map([env |-> List(<<p>>), secretRef |-> Map([name |-> Leaf("x")])]) : p \in Pairs}

Objects == {Map([kind |-> Leaf("Object"), data |-> Leaf("x"), spec |-> s]) : s \in Specs}
Plain == Map([kind |-> Leaf("Secret"), data |-> Map([a |-> Leaf("x")])])

\* What get_resource is asked, and what it may fail with.
Input(name) == Map([apiVersion |-> Leaf("v1"), kind |-> Leaf("Secret"), name |-> Leaf(name)])
Inputs == {Input(name) : name \in {"x", "password", "jwt"}}
Errors == {Leaf("x"), Leaf("jwt")}

Reads(o) == [input |-> Input("x"), object |-> o, error |-> None]
Fails(input, text) == [input |-> input, object |-> None, error |-> text]

MCSessions ==
  {c0 :> Reads(o) : o \in Objects}
  \cup {c0 :> Fails(input, text) : input \in Inputs, text \in Errors}
  \cup {[c \in {c1, c2, c3} |-> IF c = c2 THEN Fails(Input("jwt"), Leaf("jwt")) ELSE Reads(Plain)]}

\* The two walks, evaluated once for each document.
Views == [o \in Objects \cup {Plain} |-> ResourceView(o)]
Lines == [v \in {Views[o] : o \in DOMAIN Views} \cup Inputs |-> RedactValue(v)]

MCView(o) == Views[o]
MCPrepare(v) == Lines[v]
MCScrub(text) == ScrubSecrets(text)
=============================================================================
