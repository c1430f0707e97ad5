-------------------------------- MODULE Redaction --------------------------------
(***************************************************************************)
(* Two walks over JSON documents: internal/tools/redact.go withholds the   *)
(* values of embedded Secrets and of write-only arguments from the spec    *)
(* that get_resource returns, and internal/tools/record.go masks what it   *)
(* writes to the log.  Both are checked against a definition by paths:     *)
(* which places of a document are withheld, whatever the walk carried to   *)
(* them and in whichever order it met its cases.                           *)
(***************************************************************************)
EXTENDS Sequences, Integers

CONSTANTS
  SensitiveNames,  \* the keys and names with one of sensitiveKeyParts in them
  WriteOnlyArgs,   \* the keys that end in Wo
  SecretShapes,    \* the strings that one of secretPatterns matches
  CoreVersions,    \* the apiVersions without a group, or with the group core
  MaxNesting       \* no document is nested deeper: encoding/json stops at 10000

\* The keys that the walks name do not end in Wo, and what heads a pair is not
\* itself called a secret.
ASSUME NamesAssumption ==
  /\ MaxNesting \in Nat
  /\ WriteOnlyArgs \cap {"data", "stringData", "metadata", "annotations",
                         "forProvider", "initProvider"} = {}
  /\ SensitiveNames \cap {"name", "key"} = {}

\* "null" and "1" are the scalars that are no strings.
Leaf(v) == [t |-> "leaf", v |-> v]
Map(f) == [t |-> "map", f |-> f]
List(s) == [t |-> "list", e |-> s]

Null == Leaf("null")
Marker == Leaf("[redacted]")

IsLeaf(v) == v.t = "leaf"
IsMap(v) == v.t = "map"
IsString(v) == IsLeaf(v) /\ v.v \notin {"null", "1"}
Has(v, k) == IsMap(v) /\ k \in DOMAIN v.f
Inside(v) == IF IsMap(v) THEN v.f ELSE v.e

\* The places of a document, as the keys and indices that lead to them.
Step == STRING \cup Nat
Steps(v) == IF IsLeaf(v) THEN {} ELSE DOMAIN Inside(v)

At(v, path) ==
  LET at[n \in 0..Len(path)] == IF n = 0 THEN v ELSE Inside(at[n - 1])[path[n]]
  IN  at[Len(path)]

Longer(v, paths) == UNION {{Append(p, k) : k \in Steps(At(v, p))} : p \in paths}

Paths(v) ==
  LET long[n \in 0..MaxNesting] == IF n = 0 THEN {<<>>} ELSE Longer(v, long[n - 1])
  IN  UNION {long[n] : n \in 0..MaxNesting}

Parts(v) == {At(v, p) : p \in Paths(v)}

Shaped(v) ==
  \/ v.t = "leaf" /\ v = Leaf(v.v)
  \/ v.t = "map"  /\ v = Map([k \in DOMAIN v.f |-> v.f[k]]) /\ DOMAIN v.f \subseteq STRING
  \/ v.t = "list" /\ v = List([i \in DOMAIN v.e |-> v.e[i]]) /\ DOMAIN v.e \subseteq Nat

\* What json.Unmarshal may return.
IsDocument(v) ==
  \A p \in Paths(v) : Shaped(At(v, p)) /\ (Len(p) = MaxNesting => IsLeaf(At(v, p)))

-----------------------------------------------------------------------------
(* redact.go.                                                              *)

IsWriteOnlyArg(k) == k \in WriteOnlyArgs

\* Any spelling of the kind counts, and any apiVersion but one of another group.
IsSecretManifest(m) ==
  /\ Has(m, "kind") /\ m.f["kind"] \in {Leaf("Secret"), Leaf(" secret")}
  /\ ~Has(m, "apiVersion") \/ ~IsString(m.f["apiVersion"]) \/ m.f["apiVersion"].v \in CoreVersions

IsPayload(k) == k \in {"data", "stringData"}
IsProvider(k) == k \in {"forProvider", "initProvider"}

\* An absent payload stays absent; one that is no map is replaced whole.
RedactSecretValues(v) ==
  IF v = Null THEN Null ELSE IF IsMap(v) THEN Map([k \in DOMAIN v.f |-> Marker]) ELSE Marker

RedactLastApplied(md) ==
  IF Has(md, "annotations") /\ Has(md.f["annotations"], "lastApplied")
  THEN [md EXCEPT !.f["annotations"].f["lastApplied"] = Marker]
  ELSE md

InProvider_DirectOnly(k, providerArgs) == IsProvider(k)

\* What the walk carries into the value of k.
InProvider(k, providerArgs) == IsProvider(k) \/ providerArgs

\* An entry of a map; walk is the walk of the parts.
RedactEntry(walk, v, providerArgs, k) ==
  CASE IsSecretManifest(v) /\ IsPayload(k) -> RedactSecretValues(v.f[k])
    [] k = "metadata" -> RedactLastApplied(walk[<<v.f[k], providerArgs>>])
    [] OTHER -> IF providerArgs /\ IsWriteOnlyArg(k) /\ v.f[k] # Null THEN Marker
                ELSE walk[<<v.f[k], InProvider(k, providerArgs)>>]

RedactPart(walk, v, providerArgs) ==
  IF IsMap(v) THEN Map([k \in DOMAIN v.f |-> RedactEntry(walk, v, providerArgs, k)])
  ELSE IF IsLeaf(v) THEN v
  ELSE List([i \in DOMAIN v.e |-> walk[<<v.e[i], providerArgs>>]])

RedactWalk(v, providerArgs) ==
  LET walk[x \in Parts(v) \X BOOLEAN] == RedactPart(walk, x[1], x[2])
  IN  walk[<<v, providerArgs>>]

RedactEmbeddedSecrets(v) == RedactWalk(v, FALSE)

-----------------------------------------------------------------------------
(* record.go.                                                              *)

SensitiveKey(k) == k \in SensitiveNames

\* Every value but a map or a list.
IsScalar(v) == IsLeaf(v)

ScrubSecrets(v) == IF IsString(v) /\ v.v \in SecretShapes THEN Leaf("scrubbed") ELSE v

RedactPairEncoded_NameOnly(m) ==
  IF Has(m, "name") /\ IsString(m.f["name"]) /\ SensitiveKey(m.f["name"].v)
  THEN Map([k \in DOMAIN m.f |-> IF k \in {"value", "val"} /\ IsScalar(m.f[k])
                                 THEN Marker ELSE m.f[k]])
  ELSE m

\* {name | key: a sensitive name, value | val: a scalar}.
RedactPairEncoded(m) ==
  IF \E n \in {"name", "key"} : Has(m, n) /\ IsString(m.f[n]) /\ SensitiveKey(m.f[n].v)
  THEN Map([k \in DOMAIN m.f |-> IF k \in {"value", "val"} /\ IsScalar(m.f[k])
                                 THEN Marker ELSE m.f[k]])
  ELSE m

MaskPart(mask, v) ==
  IF IsMap(v)
  THEN RedactPairEncoded(Map([k \in DOMAIN v.f |->
         IF SensitiveKey(k) /\ IsScalar(v.f[k]) THEN Marker ELSE mask[v.f[k]]]))
  ELSE IF IsLeaf(v) THEN ScrubSecrets(v)
  ELSE List([i \in DOMAIN v.e |-> mask[v.e[i]]])

RedactValue(v) ==
  LET mask[u \in Parts(v)] == MaskPart(mask, u)
  IN  mask[v]

-----------------------------------------------------------------------------
(* The definitions by paths.                                               *)

Prefix(path, n) == SubSeq(path, 1, n)

\* The n-th step of the path enters key k of a map.
Enters(v, path, n, keys) ==
  n \in 1..Len(path) /\ IsMap(At(v, Prefix(path, n - 1))) /\ path[n] \in keys

\* The place holds a value that get_resource must not show: a value of an
\* embedded Secret's payload, or the payload if it is no map; kubectl's copy of
\* an object; a write-only argument anywhere below forProvider or initProvider.
Withheld(v, path) ==
  LET n == Len(path)
  IN  \/ /\ Enters(v, path, n - 1, {"data", "stringData"}) /\ IsMap(At(v, Prefix(path, n - 1)))
         /\ IsSecretManifest(At(v, Prefix(path, n - 2)))
      \/ /\ Enters(v, path, n, {"data", "stringData"}) /\ IsSecretManifest(At(v, Prefix(path, n - 1)))
         /\ ~IsMap(At(v, path)) /\ At(v, path) # Null
      \/ /\ Enters(v, path, n, {"lastApplied"}) /\ Enters(v, path, n - 1, {"annotations"})
         /\ Enters(v, path, n - 2, {"metadata"})
      \/ /\ Enters(v, path, n, WriteOnlyArgs) /\ At(v, path) # Null
         /\ \E i \in 1..(n - 1) : Enters(v, path, i, {"forProvider", "initProvider"})

\* out is v with exactly the withheld places replaced, and all else as written:
\* keys, references and names, other kinds, values that only look secret.
WithheldExactly(v, out) ==
  LET withheld == {p \in Paths(v) : Withheld(v, p)}
      below(p) == \E q \in withheld : Len(q) < Len(p) /\ Prefix(p, Len(q)) = q
  IN  /\ Paths(out) = {p \in Paths(v) : ~below(p)}
      /\ \A p \in Paths(out) :
           IF p \in withheld THEN At(out, p) = Marker
           ELSE At(out, p).t = At(v, p).t /\ (IsLeaf(At(v, p)) => At(out, p) = At(v, p))

\* The place holds a scalar that the log masks: under a sensitive key, or as the
\* value of a pair that a sensitive name heads, a name as the log shows it.
Masked(v, path) ==
  LET n      == Len(path)
      parent == At(v, Prefix(path, n - 1))
  IN  /\ IsLeaf(At(v, path)) /\ n > 0 /\ IsMap(parent)
      /\ \/ path[n] \in SensitiveNames
         \/ /\ path[n] \in {"value", "val"}
            /\ \E k \in {"name", "key"} \cap DOMAIN parent.f :
                 IsString(parent.f[k]) /\ ScrubSecrets(parent.f[k]).v \in SensitiveNames

\* out is v with the masked scalars replaced and the secret shapes in all other
\* strings scrubbed: no structure is lost, and a reference keeps its names.
MaskedExactly(v, out) ==
  /\ Paths(out) = Paths(v)
  /\ \A p \in Paths(v) :
       IF Masked(v, p) THEN At(out, p) = Marker
       ELSE /\ At(out, p).t = At(v, p).t
            /\ IsLeaf(At(v, p)) =>
                 At(out, p) = IF IsString(At(v, p)) /\ At(v, p).v \in SecretShapes
                              THEN Leaf("scrubbed") ELSE At(v, p)
=============================================================================
