------------------------------ MODULE RecordedCalls ------------------------------
(***************************************************************************)
(* A recorded get_resource: getResourceHandler of internal/tools/tools.go  *)
(* projects the object it fetched, redacts its spec, and recorded() masks  *)
(* copies of the arguments and of the projection for the log while the     *)
(* agent gets the projection itself.  When the fetch fails the log gets    *)
(* the text of the error, scrubbed.                                        *)
(***************************************************************************)
EXTENDS Recorder, Redaction

\* ResourceView: a closed projection, of which the kind and the spec matter here.
ResourceView(o) ==
  Map([k \in {"kind", "spec"} \cap DOMAIN o.f |->
         IF k = "spec" THEN RedactEmbeddedSecrets(o.f[k]) ELSE o.f[k]])

\* The arguments of a call and the object it reads are what the server and the
\* client decoded, its handler is getResourceHandler, and the recorder masks what
\* it prepares and scrubs the text of an error.
ASSUME HandlerAssumption ==
  \A s \in Sessions : \A c \in DOMAIN s :
    /\ IsDocument(s[c].input) /\ Prepare(s[c].input) = RedactValue(s[c].input)
    /\ s[c].error = None =>
         /\ IsMap(s[c].object) /\ IsDocument(s[c].object)
         /\ View(s[c].object) = ResourceView(s[c].object)
         /\ Prepare(View(s[c].object)) = RedactValue(View(s[c].object))
    /\ s[c].error # None =>
         /\ IsString(s[c].error) /\ IsDocument(s[c].error)
         /\ Scrub(s[c].error) = ScrubSecrets(s[c].error)

Handled(c) == result[c] # None

\* What a call shows is the object with exactly the withheld places replaced,
\* from when its handler returned until it is answered, recorder or not; and
\* of a payload beside the spec, a Secret's own data, nothing is shown.
ViewWithholds ==
  \A c \in Calls : Handled(c) /\ ~Failed(c) =>
    LET o == session[c].object
    IN  /\ DOMAIN result[c].f = {"kind", "spec"} \cap DOMAIN o.f
        /\ "spec" \in DOMAIN o.f => WithheldExactly(o.f["spec"], result[c].f["spec"])

\* What is in the file of a call is its arguments, and what it showed or the
\* error it failed with and not both, with exactly the masked scalars replaced
\* and the secret shapes scrubbed.
LogMasks ==
  \A i \in DOMAIN file :
    LET c    == file[i].call
        line == encoded[c]
    IN  /\ MaskedExactly(session[c].input, line.input)
        /\ IF Failed(c) THEN line.output = None /\ MaskedExactly(result[c], line.error)
           ELSE line.error = None /\ MaskedExactly(result[c], line.output)
=============================================================================
