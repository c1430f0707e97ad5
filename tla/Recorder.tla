-------------------------------- MODULE Recorder --------------------------------
(***************************************************************************)
(* The recorder of internal/tools/record.go: concurrent tool calls, each   *)
(* wrapped by recorded(), append their records to one file under a lock,   *)
(* and main closes the recorder when the server ends, while calls may      *)
(* still run.  A write reaches the file in two pieces, between which the   *)
(* disk may fail and the process may end; a new process appends to the     *)
(* same file.                                                              *)
(***************************************************************************)
EXTENDS Integers, Sequences

CONSTANTS
  Calls,
  Sessions,     \* the calls that a client may make: the arguments of each, and the object
                \* its handler reads or the error it meets (None: it reads the object)
  Unencodable,  \* calls that json.Marshal refuses
  View(_),      \* the projection of an object that the tool returns
  Prepare(_),   \* what the recorder makes of arguments and answers before it encodes them
  Scrub(_),     \* and of the text of an error
  None          \* no value yet

ASSUME RecorderAssumption ==
  /\ Unencodable \subseteq Calls /\ None \notin Calls
  /\ \A s \in Sessions : DOMAIN s \subseteq Calls

VARIABLES
  session,  \* chosen once
  pc,       \* where each call is
  result,   \* what its handler returned, an answer or an error, and the bytes of its record
  encoded,
  mu,       \* who holds the recorder's lock: a call, or None
  w,        \* Recorder.w: the file or io.Discard
  isOpen,   \* the file descriptor
  file,     \* the bytes of the file: contiguous bytes of one record are one entry
  serving,  \* server.Run has not returned
  disk

vars == <<session, pc, result, encoded, mu, w, isOpen, file, serving, disk>>
values == <<session, result, encoded>>

Places == {"new", "handling", "recording", "encoded", "locked", "half", "recorded",
           "answered", "dead"}

Init ==
  /\ session \in Sessions
  /\ pc = [c \in Calls |-> "new"]
  /\ result = [c \in Calls |-> None] /\ encoded = result
  /\ mu = None /\ w = "file" /\ isOpen = TRUE
  /\ file = <<>> /\ serving = TRUE /\ disk = "sound"

Goto(c, place) == pc' = [pc EXCEPT ![c] = place]

-----------------------------------------------------------------------------
(* A call: recorded() around the handler, then record().                   *)

Start(c) ==
  /\ serving /\ c \in DOMAIN session /\ pc[c] = "new" /\ Goto(c, "handling")
  /\ UNCHANGED <<values, mu, w, isOpen, file, serving, disk>>

Failed(c) == session[c].error # None

Returned(c) == IF Failed(c) THEN session[c].error ELSE View(session[c].object)

Handle(c) ==
  /\ pc[c] = "handling" /\ Goto(c, "recording")
  /\ result' = [result EXCEPT ![c] = Returned(c)]
  /\ UNCHANGED <<session, encoded, mu, w, isOpen, file, serving, disk>>

\* The arguments, and what the handler returned: its answer or, when it failed,
\* the text of its error.
RecordOf(c) ==
  [input  |-> Prepare(session[c].input),
   output |-> IF Failed(c) THEN None ELSE Prepare(result[c]),
   error  |-> IF Failed(c) THEN Scrub(result[c]) ELSE None]

\* prepare masks a copy; what cannot be encoded is not recorded at all.
Encode(c) ==
  /\ pc[c] = "recording" /\ Goto(c, IF c \in Unencodable THEN "recorded" ELSE "encoded")
  /\ encoded' = IF c \in Unencodable THEN encoded
                ELSE [encoded EXCEPT ![c] = RecordOf(c)]
  /\ UNCHANGED <<session, result, mu, w, isOpen, file, serving, disk>>

Lock_None(c) ==
  /\ pc[c] = "encoded"
  /\ mu' = c /\ Goto(c, "locked")
  /\ UNCHANGED <<values, w, isOpen, file, serving, disk>>

Lock(c) ==
  /\ pc[c] = "encoded" /\ mu = None
  /\ mu' = c /\ Goto(c, "locked")
  /\ UNCHANGED <<values, w, isOpen, file, serving, disk>>

Entry(c, part) == [call |-> c, part |-> part]

\* io.Discard takes everything and always succeeds.
WriteDiscarded(c) ==
  /\ pc[c] = "locked" /\ w = "discard"
  /\ mu' = None /\ Goto(c, "recorded")
  /\ UNCHANGED <<values, w, isOpen, file, serving, disk>>

WriteBegins(c) ==
  /\ pc[c] = "locked" /\ w = "file" /\ isOpen /\ disk # "failing"
  /\ file' = Append(file, Entry(c, "piece")) /\ Goto(c, "half")
  /\ UNCHANGED <<values, mu, w, isOpen, serving, disk>>

\* The rest of the record continues its piece, when that is still the last one.
WriteEnds(c) ==
  /\ pc[c] = "half" /\ isOpen /\ disk # "failing"
  /\ file' = IF file[Len(file)] = Entry(c, "piece")
             THEN [file EXCEPT ![Len(file)] = Entry(c, "whole")]
             ELSE Append(file, Entry(c, "rest"))
  /\ mu' = None /\ Goto(c, "recorded")
  /\ UNCHANGED <<values, w, isOpen, serving, disk>>

\* The error of Write is dropped, and the call goes on.
WriteFails(c) ==
  /\ \/ pc[c] = "locked" /\ w = "file"
     \/ pc[c] = "half"
  /\ ~isOpen \/ disk = "failing"
  /\ mu' = None /\ Goto(c, "recorded")
  /\ UNCHANGED <<values, w, isOpen, file, serving, disk>>

Write(c) == WriteDiscarded(c) \/ WriteBegins(c) \/ WriteEnds(c) \/ WriteFails(c)

\* The answer is returned after the record.
Answer(c) ==
  /\ pc[c] = "recorded" /\ Goto(c, "answered")
  /\ UNCHANGED <<values, mu, w, isOpen, file, serving, disk>>

CallStep(c) == Start(c) \/ Handle(c) \/ Encode(c) \/ Lock(c) \/ Write(c) \/ Answer(c)

-----------------------------------------------------------------------------
(* main, the process and the disk.                                         *)

\* The client hangs up.  Handlers that are running go on.
RunReturns ==
  /\ serving /\ serving' = FALSE
  /\ UNCHANGED <<pc, values, mu, w, isOpen, file, disk>>

CloseRecorder_Unlocked ==
  /\ ~serving /\ isOpen
  /\ w' = "discard" /\ isOpen' = FALSE
  /\ UNCHANGED <<pc, values, mu, file, serving, disk>>

\* Close: from lock to unlock nobody else touches the recorder.
CloseRecorder ==
  /\ ~serving /\ isOpen /\ mu = None
  /\ w' = "discard" /\ isOpen' = FALSE
  /\ UNCHANGED <<pc, values, mu, file, serving, disk>>

Alive == {c \in Calls : pc[c] \notin {"new", "answered", "dead"}}

\* O_APPEND: what is in the file stays.
NewRecorder == w' = "file" /\ isOpen' = TRUE /\ mu' = None /\ UNCHANGED file

\* The process ends at any point, or after Close, and the client starts it again.
Restart ==
  /\ pc' = [c \in Calls |-> IF c \in Alive THEN "dead" ELSE pc[c]]
  /\ NewRecorder /\ serving' = TRUE
  /\ UNCHANGED <<values, disk>>

DiskFails ==
  /\ disk # "failing" /\ disk' = "failing"
  /\ UNCHANGED <<pc, values, mu, w, isOpen, file, serving>>

DiskMends ==
  /\ disk = "failing" /\ disk' = "mended"
  /\ UNCHANGED <<pc, values, mu, w, isOpen, file, serving>>

Next ==
  \/ \E c \in Calls : CallStep(c)
  \/ RunReturns \/ CloseRecorder \/ Restart \/ DiskFails \/ DiskMends

\* A goroutine that can go on does, and the lock is given to who waits for it;
\* a handler ends because every request of it has a timeout.
Spec ==
  /\ Init /\ [][Next]_vars
  /\ \A c \in Calls : /\ WF_vars(Handle(c) \/ Encode(c) \/ Write(c))
                      /\ SF_vars(Lock(c)) /\ WF_vars(Answer(c))

-----------------------------------------------------------------------------
(* Properties.                                                             *)

TypeOK ==
  /\ session \in Sessions
  /\ pc \in [Calls -> Places]
  /\ mu \in Calls \cup {None}
  /\ w \in {"file", "discard"} /\ isOpen \in BOOLEAN /\ serving \in BOOLEAN
  /\ file \in Seq([call : Calls, part : {"piece", "whole", "rest"}])
  /\ disk \in {"sound", "failing", "mended"}

\* Seen from outside a record that is being written is not there yet.
Status(c) ==
  IF pc[c] \in {"handling", "recording", "encoded", "locked", "half"} THEN "open"
  ELSE IF pc[c] = "recorded" THEN "settled"
  ELSE IF pc[c] = "dead" THEN "gone"
  ELSE pc[c]

Settled == IF \E c \in Calls : pc[c] = "half" THEN SubSeq(file, 1, Len(file) - 1) ELSE file

Abstract ==
  INSTANCE CallLog WITH status <- [c \in Calls |-> Status(c)], log <- Settled, closed <- ~isOpen

\* The lock, the buffer and the two halves of a write are invisible: the file is
\* what one atomic append per call would have made of it, Close and the end of
\* the process included, and every call that the process survives is answered.
RefinesLog == Abstract!LogSpec

\* Entry i is a line of its own: nothing before it is left without its end,
\* except where a disk failed or a process ended.
OwnLine(i) ==
  i = 1 \/ file[i - 1].part # "piece" \/ pc[file[i - 1].call] = "dead" \/ disk # "sound"

\* Who has an answer can read about it: when a call is answered its record is in
\* the file, whole and on a line of its own, unless the recorder is closed, the
\* disk has failed or the call cannot be encoded.
AnsweredIsLogged ==
  [][\A c \in Calls :
       (pc[c] # "answered" /\ pc'[c] = "answered") =>
         \/ ~isOpen \/ disk # "sound" \/ c \in Unencodable
         \/ \E i \in 1..Len(file) : file[i] = Entry(c, "whole") /\ OwnLine(i)]_vars
=============================================================================
