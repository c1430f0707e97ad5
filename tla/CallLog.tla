-------------------------------- MODULE CallLog --------------------------------
(***************************************************************************)
(* What the --log-file of internal/tools/record.go promises: a call is     *)
(* answered after its record was appended, whole and in one piece; a       *)
(* record is lost only when the recorder was closed, the disk failed or    *)
(* the call cannot be encoded; and a piece of one is left behind only by a *)
(* failing disk or by the end of the process.                              *)
(***************************************************************************)
EXTENDS Sequences

CONSTANTS Calls, Unencodable

VARIABLES
  status,  \* [Calls -> "new", "open", "settled", "answered" or "gone"]
  log,     \* what the file holds: whole records, and pieces of records
  closed,  \* the server has closed its recorder
  disk     \* "sound", "failing", or "mended": it failed before

logVars == <<status, log, closed, disk>>

Entry == [call : Calls, part : {"whole", "piece"}]

LogInit ==
  /\ status = [c \in Calls |-> "new"] /\ log = <<>>
  /\ closed = FALSE /\ disk = "sound"

Open(c) ==
  /\ status[c] = "new"
  /\ status' = [status EXCEPT ![c] = "open"]
  /\ UNCHANGED <<log, closed, disk>>

Settle(c) == status[c] = "open" /\ status' = [status EXCEPT ![c] = "settled"]

Append1(c, part) == log' = Append(log, [call |-> c, part |-> part])

Log(c) == Settle(c) /\ ~closed /\ Append1(c, "whole") /\ UNCHANGED <<closed, disk>>

Lose(c) ==
  /\ Settle(c)
  /\ \/ closed \/ disk = "failing" \/ c \in Unencodable
  /\ UNCHANGED <<log, closed, disk>>

Tear(c) ==
  /\ Settle(c) /\ ~closed /\ disk = "failing"
  /\ Append1(c, "piece") /\ UNCHANGED <<closed, disk>>

Finish(c) == Log(c) \/ Lose(c) \/ Tear(c)

Return(c) ==
  /\ status[c] = "settled"
  /\ status' = [status EXCEPT ![c] = "answered"]
  /\ UNCHANGED <<log, closed, disk>>

Close == ~closed /\ closed' = TRUE /\ UNCHANGED <<status, log, disk>>

\* The process ends, whatever it was doing, and another one opens the file.
Restart ==
  /\ status' = [c \in Calls |-> IF status[c] \in {"open", "settled"} THEN "gone" ELSE status[c]]
  /\ \/ UNCHANGED log
     \/ \E c \in Calls : status[c] = "open" /\ Append1(c, "piece")
  /\ closed' = FALSE /\ UNCHANGED disk

DiskStep ==
  /\ disk' = IF disk = "failing" THEN "mended" ELSE "failing"
  /\ UNCHANGED <<status, log, closed>>

LogNext ==
  \/ \E c \in Calls : Open(c) \/ Finish(c) \/ Return(c)
  \/ Close \/ Restart \/ DiskStep

\* A call that is open is settled and answered, unless the process ends.
LogSpec ==
  /\ LogInit /\ [][LogNext]_logVars
  /\ \A c \in Calls : WF_logVars(Finish(c)) /\ WF_logVars(Return(c))
=============================================================================
