------------------------------- MODULE Stream -------------------------------
(***************************************************************************)
(* What both stream restorers have in common (Copy of restore/sse.go and of*)
(* restore/streamable.go): lines are read from the upstream, which may     *)
(* break off, and written to a client, which may go away.  read is a       *)
(* history variable: the lines read so far.                                *)
(***************************************************************************)
EXTENDS DeltaRestore

CONSTANTS Endpoints,  \* the endpoints whose answers are streamed
          Lines,      \* of each endpoint: the lines the upstream may send
          MaxLines    \* of each endpoint: bound on the lines of one stream

VARIABLES endpoint,  \* the endpoint of the request
          held,      \* hb.pending
          out,       \* lines written to the client
          status,    \* "copying", or how Copy returned: "done" or "failed"
          source,    \* the upstream's body: "open", "closed" or "broken"
          gone,      \* the client has gone away
          read

\* A new restorer for each answer.
InitStream ==
  /\ endpoint \in Endpoints
  /\ held = <<>> /\ out = <<>>
  /\ status = "copying" /\ source = "open" /\ gone = FALSE
  /\ read = <<>>

\* The writes of one step: all of them, or some of them when the client has
\* gone away, which ends Copy.
Write(lines, next) ==
  \/ out' = out \o lines /\ status' = next
  \/ /\ gone
     /\ \E n \in 0..(Len(lines) - 1) : out' = out \o SubSeq(lines, 1, n)
     /\ status' = "failed"

Reading(line) ==
  /\ status = "copying" /\ source = "open"
  /\ Len(read) < MaxLines[endpoint]
  /\ read' = Append(read, line)

\* hb.Flush() behind the last lines.
Flushed(lines, rest) == IF rest = <<>> THEN lines ELSE Append(lines, Raw(rest))

\* scanner.Err(): the connection broke, a line was longer than the scanner's
\* buffer, or the client's context was cancelled.
ReadFails ==
  /\ status = "copying"
  /\ source = "broken" \/ gone
  /\ status' = "failed"
  /\ UNCHANGED <<held, out, source, gone, read>>

UpstreamEnds ==
  /\ source = "open"
  /\ source' \in {"closed", "broken"}
  /\ UNCHANGED <<held, out, status, gone, read>>

ClientLeaves ==
  /\ ~gone /\ gone' = TRUE
  /\ UNCHANGED <<held, out, status, source, read>>

-----------------------------------------------------------------------------
\* The deltas of lines: of those of /v1/responses, of whole data lines and of
\* the unframed rest.
LineDeltas(lines) ==
  FlattenSeq([k \in 1..Len(lines) |->
                IF lines[k].part \in {"none", "whole"} THEN lines[k].deltas ELSE <<>>])
=============================================================================
