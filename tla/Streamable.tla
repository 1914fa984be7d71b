----------------------------- MODULE Streamable -----------------------------
(***************************************************************************)
(* StreamableRestorer.Copy (restore/streamable.go): a Responses API stream *)
(* of one JSON event per line.  Every line is restored and written on its  *)
(* own; lines that are no JSON are passed on and blank lines dropped.  All *)
(* texts of the stream go through one hold-back restorer.                  *)
(***************************************************************************)
EXTENDS Stream

(***************************************************************************)
(* The lines the code tells apart: output_text.delta, output_text.done,    *)
(* function_call_arguments.delta and .done ("arguments") carry a text,     *)
(* which is restored; "other" events, events without the expected string   *)
(* and "junk" that is no JSON do not; "blank" lines are not passed on.  The*)
(* channel of a text is the kind of its line.                              *)
(***************************************************************************)
RestoredKinds == {"delta", "done", "arguments"}
PlainKinds == {"other", "junk", "blank"}

Event(kind, text) == Line(kind, "none", <<Delta(kind, text)>>)
Plain(kind) == Line(kind, "none", <<>>)

\* restoreLine on an event whose text is restored.
RestoreLine(line) ==
  LET restored == RestoreDeltas(held, line.deltas)
  IN  /\ line.kind \in RestoredKinds /\ Reading(line)
      /\ Write(<<Line(line.kind, "none", restored.deltas)>>, "copying")
      /\ held' = restored.held
      /\ UNCHANGED <<source, gone>>

\* Any other event, and what is no JSON, is written as it is.
PassLine(line) ==
  /\ line.kind \in {"other", "junk"} /\ Reading(line)
  /\ Write(<<line>>, "copying")
  /\ UNCHANGED <<held, source, gone>>

SkipBlank(line) ==
  /\ line.kind = "blank" /\ Reading(line)
  /\ UNCHANGED <<held, out, status, source, gone>>

\* The stream ends: hb.Flush().
EndOfLines ==
  /\ status = "copying" /\ source = "closed"
  /\ Write(Flushed(<<>>, RestoreString(held)), "done")
  /\ held' = <<>>
  /\ UNCHANGED <<source, gone, read>>

CopyLines ==
  \/ \E line \in Lines[endpoint] : RestoreLine(line) \/ PassLine(line) \/ SkipBlank(line)
  \/ EndOfLines

-----------------------------------------------------------------------------
\* The lines that have their counterpart on the other side.
Passed(lines) ==
  FlattenSeq([k \in 1..Len(lines) |->
                IF lines[k].kind \in {"blank", "raw"} THEN <<>> ELSE <<lines[k]>>])

Kinds(lines) == [k \in DOMAIN Passed(lines) |-> Passed(lines)[k].kind]

\* The client gets the upstream's events in order, one line each; it misses
\* the last of them only when it has gone away.
LinesPreserved ==
  /\ IsPrefix(Kinds(out), Kinds(read))
  /\ ~gone => Kinds(out) = Kinds(read)
=============================================================================
