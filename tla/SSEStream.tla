----------------------------- MODULE SSEStream -----------------------------
(***************************************************************************)
(* SSEStreamRestorer.Copy (restore/sse.go): reads the upstream's events    *)
(* line by line, collects the data lines of an event, restores the event   *)
(* at the blank line that ends it and passes every other line on at once.  *)
(***************************************************************************)
EXTENDS Stream

VARIABLE eventData   \* data lines of the event being read

\* json.Unmarshal of the event's data lines joined by newlines: an object may
\* stand on one line or be spread over two.
IsObject(data) ==
  \/ Len(data) = 1 /\ data[1].part = "whole"
  \/ /\ Len(data) = 2 /\ data[1].part = "first" /\ data[2].part = "second"
     /\ data[1].deltas = data[2].deltas

\* Mutant: an object that is spread over two lines is written once per line.
RestoreEventPerLine(data) ==
  IF IsObject(data)
  THEN LET restored == RestoreDeltas(held, data[1].deltas)
       IN  [lines |-> [k \in DOMAIN data |-> Data("whole", restored.deltas)],
            held |-> restored.held]
  ELSE [lines |-> data, held |-> held]

\* restoreEvent: an object is written as one data line with its deltas
\* restored.  Anything else is written back with one "data: " in front, so
\* that its second and later lines lose theirs.
RestoreEvent(data) ==
  IF IsObject(data)
  THEN LET restored == RestoreDeltas(held, data[1].deltas)
       IN  [lines |-> <<Data("whole", restored.deltas)>>, held |-> restored.held]
  ELSE [lines |-> [k \in DOMAIN data |->
                     IF k = 1 THEN data[1] ELSE [data[k] EXCEPT !.kind = "field"]],
        held  |-> held]

\* flushEvent.
FlushEvent ==
  IF eventData = <<>> THEN [lines |-> <<>>, held |-> held] ELSE RestoreEvent(eventData)

\* A blank line: flushEvent, then the line.
EndEvent ==
  /\ Reading(Blank)
  /\ Write(Append(FlushEvent.lines, Blank), "copying")
  /\ held' = FlushEvent.held /\ eventData' = <<>>
  /\ UNCHANGED <<source, gone>>

DataLine(line) ==
  /\ line.kind = "data" /\ Reading(line)
  /\ eventData' = Append(eventData, line)
  /\ UNCHANGED <<held, out, status, source, gone>>

OtherLine(line) ==
  /\ line.kind = "field" /\ Reading(line)
  /\ Write(<<line>>, "copying")
  /\ UNCHANGED <<eventData, held, source, gone>>

\* Mutant: the event that the end of the stream leaves open is dropped.
EndOfEventsDropsLast ==
  /\ status = "copying" /\ source = "closed"
  /\ Write(<<Raw(RestoreString(held))>>, "done")
  /\ held' = <<>> /\ eventData' = <<>>
  /\ UNCHANGED <<source, gone, read>>

\* The stream ends: the last event, then hb.Flush().
EndOfEvents ==
  /\ status = "copying" /\ source = "closed"
  /\ Write(Flushed(FlushEvent.lines, RestoreString(FlushEvent.held)), "done")
  /\ held' = <<>> /\ eventData' = <<>>
  /\ UNCHANGED <<source, gone, read>>

CopyEvents ==
  \/ EndEvent
  \/ \E line \in Lines[endpoint] : DataLine(line) \/ OtherLine(line)
  \/ EndOfEvents

-----------------------------------------------------------------------------
(***************************************************************************)
(* What an SSE client makes of a sequence of lines, in their order: the    *)
(* data lines of each event that a blank line ends, and each other line;   *)
(* and the data lines of an event that has not ended.                      *)
(***************************************************************************)
ParseLine(parsed, line) ==
  IF line.kind = "data" THEN [parsed EXCEPT !.data = Append(@, line)]
  ELSE IF line.kind = "field" THEN [parsed EXCEPT !.events = Append(@, <<line>>)]
  ELSE IF line.kind = "blank" /\ parsed.data # <<>>
  THEN [events |-> Append(parsed.events, parsed.data), data |-> <<>>]
  ELSE parsed

Parsed(lines) ==
  LET parsed[n \in 0..Len(lines)] ==
        IF n = 0 THEN [events |-> <<>>, data |-> <<>>]
        ELSE ParseLine(parsed[n - 1], lines[n])
  IN  parsed[Len(lines)]

EventsOf(lines) == Parsed(lines).events

\* An event without the text that is restored: whether it is an object, which
\* strings it carries and what stands elsewhere in it.
Shape(data) ==
  [object  |-> IsObject(data),
   strings |->
     IF IsObject(data)
     THEN [k \in DOMAIN data[1].deltas |->
             Delta(data[1].deltas[k].channel,
                   IF data[1].deltas[k].channel \in Unrestored
                   THEN data[1].deltas[k].text ELSE <<>>)]
     ELSE [k \in DOMAIN data |-> Delta(data[k].part, <<>>)]]

Shapes(lines) == [k \in DOMAIN EventsOf(lines) |-> Shape(EventsOf(lines)[k])]

\* The deltas of the events of a list.
DeltasOf(events) ==
  FlattenSeq([k \in 1..Len(events) |->
                IF IsObject(events[k]) THEN events[k][1].deltas ELSE <<>>])

\* All events that Copy has taken up: at the end also the one that no blank
\* line ended.
EventsRead == EventsOf(IF status = "done" THEN Append(read, Blank) ELSE read)

\* The data of every event is one JSON object or a single line ...
Orderly(events) == \A k \in DOMAIN events : IsObject(events[k]) \/ Len(events[k]) = 1

\* ... and that of the event being read.
OneObjectPerEvent == Orderly(EventsOf(Append(read, Blank)))

\* The client sees the upstream's events in order, each with the strings it
\* had and [DONE] where it was, and none it was not sent; all other lines are
\* passed on in their places, so that a body that is no event stream arrives
\* whole.  It misses some only when it has gone away.
SSEPreserved ==
  OneObjectPerEvent =>
    /\ IsPrefix(Shapes(out), Shapes(read))
    /\ ~gone => Shapes(out) = Shapes(read)
=============================================================================
