------------------------------- MODULE Answer -------------------------------
(***************************************************************************)
(* A streamed answer on its way to the client: handleStreaming of          *)
(* proxy/proxy_handler.go takes the restorer by the path of the request,   *)
(* not by what the upstream sends.  Each endpoint has events of its own:   *)
(* those of /v1/chat/completions hold their text in choices[].delta, those *)
(* of /v1/completions in choices[].text.                                   *)
(***************************************************************************)
EXTENDS SSEStream, Streamable

vars == <<endpoint, eventData, held, out, status, source, gone, read>>

(***************************************************************************)
(* The lines an upstream may send, those the restorers write, and what an  *)
(* upstream sends on each endpoint.                                        *)
(***************************************************************************)
LinesWith(kinds, channels) ==
  [kind   : {"blank", "field", "data"} \cup RestoredKinds \cup PlainKinds \cup kinds,
   part   : {"none", "whole", "first", "second", "done"},
   deltas : Seq([channel : Channels \cup Unrestored \cup channels, text : Text])]

UpstreamLine == LinesWith({}, {})
AnyLine == LinesWith({"raw"}, {"raw"})

Sends(e, line) ==
  /\ line \in UpstreamLine
  /\ IF e = "responses"
     THEN /\ line.part = "none"
          /\ \/ /\ line.kind \in RestoredKinds
                /\ Len(line.deltas) = 1 /\ line.deltas[1].channel = line.kind
             \/ line.kind \in PlainKinds /\ line.deltas = <<>>
     ELSE \/ line \in {Blank, Field}
          \/ line.kind = "data" /\ line.part # "none"

ASSUME AnswerAssumption ==
  /\ WellFormedLookup
  /\ RestoredKinds \subseteq Channels /\ "raw" \notin Channels
  /\ Unrestored \cap Channels = {}
  /\ \A e \in Endpoints : MaxLines[e] \in Nat /\ \A line \in Lines[e] : Sends(e, line)

Init == InitStream /\ eventData = <<>>

HandleSSE == endpoint # "responses" /\ CopyEvents /\ UNCHANGED endpoint

HandleStreamable == endpoint = "responses" /\ CopyLines /\ UNCHANGED <<endpoint, eventData>>

Interrupted == (ReadFails \/ UpstreamEnds \/ ClientLeaves) /\ UNCHANGED <<endpoint, eventData>>

Next == HandleSSE \/ HandleStreamable \/ Interrupted

Spec == Init /\ [][Next]_vars

-----------------------------------------------------------------------------
SSE == endpoint # "responses"

\* The deltas of all that the restorer has taken up, and of all it has
\* written, the unframed rest included.
Received == IF SSE THEN DeltasOf(EventsRead) ELSE LineDeltas(read)

Written == LineDeltas(out)

\* Until a write fails; for an event stream, if each event is one object.
InStep == (SSE => OneObjectPerEvent) /\ ~(gone /\ status = "failed")

\* Types; Copy buffers one event and one unfinished placeholder at most.
TypeOK ==
  /\ endpoint \in Endpoints
  /\ eventData \in Seq(UpstreamLine) /\ \A k \in DOMAIN eventData : eventData[k].kind = "data"
  /\ held \in Text /\ Len(held) <= MaxPlaceholderLen
  /\ out \in Seq(AnyLine) /\ read \in Seq(UpstreamLine)
  /\ Len(read) <= MaxLines[endpoint]
  /\ status \in {"copying", "done", "failed"}
  /\ source \in {"open", "closed", "broken"} /\ gone \in BOOLEAN

\* No text is lost, doubled or reordered and every placeholder is restored:
\* until a write fails, the strings taken up so far, joined, have been written
\* in restored form except for the text held back.
TextRestored ==
  LET received == TextIn(Received, Channels)
  IN  InStep /\ NoStrayOpen(received)
      => TextIn(Written, Channels \cup {"raw"}) =
           RestoreEach(SubSeq(received, 1, Len(received) - Len(held)))

\* Text is written late by less than a placeholder: the strings that stand for
\* the first n hold the text of these n, restored, but for an end of it that
\* begins with a "<", is no longer than a placeholder and comes with a later
\* string.  More than this never moves from one choice, tool call or event
\* into another.
TextInItsPlace ==
  InStep /\ NoStrayOpen(TextIn(Received, Channels)) =>
    \A n \in 0..Len(Received) :
      LET before == TextIn(SubSeq(Received, 1, n), Channels)
      IN  \E late \in 0..MaxPlaceholderLen :
            /\ late <= Len(before)
            /\ late > 0 => before[Len(before) - late + 1] = Open
            /\ TextIn(SubSeq(Written, 1, n), Channels)
                 = RestoreEach(SubSeq(before, 1, Len(before) - late))

\* The client gets what the upstream sent, in its order.
EventsPreserved == IF SSE THEN SSEPreserved ELSE LinesPreserved

-----------------------------------------------------------------------------
(***************************************************************************)
(* What makes these inductive: the lines read are lines the upstream sends;*)
(* held and out are what the strings taken up so far leave and release, the*)
(* rest behind them once Copy is done; and while it copies both sides have *)
(* got equally far.                                                        *)
(***************************************************************************)
AllSent ==
  /\ \A k \in DOMAIN read : Sends(endpoint, read[k])
  /\ \A k \in DOMAIN eventData : Sends(endpoint, eventData[k])

Behind(rest) == IF rest = <<>> THEN <<>> ELSE <<Delta("raw", rest)>>

Tracked ==
  LET answered == RestoreDeltas(<<>>, Received)
  IN  (SSE => Orderly(EventsRead)) /\ ~(gone /\ status = "failed") =>
        IF status = "done"
        THEN held = <<>> /\ Written = answered.deltas \o Behind(RestoreString(answered.held))
        ELSE held = answered.held /\ Written = answered.deltas

InPlace ==
  status = "copying" =>
    IF SSE
    THEN /\ eventData = Parsed(read).data
         /\ Orderly(EventsOf(read)) => Parsed(out).data = <<>> /\ Shapes(out) = Shapes(read)
    ELSE Kinds(out) = Kinds(read)

IInv == TypeOK /\ AllSent /\ Tracked /\ InPlace /\ EventsPreserved

-----------------------------------------------------------------------------
\* README.md:28-31: placeholders are replaced "before returning to the client.
\* This works for both non-streaming JSON and streaming (SSE / streamableHttp)
\* responses", of each choice and tool call whose strings hold a placeholder ("a
\* placeholder may be split across multiple SSE events"): in a complete answer
\* they read as their own text, restored.
ChoicesKeepTheirText ==
  InStep /\ status = "done" =>
    \A channel \in Channels :
      LET text == TextIn(Received, {channel})
      IN  KnownAt(text) # {} /\ NoStrayOpen(text) /\ HeldOf(text) = <<>> =>
            TextIn(Written, {channel}) = RestoreEach(text)
=============================================================================
