---------------------------- MODULE DeltaRestore ----------------------------
(***************************************************************************)
(* How a stream restorer feeds the strings of its events through its one   *)
(* HoldBackRestorer (restore/sse.go, restore/streamable.go).  A delta is   *)
(* one string of an event together with its channel: the choice, or the    *)
(* tool call, whose text it continues.  The text of a channel of Unrestored*)
(* stands where the restorers do not look: choices[].text.                 *)
(***************************************************************************)
EXTENDS RestoreText

CONSTANT Channels   \* those whose text the restorers look at

Unrestored == {"text"}

Delta(channel, text) == [channel |-> channel, text |-> text]

(***************************************************************************)
(* A line of a stream: what it is, which part of a JSON object a data line *)
(* holds, and the deltas of that object.  "field" stands for every line of *)
(* an event stream that is passed on as it is: comments, "event: ...",     *)
(* "id: ...", a "data:" without a blank, and each line of a body that is no*)
(* event stream at all.                                                    *)
(***************************************************************************)
Line(kind, part, deltas) == [kind |-> kind, part |-> part, deltas |-> deltas]
Data(part, deltas) == Line("data", part, deltas)

Blank == Line("blank", "none", <<>>)
Field == Line("field", "none", <<>>)
Done  == Data("done", <<>>)   \* [DONE], or other data that is no object

\* The held-back rest, written without any framing.
Raw(text) == Line("raw", "none", <<Delta("raw", text)>>)

\* Mutant: the text held is kept when the whole buffer is released.
PushedSticky(held, text) ==
  LET buffer    == held \o text
      holdStart == FindHoldStart(buffer)
  IN  [out  |-> RestoreString(SubSeq(buffer, 1, holdStart - 1)),
       held |-> IF holdStart > Len(buffer) THEN buffer
                ELSE SubSeq(buffer, holdStart, Len(buffer))]

\* HoldBackRestorer.Push as a function of the text it holds: what it returns
\* and what it holds afterwards.
Pushed(held, text) ==
  LET buffer    == held \o text
      holdStart == FindHoldStart(buffer)
  IN  [out  |-> RestoreString(SubSeq(buffer, 1, holdStart - 1)),
       held |-> SubSeq(buffer, holdStart, Len(buffer))]

\* One string of an event.
PushedDelta(held, delta) ==
  IF delta.channel \in Unrestored THEN [out |-> delta.text, held |-> held]
  ELSE Pushed(held, delta.text)

\* What is held after each of an event's strings, which the code pushes in
\* their order.
HeldThrough(held, deltas) ==
  LET after[n \in 0..Len(deltas)] ==
        IF n = 0 THEN held ELSE PushedDelta(after[n - 1], deltas[n]).held
  IN  after

\* Mutant: what an event's strings release goes into the first of them.
RestoreDeltasAtOnce(held, deltas) ==
  LET pushed == Pushed(held, FlattenSeq([k \in DOMAIN deltas |-> deltas[k].text]))
  IN  [held   |-> pushed.held,
       deltas |-> [k \in DOMAIN deltas |->
                     Delta(deltas[k].channel, IF k = 1 THEN pushed.out ELSE <<>>)]]

\* An event's strings, restored in their places.
RestoreDeltas(held, deltas) ==
  LET after == HeldThrough(held, deltas)
  IN  [held   |-> after[Len(deltas)],
       deltas |-> [k \in DOMAIN deltas |->
                     Delta(deltas[k].channel, PushedDelta(after[k - 1], deltas[k]).out)]]

-----------------------------------------------------------------------------
\* What a restorer holds back once it has got all of a text, and the rest.
HeldOf(text) == SubSeq(text, FindHoldStart(text), Len(text))

ReleasedOf(text) == SubSeq(text, 1, FindHoldStart(text) - 1)

\* The text of some of the channels of a sequence of deltas.
TextIn(deltas, channels) ==
  FlattenSeq([k \in 1..Len(deltas) |->
                IF deltas[k].channel \in channels THEN deltas[k].text ELSE <<>>])
=============================================================================
