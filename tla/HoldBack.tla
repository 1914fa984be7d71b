------------------------------ MODULE HoldBack ------------------------------
(***************************************************************************)
(* HoldBackRestorer (restore/holdback.go): the upstream's text arrives in  *)
(* chunks cut at arbitrary places; Push releases the part of the buffer    *)
(* that no placeholder can straddle and Flush the rest.  received and cuts *)
(* are history variables: all text pushed so far and the positions in it   *)
(* at which the restorer has cut.                                          *)
(***************************************************************************)
EXTENDS RestoreText

CONSTANTS Chunks,     \* the chunks the upstream may send
          MaxStream   \* bound: characters of one stream

ASSUME StreamAssumption ==
  Chunks \subseteq Text /\ MaxStream \in Nat /\ WellFormedLookup

\* An underscore and the digits of an index also fit into a label, so that
\* "<_123456" may still go on as "<_123456_1>".
ASSUME LimitsAssumption == Digit # {} /\ MaxIndexLen < MaxLabelLen

VARIABLES pending,    \* HoldBackRestorer.pending
          out,        \* everything returned by Push and Flush, concatenated
          received, cuts, flushed

vars == <<pending, out, received, cuts, flushed>>

Init ==
  /\ pending = <<>>
  /\ out = <<>>
  /\ received = <<>>
  /\ cuts = {}
  /\ flushed = FALSE

\* Mutant: pending is not reset when the whole buffer is safe.
PushWithoutReset(chunk) ==
  LET buffer    == pending \o chunk
      holdStart == FindHoldStart(buffer)
  IN  /\ ~flushed
      /\ Len(received) + Len(chunk) <= MaxStream
      /\ received' = received \o chunk
      /\ out' = out \o RestoreString(SubSeq(buffer, 1, holdStart - 1))
      /\ pending' = IF holdStart > Len(buffer) THEN buffer
                    ELSE SubSeq(buffer, holdStart, Len(buffer))
      /\ cuts' = cuts \cup {Len(received) + holdStart - 1 - Len(pending)}
      /\ UNCHANGED flushed

Push(chunk) ==
  LET buffer    == pending \o chunk
      holdStart == FindHoldStart(buffer)
  IN  /\ ~flushed
      /\ Len(received) + Len(chunk) <= MaxStream
      /\ received' = received \o chunk
      /\ out' = out \o RestoreString(SubSeq(buffer, 1, holdStart - 1))
      /\ pending' = SubSeq(buffer, holdStart, Len(buffer))
      /\ cuts' = cuts \cup {Len(received) + holdStart - 1 - Len(pending)}
      /\ UNCHANGED flushed

Flush ==
  /\ ~flushed
  /\ out' = out \o RestoreString(pending)
  /\ pending' = <<>>
  /\ flushed' = TRUE
  /\ UNCHANGED <<received, cuts>>

Next == Flush \/ \E chunk \in Chunks : Push(chunk)

Spec == Init /\ [][Next]_vars

-----------------------------------------------------------------------------
Released == SubSeq(received, 1, Len(received) - Len(pending))

\* Types; the buffer is bounded whatever the upstream sends, and only text at
\* a position already received has been cut.
TypeOK ==
  /\ received \in Text
  /\ pending \in Text
  /\ Len(pending) <= MaxPlaceholderLen
  /\ flushed \in BOOLEAN
  /\ cuts \subseteq 0..Len(received)

\* A placeholder is never cut in two: whatever chunks arrive, no complete
\* placeholder of the stream lies across a position at which Push released
\* text ("only emits text that is provably not part of a placeholder").
NoSplit ==
  \A c \in cuts : \A i \in 1..c, j \in (c + 1)..Len(received) :
    ~CompletePlaceholder(SubSeq(received, i, j))

\* Some further characters and a ">" make a complete placeholder of s.
CanBecome(s) ==
  \E n \in 0..(MaxPlaceholderLen - Len(s) - 1) :
    \E rest \in [1..n -> Word] : CompletePlaceholder(s \o rest \o <<Close>>)

\* What Push holds back is the end of the text received and no placeholder that
\* is already complete; if its last character is no ">", some further text makes
\* a placeholder of it; and until Flush no end of the stream that may become a
\* placeholder has been released ("any suffix that could still grow into a
\* placeholder is held back").  A closed token such as "<>" or "<a>" is held for
\* nothing: that is not excluded, against the comment on ViablePrefix.
HeldTail ==
  /\ Len(pending) <= Len(received)
  /\ pending = SubSeq(received, Len(received) - Len(pending) + 1, Len(received))
  /\ ~CompletePlaceholder(pending)
  /\ pending # <<>> /\ Last(pending) # Close => CanBecome(pending)
  /\ ~flushed => \A i \in 1..(Len(received) - Len(pending)) :
                   ~CanBecome(SubSeq(received, i, Len(received)))

\* However the stream is chunked, what the client got is the released text
\* with every known placeholder replaced, provided that no "<" stands open
\* in front of one.
OutputRestored == NoStrayOpen(received) => out = RestoreEach(Released)

\* The claim of RestoreString's documentation without that proviso.
EveryPlaceholderRestored == out = RestoreEach(Released)

-----------------------------------------------------------------------------
(***************************************************************************)
(* What makes NoSplit and HeldTail inductive.  What is held back grows by  *)
(* the code's own expression; every cut lies in front of an opening        *)
(* bracket, or nothing that ended there could grow; and while nothing is   *)
(* held back nothing that ends here can grow.                              *)
(***************************************************************************)
HeldGrows ==
  /\ Len(pending) <= Len(received)
  /\ pending = SubSeq(received, Len(received) - Len(pending) + 1, Len(received))
  /\ pending # <<>> => CanGrow(pending)

CutsSafe ==
  \A c \in cuts : \/ c < Len(received) /\ received[c + 1] = Open
                  \/ Settled(received, c)

RestSettled == ~flushed /\ pending = <<>> => Settled(received, Len(received))

\* What is held back begins at a cut, if anything was ever released.
HeldFromCut ==
  ~flushed => \/ Len(received) = Len(pending)
              \/ Len(received) - Len(pending) \in cuts

IInv == TypeOK /\ HeldGrows /\ CutsSafe /\ RestSettled /\ HeldFromCut
=============================================================================
