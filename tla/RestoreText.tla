---------------------------- MODULE RestoreText ----------------------------
(***************************************************************************)
(* The pure text functions of restore/holdback.go: how the code restores   *)
(* the placeholders of a string (RestoreString), where it cuts a buffer    *)
(* that may end in the middle of one (FindHoldStart), and the meaning the  *)
(* documentation gives to "restoring" (RestoreEach), which is written      *)
(* without looking at how the code scans the text.                         *)
(***************************************************************************)
EXTENDS PlaceholderFormat, FiniteSetsExt, SequencesExt

CONSTANT Lookup   \* the request's placeholder -> plaintext mapping

\* What the generator issues: placeholders in full, each for a plaintext.
WellFormedLookup ==
  \A t \in DOMAIN Lookup : t \in Text /\ CompletePlaceholder(t) /\ Lookup[t] \in Text

\* Positions of character c in s, from position k on.
Occurrences(s, c, k) == {i \in k..Len(s) : s[i] = c}

\* What the lookup function makes of one "<...>" token.
Resolve(token) == IF token \in DOMAIN Lookup THEN Lookup[token] ELSE token

\* The first "<" from position k on starts a token, the first ">" after it
\* ends the token, and scanning goes on behind that ">".
RestoreString(s) ==
  LET restoreFrom[k \in 1..(Len(s) + 1)] ==
        IF Occurrences(s, Open, k) = {} THEN SubSeq(s, k, Len(s))
        ELSE LET start == Min(Occurrences(s, Open, k))
             IN  IF Occurrences(s, Close, start) = {} THEN SubSeq(s, k, Len(s))
                 ELSE LET end == Min(Occurrences(s, Close, start))
                      IN  SubSeq(s, k, start - 1)
                            \o Resolve(SubSeq(s, start, end))
                            \o restoreFrom[end + 1]
  IN  restoreFrom[1]

\* Mutant: a length limit one character too tight.
CanGrowShort(tail) ==
  /\ Len(tail) < MaxPlaceholderLen - 1
  /\ ~CompletePlaceholder(tail)
  /\ ViablePrefix(tail)

\* The tail of a buffer is held back when it may still become a placeholder.
CanGrow(tail) ==
  /\ Len(tail) <= MaxPlaceholderLen
  /\ ~CompletePlaceholder(tail)
  /\ ViablePrefix(tail)

HoldPoints(buffer) ==
  {i \in 1..Len(buffer) :
     buffer[i] = Open /\ CanGrow(SubSeq(buffer, i, Len(buffer)))}

\* Mutant: the last "<" is held back whatever follows it.
FindHoldStartAnyBracket(buffer) ==
  IF Occurrences(buffer, Open, 1) = {} THEN Len(buffer) + 1
  ELSE Max(Occurrences(buffer, Open, 1))

\* The position of the last "<" whose tail is held back, one past the end of
\* the buffer when there is none.
FindHoldStart(buffer) ==
  IF HoldPoints(buffer) = {} THEN Len(buffer) + 1 ELSE Max(HoldPoints(buffer))

\* Nothing that ends at position c may still become a placeholder.
Settled(text, c) == \A i \in 1..c : ~CanGrow(SubSeq(text, i, c))

-----------------------------------------------------------------------------
(***************************************************************************)
(* The reference: every occurrence of a known placeholder is replaced and  *)
(* every other character is kept.                                          *)
(***************************************************************************)
KnownAt(s) ==
  {p \in (1..Len(s)) \X (1..Len(s)) : SubSeq(s, p[1], p[2]) \in DOMAIN Lookup}

\* What the client gets for character k of s: the plaintext at the first
\* character of a known placeholder, nothing at its other characters.
Piece(s, k) ==
  IF \E p \in KnownAt(s) : p[1] = k
  THEN LET p == CHOOSE q \in KnownAt(s) : q[1] = k
       IN  Lookup[SubSeq(s, p[1], p[2])]
  ELSE IF \E p \in KnownAt(s) : p[1] < k /\ k <= p[2] THEN <<>>
  ELSE <<s[k]>>

RestoreEach(s) == FlattenSeq([k \in 1..Len(s) |-> Piece(s, k)])

\* No known placeholder of s is preceded by a "<" that is still open, as in
\* "a < b <Name_1>".
NoStrayOpen(s) ==
  \A p \in KnownAt(s) : \A i \in 1..(p[1] - 1) :
    s[i] = Open => \E j \in i..(p[1] - 1) : s[j] = Close
=============================================================================
