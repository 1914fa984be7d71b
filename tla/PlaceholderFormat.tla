------------------------- MODULE PlaceholderFormat -------------------------
(***************************************************************************)
(* The textual format of a placeholder, <Label_Index>, and the two regular *)
(* expressions that recognise it (anonymize/placeholder.go).  Characters   *)
(* are abstracted to the classes the expressions tell apart: the brackets, *)
(* the underscore, letters, digits and everything else.  The bounds 32 and *)
(* 6 of the code are the constants MaxLabelLen and MaxIndexLen.            *)
(***************************************************************************)
EXTENDS Integers, Sequences

CONSTANTS Letter,       \* [A-Za-z]
          Digit,        \* \d
          Other,        \* any character outside the format's alphabet
          MaxLabelLen,  \* 32 in the code
          MaxIndexLen   \* 6 in the code

\* The three characters of the format itself.
Open == "<"
Close == ">"
Underscore == "_"

ASSUME FormatAssumption ==
  /\ MaxLabelLen \in Nat \ {0}
  /\ MaxIndexLen \in Nat \ {0}
  /\ {Open, Close, Underscore} \cap (Letter \cup Digit \cup Other) = {}
  /\ Letter \cap Digit = {}
  /\ Other \cap (Letter \cup Digit) = {}

Word == Letter \cup Digit \cup {Underscore}
Char == Word \cup Other \cup {Open, Close}
Text == Seq(Char)

MaxPlaceholderLen == MaxLabelLen + MaxIndexLen + 3

\* ^<[A-Za-z0-9_]{1,32}_\d{1,6}>$
CompletePlaceholder(s) ==
  \E m \in 1..MaxLabelLen, n \in 1..MaxIndexLen :
    /\ Len(s) = m + n + 3
    /\ s[1] = Open
    /\ \A k \in 2..(m + 1) : s[k] \in Word
    /\ s[m + 2] = Underscore
    /\ \A k \in (m + 3)..(m + n + 2) : s[k] \in Digit
    /\ s[m + n + 3] = Close

\* Mutant: the expression without its optional index group.
ViablePrefixNoIndex(s) ==
  \E m \in 0..MaxLabelLen, c \in 0..1 :
    /\ Len(s) = 1 + m + c
    /\ s[1] = Open
    /\ \A k \in 2..(m + 1) : s[k] \in Word
    /\ c = 1 => s[m + 2] = Close

\* ^<[A-Za-z0-9_]{0,32}(?:_\d{0,6})?>?$  : m label characters, then n
\* characters of the optional index group (its underscore included), then
\* c closing brackets.
ViablePrefix(s) ==
  \E m \in 0..MaxLabelLen, n \in 0..(MaxIndexLen + 1), c \in 0..1 :
    /\ Len(s) = 1 + m + n + c
    /\ s[1] = Open
    /\ \A k \in 2..(m + 1) : s[k] \in Word
    /\ n > 0 => s[m + 2] = Underscore
    /\ \A k \in (m + 3)..(m + n + 1) : s[k] \in Digit
    /\ c = 1 => s[1 + m + n + 1] = Close
=============================================================================
