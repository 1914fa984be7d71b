---------------------------- MODULE MCAnonymize ----------------------------
(***************************************************************************)
(* Instances of Anonymize: short texts, detections at every place and      *)
(* beyond both ends of them.                                               *)
(***************************************************************************)
EXTENDS Anonymize

MCLetter == {"a", "b"}
MCDigit == {"1", "2", "3"}
MCOther == {" "}

MCEntityTypes == {"PERSON"}
MCLabelOf == [e \in MCEntityTypes |-> <<"a">>]
MCItoa == [n \in 1..3 |-> <<IF n = 1 THEN "1" ELSE IF n = 2 THEN "2" ELSE "3">>]

\* Equal values, a value that is part of another, brackets of the user's own.
MCTexts == {<<>>, <<"a", "b", "a">>, <<"<", "a", "b">>}

\* Every place in a text of three bytes; 4 lies beyond its end, which it stands
\* for once it is clamped.
MCOffsets == {-1, 0, 1, 2, 4}

\* One longer text without anything beyond its ends.
LongTexts == {<<"a", "b", "a", "b">>}
InnerOffsets == 0..4
=============================================================================
