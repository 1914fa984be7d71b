----------------------------- MODULE MCHoldBack -----------------------------
(***************************************************************************)
(* Instances of HoldBack, over one character of each class.  PieceChunks   *)
(* are the pieces into which two placeholders can be cut, one of them the  *)
(* end of one and the beginning of the other.                              *)
(***************************************************************************)
EXTENDS HoldBack

MCLetter == {"a"}
MCDigit == {"1"}
MCOther == {" "}

PieceChunks ==
  {<<"<">>, <<"a", "_">>, <<"1", ">">>, <<"<", "1", "1", "_", "1">>, <<">">>,
   <<" ">>, <<"1", ">", "<", "a", "_">>}

\* A whole placeholder behind an open bracket, in one chunk.
StrayChunks ==
  {<<"<", " ", "<", "a", "_", "1", ">">>, <<" ">>, <<"<", "a">>,
   <<"_", "1", ">">>}

Name == <<"<", "a", "_", "1", ">">>
Phone == <<"<", "1", "1", "_", "1", ">">>

\* One plaintext itself holds a bracket: restored text is never scanned again.
MCLookup == [t \in {Name, Phone} |->
               IF t = Name THEN <<"<", "a", ">">> ELSE <<"1">>]
=============================================================================
