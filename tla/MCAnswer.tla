------------------------------ MODULE MCAnswer ------------------------------
(***************************************************************************)
(* Instances of Answer.  The texts are the pieces of one placeholder, the  *)
(* placeholder itself and a blank; an event may carry two strings, of one  *)
(* choice or of two.                                                       *)
(***************************************************************************)
EXTENDS Answer

MCLetter == {"a"}
MCDigit == {"1"}
MCOther == {" ", "J"}

Name == <<"<", "a", "_", "1", ">">>
MCLookup == [t \in {Name} |-> <<"J", ">">>]

MCChannels == {"first", "second"} \cup RestoredKinds

Begin == <<"<", "a">>
End   == <<"_", "1", ">">>

ChatLines == {
  Blank, Field, Done,
  Data("whole", <<Delta("first", Begin)>>),
  Data("whole", <<Delta("first", End)>>),
  Data("whole", <<Delta("first", <<" ", "<">>), Delta("first", <<"a", "_", "1", ">">>)>>),
  Data("whole", <<Delta("first", End), Delta("second", Name)>>),
  Data("whole", <<Delta("second", Begin)>>),
  Data("first", <<Delta("first", Begin)>>),
  Data("second", <<Delta("first", Begin)>>)}

CompletionLines == {
  Blank, Field, Done,
  Data("whole", <<Delta("text", Name)>>), Data("whole", <<Delta("text", Begin)>>)}

ResponseLines ==
  {Event(kind, text) : kind \in RestoredKinds, text \in {Begin, End, <<" ", "<">>, Name}}
    \cup {Plain(kind) : kind \in PlainKinds}

MCLines == [chat |-> ChatLines, completions |-> CompletionLines, responses |-> ResponseLines]

\* Two choices streamed in turns, a placeholder split between them.
TurnLines ==
  [chat |-> {Blank} \cup {Data("whole", <<delta>>) :
               delta \in {Delta("first", Begin), Delta("second", <<" ">>), Delta("first", End)}}]

MCMaxLines == [chat |-> 5, completions |-> 5, responses |-> 3]
=============================================================================
