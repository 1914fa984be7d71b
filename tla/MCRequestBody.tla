--------------------------- MODULE MCRequestBody ---------------------------
(***************************************************************************)
(* Instances of RequestBody: requests put together from members of every   *)
(* kind the code tells apart, and some whose keys hold dots or are empty.  *)
(***************************************************************************)
EXTENDS RequestBody, TLC

CONSTANT None   \* the value of objects and arrays

MCIndices == {"0", "1"}
MCMessageNames == {"messages", "old_messages"}

\* One of a message, one of the input, one that lies deeper.
MCSecretTexts == {"t1", "t4", "t7"}

Obj == Node("object", None)
Arr == Node("array", None)
Str(text) == Node("string", text)

\* A member of the root: its key, its node, and what lies below it.
Member(key, node, below) ==
  (<<key>> :> node) @@ [q \in {<<key>> \o r : r \in DOMAIN below} |-> below[Tail(q)]]

\* messages: a string, an array of parts with one that is no text.
Messages ==
  {<<>>,
   Member(<<"messages">>, Arr, At(<<"0">>) :> Obj @@ At(<<"0", "content">>) :> Str("t1")),
   Member(<<"messages">>, Arr,
     At(<<"0">>) :> Obj @@ At(<<"0", "content">>) :> Arr
       @@ At(<<"0", "content", "0">>) :> Obj
       @@ At(<<"0", "content", "0", "type">>) :> Str("text")
       @@ At(<<"0", "content", "0", "text">>) :> Str("t1")
       @@ At(<<"0", "content", "1">>) :> Obj
       @@ At(<<"0", "content", "1", "type">>) :> Str("image")
       @@ At(<<"0", "content", "1", "text">>) :> Str("t2")
       @@ At(<<"1">>) :> Obj @@ At(<<"1", "content">>) :> Str("t2"))}

Inputs ==
  {<<>>,
   Member(<<"input">>, Str("t3"), <<>>),
   Member(<<"input">>, Arr, At(<<"0">>) :> Str("t3") @@ At(<<"1">>) :> Obj
                            @@ At(<<"1", "content">>) :> Str("t4"))}

Prompts ==
  {<<>>, Member(<<"prompt">>, Str("t5"), <<>>),
   Member(<<"prompt">>, Arr, At(<<"0">>) :> Str("t5"))}

\* Nested objects, a message inside one, content that is no message's, a
\* number; a dot in a key, also where it looks like a message; an empty key.
Others ==
  {Member(<<"x">>, Obj, At(<<"y">>) :> Obj @@ At(<<"y", "prompt">>) :> Str("t6")),
   Member(<<"z">>, Obj, At(<<"messages">>) :> Arr @@ At(<<"messages", "0">>) :> Obj
                        @@ At(<<"messages", "0", "content">>) :> Str("t7")),
   Member(<<"tool">>, Obj, At(<<"content">>) :> Str("t8")),
   Member(<<"old_messages">>, Arr, At(<<"0">>) :> Obj @@ At(<<"0", "content">>) :> Str("t8")),
   Member(<<"seed">>, Node("number", 11), <<>>),
   Member(<<"x", "y">>, Obj, At(<<"prompt">>) :> Str("t9")),
   Member(<<"messages", "0">>, Obj, At(<<"content">>) :> Str("t9")),
   Member(<<>>, Obj, At(<<"content">>) :> Str("t9"))}

Document(m, i, p, others) ==
  (<<>> :> Obj) @@ m @@ i @@ p @@ FoldSet(LAMBDA o, doc : o @@ doc, <<>>, others)

MCDocuments ==
  {Document(m, i, p, others) :
     m \in Messages, i \in Inputs, p \in Prompts,
     others \in {s \in SUBSET Others : Cardinality(s) <= 2}}
  \cup {(<<>> :> Arr) @@ At(<<"0">>) :> Obj @@ At(<<"0", "prompt">>) :> Str("t1"),
        <<>> :> Str("t1")}
=============================================================================
