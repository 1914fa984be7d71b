---------------------------- MODULE RequestBody ----------------------------
(***************************************************************************)
(* The decoded JSON body on its way through ServeHTTP: ExtractUserTexts    *)
(* and SetTextAtPath (anonymize/extract.go), the loop that scrubs the texts*)
(* one by one, and RestoreJSON (restore/json.go) on an answer that gives   *)
(* the upstream's view of the request back.                                *)
(*                                                                         *)
(* A document is a function from positions to nodes.  A position is the    *)
(* sequence of keys that leads to a node; a key is the sequence of names   *)
(* between its dots, so that "x.y" is <<"x", "y">> and "" is <<>>.  A path *)
(* as joinPath writes and splitPath reads it is the sequence of the names. *)
(*                                                                         *)
(* A text is what the client wrote and what has been done to it.  The texts*)
(* hold no placeholders of their own: Anonymize has those.                 *)
(***************************************************************************)
EXTENDS Integers, SequencesExt

CONSTANTS Documents,    \* the bodies that clients send
          Indices,      \* names that begin with a digit
          MessageNames, \* names that end in "messages"
          SecretTexts,  \* texts in which Scan finds a secret
          MaxExactInt   \* integers up to this one are exact float64 values: 2^53

\* scrubbed: what has been done to a text, of "redacted" and "anonymized".
Node(kind, value) == [kind |-> kind, value |-> value, scrubbed |-> {}]

Positions == Seq(Seq(STRING))

\* A document is a tree: only objects and arrays have members, and those of an
\* array are numbered.
ASSUME RequestBodyAssumption ==
  /\ MaxExactInt \in Nat
  /\ Indices \subseteq STRING \ {"messages", "content", "input", "prompt"}
  /\ "messages" \in MessageNames /\ MessageNames \subseteq STRING
  /\ \A doc \in Documents :
       /\ <<>> \in DOMAIN doc /\ DOMAIN doc \subseteq Positions
       /\ \A q \in DOMAIN doc :
            /\ doc[q] = Node(doc[q].kind, doc[q].value)
            /\ doc[q].kind = "number" => doc[q].value \in Nat
            /\ q # <<>> =>
                 /\ Front(q) \in DOMAIN doc
                 /\ \/ doc[Front(q)].kind = "object"
                    \/ doc[Front(q)].kind = "array" /\ \E d \in Indices : Last(q) = <<d>>

\* No body: every body has a root.
Nothing == <<>>

VARIABLES request,  \* the body as the client wrote it
          body,     \* reqBody
          todo,     \* positions of the locations that the loop has still to see
          pc,       \* "extract", "scrub", "sent", or the end: "refused", "answered"
          sent,     \* history: the body that the upstream has got
          answer    \* history: the body that the client has got

vars == <<request, body, todo, pc, sent, answer>>

-----------------------------------------------------------------------------
Is(doc, q, kind) == q \in DOMAIN doc /\ doc[q].kind = kind

\* The position of a sequence of keys without dots.
At(names) == [k \in DOMAIN names |-> <<names[k]>>]

Path(q) == FlattenSeq(q)

Children(doc, q) == {r \in DOMAIN doc : r # <<>> /\ Front(r) = q}

\* isMessagesArray: "messages." and a digit behind it, anywhere in the path, so
\* in "old_messages.0" as well.
IsMessagesArray(path) ==
  \E k \in 1..(Len(path) - 1) : path[k] \in MessageNames /\ path[k + 1] \in Indices

\* extractContent: a string, or the texts of an array of content parts.
ContentTexts(doc, q) ==
  IF Is(doc, q, "string") THEN {q}
  ELSE IF Is(doc, q, "array")
  THEN {Append(part, <<"text">>) : part \in
         {p \in Children(doc, q) :
            /\ Is(doc, Append(p, <<"type">>), "string")
            /\ doc[Append(p, <<"type">>)].value = "text"
            /\ Is(doc, Append(p, <<"text">>), "string")}}
  ELSE {}

\* extractInput: a string, or an array of strings and messages.
InputTexts(doc, q) ==
  IF Is(doc, q, "string") THEN {q}
  ELSE IF Is(doc, q, "array")
  THEN {r \in Children(doc, q) : doc[r].kind = "string"}
         \cup UNION {ContentTexts(doc, Append(r, <<"content">>)) : r \in Children(doc, q)}
  ELSE {}

TextKeys == {<<"content">>, <<"input">>, <<"prompt">>}

\* The objects that extract comes to: it does not go into the text keys.
Visited(doc) ==
  {q \in DOMAIN doc : doc[q].kind = "object" /\ \A k \in DOMAIN q : q[k] \notin TextKeys}

\* Mutant: nested objects are not searched.
TextsOfRoot(doc) ==
  ContentTexts(doc, <<<<"content">>>>) \cup InputTexts(doc, <<<<"input">>>>)

\* ExtractUserTexts: the positions of the locations it returns.
TextsOf(doc) ==
  UNION {(IF Path(q) = <<>> \/ IsMessagesArray(Path(q))
          THEN ContentTexts(doc, Append(q, <<"content">>)) ELSE {})
         \cup InputTexts(doc, Append(q, <<"input">>))
         \cup {r \in {Append(q, <<"prompt">>)} : Is(doc, r, "string")}
         : q \in Visited(doc)}

\* Mutant: what is missing on the way is not noticed.
SettableAnywhere(doc, path) == path # <<>>

\* SetTextAtPath finds the parent of the path's last name; an object takes
\* any key, an array only an index that it has.
Settable(doc, path) ==
  /\ path # <<>>
  /\ \/ Is(doc, At(Front(path)), "object")
     \/ Is(doc, At(Front(path)), "array") /\ At(path) \in DOMAIN doc

\* SetTextAtPath: the text takes the place of whatever stood there.
SetTextAtPath(doc, path, node) ==
  LET target == At(path)
      kept   == {q \in DOMAIN doc : ~IsPrefix(target, q)}
  IN  [q \in kept \cup {target} |-> IF q = target THEN node ELSE doc[q]]

\* json.Unmarshal makes a float64 of every number: between 2^53 and 2^54 an odd
\* one goes to the multiple of four beside it.
Float(n) ==
  IF n <= MaxExactInt \/ n % 2 = 0 THEN n ELSE IF n % 4 = 1 THEN n - 1 ELSE n + 1

Decoded(doc) ==
  [q \in DOMAIN doc |-> IF doc[q].kind = "number" THEN Node("number", Float(doc[q].value))
                        ELSE doc[q]]

\* Redact, then AnonymizeText.  A redacted secret has no way back.
ScrubbedNode(node) ==
  [node EXCEPT !.scrubbed =
     {"anonymized"} \cup (IF node.value \in SecretTexts THEN {"redacted"} ELSE {})]

\* RestoreString puts placeholders back; a redaction token is none.
RestoredNode(node) == [node EXCEPT !.scrubbed = @ \ {"anonymized"}]

\* Mutant: strings inside arrays are left out.
RestoreJSONObjects(doc) ==
  [q \in DOMAIN doc |->
     IF doc[q].kind = "string" /\ doc[Front(q)].kind = "object"
     THEN RestoredNode(doc[q]) ELSE doc[q]]

\* RestoreJSON: every string of the document.
RestoreJSON(doc) ==
  [q \in DOMAIN doc |-> IF doc[q].kind = "string" THEN RestoredNode(doc[q]) ELSE doc[q]]

-----------------------------------------------------------------------------
Init ==
  /\ request \in Documents
  /\ body = Decoded(request)
  /\ todo = {} /\ pc = "extract"
  /\ sent = Nothing /\ answer = Nothing

Extract ==
  /\ pc = "extract"
  /\ todo' = TextsOf(body)
  /\ pc' = "scrub"
  /\ UNCHANGED <<request, body, sent, answer>>

\* One turn of the loop.  extract ranges over Go maps, so the locations come
\* in any order.  Each keeps the text that was found: Redact and AnonymizeText
\* get this text, not what stands in its place by now.
Scrub(q) ==
  /\ pc = "scrub" /\ q \in todo
  /\ Settable(body, Path(q))
  /\ body' = SetTextAtPath(body, Path(q), ScrubbedNode(Decoded(request)[q]))
  /\ todo' = todo \ {q}
  /\ UNCHANGED <<request, pc, sent, answer>>

\* AnonymizeText or SetTextAtPath fails: internal server error.
Refuse ==
  /\ pc = "scrub" /\ todo # {}
  /\ pc' = "refused"
  /\ UNCHANGED <<request, body, todo, sent, answer>>

Forward ==
  /\ pc = "scrub" /\ todo = {}
  /\ sent' = body
  /\ pc' = "sent"
  /\ UNCHANGED <<request, body, todo, answer>>

\* handleNonStreaming on an answer that repeats what the upstream has got.
Answer ==
  /\ pc = "sent"
  /\ answer' = RestoreJSON(sent)
  /\ pc' = "answered"
  /\ UNCHANGED <<request, body, todo, sent>>

Next == Extract \/ (\E q \in todo : Scrub(q)) \/ Refuse \/ Forward \/ Answer

Spec == Init /\ [][Next]_vars

-----------------------------------------------------------------------------
\* Types; the loop never comes to a position that the request did not have.
TypeOK ==
  /\ request \in Documents
  /\ todo \subseteq DOMAIN request
  /\ \A q \in DOMAIN body : q # <<>> => Front(q) \in DOMAIN body
  /\ pc \in {"extract", "scrub", "sent", "refused", "answered"}
  /\ sent # Nothing <=> pc \in {"sent", "answered"}

\* No key on the way to a text that is extracted holds a dot or is empty.
PlainTexts == \A q \in TextsOf(request) : \A k \in DOMAIN q : Len(q[k]) = 1

\* What the README calls user textual input: messages[].content, input and
\* prompt at the top of the request.
UserTexts ==
  LET Items(name) == IF Is(request, At(<<name>>), "array")
                     THEN Children(request, At(<<name>>)) ELSE {}
      Content(m)  == {q \in DOMAIN request :
        \/ q = Append(m, <<"content">>)
        \/ /\ Len(q) = Len(m) + 3 /\ SubSeq(q, 1, Len(m) + 1) = Append(m, <<"content">>)
           /\ Last(q) = <<"text">>
           /\ request[Front(Front(q))].kind = "array"
           /\ Is(request, Append(Front(q), <<"type">>), "string")
           /\ request[Append(Front(q), <<"type">>)].value = "text"}
  IN  {q \in {At(<<"prompt">>), At(<<"input">>)} \cup Items("input")
               \cup UNION {Content(m) : m \in Items("messages") \cup Items("input")} :
         Is(request, q, "string")}

\* Each text in its place, its secrets redacted and the rest anonymized.
Scrubbed(doc, q) == q \in DOMAIN doc /\ doc[q] = ScrubbedNode(request[q])

\* Every user text of a request reaches the upstream scrubbed, in the place
\* where the client wrote it, whatever else the request holds and in whatever
\* order the texts are taken.
UserTextsScrubbed ==
  sent # Nothing /\ PlainTexts => \A q \in UserTexts : Scrubbed(sent, q)

\* extract.go:23, "The returned locations can be used to write anonymized text
\* back": what was extracted is what has been overwritten.
WrittenBack == sent # Nothing => \A q \in TextsOf(request) : Scrubbed(sent, q)

\* Scrubbing and restoring change nothing else: no other string, key, number
\* or part of the structure.  An answer that repeats the request gives the
\* client its own texts back, except for the redacted secrets, and these are
\* missing in extracted texts only.
EchoRestored ==
  answer # Nothing /\ PlainTexts =>
    /\ \A q \in DOMAIN sent : sent[q].scrubbed # {} => q \in TextsOf(request)
    /\ answer = [q \in DOMAIN request |->
                   IF q \in TextsOf(request) /\ request[q].value \in SecretTexts
                   THEN [Decoded(request)[q] EXCEPT !.scrubbed = {"redacted"}]
                   ELSE Decoded(request)[q]]
=============================================================================
