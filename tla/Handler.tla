------------------------------ MODULE Handler ------------------------------
(***************************************************************************)
(* ProxyHandler.ServeHTTP (proxy/proxy_handler.go) on one request: read and*)
(* decode the body, scrub each text, call the upstream, deliver its answer.*)
(* The client may go away, Presidio and the upstream may fail or stay      *)
(* silent at any step.  Requests share no state, so one is enough; the     *)
(* requests a server runs at once are in module Server.                    *)
(***************************************************************************)
EXTENDS Routing

CONSTANTS ScannerEnabled,  \* SECRET_SCAN_ENABLED: h.scanner is not nil
          Requests,        \* what clients send
          MaxTexts,        \* bound: user texts in one request
          MaxChunks,       \* bound: pieces in which a body is delivered
          None

(***************************************************************************)
(* What a client may send: method and path; what reading its body brings;  *)
(* "stream": true or not; the number of texts.                             *)
(***************************************************************************)
AnyRequest == [method : {"GET", "POST"},
               path   : Seq(STRING),
               body   : {"json", "junk", "large", "cut"},
               stream : BOOLEAN,
               texts  : 0..MaxTexts]

\* What a text still holds in the clear: what Redact (module Redact) would take
\* out, and what Presidio would find.
TextStates == [secret : BOOLEAN, pii : BOOLEAN]
Plain == [secret |-> TRUE, pii |-> TRUE]

\* The answers of the upstream: content type, and which of three kinds of
\* headers they have: end to end, hop by hop, Content-Length.
ContentTypes == {"json", "eventStream"}
Headers == {"endToEnd", "hopByHop", "length"}
Answers == [type : ContentTypes, headers : SUBSET Headers, open : BOOLEAN]

ASSUME HandlerAssumption ==
  /\ ScannerEnabled \in BOOLEAN
  /\ MaxTexts \in Nat /\ MaxChunks \in Nat
  /\ Requests \subseteq AnyRequest
  /\ None \notin Answers

VARIABLES request,
          pc,
          k,         \* the text that is being scrubbed
          current,   \* its state between the two stages
          body,      \* reqBody: the state of each text in it
          sent,      \* history: the texts in the body the upstream has got
          target,    \* history: the path it has got them on
          answer,    \* the upstream's answer, and whether its body is open
          header,    \* history: the statuses written to the client
          fields,    \* the headers behind the status, each with whose it is
          written,   \* pieces of the body written to the client
          client     \* "waiting" or "gone"

vars == <<request, pc, k, current, body, sent, target, answer,
          header, fields, written, client>>

IsLLM == request.method = "POST" /\ request.path \in LLMEndpoints

Init ==
  /\ request \in Requests
  /\ pc = "start" /\ k = 1 /\ current = Plain
  /\ body = [t \in 1..request.texts |-> Plain]
  /\ sent = None /\ target = None /\ answer = None
  /\ header = <<>> /\ fields = <<>> /\ written = 0
  /\ client = "waiting"

\* http.Error, or WriteHeader and return.
Reply(status) == header' = Append(header, status) /\ pc' = "return"

Health ==
  /\ pc = "start" /\ request.path = healthPath
  /\ Reply("ok")
  /\ UNCHANGED <<request, k, current, body, sent, target, answer, fields, written, client>>

\* io.ReadAll(limitedBody): a body beyond the limit, a connection that breaks.
\* A request that is not scrubbed goes to the upstream as it came.
ReadBody ==
  /\ pc = "start" /\ request.path # healthPath
  /\ \/ request.body = "large" /\ Reply("tooLarge")
     \/ (request.body = "cut" \/ client = "gone") /\ Reply("badRequest")
     \/ /\ request.body \in {"json", "junk"}
        /\ pc' = IF IsLLM THEN "decode" ELSE "forward"
        /\ UNCHANGED header
  /\ UNCHANGED <<request, k, current, body, sent, target, answer, fields, written, client>>

Decode ==
  /\ pc = "decode"
  /\ IF request.body = "junk" THEN Reply("badRequest")
     ELSE pc' = "scrub" /\ UNCHANGED header
  /\ UNCHANGED <<request, k, current, body, sent, target, answer, fields, written, client>>

\* Stage 1 of the loop over the texts: redaction, then the call of Presidio.
RedactSecrets ==
  /\ pc = "scrub" /\ k <= request.texts
  /\ current' = [body[k] EXCEPT !.secret = @ /\ ~ScannerEnabled]
  /\ pc' = "analyze"
  /\ UNCHANGED <<request, k, body, sent, target, answer, header, fields, written, client>>

\* Stage 2: the answer of Presidio, and the text written back.
Anonymize ==
  /\ pc = "analyze"
  /\ body' = [body EXCEPT ![k] = [current EXCEPT !.pii = FALSE]]
  /\ k' = k + 1
  /\ pc' = "scrub"
  /\ UNCHANGED <<request, current, sent, target, answer, header, fields, written, client>>

\* Mutant: a text that cannot be analyzed is left as it is.
AnonymizeFailsOpen ==
  /\ pc = "analyze"
  /\ k' = k + 1
  /\ pc' = "scrub"
  /\ UNCHANGED <<request, current, body, sent, target, answer, header, fields, written, client>>

\* Presidio fails, does not answer in 30 seconds, the client has gone, or
\* SetTextAtPath cannot follow the path.
AnonymizeFails ==
  /\ pc = "analyze"
  /\ Reply("internalError")
  /\ UNCHANGED <<request, k, current, body, sent, target, answer, fields, written, client>>

\* Mutant: the loop ends one text early.
EncodeEarly ==
  /\ pc = "scrub" /\ k >= request.texts
  /\ pc' = "forward"
  /\ UNCHANGED <<request, k, current, body, sent, target, answer, header, fields, written, client>>

Encode ==
  /\ pc = "scrub" /\ k > request.texts
  /\ pc' = "forward"
  /\ UNCHANGED <<request, k, current, body, sent, target, answer, header, fields, written, client>>

Forward ==
  /\ pc = "forward"
  /\ sent' = body /\ target' = UpstreamPath(request.path)
  /\ pc' = "upstream"
  /\ UNCHANGED <<request, k, current, body, answer, header, fields, written, client>>

\* The upstream call has no timeout of its own.
UpstreamAnswers(type, headers) ==
  /\ pc = "upstream"
  /\ answer' = [type |-> type, headers |-> headers, open |-> TRUE]
  /\ pc' = "answer"
  /\ UNCHANGED <<request, k, current, body, sent, target, header, fields, written, client>>

UpstreamFails ==
  /\ pc = "upstream"
  /\ Reply("badGateway")
  /\ UNCHANGED <<request, k, current, body, sent, target, answer, fields, written, client>>

\* Mutant: the upstream call does not use the request's context.
CancelledNot ==
  /\ client = "gone" /\ pc = "copy"
  /\ pc' = "return"
  /\ UNCHANGED <<request, k, current, body, sent, target, answer, header, fields, written, client>>

\* The request's context ends the call, and the reading of the answer's body,
\* once the client has gone.
Cancelled ==
  /\ client = "gone"
  /\ \/ pc \in {"upstream", "readAnswer"} /\ Reply("badGateway")
     \/ pc = "copy" /\ pc' = "return" /\ UNCHANGED header
  /\ UNCHANGED <<request, k, current, body, sent, target, answer, fields, written, client>>

Streaming == answer.type = "eventStream" \/ request.stream

\* Mutant: Content-Length is copied like any other header.
CopyResponseHeadersAll == [h \in answer.headers \ {"hopByHop"} |-> "upstream"]

CopyResponseHeaders == [h \in answer.headers \cap {"endToEnd"} |-> "upstream"]

\* Mutant: the header is written before the body of a non-streaming answer
\* has been read.
BeginEarlyHeader ==
  /\ pc = "answer"
  /\ header' = Append(header, "upstream")
  /\ fields' = CopyResponseHeaders
  /\ pc' = IF IsLLM /\ ~Streaming THEN "readAnswer" ELSE "copy"
  /\ UNCHANGED <<request, k, current, body, sent, target, answer, written, client>>

\* A streamed answer and one that is passed through begin with the header, a
\* JSON answer is read to its end first.
Begin ==
  /\ pc = "answer"
  /\ IF IsLLM /\ ~Streaming
     THEN pc' = "readAnswer" /\ UNCHANGED <<header, fields>>
     ELSE pc' = "copy" /\ header' = Append(header, "upstream") /\ fields' = CopyResponseHeaders
  /\ UNCHANGED <<request, k, current, body, sent, target, answer, written, client>>

\* handleNonStreaming: one write of the restored body.
ReadAnswer ==
  /\ pc = "readAnswer"
  /\ fields' = [h \in DOMAIN CopyResponseHeaders \cup {"length"} |->
                  IF h = "length" THEN "restored" ELSE "upstream"]
  /\ written' = written + 1
  /\ Reply("upstream")
  /\ UNCHANGED <<request, k, current, body, sent, target, answer, client>>

\* The body of the answer breaks off: an error while the client has got
\* nothing yet, the end of the copy afterwards.
AnswerBreaks ==
  /\ \/ pc = "readAnswer" /\ Reply("badGateway")
     \/ pc = "copy" /\ pc' = "return" /\ UNCHANGED header
  /\ UNCHANGED <<request, k, current, body, sent, target, answer, fields, written, client>>

CopyChunk ==
  /\ pc = "copy" /\ written < MaxChunks
  /\ \/ written' = written + 1 /\ UNCHANGED pc
     \/ client = "gone" /\ pc' = "return" /\ UNCHANGED written
  /\ UNCHANGED <<request, k, current, body, sent, target, answer, header, fields, client>>

CopyEnds ==
  /\ pc = "copy"
  /\ pc' = "return"
  /\ UNCHANGED <<request, k, current, body, sent, target, answer, header, fields, written, client>>

\* Mutant: the answer's body is not closed.
ReturnLeavesOpen ==
  /\ pc = "return"
  /\ pc' = "done"
  /\ UNCHANGED <<request, k, current, body, sent, target, answer, header, fields, written, client>>

\* The deferred resp.Body.Close().
Return ==
  /\ pc = "return"
  /\ pc' = "done"
  /\ answer' = IF answer = None THEN None ELSE [answer EXCEPT !.open = FALSE]
  /\ UNCHANGED <<request, k, current, body, sent, target, header, fields, written, client>>

ClientLeaves ==
  /\ client = "waiting" /\ pc # "done"
  /\ client' = "gone"
  /\ UNCHANGED <<request, pc, k, current, body, sent, target, answer, header, fields, written>>

\* What the handler does on its own, and what it needs Presidio for.
Own == Health \/ ReadBody \/ Decode \/ RedactSecrets \/ Encode \/ Forward \/ Begin \/ Return
Analysis == Anonymize \/ AnonymizeFails

Next ==
  \/ Own \/ Analysis \/ Cancelled \/ ClientLeaves
  \/ \E type \in ContentTypes, headers \in SUBSET Headers : UpstreamAnswers(type, headers)
  \/ UpstreamFails \/ ReadAnswer \/ AnswerBreaks \/ CopyChunk \/ CopyEnds

Spec == Init /\ [][Next]_vars

\* The handler's goroutine runs on; Presidio's answer is limited to 30
\* seconds; a cancelled call returns.  The upstream owes nothing.
FairSpec == Spec /\ WF_vars(Own) /\ WF_vars(Analysis) /\ WF_vars(Cancelled)

-----------------------------------------------------------------------------
\* Types; no text is scrubbed before its turn.
TypeOK ==
  /\ pc \in {"start", "decode", "scrub", "analyze", "forward", "upstream", "answer",
             "readAnswer", "copy", "return", "done"}
  /\ k \in 1..(request.texts + 1)
  /\ current \in TextStates /\ body \in [1..request.texts -> TextStates]
  /\ pc = "analyze" => k <= request.texts
  /\ \A t \in 1..request.texts : body[t].pii <=> t >= k
  /\ written \in 0..(MaxChunks + 1)

\* Nothing is sent to the upstream from an LLM endpoint before every text of
\* the request has been scrubbed, whatever failed in between.
FailClosed ==
  IsLLM /\ sent # None =>
    \A t \in DOMAIN sent : ~sent[t].pii /\ (ScannerEnabled => ~sent[t].secret)

\* The client gets exactly one status, and its body only behind it.
OneAnswer ==
  /\ Len(header) <= 1
  /\ written > 0 => header = <<"upstream">>
  /\ pc = "done" => Len(header) = 1

\* A status other than the upstream's own means that the client got no part
\* of an answer, and one of the upstream's that it had answered; every answer
\* is closed in the end.
AnswerAccounted ==
  /\ header # <<>> /\ header[1] # "upstream" => written = 0
  /\ header = <<"upstream">> => answer # None
  /\ pc = "done" /\ answer # None => ~answer.open

\* The segments of every path are forwarded as the client meant them: without
\* one leading "v1", and with the names that no ".." takes back, so that they
\* stay below the upstream's base URL.
TargetMeant == target # None => target = Remaining(StripV1(request.path))

\* The client is told a length only of the body it gets, not of the one the
\* upstream sent, and all else the upstream says from end to end.
HeadersFit ==
  header = <<"upstream">> =>
    /\ DOMAIN fields \ {"length"} = answer.headers \cap {"endToEnd"}
    /\ "length" \in DOMAIN fields => fields["length"] = "restored"
    /\ written > 0 /\ pc \in {"return", "done"} /\ IsLLM /\ ~Streaming => "length" \in DOMAIN fields

\* A handler whose client has gone comes to its end, whatever Presidio and
\* the upstream do.
GoneEnds == client = "gone" ~> pc = "done"
=============================================================================
