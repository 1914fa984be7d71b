--------------------------- MODULE Proxy_proofs ---------------------------
(***************************************************************************)
(* Proofs about one request: whatever fails, nothing unscrubbed is sent and*)
(* exactly one status is written; every path is forwarded as it was meant; *)
(* and about the process around it, from start to exit.                    *)
(***************************************************************************)
EXTENDS Handler, Server, SequenceTheorems, FiniteSetTheorems, TLAPS

(***************************************************************************)
(* The inductive invariant: types, what has been scrubbed at each step of  *)
(* the loop, and what the client has got at each step of the handler.      *)
(***************************************************************************)
Early == {"start", "decode", "scrub", "analyze", "forward", "upstream"}
Answered == {"answer", "readAnswer", "copy"}
Ending == {"return", "done"}
Statuses == {"ok", "tooLarge", "badRequest", "internalError", "badGateway", "upstream"}

Types ==
  /\ request \in AnyRequest
  /\ pc \in Early \cup Answered \cup Ending
  /\ k \in 1..(request.texts + 1)
  /\ current \in TextStates /\ body \in [1..request.texts -> TextStates]
  /\ written \in 0..(MaxChunks + 1)

\* Of a text that has been scrubbed, or is being scrubbed.
Redacted(text) == ScannerEnabled => text.secret = FALSE

ScrubInv ==
  /\ \A t \in 1..request.texts : body[t].pii = (t >= k)
  /\ \A t \in 1..request.texts : t < k => Redacted(body[t])
  /\ pc = "analyze" => k <= request.texts /\ Redacted(current)
  /\ pc = "forward" /\ IsLLM => k = request.texts + 1

AnswerInv ==
  /\ pc \in Early => header = <<>> /\ written = 0 /\ answer = None
  /\ pc \in Answered => answer \in Answers /\ answer.open = TRUE
  /\ pc \in {"answer", "readAnswer"} => header = <<>> /\ written = 0
  /\ pc = "copy" => header = <<"upstream">> /\ written <= MaxChunks
  /\ pc \in Ending => /\ \E status \in Statuses : header = <<status>>
                      /\ answer \in Answers \cup {None}
                      /\ header = <<"upstream">> => answer # None
                      /\ written > 0 => header = <<"upstream">>
  /\ pc = "done" /\ answer # None => answer.open = FALSE

\* What is copied piece by piece was streamed, or is passed through.
CopyInv == pc = "copy" => ~IsLLM \/ Streaming

IInv == Types /\ ScrubInv /\ AnswerInv /\ FailClosed /\ CopyInv /\ HeadersFit

(***************************************************************************)
(* What the two stages make of a text.                                     *)
(***************************************************************************)
LEMMA RedactText ==
  ASSUME NEW text \in TextStates
  PROVE  LET new == [text EXCEPT !.secret = @ /\ ~ScannerEnabled]
         IN  new \in TextStates /\ Redacted(new) /\ new.pii = text.pii
<1>1. CASE ScannerEnabled = TRUE
  <2>1. [text EXCEPT !.secret = @ /\ ~ScannerEnabled] = [text EXCEPT !.secret = FALSE]
    BY <1>1
  <2>. QED
    BY <2>1 DEF TextStates, Redacted
<1>2. CASE ScannerEnabled = FALSE
  <2>1. [text EXCEPT !.secret = @ /\ ~ScannerEnabled] = [text EXCEPT !.secret = @]
    BY <1>2, text.secret \in BOOLEAN DEF TextStates
  <2>. QED
    BY <1>2, <2>1 DEF TextStates, Redacted
<1>. QED
  BY <1>1, <1>2, HandlerAssumption

LEMMA AnonymizeText ==
  ASSUME NEW text \in TextStates
  PROVE  LET new == [text EXCEPT !.pii = FALSE]
         IN  new \in TextStates /\ new.pii = FALSE /\ new.secret = text.secret
BY DEF TextStates

(***************************************************************************)
(* The types are kept.                                                     *)
(***************************************************************************)
LEMMA TypesInit == Init => Types
BY HandlerAssumption DEF Init, Types, AnyRequest, TextStates, Plain, Early

LEMMA TypesStep == Types /\ ScrubInv /\ AnswerInv /\ [Next]_vars => Types'
<1>. SUFFICES ASSUME Types, ScrubInv, AnswerInv, [Next]_vars PROVE Types'
  OBVIOUS
<1>. USE HandlerAssumption DEF Types, Early, Answered, Ending, AnyRequest
<1>1. CASE Health
  BY <1>1 DEF Health, Reply
<1>2. CASE ReadBody
  BY <1>2 DEF ReadBody, Reply
<1>3. CASE Decode
  BY <1>3 DEF Decode, Reply
<1>4. CASE RedactSecrets
  <2>1. k \in 1..request.texts /\ body[k] \in TextStates
    BY <1>4 DEF RedactSecrets
  <2>2. current' \in TextStates
    BY <1>4, <2>1, RedactText DEF RedactSecrets
  <2>. QED
    BY <1>4, <2>2 DEF RedactSecrets
<1>5. CASE Anonymize
  <2>1. k \in 1..request.texts
    BY <1>5 DEF Anonymize, ScrubInv
  <2>2. body' \in [1..request.texts -> TextStates]
    BY <1>5, <2>1, AnonymizeText DEF Anonymize
  <2>. QED
    BY <1>5, <2>1, <2>2 DEF Anonymize
<1>6. CASE AnonymizeFails
  BY <1>6 DEF AnonymizeFails, Reply
<1>7. CASE Encode
  BY <1>7 DEF Encode
<1>8. CASE Forward
  BY <1>8 DEF Forward
<1>9. ASSUME NEW type \in ContentTypes, NEW headers \in SUBSET Headers, UpstreamAnswers(type, headers) PROVE Types'
  BY <1>9 DEF UpstreamAnswers
<1>10. CASE UpstreamFails
  BY <1>10 DEF UpstreamFails, Reply
<1>11. CASE Begin
  BY <1>11 DEF Begin
<1>12. CASE ReadAnswer
  BY <1>12 DEF ReadAnswer, Reply, AnswerInv
<1>13. CASE AnswerBreaks
  BY <1>13 DEF AnswerBreaks, Reply
<1>14. CASE CopyChunk
  BY <1>14 DEF CopyChunk
<1>15. CASE CopyEnds
  BY <1>15 DEF CopyEnds
<1>16. CASE Cancelled
  BY <1>16 DEF Cancelled, Reply
<1>17. CASE Return
  BY <1>17 DEF Return
<1>18. CASE ClientLeaves
  BY <1>18 DEF ClientLeaves
<1>19. CASE UNCHANGED vars
  BY <1>19 DEF vars
<1>. QED
  BY <1>1, <1>2, <1>3, <1>4, <1>5, <1>6, <1>7, <1>8, <1>9, <1>10, <1>11, <1>12, <1>13, <1>14, <1>15, <1>16, <1>17, <1>18, <1>19 DEF Next, Own, Analysis

(***************************************************************************)
(* The loop scrubs the texts in order and leaves none out.                 *)
(***************************************************************************)
LEMMA ScrubStep == Types /\ ScrubInv /\ [Next]_vars => ScrubInv'
<1>. SUFFICES ASSUME Types, ScrubInv, [Next]_vars PROVE ScrubInv'
  OBVIOUS
<1>. USE HandlerAssumption DEF Types, Early, Answered, Ending, AnyRequest, ScrubInv, Redacted, IsLLM
<1>1. CASE Health
  BY <1>1 DEF Health, Reply
<1>2. CASE ReadBody
  BY <1>2 DEF ReadBody, Reply
<1>3. CASE Decode
  BY <1>3 DEF Decode, Reply
<1>4. CASE RedactSecrets
  <2>1. k \in 1..request.texts /\ body[k] \in TextStates
    BY <1>4 DEF RedactSecrets
  <2>2. Redacted(current')
    BY <1>4, <2>1, RedactText DEF RedactSecrets
  <2>. QED
    BY <1>4, <2>1, <2>2 DEF RedactSecrets
<1>5. CASE Anonymize
  <2>1. k \in 1..request.texts /\ Redacted(current)
    BY <1>5 DEF Anonymize
  <2>2. /\ body'[k].pii = FALSE
        /\ body'[k].secret = current.secret
        /\ \A t \in 1..request.texts : t # k => body'[t] = body[t]
    BY <1>5, <2>1, AnonymizeText DEF Anonymize
  <2>3. /\ k' = k + 1 /\ pc' = "scrub"
        /\ UNCHANGED <<request, current>>
    BY <1>5 DEF Anonymize
  <2>4. ASSUME NEW t \in 1..request.texts
        PROVE  body'[t].pii = (t >= k')
    <3>1. CASE t = k
      <4>1. (t >= k') = FALSE
        BY <2>1, <2>3, <3>1
      <4>. QED
        BY <2>2, <3>1, <4>1
    <3>2. CASE t # k
      <4>1. (t >= k) = (t >= k + 1)
        BY <3>2, <2>1
      <4>. QED
        BY <2>2, <2>3, <3>2, <4>1
    <3>. QED
      BY <3>1, <3>2
  <2>5. ASSUME NEW t \in 1..request.texts, t < k'
        PROVE  Redacted(body'[t])
    <3>1. t = k \/ t < k
      BY <2>1, <2>3, <2>5
    <3>. QED
      BY <2>1, <2>2, <3>1
  <2>. QED
    BY <2>3, <2>4, <2>5
<1>6. CASE AnonymizeFails
  BY <1>6 DEF AnonymizeFails, Reply
<1>7. CASE Encode
  BY <1>7 DEF Encode
<1>8. CASE Forward
  BY <1>8 DEF Forward
<1>9. ASSUME NEW type \in ContentTypes, NEW headers \in SUBSET Headers, UpstreamAnswers(type, headers) PROVE ScrubInv'
  BY <1>9 DEF UpstreamAnswers
<1>10. CASE UpstreamFails
  BY <1>10 DEF UpstreamFails, Reply
<1>11. CASE Begin
  BY <1>11 DEF Begin
<1>12. CASE ReadAnswer
  BY <1>12 DEF ReadAnswer, Reply, AnswerInv
<1>13. CASE AnswerBreaks
  BY <1>13 DEF AnswerBreaks, Reply
<1>14. CASE CopyChunk
  BY <1>14 DEF CopyChunk
<1>15. CASE CopyEnds
  BY <1>15 DEF CopyEnds
<1>16. CASE Cancelled
  BY <1>16 DEF Cancelled, Reply
<1>17. CASE Return
  BY <1>17 DEF Return
<1>18. CASE ClientLeaves
  BY <1>18 DEF ClientLeaves
<1>19. CASE UNCHANGED vars
  BY <1>19 DEF vars
<1>. QED
  BY <1>1, <1>2, <1>3, <1>4, <1>5, <1>6, <1>7, <1>8, <1>9, <1>10, <1>11, <1>12, <1>13, <1>14, <1>15, <1>16, <1>17, <1>18, <1>19 DEF Next, Own, Analysis

(***************************************************************************)
(* What the client has got, and what becomes of the upstream's answer.     *)
(***************************************************************************)
LEMMA AnswerStep == Types /\ AnswerInv /\ [Next]_vars => AnswerInv'
<1>. SUFFICES ASSUME Types, AnswerInv, [Next]_vars PROVE AnswerInv'
  OBVIOUS
<1>. USE HandlerAssumption DEF Types, Early, Answered, Ending, AnswerInv, Statuses, Answers
<1>1. CASE Health
  BY <1>1 DEF Health, Reply
<1>2. CASE ReadBody
  BY <1>2 DEF ReadBody, Reply
<1>3. CASE Decode
  BY <1>3 DEF Decode, Reply
<1>4. CASE RedactSecrets
  BY <1>4 DEF RedactSecrets
<1>5. CASE Anonymize
  BY <1>5 DEF Anonymize
<1>6. CASE AnonymizeFails
  BY <1>6 DEF AnonymizeFails, Reply
<1>7. CASE Encode
  BY <1>7 DEF Encode
<1>8. CASE Forward
  BY <1>8 DEF Forward
<1>9. ASSUME NEW type \in ContentTypes, NEW headers \in SUBSET Headers, UpstreamAnswers(type, headers) PROVE AnswerInv'
  BY <1>9 DEF UpstreamAnswers
<1>10. CASE UpstreamFails
  BY <1>10 DEF UpstreamFails, Reply
<1>11. CASE Begin
  BY <1>11 DEF Begin
<1>12. CASE ReadAnswer
  BY <1>12 DEF ReadAnswer, Reply, AnswerInv
<1>13. CASE AnswerBreaks
  <2>1. answer \in Answers /\ answer # None
    BY <1>13 DEF AnswerBreaks
  <2>2. CASE pc = "readAnswer"
    <3>1. header' = <<"badGateway">>
      BY <1>13, <2>2 DEF AnswerBreaks, Reply
    <3>. QED
      BY <1>13, <2>1, <2>2, <3>1 DEF AnswerBreaks, Reply
  <2>3. CASE pc = "copy"
    BY <1>13, <2>1, <2>3 DEF AnswerBreaks
  <2>. QED
    BY <1>13, <2>2, <2>3 DEF AnswerBreaks
<1>14. CASE CopyChunk
  BY <1>14 DEF CopyChunk
<1>15. CASE CopyEnds
  BY <1>15 DEF CopyEnds
<1>16. CASE Cancelled
  <2>1. CASE pc = "upstream"
    BY <1>16, <2>1 DEF Cancelled, Reply
  <2>2. CASE pc = "readAnswer"
    BY <1>16, <2>2 DEF Cancelled, Reply
  <2>3. CASE pc = "copy"
    BY <1>16, <2>3 DEF Cancelled, Reply
  <2>. QED
    BY <1>16, <2>1, <2>2, <2>3 DEF Cancelled
<1>17. CASE Return
  BY <1>17 DEF Return
<1>18. CASE ClientLeaves
  BY <1>18 DEF ClientLeaves
<1>19. CASE UNCHANGED vars
  BY <1>19 DEF vars
<1>. QED
  BY <1>1, <1>2, <1>3, <1>4, <1>5, <1>6, <1>7, <1>8, <1>9, <1>10, <1>11, <1>12, <1>13, <1>14, <1>15, <1>16, <1>17, <1>18, <1>19 DEF Next, Own, Analysis

(***************************************************************************)
(* What is sent is what the loop has scrubbed.                             *)
(***************************************************************************)
LEMMA SentStep == Types /\ ScrubInv /\ FailClosed /\ [Next]_vars => FailClosed'
<1>. SUFFICES ASSUME Types, ScrubInv, FailClosed, [Next]_vars PROVE FailClosed'
  OBVIOUS
<1>. USE DEF Types, ScrubInv, FailClosed, IsLLM, Redacted, AnyRequest
<1>1. CASE Forward
  <2>1. UNCHANGED request /\ sent' = body
    BY <1>1 DEF Forward
  <2>2. SUFFICES ASSUME IsLLM, NEW t \in 1..request.texts
                 PROVE  ~body[t].pii /\ (ScannerEnabled => ~body[t].secret)
    BY <2>1
  <2>3. k = request.texts + 1
    BY <1>1, <2>2 DEF Forward
  <2>4. t < k /\ ~(t >= k)
    BY <2>3
  <2>. QED
    BY <2>4
<1>2. CASE UNCHANGED <<request, sent>>
  BY <1>2
<1>3. Forward \/ UNCHANGED <<request, sent>>
  BY DEF Next, Own, Analysis, Health, ReadBody, Decode, RedactSecrets, Encode, Begin, Return,
         Anonymize, AnonymizeFails, Cancelled, ClientLeaves, UpstreamAnswers, UpstreamFails,
         ReadAnswer, AnswerBreaks, CopyChunk, CopyEnds, vars
<1>. QED
  BY <1>1, <1>2, <1>3

(***************************************************************************)
(* The headers that go with the answer.                                    *)
(***************************************************************************)
LEMMA HeadersStep ==
  Types /\ AnswerInv /\ CopyInv /\ HeadersFit /\ [Next]_vars => CopyInv' /\ HeadersFit'
<1>. SUFFICES ASSUME Types, AnswerInv, CopyInv, HeadersFit, [Next]_vars
              PROVE  CopyInv' /\ HeadersFit'
  OBVIOUS
<1>. USE DEF CopyInv, HeadersFit, IsLLM
<1>1. CASE Begin
  <2>1. CASE IsLLM /\ ~Streaming
    <3>1. header' = <<>> /\ pc' = "readAnswer"
      BY <1>1, <2>1 DEF Begin, AnswerInv
    <3>. QED
      BY <3>1
  <2>2. CASE ~(IsLLM /\ ~Streaming)
    <3>1. pc' = "copy" /\ fields' = CopyResponseHeaders /\ UNCHANGED <<request, answer>>
      BY <1>1, <2>2 DEF Begin
    <3>2. DOMAIN CopyResponseHeaders = answer.headers \cap {"endToEnd"}
      BY DEF CopyResponseHeaders
    <3>. QED
      BY <2>2, <3>1, <3>2 DEF Streaming
  <2>. QED
    BY <2>1, <2>2
<1>2. CASE ReadAnswer
  <2>1. DOMAIN fields' = (answer.headers \cap {"endToEnd"}) \cup {"length"} /\ fields'["length"] = "restored"
    BY <1>2 DEF ReadAnswer, CopyResponseHeaders
  <2>2. pc' = "return" /\ UNCHANGED answer
    BY <1>2 DEF ReadAnswer, Reply
  <2>. QED
    BY <2>1, <2>2
<1>3. ASSUME header' # <<"upstream">>, pc' # "copy"
      PROVE  CopyInv' /\ HeadersFit'
  BY <1>3
<1>4. ASSUME pc = "copy", pc' \in {"copy", "return"}, UNCHANGED <<request, answer, header, fields>>
      PROVE  CopyInv' /\ HeadersFit'
  BY <1>4 DEF Streaming
<1>5. ASSUME UNCHANGED <<request, pc, answer, header, fields, written>>
      PROVE  CopyInv' /\ HeadersFit'
  BY <1>5 DEF Streaming
<1>6. CASE Return
  <2>1. header = <<"upstream">> => answer \in Answers
    BY <1>6 DEF Return, AnswerInv, Ending
  <2>2. header = <<"upstream">> => answer'.headers = answer.headers /\ answer'.type = answer.type
    BY <1>6, <2>1, HandlerAssumption DEF Return, Answers
  <2>. QED
    BY <1>6, <2>2 DEF Return, Streaming
<1>7. CASE Health \/ ReadBody \/ Decode \/ AnonymizeFails \/ UpstreamFails
  <2>1. header = <<>>
    BY <1>7 DEF AnswerInv, Early, Health, ReadBody, Decode, AnonymizeFails, UpstreamFails
  <2>2. pc' # "copy"
    BY <1>7 DEF Health, ReadBody, Decode, AnonymizeFails, UpstreamFails, Reply
  <2>3. header' # <<"upstream">>
    BY <1>7, <2>1 DEF Health, ReadBody, Decode, AnonymizeFails, UpstreamFails, Reply
  <2>. QED
    BY <1>3, <2>2, <2>3
<1>8. CASE RedactSecrets \/ Anonymize \/ Encode \/ Forward
            \/ \E type \in ContentTypes, headers \in SUBSET Headers : UpstreamAnswers(type, headers)
  <2>1. header' = <<>> /\ pc' # "copy"
    BY <1>8 DEF AnswerInv, Early, RedactSecrets, Anonymize, Encode, Forward, UpstreamAnswers
  <2>. QED
    BY <1>3, <2>1
<1>9. CASE Cancelled \/ AnswerBreaks
  <2>1. CASE pc = "copy"
    BY <1>4, <1>9, <2>1 DEF Cancelled, AnswerBreaks
  <2>2. CASE pc # "copy"
    <3>1. header = <<>> /\ header' = Append(header, "badGateway") /\ pc' = "return"
      BY <1>9, <2>2 DEF Cancelled, AnswerBreaks, AnswerInv, Early, Reply
    <3>. QED
      BY <1>3, <3>1
  <2>. QED
    BY <2>1, <2>2
<1>10. CASE CopyChunk \/ CopyEnds
  BY <1>4, <1>10 DEF CopyChunk, CopyEnds
<1>11. CASE ClientLeaves \/ UNCHANGED vars
  BY <1>5, <1>11 DEF ClientLeaves, vars
<1>. QED
  BY <1>1, <1>2, <1>6, <1>7, <1>8, <1>9, <1>10, <1>11 DEF Next, Own, Analysis

(***************************************************************************)
(* The invariant holds in every state of every request.                    *)
(***************************************************************************)
THEOREM Invariance == Spec => []IInv
<1>1. ASSUME Init PROVE ScrubInv /\ AnswerInv /\ FailClosed /\ CopyInv /\ HeadersFit
  <2>1. k = 1 /\ body = [t \in 1..request.texts |-> Plain] /\ Plain.pii = TRUE
    BY <1>1 DEF Init, Plain
  <2>2. ASSUME NEW t \in 1..request.texts
        PROVE  body[t].pii = (t >= k) /\ ~(t < k)
    <3>1. (t >= k) = TRUE /\ ~(t < k)
      BY <2>1
    <3>. QED
      BY <2>1, <3>1
  <2>3. ScrubInv
    BY <1>1, <2>2 DEF Init, ScrubInv
  <2>4. AnswerInv
    BY <1>1 DEF Init, AnswerInv, Early, Answered, Ending
  <2>. QED
    BY <1>1, <2>3, <2>4 DEF Init, FailClosed, CopyInv, HeadersFit
<1>2. Init => IInv
  BY <1>1, TypesInit DEF IInv
<1>3. IInv /\ [Next]_vars => IInv'
  BY TypesStep, ScrubStep, AnswerStep, SentStep, HeadersStep DEF IInv
<1>. QED
  BY <1>2, <1>3, PTL DEF Spec

(***************************************************************************)
(* The handler's state is well-typed, and no text is scrubbed before its   *)
(* turn.                                                                   *)
(***************************************************************************)
THEOREM TypeCorrect == Spec => []TypeOK
<1>1. IInv => TypeOK
  BY DEF IInv, Types, ScrubInv, TypeOK, Early, Answered, Ending
<1>. QED
  BY <1>1, Invariance, PTL

(***************************************************************************)
(* Nothing is sent from an LLM endpoint before every text of the request   *)
(* has been scrubbed, whatever failed in between.                          *)
(***************************************************************************)
THEOREM NothingUnscrubbedIsSent == Spec => []FailClosed
BY Invariance, PTL DEF IInv

\* What the invariant says of the client's answer, step by step.
LEMMA StatusByStep ==
  ASSUME IInv
  PROVE  /\ Len(header) <= 1
         /\ written \in Nat
         /\ written > 0 => header = <<"upstream">>
         /\ header = <<"upstream">> => answer # None
         /\ pc = "done" => Len(header) = 1
         /\ pc = "done" /\ answer # None => answer.open = FALSE
<1>. USE DEF IInv, Types, AnswerInv, Early, Answered, Ending
<1>. written \in Nat
  BY HandlerAssumption
<1>1. CASE pc \in Early \cup {"answer", "readAnswer"}
  <2>1. header = <<>> /\ written = 0
    BY <1>1
  <2>. QED
    BY <1>1, <2>1
<1>2. CASE pc = "copy"
  <2>1. header = <<"upstream">> /\ answer # None
    BY <1>2, HandlerAssumption
  <2>. QED
    BY <1>2, <2>1
<1>3. CASE pc \in Ending
  <2>1. PICK status \in Statuses : header = <<status>>
    BY <1>3
  <2>. QED
    BY <1>3, <2>1
<1>. QED
  BY <1>1, <1>2, <1>3

(***************************************************************************)
(* The client gets exactly one status, and its body only behind it.        *)
(***************************************************************************)
THEOREM OneStatus == Spec => []OneAnswer
<1>1. ASSUME IInv PROVE OneAnswer
  BY <1>1, StatusByStep DEF OneAnswer
<1>. QED
  BY <1>1, Invariance, PTL

(***************************************************************************)
(* An error status means that no part of an answer was delivered, one of   *)
(* the upstream's that it had answered, and its answer is closed.          *)
(***************************************************************************)
THEOREM AnswersClosed == Spec => []AnswerAccounted
<1>1. ASSUME IInv PROVE AnswerAccounted
  <2>1. header # <<>> /\ header[1] # "upstream" => written = 0
    BY <1>1, StatusByStep
  <2>. QED
    BY <1>1, <2>1, StatusByStep DEF AnswerAccounted
<1>. QED
  BY <1>1, Invariance, PTL

(***************************************************************************)
(* The client is told the length of the body it gets and no other.         *)
(***************************************************************************)
THEOREM HeadersAreRight == Spec => []HeadersFit
BY Invariance, PTL DEF IInv

-----------------------------------------------------------------------------
\* The facts about FlattenSeq there hold whatever the alphabet is.
Flat == INSTANCE RestoreText_proofs
          WITH Letter <- {"a"}, Digit <- {"0"}, Other <- {}, MaxLabelLen <- 1, MaxIndexLen <- 1,
               Lookup <- <<>>

LEMMA FlatAssumption == Flat!FormatAssumption
BY DEF Flat!FormatAssumption, Flat!Open, Flat!Close, Flat!Underscore

LEMMA SameFlatten == \A s : Flat!FlattenSeq(s) = FlattenSeq(s)
BY DEF Flat!FlattenSeq, FlattenSeq

\* The concatenation of the first n elements of s.
Joined(s, n) == FlattenSeq(SubSeq(s, 1, n))

LEMMA SameJoined == \A s, n : Flat!Joined(s, n) = Joined(s, n)
BY SameFlatten DEF Flat!Joined, Joined

LEMMA JoinedFacts ==
  ASSUME NEW C, NEW s \in Seq(Seq(C))
  PROVE  /\ Joined(s, 0) = <<>>
         /\ \A n \in 1..Len(s) : Joined(s, n) = Joined(s, n - 1) \o s[n]
         /\ Joined(s, Len(s)) = FlattenSeq(s)
         /\ \A n \in 0..Len(s) : Joined(s, n) \in Seq(C)
BY FlatAssumption, SameFlatten, SameJoined, Flat!JoinedFacts, Flat!JoinedType

LEMMA EmptyRun ==
  ASSUME NEW C, NEW s \in Seq(Seq(C)), NEW a \in 0..Len(s), NEW b \in a..Len(s),
         \A q \in (a + 1)..b : s[q] = <<>>
  PROVE  Joined(s, b) = Joined(s, a)
BY FlatAssumption, SameJoined, Flat!EmptyRun

LEMMA JoinedAgree ==
  ASSUME NEW C, NEW s \in Seq(Seq(C)), NEW t \in Seq(Seq(C)), Len(s) = Len(t),
         NEW a \in 0..Len(s), \A q \in 1..a : s[q] = t[q]
  PROVE  Joined(s, a) = Joined(t, a)
BY FlatAssumption, SameJoined, Flat!JoinedAgree

LEMMA JoinedGrows ==
  ASSUME NEW C, NEW s \in Seq(Seq(C)), NEW a \in 0..Len(s), NEW b \in a..Len(s)
  PROVE  Len(Joined(s, a)) <= Len(Joined(s, b))
BY FlatAssumption, SameJoined, Flat!JoinedGrows

-----------------------------------------------------------------------------
(***************************************************************************)
(* Cleaning a path, against counting its segments.  After n segments those *)
(* that remain are the names that no ".." up to there takes back.          *)
(***************************************************************************)
Ups(path, i, j) == Cardinality({n \in i..j : path[n] \notin Dotted})
Downs(path, i, j) == Cardinality({n \in i..j : path[n] = ".."})

RemainsAt(path, n, i) ==
  /\ i <= n /\ path[i] \notin Dotted
  /\ \A j \in i..n : Downs(path, i, j) < Ups(path, i, j)

PiecesAt(path, n) ==
  [i \in 1..Len(path) |-> IF RemainsAt(path, n, i) THEN <<path[i]>> ELSE <<>>]

KeptAt(path, n) == Joined(PiecesAt(path, n), n)

\* A name that remains stands as high as there are names that remain from it on.
HeightsFit(path, n) ==
  \A i \in 1..n : RemainsAt(path, n, i) =>
    Ups(path, i, n) - Downs(path, i, n)
      = Len(KeptAt(path, n)) - Len(Joined(PiecesAt(path, n), i)) + 1

Count(A, i, j) == Cardinality({n \in i..j : n \in A})

LEMMA CountStep ==
  ASSUME NEW i \in Nat, NEW j \in Nat, i <= j + 1, NEW A
  PROVE  /\ Count(A, i, j) \in Nat
         /\ Count(A, i, j + 1) = Count(A, i, j) + IF j + 1 \in A THEN 1 ELSE 0
<1>. DEFINE S == {n \in i..j : n \in A}
<1>1. IsFiniteSet(i..j)
  BY FS_Interval
<1>2. S \in SUBSET (i..j)
  OBVIOUS
<1>3. IsFiniteSet(S)
  BY <1>1, <1>2, FS_Subset
<1>4. Cardinality(S) \in Nat
  BY <1>3, FS_CardinalityType
<1>5. CASE j + 1 \in A
  <2>1. {n \in i..(j + 1) : n \in A} = S \cup {j + 1}
    BY <1>5
  <2>2. j + 1 \notin S
    OBVIOUS
  <2>. HIDE DEF S
  <2>3. Cardinality(S \cup {j + 1}) = Cardinality(S) + 1
    BY <1>3, <2>2, FS_AddElement
  <2>. QED
    BY <1>4, <1>5, <2>1, <2>3 DEF S, Count
<1>6. CASE j + 1 \notin A
  <2>1. {n \in i..(j + 1) : n \in A} = S
    BY <1>6
  <2>2. PICK c \in Nat : c = Cardinality(S)
    BY <1>4
  <2>3. c + (IF j + 1 \in A THEN 1 ELSE 0) = c
    BY <1>6
  <2>. HIDE DEF S
  <2>4. Cardinality({n \in i..(j + 1) : n \in A}) = Cardinality(S) + IF j + 1 \in A THEN 1 ELSE 0
    BY <2>1, <2>2, <2>3
  <2>. QED
    BY <1>4, <2>4 DEF S, Count
<1>. QED
  BY <1>5, <1>6

LEMMA HeightStep ==
  ASSUME NEW path \in Seq(STRING), NEW i \in Nat, NEW j \in Nat, i <= j + 1
  PROVE  /\ Ups(path, i, j) \in Nat /\ Downs(path, i, j) \in Nat
         /\ Ups(path, i, j + 1) = Ups(path, i, j) + IF path[j + 1] \notin Dotted THEN 1 ELSE 0
         /\ Downs(path, i, j + 1) = Downs(path, i, j) + IF path[j + 1] = ".." THEN 1 ELSE 0
<1>. DEFINE A == {n \in Nat : path[n] \notin Dotted}
            B == {n \in Nat : path[n] = ".."}
<1>1. ASSUME NEW C
      PROVE  Count(C, i, j) \in Nat /\ Count(C, i, j + 1) = Count(C, i, j) + IF j + 1 \in C THEN 1 ELSE 0
  BY CountStep
<1>2. ASSUME NEW l \in Nat
      PROVE  Ups(path, i, l) = Count(A, i, l) /\ Downs(path, i, l) = Count(B, i, l)
  <2>1. /\ {n \in i..l : n \in A} = {n \in i..l : path[n] \notin Dotted}
        /\ {n \in i..l : n \in B} = {n \in i..l : path[n] = ".."}
    OBVIOUS
  <2>. QED
    BY <2>1 DEF Ups, Downs, Count
<1>3. (j + 1 \in A <=> path[j + 1] \notin Dotted) /\ (j + 1 \in B <=> path[j + 1] = "..")
  OBVIOUS
<1>4. j + 1 \in Nat
  OBVIOUS
<1>. HIDE DEF A, B
<1>5. /\ Ups(path, i, j) = Count(A, i, j) /\ Ups(path, i, j + 1) = Count(A, i, j + 1)
      /\ Downs(path, i, j) = Count(B, i, j) /\ Downs(path, i, j + 1) = Count(B, i, j + 1)
  BY <1>2, <1>4
<1>. QED
  BY <1>1, <1>3, <1>5

\* Nothing is counted before the first segment.
LEMMA HeightZero ==
  ASSUME NEW path \in Seq(STRING), NEW i \in Nat
  PROVE  Ups(path, i + 1, i) = 0 /\ Downs(path, i + 1, i) = 0
<1>1. {n \in (i + 1)..i : path[n] \notin Dotted} = {} /\ {n \in (i + 1)..i : path[n] = ".."} = {}
  OBVIOUS
<1>. QED
  BY <1>1, FS_EmptySet DEF Ups, Downs

LEMMA PiecesAtFacts ==
  ASSUME NEW path \in Seq(STRING), NEW n
  PROVE  /\ PiecesAt(path, n) \in Seq(Seq(STRING)) /\ Len(PiecesAt(path, n)) = Len(path)
         /\ \A i \in 1..Len(path) : PiecesAt(path, n)[i] =
              IF RemainsAt(path, n, i) THEN <<path[i]>> ELSE <<>>
<1>1. PICK D : D = Seq(STRING)
  OBVIOUS
<1>2. Len(path) \in Nat
  OBVIOUS
<1>3. ASSUME NEW i \in 1..Len(path) PROVE (IF RemainsAt(path, n, i) THEN <<path[i]>> ELSE <<>>) \in D
  <2>1. path[i] \in STRING
    OBVIOUS
  <2>2. <<>> \in D /\ <<path[i]>> \in D
    BY <1>1, <2>1
  <2>. QED
    BY <2>2
<1>4. PICK q \in [1..Len(path) -> D] :
        q = [i \in 1..Len(path) |-> IF RemainsAt(path, n, i) THEN <<path[i]>> ELSE <<>>]
  BY <1>3
<1>5. q \in Seq(D) /\ Len(q) = Len(path)
      /\ \A i \in 1..Len(path) : q[i] = IF RemainsAt(path, n, i) THEN <<path[i]>> ELSE <<>>
  BY <1>2, <1>4
<1>. QED
  BY <1>1, <1>4, <1>5 DEF PiecesAt

\* A name that remains after one more segment remained before it; and so the
\* other way round, unless the segment takes it back.
LEMMA RemainsStep ==
  ASSUME NEW path \in Seq(STRING), NEW n \in Nat, n + 1 \in 1..Len(path), NEW i \in 1..n
  PROVE  RemainsAt(path, n + 1, i) <=>
           RemainsAt(path, n, i) /\ Downs(path, i, n + 1) < Ups(path, i, n + 1)
<1>1. \A j : j \in i..(n + 1) <=> j \in i..n \/ j = n + 1
  OBVIOUS
<1>. QED
  BY <1>1 DEF RemainsAt

\* A segment that is a name is the last one to remain.
LEMMA NewName ==
  ASSUME NEW path \in Seq(STRING), NEW n \in Nat, n + 1 \in 1..Len(path)
  PROVE  RemainsAt(path, n + 1, n + 1) <=> path[n + 1] \notin Dotted
<1>1. ASSUME path[n + 1] \notin Dotted PROVE RemainsAt(path, n + 1, n + 1)
  <2>. SUFFICES ASSUME NEW j \in (n + 1)..(n + 1) PROVE Downs(path, n + 1, j) < Ups(path, n + 1, j)
    BY <1>1 DEF RemainsAt
  <2>1. j = n + 1
    OBVIOUS
  <2>2. Ups(path, n + 1, n) = 0 /\ Downs(path, n + 1, n) = 0
    BY HeightZero
  <2>3. path[n + 1] # ".."
    BY <1>1 DEF Dotted
  <2>4. PICK i \in Nat : i = n + 1 /\ i <= n + 1
    OBVIOUS
  <2>5. Ups(path, i, n + 1) = Ups(path, i, n) + 1 /\ Downs(path, i, n + 1) = Downs(path, i, n) + 0
    BY <1>1, <2>3, <2>4, HeightStep
  <2>. QED
    BY <2>1, <2>2, <2>4, <2>5
<1>. QED
  BY <1>1 DEF RemainsAt

\* What remained and still remains is put together as before.
LEMMA SamePieces ==
  ASSUME NEW path \in Seq(STRING), NEW n \in Nat, n + 1 \in 1..Len(path), NEW a \in 0..n,
         \A i \in 1..a : RemainsAt(path, n + 1, i) <=> RemainsAt(path, n, i)
  PROVE  Joined(PiecesAt(path, n + 1), a) = Joined(PiecesAt(path, n), a)
<1>1. PICK s \in Seq(Seq(STRING)) : s = PiecesAt(path, n) /\ Len(s) = Len(path)
  BY PiecesAtFacts
<1>2. PICK t \in Seq(Seq(STRING)) : t = PiecesAt(path, n + 1) /\ Len(t) = Len(path)
  BY PiecesAtFacts
<1>3. ASSUME NEW q \in 1..a PROVE s[q] = t[q]
  <2>1. q \in 1..Len(path)
    OBVIOUS
  <2>2. s[q] = IF RemainsAt(path, n, q) THEN <<path[q]>> ELSE <<>>
    BY <1>1, <2>1, PiecesAtFacts
  <2>3. t[q] = IF RemainsAt(path, n + 1, q) THEN <<path[q]>> ELSE <<>>
    BY <1>2, <2>1, PiecesAtFacts
  <2>. QED
    BY <2>2, <2>3
<1>4. Len(s) = Len(t) /\ a \in 0..Len(s)
  BY <1>1, <1>2
<1>5. Joined(s, a) = Joined(t, a)
  BY <1>3, <1>4, JoinedAgree
<1>. QED
  BY <1>1, <1>2, <1>5

\* A segment that is empty, a dot or a name.
LEMMA StepForward ==
  ASSUME NEW path \in Seq(STRING), NEW n \in Nat, n + 1 \in 1..Len(path), HeightsFit(path, n),
         path[n + 1] # ".."
  PROVE  /\ HeightsFit(path, n + 1)
         /\ KeptAt(path, n + 1) = IF path[n + 1] \in {"", "."} THEN KeptAt(path, n)
                                  ELSE Append(KeptAt(path, n), path[n + 1])
<1>. DEFINE s == PiecesAt(path, n)
            t == PiecesAt(path, n + 1)
<1>0. Len(path) \in Nat /\ n <= Len(path) /\ n + 1 <= Len(path)
  OBVIOUS
<1>1. PICK up \in Nat : up = (IF path[n + 1] \notin Dotted THEN 1 ELSE 0) /\ (up = 0 \/ up = 1)
  OBVIOUS
<1>15. up = 1 <=> path[n + 1] \notin Dotted
  BY <1>1
<1>16. path[n + 1] \in Dotted <=> path[n + 1] \in {"", "."}
  BY DEF Dotted
<1>2. ASSUME NEW i \in 1..n
      PROVE  /\ Ups(path, i, n) \in Nat /\ Downs(path, i, n) \in Nat
             /\ Ups(path, i, n + 1) = Ups(path, i, n) + up
             /\ Downs(path, i, n + 1) = Downs(path, i, n)
  <2>1. i \in Nat /\ i <= n + 1
    OBVIOUS
  <2>2. /\ Ups(path, i, n) \in Nat /\ Downs(path, i, n) \in Nat
        /\ Ups(path, i, n + 1) = Ups(path, i, n) + up
        /\ Downs(path, i, n + 1) = Downs(path, i, n) + IF path[n + 1] = ".." THEN 1 ELSE 0
    BY <1>1, <2>1, HeightStep
  <2>3. PICK d \in Nat : d = Downs(path, i, n)
    BY <2>2
  <2>4. d + (IF path[n + 1] = ".." THEN 1 ELSE 0) = d
    OBVIOUS
  <2>. QED
    BY <2>2, <2>3, <2>4
<1>3. ASSUME NEW i \in 1..n PROVE RemainsAt(path, n + 1, i) <=> RemainsAt(path, n, i)
  <2>1. RemainsAt(path, n, i) => Downs(path, i, n) < Ups(path, i, n)
    BY DEF RemainsAt
  <2>2. Downs(path, i, n) < Ups(path, i, n) => Downs(path, i, n + 1) < Ups(path, i, n + 1)
    BY <1>1, <1>2
  <2>3. RemainsAt(path, n + 1, i) <=>
           RemainsAt(path, n, i) /\ Downs(path, i, n + 1) < Ups(path, i, n + 1)
    BY RemainsStep
  <2>. QED
    BY <2>1, <2>2, <2>3
<1>4. ASSUME NEW a \in 0..n PROVE Joined(t, a) = Joined(s, a)
  <2>1. \A i \in 1..a : i \in 1..n
    OBVIOUS
  <2>. QED
    BY <1>3, <2>1, SamePieces
<1>5. /\ s \in Seq(Seq(STRING)) /\ t \in Seq(Seq(STRING)) /\ Len(s) = Len(path) /\ Len(t) = Len(path)
  BY PiecesAtFacts
<1>6. t[n + 1] = IF up = 1 THEN <<path[n + 1]>> ELSE <<>>
  <2>1. RemainsAt(path, n + 1, n + 1) <=> path[n + 1] \notin Dotted
    BY NewName
  <2>2. t[n + 1] = IF RemainsAt(path, n + 1, n + 1) THEN <<path[n + 1]>> ELSE <<>>
    BY PiecesAtFacts
  <2>. QED
    BY <1>15, <2>1, <2>2
<1>. HIDE DEF s, t
<1>7. Joined(t, n + 1) = Joined(t, n) \o t[n + 1]
  <2>1. n + 1 \in 1..Len(t) /\ (n + 1) - 1 = n
    BY <1>5
  <2>. QED
    BY <1>5, <2>1, JoinedFacts
<1>8. PICK x \in Seq(STRING) : x = Joined(s, n)
  <2>1. n \in 0..Len(s)
    BY <1>0, <1>5
  <2>. QED
    BY <1>5, <2>1, JoinedFacts
<1>9. Joined(t, n + 1) = x \o t[n + 1]
  <2>1. n \in 0..n
    OBVIOUS
  <2>. QED
    BY <1>4, <1>7, <1>8, <2>1
<1>10. Joined(t, n + 1) = (IF up = 1 THEN Append(x, path[n + 1]) ELSE x) /\ Len(Joined(t, n + 1)) = Len(x) + up
  <2>1. CASE up = 1
    <3>1. path[n + 1] \in STRING
      OBVIOUS
    <3>2. PICK e \in STRING : e = path[n + 1]
      BY <3>1
    <3>3. Append(x, e) = x \o <<e>> /\ Len(Append(x, e)) = Len(x) + 1
      BY AppendIsConcat
    <3>. QED
      BY <1>6, <1>9, <2>1, <3>2, <3>3
  <2>2. CASE up = 0
    <3>1. x \o <<>> = x /\ Len(x) \in Nat
      BY ConcatEmptySeq
    <3>. QED
      BY <1>6, <1>9, <2>2, <3>1
  <2>. QED
    BY <1>1, <2>1, <2>2
<1>11. KeptAt(path, n + 1) = Joined(t, n + 1) /\ KeptAt(path, n) = x
  BY <1>8 DEF KeptAt, s, t
<1>12. ASSUME NEW i \in 1..(n + 1), RemainsAt(path, n + 1, i)
       PROVE  Ups(path, i, n + 1) - Downs(path, i, n + 1)
                = Len(KeptAt(path, n + 1)) - Len(Joined(t, i)) + 1
  <2>0. Len(x) \in Nat
    OBVIOUS
  <2>1. CASE i = n + 1
    <3>1. PICK m \in Nat : m = n + 1 /\ m <= n + 1
      OBVIOUS
    <3>2. path[n + 1] \notin Dotted /\ up = 1
      BY <1>12, <1>15, <2>1 DEF RemainsAt
    <3>3. Ups(path, m, n) = 0 /\ Downs(path, m, n) = 0
      BY <3>1, HeightZero
    <3>4. /\ Ups(path, m, n + 1) = Ups(path, m, n) + up
          /\ Downs(path, m, n + 1) = Downs(path, m, n) + IF path[n + 1] = ".." THEN 1 ELSE 0
      <4>1. n \in Nat /\ m <= n + 1
        BY <1>1, <3>1
      <4>2. /\ Ups(path, m, n + 1) = Ups(path, m, n) + IF path[n + 1] \notin Dotted THEN 1 ELSE 0
            /\ Downs(path, m, n + 1) = Downs(path, m, n) + IF path[n + 1] = ".." THEN 1 ELSE 0
        BY <4>1, HeightStep, Zenon
      <4>. QED
        BY <1>1, <4>2, Zenon
    <3>6. (IF path[n + 1] = ".." THEN 1 ELSE 0) = 0
      OBVIOUS
    <3>5. Len(Joined(t, n + 1)) \in Nat
      BY <1>1, <1>10, <2>0
    <3>. QED
      BY <1>11, <2>1, <3>1, <3>2, <3>3, <3>4, <3>5, <3>6
  <2>2. CASE i \in 1..n
    <3>1. RemainsAt(path, n, i)
      BY <1>3, <1>12, <2>2
    <3>2. Ups(path, i, n) - Downs(path, i, n) = Len(x) - Len(Joined(s, i)) + 1
      BY <1>11, <2>2, <3>1 DEF HeightsFit, s
    <3>3. Joined(t, i) = Joined(s, i) /\ Joined(s, i) \in Seq(STRING)
      <4>1. i \in 0..n /\ i \in 0..Len(s)
        BY <1>0, <1>5, <2>2
      <4>. QED
        BY <1>4, <1>5, <4>1, JoinedFacts
    <3>4. Len(Joined(s, i)) \in Nat /\ Len(x) \in Nat
      BY <3>3
    <3>5. Len(KeptAt(path, n + 1)) = Len(x) + up
      BY <1>10, <1>11
    <3>6. PICK u \in Nat, d \in Nat, a \in Nat, b \in Nat :
            u = Ups(path, i, n) /\ d = Downs(path, i, n) /\ a = Len(x) /\ b = Len(Joined(s, i))
      BY <1>2, <2>2, <3>4
    <3>7. u - d = a - b + 1
      BY <3>2, <3>6
    <3>8. (u + up) - d = (a + up) - b + 1
      BY <1>1, <3>7
    <3>9. Ups(path, i, n + 1) = u + up /\ Downs(path, i, n + 1) = d
      BY <1>2, <2>2, <3>6
    <3>. QED
      BY <3>3, <3>5, <3>6, <3>8, <3>9
  <2>. QED
    BY <2>1, <2>2
<1>13. HeightsFit(path, n + 1)
  BY <1>12 DEF HeightsFit, t
<1>14. KeptAt(path, n + 1) = IF up = 1 THEN Append(KeptAt(path, n), path[n + 1]) ELSE KeptAt(path, n)
  BY <1>10, <1>11
<1>. QED
  BY <1>15, <1>16, <1>13, <1>14

\* While nothing is kept no name remains.
LEMMA NothingKept ==
  ASSUME NEW path \in Seq(STRING), NEW n \in 0..Len(path)
  PROVE  KeptAt(path, n) = <<>> <=> \A i \in 1..n : ~RemainsAt(path, n, i)
<1>0. n \in Nat /\ Len(path) \in Nat /\ n <= Len(path)
  OBVIOUS
<1>1. PICK s \in Seq(Seq(STRING)) : s = PiecesAt(path, n) /\ Len(s) = Len(path)
  BY PiecesAtFacts
<1>2. \A i \in 1..Len(path) : s[i] = IF RemainsAt(path, n, i) THEN <<path[i]>> ELSE <<>>
  BY <1>1, PiecesAtFacts
<1>3. n \in 0..Len(s) /\ 0 \in 0..Len(s) /\ n \in 0..n
  BY <1>0, <1>1
<1>4. ASSUME \A i \in 1..n : ~RemainsAt(path, n, i) PROVE KeptAt(path, n) = <<>>
  <2>1. ASSUME NEW q \in (0 + 1)..n PROVE s[q] = <<>>
    <3>1. q \in 1..n /\ q \in 1..Len(path)
      BY <1>0
    <3>. QED
      BY <1>2, <1>4, <3>1
  <2>2. Joined(s, n) = Joined(s, 0)
    BY <1>3, <2>1, EmptyRun
  <2>3. Joined(s, 0) = <<>>
    BY JoinedFacts
  <2>. QED
    BY <1>1, <2>2, <2>3 DEF KeptAt
<1>5. ASSUME NEW i \in 1..n, RemainsAt(path, n, i) PROVE KeptAt(path, n) # <<>>
  <2>1. i \in 1..Len(s) /\ i - 1 \in 0..Len(s) /\ i \in 0..Len(s) /\ n \in i..Len(s) /\ i \in 1..Len(path)
    BY <1>0, <1>1
  <2>2. PICK x \in Seq(STRING) : x = Joined(s, i - 1)
    BY <2>1, JoinedFacts
  <2>3. Joined(s, i) = x \o <<path[i]>>
    <3>1. Joined(s, i) = Joined(s, i - 1) \o s[i]
      BY <2>1, JoinedFacts
    <3>2. s[i] = <<path[i]>>
      BY <1>2, <1>5, <2>1
    <3>. QED
      BY <2>2, <3>1, <3>2
  <2>4. Len(Joined(s, i)) = Len(x) + 1 /\ Len(x) \in Nat
    <3>0. path[i] \in STRING
      BY <2>1
    <3>1. PICK e \in STRING : e = path[i]
      BY <3>0
    <3>2. Len(x \o <<e>>) = Len(x) + 1
      OBVIOUS
    <3>. QED
      BY <2>3, <3>1, <3>2
  <2>5. Len(Joined(s, i)) <= Len(Joined(s, n))
    BY <2>1, JoinedGrows
  <2>6. PICK y \in Seq(STRING) : y = Joined(s, n)
    BY <1>3, JoinedFacts
  <2>7. Len(y) \in Nat /\ Len(y) > 0
    BY <2>4, <2>5, <2>6
  <2>8. y # <<>>
    BY <2>7
  <2>. QED
    BY <1>1, <2>6, <2>8 DEF KeptAt
<1>. QED
  BY <1>4, <1>5

\* The last name that remains.
LEMMA LastRemaining ==
  ASSUME NEW path \in Seq(STRING), NEW n \in 0..Len(path), KeptAt(path, n) # <<>>
  PROVE  \E l \in 1..n : RemainsAt(path, n, l) /\ \A i \in (l + 1)..n : ~RemainsAt(path, n, i)
<1>0. n \in Nat
  OBVIOUS
<1>. DEFINE T == {m \in Nat : m < n /\ RemainsAt(path, n, n - m)}
<1>1. PICK i \in 1..n : RemainsAt(path, n, i)
  BY NothingKept
<1>2. n - i \in T
  <2>1. n - i \in Nat /\ n - i < n /\ n - (n - i) = i
    BY <1>0
  <2>. QED
    BY <1>1, <2>1
<1>3. PICK m \in T : \A q \in T : m <= q
  <2>1. T \in SUBSET Nat /\ T # {}
    BY <1>2
  <2>. HIDE DEF T
  <2>. QED
    BY <2>1, FlatAssumption, Flat!LeastNumber
<1>4. n - m \in 1..n /\ RemainsAt(path, n, n - m)
  BY <1>0, <1>3
<1>5. ASSUME NEW j \in ((n - m) + 1)..n, RemainsAt(path, n, j) PROVE FALSE
  <2>1. n - j \in Nat /\ n - j < n /\ n - (n - j) = j /\ n - j < m /\ m \in Nat
    BY <1>0, <1>3
  <2>2. n - j \in T
    BY <1>5, <2>1
  <2>. QED
    BY <1>3, <2>1, <2>2
<1>. QED
  BY <1>4, <1>5

\* A segment "..": the last name that remained does not remain.
LEMMA StepBack ==
  ASSUME NEW path \in Seq(STRING), NEW n \in Nat, n + 1 \in 1..Len(path), HeightsFit(path, n),
         path[n + 1] = ".."
  PROVE  /\ HeightsFit(path, n + 1)
         /\ KeptAt(path, n + 1) = IF KeptAt(path, n) = <<>> THEN <<>> ELSE Front(KeptAt(path, n))
<1>. DEFINE s == PiecesAt(path, n)
            t == PiecesAt(path, n + 1)
<1>0. Len(path) \in Nat /\ n <= Len(path) /\ n + 1 <= Len(path) /\ n \in 0..Len(path) /\ n + 1 \in 0..Len(path)
  OBVIOUS
<1>1. ASSUME NEW i \in 1..n
      PROVE  /\ Ups(path, i, n) \in Nat /\ Downs(path, i, n) \in Nat
             /\ Ups(path, i, n + 1) = Ups(path, i, n)
             /\ Downs(path, i, n + 1) = Downs(path, i, n) + 1
  <2>1. i \in Nat /\ i <= n + 1
    OBVIOUS
  <2>2. /\ Ups(path, i, n) \in Nat /\ Downs(path, i, n) \in Nat
        /\ Ups(path, i, n + 1) = Ups(path, i, n) + IF path[n + 1] \notin Dotted THEN 1 ELSE 0
        /\ Downs(path, i, n + 1) = Downs(path, i, n) + IF path[n + 1] = ".." THEN 1 ELSE 0
    BY <2>1, HeightStep
  <2>3. path[n + 1] \in Dotted
    BY DEF Dotted
  <2>. QED
    BY <2>2, <2>3
<1>2. ~RemainsAt(path, n + 1, n + 1)
  BY DEF RemainsAt, Dotted
<1>3. ASSUME NEW i \in 1..n PROVE RemainsAt(path, n + 1, i) => RemainsAt(path, n, i)
  BY RemainsStep
<1>4. /\ s \in Seq(Seq(STRING)) /\ t \in Seq(Seq(STRING)) /\ Len(s) = Len(path) /\ Len(t) = Len(path)
      /\ \A i \in 1..Len(path) : s[i] = IF RemainsAt(path, n, i) THEN <<path[i]>> ELSE <<>>
      /\ \A i \in 1..Len(path) : t[i] = IF RemainsAt(path, n + 1, i) THEN <<path[i]>> ELSE <<>>
  BY PiecesAtFacts
<1>5. CASE KeptAt(path, n) = <<>>
  <2>1. \A i \in 1..n : ~RemainsAt(path, n, i)
    BY <1>0, <1>5, NothingKept
  <2>2. ASSUME NEW i \in 1..(n + 1) PROVE ~RemainsAt(path, n + 1, i)
    <3>1. i \in 1..n \/ i = n + 1
      OBVIOUS
    <3>. QED
      BY <1>2, <1>3, <2>1, <3>1
  <2>3. KeptAt(path, n + 1) = <<>>
    BY <1>0, <2>2, NothingKept
  <2>4. HeightsFit(path, n + 1)
    BY <2>2 DEF HeightsFit
  <2>. QED
    BY <1>5, <2>3, <2>4
<1>6. CASE KeptAt(path, n) # <<>>
  <2>1. PICK l \in 1..n : RemainsAt(path, n, l) /\ \A i \in (l + 1)..n : ~RemainsAt(path, n, i)
    BY <1>0, <1>6, LastRemaining
  <2>. HIDE DEF s, t
  <2>2. /\ l \in Nat /\ l - 1 \in Nat /\ l - 1 \in 0..n /\ l \in 0..Len(s) /\ l - 1 \in 0..Len(s)
        /\ l \in 1..Len(s) /\ n \in l..Len(s) /\ l \in 1..Len(path) /\ l <= n
        /\ l - 1 \in 0..Len(t) /\ n + 1 \in (l - 1)..Len(t) /\ n + 1 \in 0..Len(t)
    BY <1>0, <1>4
  <2>3. PICK x \in Seq(STRING) : x = Joined(s, l - 1)
    BY <1>4, <2>2, JoinedFacts
  <2>4. Joined(s, n) = Joined(s, l)
    <3>1. ASSUME NEW q \in (l + 1)..n PROVE s[q] = <<>>
      <4>1. q \in 1..Len(path)
        BY <1>0, <2>2
      <4>. QED
        BY <1>4, <2>1, <4>1
    <3>. QED
      BY <1>4, <2>2, <3>1, EmptyRun
  <2>5. Joined(s, l) = x \o <<path[l]>>
    <3>1. Joined(s, l) = Joined(s, l - 1) \o s[l]
      BY <1>4, <2>2, JoinedFacts
    <3>2. s[l] = <<path[l]>>
      BY <1>4, <2>1, <2>2
    <3>. QED
      BY <2>3, <3>1, <3>2
  <2>6. /\ Len(Joined(s, l)) = Len(x) + 1 /\ Len(x) \in Nat
        /\ Front(Joined(s, l)) = x
    <3>0. path[l] \in STRING
      BY <2>2
    <3>1. PICK e \in STRING : e = path[l]
      BY <3>0
    <3>5. x \o <<e>> \in Seq(STRING)
      OBVIOUS
    <3>2. PICK y \in Seq(STRING) : y = x \o <<e>>
      BY <3>5
    <3>3. /\ Len(y) = Len(x) + 1 /\ Len(x) \in Nat /\ \A q \in 1..Len(x) : y[q] = x[q]
      BY <3>2
    <3>4. Front(y) = x
      <4>1. PICK z \in Seq(STRING) : z = SubSeq(y, 1, Len(x)) /\ Len(z) = Len(x) /\ \A q \in 1..Len(x) : z[q] = y[q]
        BY <3>3
      <4>2. z = x
        BY <3>3, <4>1, SeqEqual
      <4>3. Len(y) - 1 = Len(x)
        BY <3>3
      <4>. QED
        BY <4>1, <4>2, <4>3 DEF Front
    <3>. QED
      BY <2>5, <3>1, <3>2, <3>3, <3>4
  <2>7. KeptAt(path, n) = Joined(s, l)
    BY <2>4 DEF KeptAt, s
  <2>8. ASSUME NEW i \in 1..n, RemainsAt(path, n, i)
        PROVE  Ups(path, i, n) - Downs(path, i, n) = (Len(x) + 1) - Len(Joined(s, i)) + 1
    BY <2>6, <2>7, <2>8 DEF HeightsFit, s
  <2>9. ~RemainsAt(path, n + 1, l)
    <3>1. Ups(path, l, n) - Downs(path, l, n) = (Len(x) + 1) - (Len(x) + 1) + 1
      BY <2>1, <2>6, <2>8
    <3>2. Ups(path, l, n) = Downs(path, l, n) + 1
      BY <1>1, <2>6, <3>1
    <3>3. ~(Downs(path, l, n + 1) < Ups(path, l, n + 1))
      BY <1>1, <3>2
    <3>. QED
      BY <3>3, RemainsStep
  <2>10. ASSUME NEW i \in 1..(l - 1)
         PROVE  /\ RemainsAt(path, n + 1, i) <=> RemainsAt(path, n, i)
                /\ Joined(s, i) \in Seq(STRING) /\ Len(Joined(s, i)) \in Nat
    <3>1. i \in 1..n /\ i \in 0..Len(s) /\ l - 1 \in i..Len(s)
      BY <1>4, <2>2
    <3>2. Joined(s, i) \in Seq(STRING)
      BY <1>4, <3>1, JoinedFacts
    <3>3. Len(Joined(s, i)) <= Len(x) /\ Len(Joined(s, i)) \in Nat
      BY <1>4, <2>3, <3>1, <3>2, JoinedGrows
    <3>4. ASSUME RemainsAt(path, n, i) PROVE RemainsAt(path, n + 1, i)
      <4>1. Ups(path, i, n) - Downs(path, i, n) = (Len(x) + 1) - Len(Joined(s, i)) + 1
        BY <2>8, <3>1, <3>4
      <4>2. PICK u \in Nat, d \in Nat, a \in Nat, b \in Nat :
              u = Ups(path, i, n) /\ d = Downs(path, i, n) /\ a = Len(x) /\ b = Len(Joined(s, i))
        BY <1>1, <2>6, <3>1, <3>3
      <4>3. d + 1 < u
        BY <3>3, <4>1, <4>2
      <4>4. Downs(path, i, n + 1) < Ups(path, i, n + 1)
        BY <1>1, <3>1, <4>2, <4>3
      <4>. QED
        BY <3>1, <3>4, <4>4, RemainsStep
    <3>. QED
      BY <1>3, <3>1, <3>2, <3>3, <3>4
  <2>11. ASSUME NEW i \in l..(n + 1) PROVE ~RemainsAt(path, n + 1, i)
    <3>1. i = l \/ i \in (l + 1)..n \/ i = n + 1
      BY <2>2
    <3>2. ASSUME i \in (l + 1)..n PROVE ~RemainsAt(path, n + 1, i)
      <4>1. i \in 1..n
        BY <2>2, <3>2
      <4>. QED
        BY <1>3, <2>1, <3>2, <4>1
    <3>. QED
      BY <1>2, <2>9, <3>1, <3>2
  <2>12. ASSUME NEW a \in 0..(l - 1) PROVE Joined(t, a) = Joined(s, a)
    <3>1. a \in 0..n /\ \A i \in 1..a : i \in 1..(l - 1)
      BY <2>2
    <3>. QED
      BY <2>10, <3>1, SamePieces DEF s, t
  <2>13. Joined(t, n + 1) = Joined(t, l - 1)
    <3>1. ASSUME NEW q \in ((l - 1) + 1)..(n + 1) PROVE t[q] = <<>>
      <4>1. q \in l..(n + 1) /\ q \in 1..Len(path)
        BY <1>0, <2>2
      <4>. QED
        BY <1>4, <2>11, <4>1
    <3>. QED
      BY <1>4, <2>2, <3>1, EmptyRun
  <2>14. Joined(t, n + 1) = x
    <3>1. l - 1 \in 0..(l - 1)
      BY <2>2
    <3>. QED
      BY <2>3, <2>12, <2>13, <3>1
  <2>15. KeptAt(path, n + 1) = x
    BY <2>14 DEF KeptAt, t
  <2>16. ASSUME NEW i \in 1..(n + 1), RemainsAt(path, n + 1, i)
         PROVE  Ups(path, i, n + 1) - Downs(path, i, n + 1)
                  = Len(KeptAt(path, n + 1)) - Len(Joined(t, i)) + 1
    <3>1. i \in 1..(l - 1) /\ i \in 0..(l - 1) /\ i \in 1..n
      <4>1. i \in l..(n + 1) \/ i \in 1..(l - 1)
        BY <2>2
      <4>. QED
        BY <2>2, <2>11, <2>16, <4>1
    <3>2. Joined(t, i) = Joined(s, i)
      BY <2>12, <3>1
    <3>3. Ups(path, i, n) - Downs(path, i, n) = (Len(x) + 1) - Len(Joined(s, i)) + 1
      BY <1>3, <2>8, <2>16, <3>1
    <3>4. PICK u \in Nat, d \in Nat, a \in Nat, b \in Nat :
            u = Ups(path, i, n) /\ d = Downs(path, i, n) /\ a = Len(x) /\ b = Len(Joined(s, i))
      BY <1>1, <2>6, <2>10, <3>1
    <3>5. u - (d + 1) = a - b + 1
      <4>1. u - d = (a + 1) - b + 1
        BY <3>3, <3>4
      <4>. QED
        BY <4>1
    <3>. QED
      BY <1>1, <2>15, <3>1, <3>2, <3>4, <3>5
  <2>17. HeightsFit(path, n + 1)
    BY <2>16 DEF HeightsFit, t
  <2>. QED
    BY <1>6, <2>6, <2>7, <2>15, <2>17
<1>. QED
  BY <1>5, <1>6

\* What remains of the first n segments is what Clean makes of them.
IsCleaned(f, path) ==
  f = [n \in 0..Len(path) |->
         IF n = 0 THEN <<>>
         ELSE LET kept == f[n - 1]
              IN  IF path[n] \in {"", "."} \/ (path[n] = ".." /\ kept = <<>>) THEN kept
                  ELSE IF path[n] = ".." THEN Front(kept)
                  ELSE Append(kept, path[n])]

LEMMA CleanIsCleaned ==
  ASSUME NEW path
  PROVE  Clean(path) = (CHOOSE f : IsCleaned(f, path))[Len(path)]
BY DEF Clean, IsCleaned

LEMMA CleanStep ==
  ASSUME NEW path, NEW f, IsCleaned(f, path), Len(path) \in Nat
  PROVE  /\ f[0] = <<>>
         /\ \A n \in Nat : n + 1 \in 1..Len(path) =>
              f[n + 1] = IF path[n + 1] \in {"", "."} \/ (path[n + 1] = ".." /\ f[n] = <<>>) THEN f[n]
                         ELSE IF path[n + 1] = ".." THEN Front(f[n])
                         ELSE Append(f[n], path[n + 1])
<1>1. \A n \in 0..Len(path) : f[n] =
         IF n = 0 THEN <<>>
         ELSE IF path[n] \in {"", "."} \/ (path[n] = ".." /\ f[n - 1] = <<>>) THEN f[n - 1]
              ELSE IF path[n] = ".." THEN Front(f[n - 1])
              ELSE Append(f[n - 1], path[n])
  BY DEF IsCleaned
<1>2. 0 \in 0..Len(path)
  OBVIOUS
<1>3. ASSUME NEW n \in Nat, n + 1 \in 1..Len(path)
      PROVE n + 1 \in 0..Len(path) /\ n + 1 # 0 /\ (n + 1) - 1 = n
  BY <1>3
<1>. QED
  BY <1>1, <1>2, <1>3

LEMMA KeptBySteps ==
  ASSUME NEW path \in Seq(STRING)
  PROVE  /\ KeptAt(path, 0) = <<>>
         /\ \A n \in 0..Len(path) : HeightsFit(path, n)
         /\ \A n \in Nat : n + 1 \in 1..Len(path) =>
              KeptAt(path, n + 1) =
                IF path[n + 1] \in {"", "."} \/ (path[n + 1] = ".." /\ KeptAt(path, n) = <<>>)
                THEN KeptAt(path, n)
                ELSE IF path[n + 1] = ".." THEN Front(KeptAt(path, n))
                ELSE Append(KeptAt(path, n), path[n + 1])
<1>1. KeptAt(path, 0) = <<>>
  BY PiecesAtFacts, JoinedFacts DEF KeptAt
<1>. DEFINE T == {n \in Nat : n \in 0..Len(path) => HeightsFit(path, n)}
<1>2. 0 \in T
  BY DEF HeightsFit
<1>3. ASSUME NEW n \in Nat, n \in T PROVE n + 1 \in T
  <2>. SUFFICES ASSUME n + 1 \in 0..Len(path) PROVE HeightsFit(path, n + 1)
    OBVIOUS
  <2>1. n + 1 \in 1..Len(path) /\ n \in 0..Len(path)
    OBVIOUS
  <2>2. HeightsFit(path, n)
    BY <1>3, <2>1
  <2>. QED
    BY <2>1, <2>2, StepForward, StepBack
<1>. HIDE DEF T
<1>4. \A n \in Nat : n \in T
  BY <1>2, <1>3, FlatAssumption, Flat!Induction
<1>5. \A n \in 0..Len(path) : HeightsFit(path, n)
  BY <1>4 DEF T
<1>6. ASSUME NEW n \in Nat, n + 1 \in 1..Len(path)
      PROVE  KeptAt(path, n + 1) =
                IF path[n + 1] \in {"", "."} \/ (path[n + 1] = ".." /\ KeptAt(path, n) = <<>>)
                THEN KeptAt(path, n)
                ELSE IF path[n + 1] = ".." THEN Front(KeptAt(path, n))
                ELSE Append(KeptAt(path, n), path[n + 1])
  <2>1. n \in 0..Len(path)
    BY <1>6
  <2>2. HeightsFit(path, n)
    BY <1>5, <2>1
  <2>3. CASE path[n + 1] = ".."
    <3>1. KeptAt(path, n + 1) = IF KeptAt(path, n) = <<>> THEN <<>> ELSE Front(KeptAt(path, n))
      BY <1>6, <2>2, <2>3, StepBack
    <3>. QED
      BY <2>3, <3>1
  <2>4. CASE path[n + 1] # ".."
    <3>1. KeptAt(path, n + 1) = IF path[n + 1] \in {"", "."} THEN KeptAt(path, n)
                                ELSE Append(KeptAt(path, n), path[n + 1])
      BY <1>6, <2>2, <2>4, StepForward
    <3>. QED
      BY <2>4, <3>1
  <2>. QED
    BY <2>3, <2>4
<1>. QED
  BY <1>1, <1>5, <1>6

(***************************************************************************)
(* path.Clean, which goes through a path once and takes a name back at each*)
(* "..", leaves the names that counting leaves.                            *)
(***************************************************************************)
LEMMA CleanLeavesRemaining ==
  ASSUME NEW path \in Seq(STRING)
  PROVE  Clean(path) = Remaining(path)
<1>0. Len(path) \in Nat /\ DOMAIN path = 1..Len(path)
  OBVIOUS
<1>. DEFINE g == [n \in 0..Len(path) |-> KeptAt(path, n)]
<1>1. IsCleaned(g, path)
  <2>1. ASSUME NEW n \in 0..Len(path)
        PROVE  g[n] = IF n = 0 THEN <<>>
                      ELSE IF path[n] \in {"", "."} \/ (path[n] = ".." /\ g[n - 1] = <<>>) THEN g[n - 1]
                           ELSE IF path[n] = ".." THEN Front(g[n - 1])
                           ELSE Append(g[n - 1], path[n])
    <3>1. CASE n = 0
      BY <3>1, KeptBySteps
    <3>2. CASE n # 0
      <4>1. PICK m \in Nat : n = m + 1 /\ n - 1 = m /\ m \in 0..Len(path) /\ m + 1 \in 1..Len(path)
        <5>1. n - 1 \in Nat /\ n = (n - 1) + 1 /\ n - 1 \in 0..Len(path) /\ (n - 1) + 1 \in 1..Len(path)
          BY <1>0, <3>2
        <5>. QED
          BY <5>1
      <4>2. KeptAt(path, m + 1) =
                IF path[m + 1] \in {"", "."} \/ (path[m + 1] = ".." /\ KeptAt(path, m) = <<>>)
                THEN KeptAt(path, m)
                ELSE IF path[m + 1] = ".." THEN Front(KeptAt(path, m))
                ELSE Append(KeptAt(path, m), path[m + 1])
        BY <4>1, KeptBySteps
      <4>3. g[n] = KeptAt(path, m + 1) /\ g[n - 1] = KeptAt(path, m)
        BY <4>1
      <4>. HIDE DEF g
      <4>. QED
        BY <3>2, <4>1, <4>2, <4>3
    <3>. QED
      BY <3>1, <3>2
  <2>2. g = [n \in 0..Len(path) |-> g[n]]
    OBVIOUS
  <2>. HIDE DEF g
  <2>. QED
    BY <2>1, <2>2 DEF IsCleaned
<1>. HIDE DEF g
<1>2. PICK f : IsCleaned(f, path) /\ Clean(path) = f[Len(path)]
  BY <1>1, CleanIsCleaned
<1>. DEFINE T == {n \in Nat : n \in 0..Len(path) => f[n] = KeptAt(path, n)}
<1>3. 0 \in T
  BY <1>0, <1>2, CleanStep, KeptBySteps
<1>4. ASSUME NEW n \in Nat, n \in T PROVE n + 1 \in T
  <2>. SUFFICES ASSUME n + 1 \in 0..Len(path) PROVE f[n + 1] = KeptAt(path, n + 1)
    OBVIOUS
  <2>1. n + 1 \in 1..Len(path) /\ f[n] = KeptAt(path, n)
    BY <1>0, <1>4
  <2>2. f[n + 1] = IF path[n + 1] \in {"", "."} \/ (path[n + 1] = ".." /\ f[n] = <<>>) THEN f[n]
                         ELSE IF path[n + 1] = ".." THEN Front(f[n])
                         ELSE Append(f[n], path[n + 1])
    BY <1>0, <1>2, <2>1, CleanStep
  <2>3. KeptAt(path, n + 1) =
                IF path[n + 1] \in {"", "."} \/ (path[n + 1] = ".." /\ KeptAt(path, n) = <<>>)
                THEN KeptAt(path, n)
                ELSE IF path[n + 1] = ".." THEN Front(KeptAt(path, n))
                ELSE Append(KeptAt(path, n), path[n + 1])
    BY <2>1, KeptBySteps
  <2>. QED
    BY <2>1, <2>2, <2>3
<1>. HIDE DEF T
<1>5. \A n \in Nat : n \in T
  BY <1>3, <1>4, FlatAssumption, Flat!Induction
<1>6. Clean(path) = KeptAt(path, Len(path))
  BY <1>0, <1>2, <1>5 DEF T
<1>7. PiecesAt(path, Len(path)) = [i \in DOMAIN path |-> IF Remains(path, i) THEN <<path[i]>> ELSE <<>>]
  <2>1. ASSUME NEW i \in 1..Len(path) PROVE RemainsAt(path, Len(path), i) <=> Remains(path, i)
    BY DEF RemainsAt, Remains, Ups, Downs
  <2>. QED
    BY <1>0, <2>1 DEF PiecesAt
<1>8. KeptAt(path, Len(path)) = FlattenSeq(PiecesAt(path, Len(path)))
  BY PiecesAtFacts, JoinedFacts DEF KeptAt
<1>. QED
  BY <1>6, <1>7, <1>8 DEF Remaining

(***************************************************************************)
(* Every path is forwarded without one leading "v1" and with the names that*)
(* no ".." takes back.                                                     *)
(***************************************************************************)
THEOREM TargetIsMeant == Spec => []TargetMeant
<1>1. Init => TargetMeant
  BY DEF Init, TargetMeant
<1>2. ASSUME IInv, TargetMeant, [Next]_vars PROVE TargetMeant'
  <2>1. CASE Forward
    <3>1. request.path \in Seq(STRING)
      BY <1>2 DEF IInv, Types, AnyRequest
    <3>2. StripV1(request.path) \in Seq(STRING)
      <4>1. CASE request.path = <<>>
        BY <3>1, <4>1 DEF StripV1
      <4>2. CASE request.path # <<>>
        <5>1. Tail(request.path) \in Seq(STRING)
          BY <3>1, <4>2, HeadTailProperties
        <5>. QED
          BY <3>1, <5>1 DEF StripV1
      <4>. QED
        BY <4>1, <4>2
    <3>3. Clean(StripV1(request.path)) = Remaining(StripV1(request.path))
      BY <3>2, CleanLeavesRemaining
    <3>. QED
      BY <2>1, <3>3 DEF Forward, TargetMeant, UpstreamPath
  <2>2. CASE ~Forward
    <3>1. UNCHANGED <<target, request>>
      BY <1>2, <2>2 DEF Next, Own, Analysis, Health, ReadBody, Decode, RedactSecrets, Encode, Begin,
         Return, Anonymize, AnonymizeFails, Cancelled, ClientLeaves, UpstreamAnswers, UpstreamFails,
         ReadAnswer, AnswerBreaks, CopyChunk, CopyEnds, vars
    <3>. QED
      BY <1>2, <3>1 DEF TargetMeant
  <2>. QED
    BY <2>1, <2>2
<1>. QED
  BY <1>1, <1>2, Invariance, PTL DEF Spec
-----------------------------------------------------------------------------
(***************************************************************************)
(* The process around the handler, for any set of connections and          *)
(* environments: the inductive invariant.  Nothing comes to be in flight   *)
(* before the port is open, and nothing is cut off by anything but exit    *)
(* code 1; a server that drains has closed its listener, so that once the  *)
(* drain has ended nothing can come to be in flight again; and what main   *)
(* has built is what the environment asks for.                             *)
(***************************************************************************)
ProcessTypes ==
  /\ scanner \in BOOLEAN
  /\ process \in {"starting", "listening", "running"} \cup Ended
  /\ signalled \in BOOLEAN
  /\ listener \in {"open", "failed", "closed"}
  /\ serving \in {"select", "shutdown", "nil", "error"}
  /\ state \in [Connections -> {"idle", "active", "answered", "refused", "cut"}]
  /\ process # "running" => InFlight = {}

StartInv == process \in {"starting", "listening"} =>
              InFlight = {} /\ listener # "open" /\ serving = "select"

CutInv == process # "exit1" => \A r \in Connections : state[r] # "cut"

Draining == serving \in {"shutdown", "nil"}

DrainInv ==
  /\ Draining => listener # "open"
  /\ serving = "nil" => InFlight = {}

BuiltInv ==
  process \in {"listening", "running"} =>
    /\ env.secretScan \notin FalseWords => scanner /\ ScannerBuilds(LoadConfig(env))
    /\ maxBody <= 0 => env.maxBody \notin {Unset, Junk}

ServerInv == ProcessTypes /\ StartInv /\ CutInv /\ DrainInv /\ BuiltInv

LEMMA ServerInit == ProcessInit => ServerInv
BY DEF ProcessInit, ServerInv, ProcessTypes, StartInv, CutInv, DrainInv, BuiltInv, Draining, InFlight, Ended

\* What main builds has a scanner unless the environment has a word for false,
\* and a limit on bodies unless it has a number.
LEMMA BuiltAsAsked ==
  ASSUME Build, process' = "listening"
  PROVE  BuiltInv'
<1>1. env.secretScan \notin FalseWords => LoadConfig(env).secretScan = TRUE
  BY DEF LoadConfig, GetEnvBool
<1>2. env.maxBody \in {Unset, Junk} => LoadConfig(env).maxBody = DefaultMaxRequestBodyBytes
  BY DEF LoadConfig, GetEnvInt
<1>3. ~(DefaultMaxRequestBodyBytes <= 0)
  BY SMT DEF DefaultMaxRequestBodyBytes
<1>. QED
  BY <1>1, <1>2, <1>3 DEF Build, BuiltInv

LEMMA ServerStep == ServerInv /\ [ProcessNext]_processVars => ServerInv'
<1>. SUFFICES ASSUME ServerInv, [ProcessNext]_processVars PROVE ServerInv'
  OBVIOUS
<1>. USE DEF ServerInv, ProcessTypes, StartInv, CutInv, DrainInv, Draining, InFlight, Ended, handler
<1>1. CASE Build
  <2>1. BuiltInv'
    BY <1>1, BuiltAsAsked DEF Build, BuiltInv
  <2>. QED
    BY <1>1, <2>1 DEF Build
<1>2. CASE Listen
  BY <1>2 DEF Listen, BuiltInv
<1>3. ASSUME NEW r \in Connections, Arrive(r) PROVE ServerInv'
  BY <1>3 DEF Arrive, BuiltInv
<1>4. ASSUME NEW r \in Connections, Finish(r) PROVE ServerInv'
  BY <1>4 DEF Finish, BuiltInv
<1>5. CASE Signal
  BY <1>5 DEF Signal, BuiltInv
<1>6. CASE ListenerFails
  BY <1>6 DEF ListenerFails, BuiltInv
<1>7. CASE ServeError
  BY <1>7 DEF ServeError, BuiltInv
<1>8. CASE Shutdown
  BY <1>8 DEF Shutdown, BuiltInv
<1>9. CASE Drained
  BY <1>9 DEF Drained, BuiltInv
<1>10. CASE Deadline
  BY <1>10 DEF Deadline, BuiltInv
<1>11. CASE Exit
  BY <1>11 DEF Exit, BuiltInv
<1>12. CASE UNCHANGED processVars
  BY <1>12 DEF processVars, BuiltInv
<1>. QED
  BY <1>1, <1>2, <1>3, <1>4, <1>5, <1>6, <1>7, <1>8, <1>9, <1>10, <1>11, <1>12 DEF ProcessNext

(***************************************************************************)
(* The invariant holds in every state of every run of the server.          *)
(***************************************************************************)
THEOREM ServerInvariance == ProcessSpec => []ServerInv
BY ServerInit, ServerStep, PTL DEF ProcessSpec

(***************************************************************************)
(* Exit code 0 tells that no request that was taken has been cut off.      *)
(***************************************************************************)
THEOREM ExitIsClean == ProcessSpec => []CleanExit
<1>1. ServerInv => CleanExit
  BY DEF ServerInv, CutInv, CleanExit
<1>. QED
  BY <1>1, ServerInvariance, PTL

(***************************************************************************)
(* A request is only taken by a process whose secret redaction and body    *)
(* limit are on, or have been turned off in so many words.                 *)
(***************************************************************************)
THEOREM ConfigurationHolds == ProcessSpec => []ServesAsConfigured
<1>1. ServerInv => ServesAsConfigured
  <2>. SUFFICES ASSUME ServerInv, InFlight # {}
                PROVE  process \in {"listening", "running"}
    BY DEF ServesAsConfigured, ServerInv, BuiltInv
  <2>. QED
    BY DEF ServerInv, ProcessTypes, StartInv, Ended
<1>. QED
  BY <1>1, ServerInvariance, PTL
=============================================================================
