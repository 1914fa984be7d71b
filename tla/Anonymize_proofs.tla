-------------------------- MODULE Anonymize_proofs --------------------------
(***************************************************************************)
(* Proofs about AnonymizeText.  The first half is normalizeDetections:     *)
(* whatever Presidio reports, and in whatever order, the spans that are    *)
(* replaced lie inside the text, in text order and apart from each other,  *)
(* and no detection is ignored.  The second half is what the replacements  *)
(* make of the text: exactly those spans become the placeholders of what   *)
(* they held, and restoring the outcome gives the text again.              *)
(***************************************************************************)
EXTENDS Anonymize, SequenceTheorems, TLAPS

Spans == [start : Int, end : Int, entity : EntityTypes]

(***************************************************************************)
(* The inductive invariant.  A span is accepted only behind keptEnd, and   *)
(* every span kept before it ends there or earlier.  While the spans are   *)
(* replaced, the text in front of the last one replaced is still there.    *)
(***************************************************************************)
Types ==
  /\ text \in Text /\ out \in Text
  /\ todo \in Seq(Spans) /\ spans \in Seq(Spans) /\ results \in Seq(Spans)
  /\ keptEnd \in 0..Len(text)
  /\ i \in 0..Len(spans)
  /\ stage \in {"idle", "analyze", "keep", "replace", "failed"}
  /\ \A v \in DOMAIN valueToPlaceholder : valueToPlaceholder[v] \in Text

SpansInside ==
  \A k \in 1..Len(spans) :
    0 <= spans[k].start /\ spans[k].start < spans[k].end /\ spans[k].end <= keptEnd

SpansApart ==
  \A k, l \in 1..Len(spans) : k < l => spans[k].end <= spans[l].start

NoSpans == stage \in {"idle", "analyze"} => spans = <<>> /\ keptEnd = 0

FrontUntouched ==
  /\ stage # "replace" => i = 0
  /\ i > 0 => /\ spans[i].end <= Len(out)
              /\ \A p \in 1..spans[i].end : out[p] = text[p]

(***************************************************************************)
(* A detection, clamped, is empty, or a span that was kept begins in front *)
(* of it and goes on into it; over all of it, if no detections overlap in  *)
(* part.                                                                   *)
(***************************************************************************)
NonePartial == \A k, l \in 1..Len(results) : ~Partial(results[k], results[l])

Covered(r) ==
  \/ r.start >= r.end
  \/ \E k \in 1..Len(spans) : /\ spans[k].start <= r.start /\ r.start < spans[k].end
                              /\ NonePartial => Within(r, spans[k])

\* The span kept last comes from a detection d that stands in front of all
\* that are still to be seen, and it ends at keptEnd.
LastKept(d) ==
  /\ spans[Len(spans)] = Clamp(d) /\ keptEnd = Clamp(d).end
  /\ \A j \in 1..Len(todo) : ~Precedes(todo[j], d)

AllSeen ==
  stage \in {"keep", "replace"} =>
    /\ stage = "replace" => todo = <<>>
    /\ \A j \in 1..Len(todo) : \E k \in 1..Len(results) : todo[j] = results[k]
    /\ \A j, l \in 1..Len(todo) : j < l => ~Precedes(todo[l], todo[j])
    /\ \A k \in 1..Len(results) :
         Covered(Clamp(results[k])) \/ \E j \in 1..Len(todo) : todo[j] = results[k]
    /\ IF spans = <<>> THEN keptEnd = 0
       ELSE \E k \in 1..Len(results) : LastKept(results[k])

IInv == Types /\ SpansInside /\ SpansApart /\ NoSpans /\ FrontUntouched /\ AllSeen

-----------------------------------------------------------------------------
\* A sequence of detections, whatever the bound on its length.
LEMMA DetectionsType ==
  ASSUME NEW n, NEW rs \in SeqOf(Detections, n)
  PROVE  rs \in Seq(Spans)
<1>1. PICK m \in 0..n : rs \in [1..m -> Detections]
  BY DEF SeqOf
<1>2. Detections \subseteq Spans
  BY AnonymizeAssumption DEF Detections, Spans
<1>. QED
  BY <1>1, <1>2

\* Sorting keeps the type, loses nothing and adds nothing.
LEMMA SortingsFacts ==
  ASSUME NEW rs \in Seq(Spans), NEW s \in Sortings(rs)
  PROVE  /\ s \in Seq(Spans)
         /\ \A j \in 1..Len(s) : \E k \in 1..Len(rs) : s[j] = rs[k]
         /\ \A k \in 1..Len(rs) : \E j \in 1..Len(s) : s[j] = rs[k]
         /\ \A j, l \in 1..Len(s) : j < l => ~Precedes(s[l], s[j])
<1>1. PICK p \in Bijection(DOMAIN rs, DOMAIN rs) : s = [k \in DOMAIN rs |-> rs[p[k]]]
  BY DEF Sortings
<1>2. DOMAIN rs = 1..Len(rs) /\ Len(rs) \in Nat
  OBVIOUS
<1>3. /\ p \in [1..Len(rs) -> 1..Len(rs)]
      /\ \A k \in 1..Len(rs) : \E j \in 1..Len(rs) : p[j] = k
  BY <1>1, <1>2 DEF Bijection, Injection, Surjection
<1>4. s \in [1..Len(rs) -> Spans]
  BY <1>1, <1>2, <1>3
<1>5. s \in Seq(Spans) /\ Len(s) = Len(rs)
  BY <1>2, <1>4
<1>6. \A j, l \in 1..Len(s) : j < l => ~Precedes(s[l], s[j])
  BY <1>2, <1>5 DEF Sortings
<1>. QED
  BY <1>1, <1>2, <1>3, <1>5, <1>6

\* Clamping and accepting a detection make a span inside the text.
LEMMA ClampType ==
  ASSUME Types, NEW r \in Spans, Acceptable(Clamp(r))
  PROVE  /\ Clamp(r) \in Spans
         /\ keptEnd <= Clamp(r).start /\ Clamp(r).start < Clamp(r).end
         /\ Clamp(r).end \in 0..Len(text)
<1>1. Len(text) \in Nat /\ keptEnd \in Nat
  BY DEF Types, Text
<1>. QED
  BY <1>1 DEF Types, Clamp, Acceptable, Spans

\* Appending a span that lies behind keptEnd keeps the spans in order.
LEMMA KeepSpan ==
  ASSUME Types, SpansInside, SpansApart,
         NEW span \in Spans, keptEnd <= span.start, span.start < span.end,
         NEW new, new = Append(spans, span)
  PROVE  /\ new \in Seq(Spans)
         /\ \A k \in 1..Len(new) :
              0 <= new[k].start /\ new[k].start < new[k].end /\ new[k].end <= span.end
         /\ \A k, l \in 1..Len(new) : k < l => new[k].end <= new[l].start
<1>. USE DEF Types
<1>1. Len(text) \in Nat /\ keptEnd \in Nat /\ span.start \in Int /\ span.end \in Int
  BY DEF Text, Spans
<1>2. /\ new \in Seq(Spans) /\ Len(spans) \in Nat /\ Len(new) = Len(spans) + 1
      /\ \A k \in 1..Len(spans) : new[k] = spans[k]
      /\ new[Len(new)] = span
  OBVIOUS
<1>3. ASSUME NEW k \in 1..Len(spans)
      PROVE  spans[k].start \in Int /\ spans[k].end \in Int
  <2>1. spans[k] \in Spans
    OBVIOUS
  <2>. QED
    BY <2>1 DEF Spans
<1>4. ASSUME NEW k \in 1..Len(new)
      PROVE  0 <= new[k].start /\ new[k].start < new[k].end /\ new[k].end <= span.end
  <2>1. CASE k \in 1..Len(spans)
    BY <1>1, <1>2, <1>3, <2>1 DEF SpansInside
  <2>2. CASE k = Len(new)
    BY <1>1, <1>2, <2>2
  <2>. QED
    BY <1>2, <2>1, <2>2
<1>5. ASSUME NEW k \in 1..Len(new), NEW l \in 1..Len(new), k < l
      PROVE  new[k].end <= new[l].start
  <2>1. k \in 1..Len(spans)
    BY <1>2, <1>5
  <2>2. CASE l \in 1..Len(spans)
    BY <1>2, <1>5, <2>1, <2>2 DEF SpansApart
  <2>3. CASE l = Len(new)
    BY <1>1, <1>2, <1>3, <2>1, <2>3 DEF SpansInside
  <2>. QED
    BY <1>2, <2>2, <2>3
<1>. QED
  BY <1>2, <1>4, <1>5

-----------------------------------------------------------------------------
LEMMA InitInv == Init => IInv
<1>. SUFFICES ASSUME Init PROVE IInv
  OBVIOUS
<1>. USE DEF Init
<1>1. Types
  BY DEF Types, Text
<1>2. SpansInside /\ SpansApart /\ NoSpans /\ FrontUntouched /\ AllSeen
  BY DEF SpansInside, SpansApart, NoSpans, FrontUntouched, AllSeen
<1>. QED
  BY <1>1, <1>2 DEF IInv

\* Part of a text is a text.
LEMMA SubSeqText ==
  ASSUME NEW s \in Text, NEW m \in Nat, NEW n \in Nat, 1 <= m, n <= Len(s)
  PROVE  /\ SubSeq(s, m, n) \in Text
         /\ Len(SubSeq(s, m, n)) = IF m <= n + 1 THEN n + 1 - m ELSE 0
         /\ \A p \in 1..Len(SubSeq(s, m, n)) : SubSeq(s, m, n)[p] = s[m + p - 1]
BY DEF Text

(***************************************************************************)
(* One replacement: the placeholder is a text, and so is what comes out; in*)
(* front of the span nothing has changed.                                  *)
(***************************************************************************)
LEMMA PlaceholderIsText ==
  ASSUME Types, NEW value, NEW entity \in EntityTypes, PlaceholderFor(value, entity)
  PROVE  /\ \A v \in DOMAIN valueToPlaceholder' : valueToPlaceholder'[v] \in Text
         /\ value \in DOMAIN valueToPlaceholder'
<1>1. CASE value \in DOMAIN valueToPlaceholder
  BY <1>1 DEF PlaceholderFor, gen, Types
<1>2. CASE value \notin DOMAIN valueToPlaceholder
  <2>. DEFINE label == LabelOf[entity]
              index == labelCounts[label] + 1
              ph    == <<Open>> \o label \o <<Underscore>> \o Itoa[index] \o <<Close>>
  <2>1. index \in DOMAIN Itoa /\ valueToPlaceholder' = Put(valueToPlaceholder, value, ph)
    BY <1>2 DEF PlaceholderFor
  <2>2. ph \in Text
    <3>1. label \in Text /\ Itoa[index] \in Text
      BY <2>1, AnonymizeAssumption DEF Text, Char, Word
    <3>2. <<Open>> \in Text /\ <<Underscore>> \in Text /\ <<Close>> \in Text
      BY DEF Text, Char, Word
    <3>. HIDE DEF label, index
    <3>. QED
      BY <3>1, <3>2 DEF Text
  <2>. HIDE DEF ph
  <2>. QED
    BY <2>1, <2>2 DEF Put, Types
<1>. QED
  BY <1>1, <1>2

\* What a replacement does besides: it goes on to the span in front.
LEMMA ReplaceMoves ==
  ASSUME Types, Replace
  PROVE  /\ stage = "replace" /\ i \in Nat /\ i > 0 /\ i' = i - 1
         /\ UNCHANGED <<text, stage, todo, spans, keptEnd, results>>
         /\ Len(spans) \in Nat /\ i \in 1..Len(spans) /\ spans[i] \in Spans
         /\ text \in Text /\ out \in Text
<1>1. /\ stage = "replace" /\ i > 0 /\ i' = i - 1
      /\ UNCHANGED <<text, stage, todo, spans, keptEnd, results>>
  BY DEF Replace
<1>2. spans \in Seq(Spans) /\ i \in 0..Len(spans) /\ text \in Text /\ out \in Text
  BY DEF Types
<1>. HIDE DEF Spans
<1>. QED
  BY <1>1, <1>2

LEMMA ReplaceFacts ==
  ASSUME Types, SpansInside, FrontUntouched, Replace
  PROVE  /\ out' \in Text
         /\ spans[i].start <= Len(out')
         /\ \A p \in 1..spans[i].start : out'[p] = text[p]
         /\ \A v \in DOMAIN valueToPlaceholder' : valueToPlaceholder'[v] \in Text
<1>. DEFINE span  == spans[i]
            value == SubSeq(out, span.start + 1, span.end)
            ph    == valueToPlaceholder'[value]
            left  == SubSeq(out, 1, span.start)
            right == SubSeq(out, span.end + 1, Len(out))
<1>1. i \in 1..Len(spans) /\ span \in Spans
  BY ReplaceMoves
<1>2. /\ span.start \in Nat /\ span.end \in Nat /\ span.start < span.end
      /\ span.end <= Len(out) /\ Len(out) \in Nat
      /\ \A p \in 1..span.end : out[p] = text[p]
  BY <1>1 DEF SpansInside, FrontUntouched, Spans, Types, Text
<1>3. /\ \A v \in DOMAIN valueToPlaceholder' : valueToPlaceholder'[v] \in Text
      /\ value \in DOMAIN valueToPlaceholder'
  BY <1>1, PlaceholderIsText DEF Replace, Spans
<1>4. out' = left \o ph \o right
  BY DEF Replace
<1>5. out \in Text
  BY DEF Types
<1>6. /\ left \in Text /\ Len(left) = span.start
      /\ \A p \in 1..span.start : left[p] = out[p]
  BY <1>2, <1>5, SubSeqText
<1>7. right \in Text
  BY <1>2, <1>5, SubSeqText
<1>8. ph \in Text
  BY <1>3
<1>. HIDE DEF span, ph, left, right
<1>9. out' \in Text /\ span.start <= Len(out') /\ \A p \in 1..span.start : out'[p] = left[p]
  BY <1>2, <1>4, <1>6, <1>7, <1>8 DEF Text
<1>10. \A p \in 1..span.start : out'[p] = text[p]
  BY <1>2, <1>6, <1>9
<1>. QED
  BY <1>3, <1>9, <1>10 DEF span

LEMMA NextTypes == IInv /\ [Next]_vars => Types'
<1>. SUFFICES ASSUME IInv, [Next]_vars PROVE Types'
  OBVIOUS
<1>. USE DEF IInv, gen
<1>0. Len(text) \in Nat
  BY DEF Types, Text
<1>1. ASSUME NEW t \in Texts, Call(t) PROVE Types'
  BY <1>1, AnonymizeAssumption DEF Call, Types, NoSpans, Text
<1>2. CASE AnalyzeFails
  BY <1>2 DEF AnalyzeFails, Types
<1>3. CASE Analyze
  <2>1. PICK rs \in SeqOf(Detections, MaxResults - Found) : results' = rs /\ todo' \in Sortings(rs)
    BY <1>3 DEF Analyze
  <2>2. rs \in Seq(Spans)
    BY <2>1, DetectionsType
  <2>3. todo' \in Seq(Spans)
    BY <2>1, <2>2, SortingsFacts
  <2>. QED
    BY <1>0, <1>3, <2>1, <2>2, <2>3 DEF Analyze, Types, FrontUntouched
<1>4. CASE Keep
  <2>. DEFINE span == Clamp(Head(todo))
  <2>1. /\ Head(todo) \in Spans /\ Tail(todo) \in Seq(Spans)
        /\ Acceptable(Clamp(Head(todo)))
    BY <1>4 DEF Keep, Types
  <2>2. span \in Spans /\ span.end \in 0..Len(text)
    BY <2>1, ClampType
  <2>3. /\ spans' = Append(spans, span) /\ keptEnd' = span.end /\ todo' = Tail(todo)
        /\ UNCHANGED <<gen, text, stage, i, out, results>>
        /\ i = 0
    BY <1>4 DEF Keep, FrontUntouched
  <2>. HIDE DEF span
  <2>. QED
    BY <2>1, <2>2, <2>3 DEF Types
<1>5. CASE Drop
  BY <1>5 DEF Drop, Types
<1>6. CASE StartReplacing
  BY <1>6 DEF StartReplacing, Types
<1>7. CASE Replace
  <2>1. /\ i \in Nat /\ i > 0 /\ i' = i - 1 /\ UNCHANGED <<text, stage, todo, spans, keptEnd, results>>
    BY <1>7, ReplaceMoves
  <2>. QED
    BY <1>7, <2>1, ReplaceFacts DEF Types
<1>8. CASE Return
  BY <1>8 DEF Return, Types, Text
<1>9. CASE UNCHANGED vars
  BY <1>9 DEF vars, Types
<1>. QED
  BY <1>1, <1>2, <1>3, <1>4, <1>5, <1>6, <1>7, <1>8, <1>9 DEF Next

(***************************************************************************)
(* What is kept lies inside the text, in order and apart.                  *)
(***************************************************************************)
LEMMA NextSpans == IInv /\ [Next]_vars => SpansInside' /\ SpansApart' /\ NoSpans'
<1>. DEFINE Goal == SpansInside /\ SpansApart /\ NoSpans
<1>. SUFFICES ASSUME IInv, [Next]_vars PROVE Goal'
  OBVIOUS
<1>. USE DEF IInv, SpansInside, SpansApart, NoSpans
<1>1. ASSUME NEW t \in Texts, Call(t) PROVE Goal'
  BY <1>1 DEF Call
<1>2. CASE AnalyzeFails
  BY <1>2 DEF AnalyzeFails
<1>3. CASE Analyze
  BY <1>3 DEF Analyze
<1>4. CASE Keep
  <2>. DEFINE span == Clamp(Head(todo))
  <2>1. Head(todo) \in Spans /\ Acceptable(span)
    BY <1>4 DEF Keep, Types
  <2>2. span \in Spans /\ keptEnd <= span.start /\ span.start < span.end
    BY <2>1, ClampType
  <2>3. /\ spans' = Append(spans, span) /\ keptEnd' = span.end
        /\ stage = "keep" /\ UNCHANGED stage
    BY <1>4 DEF Keep
  <2>. HIDE DEF span
  <2>4. /\ \A k \in 1..Len(spans') :
             /\ 0 <= spans'[k].start /\ spans'[k].start < spans'[k].end
             /\ spans'[k].end <= span.end
        /\ \A k, l \in 1..Len(spans') : k < l => spans'[k].end <= spans'[l].start
    BY <2>2, <2>3, KeepSpan
  <2>. QED
    BY <2>3, <2>4
<1>5. CASE Drop \/ StartReplacing \/ Replace
  BY <1>5 DEF Drop, StartReplacing, Replace
<1>6. CASE Return
  BY <1>6 DEF Return
<1>7. CASE UNCHANGED vars
  BY <1>7 DEF vars
<1>. QED
  BY <1>1, <1>2, <1>3, <1>4, <1>5, <1>6, <1>7 DEF Next

(***************************************************************************)
(* Replacing from the last span to the first leaves the offsets of those   *)
(* still to come valid.                                                    *)
(***************************************************************************)
LEMMA NextFront == IInv /\ [Next]_vars => FrontUntouched'
<1>. SUFFICES ASSUME IInv, [Next]_vars PROVE FrontUntouched'
  OBVIOUS
<1>. USE DEF IInv, FrontUntouched
<1>1. ASSUME NEW t \in Texts, Call(t) PROVE FrontUntouched'
  BY <1>1 DEF Call
<1>2. CASE AnalyzeFails \/ Analyze \/ Keep \/ Drop \/ Return
  BY <1>2 DEF AnalyzeFails, Analyze, Keep, Drop, Return
<1>3. CASE StartReplacing
  <2>1. spans \in Seq(Spans) /\ Len(text) \in Nat /\ keptEnd \in 0..Len(text)
    BY DEF Types, Text
  <2>2. ASSUME Len(spans) > 0
        PROVE  spans[Len(spans)].end <= Len(text)
    <3>1. spans[Len(spans)] \in Spans
      BY <2>1, <2>2
    <3>. QED
      BY <2>1, <2>2, <3>1 DEF SpansInside, Spans
  <2>. QED
    BY <1>3, <2>2 DEF StartReplacing
<1>4. CASE Replace
  <2>1. /\ i \in 1..Len(spans) /\ i' = i - 1 /\ Len(spans) \in Nat
        /\ stage = "replace" /\ UNCHANGED <<stage, spans, text>>
    BY <1>4, ReplaceMoves
  <2>2. /\ out' \in Text /\ spans[i].start <= Len(out')
        /\ \A p \in 1..spans[i].start : out'[p] = text[p]
    BY <1>4, ReplaceFacts
  <2>3. ASSUME i' > 0
        PROVE  spans[i'].end <= spans[i].start
    BY <2>1, <2>3 DEF SpansApart
  <2>4. ASSUME i' > 0
        PROVE  spans[i'].end \in Int /\ spans[i].start \in Int /\ Len(out') \in Nat
    <3>1. spans[i'] \in Spans /\ spans[i] \in Spans
      BY <2>1, <2>4 DEF Types
    <3>. QED
      BY <2>2, <3>1 DEF Spans, Text
  <2>. QED
    BY <2>1, <2>2, <2>3, <2>4
<1>5. CASE UNCHANGED vars
  BY <1>5 DEF vars
<1>. QED
  BY <1>1, <1>2, <1>3, <1>4, <1>5 DEF Next

(***************************************************************************)
(* No detection is lost: each is kept, is still to be seen, or is covered. *)
(***************************************************************************)
\* The detection at the head of todo begins in front of no other one there.
LEMMA HeadFirst ==
  ASSUME Types, AllSeen, stage = "keep", todo # <<>>
  PROVE  /\ \E k \in 1..Len(results) : Head(todo) = results[k]
         /\ Tail(todo) \in Seq(Spans) /\ Len(Tail(todo)) = Len(todo) - 1
         /\ \A j \in 1..Len(Tail(todo)) : Tail(todo)[j] = todo[j + 1]
         /\ \A j \in 1..Len(Tail(todo)) : ~Precedes(Tail(todo)[j], Head(todo))
         /\ \A j, l \in 1..Len(Tail(todo)) : j < l => ~Precedes(Tail(todo)[l], Tail(todo)[j])
         /\ \A j \in 1..Len(Tail(todo)) : \E k \in 1..Len(results) : Tail(todo)[j] = results[k]
         /\ \A j \in 1..Len(todo) :
              todo[j] = Head(todo) \/ \E l \in 1..Len(Tail(todo)) : todo[j] = Tail(todo)[l]
<1>1. /\ Tail(todo) \in Seq(Spans) /\ Len(todo) \in Nat /\ Len(todo) > 0
      /\ Len(Tail(todo)) = Len(todo) - 1 /\ Head(todo) = todo[1]
      /\ \A j \in 1..Len(Tail(todo)) : Tail(todo)[j] = todo[j + 1]
  BY DEF Types
<1>2. \A j \in 1..Len(Tail(todo)) : j + 1 \in 1..Len(todo) /\ 1 < j + 1
  BY <1>1
<1>3. \A j \in 1..Len(todo) : j = 1 \/ (j - 1 \in 1..Len(Tail(todo)) /\ (j - 1) + 1 = j)
  BY <1>1
<1>4. \A j, l \in 1..Len(todo) : j < l => ~Precedes(todo[l], todo[j])
  BY DEF AllSeen
<1>5. \A j \in 1..Len(todo) : \E k \in 1..Len(results) : todo[j] = results[k]
  BY DEF AllSeen
<1>6. \A j \in 1..Len(Tail(todo)) : ~Precedes(Tail(todo)[j], Head(todo))
  BY <1>1, <1>2, <1>4
<1>7. ASSUME NEW j \in 1..Len(Tail(todo)), NEW l \in 1..Len(Tail(todo)), j < l
      PROVE  ~Precedes(Tail(todo)[l], Tail(todo)[j])
  BY <1>1, <1>2, <1>4, <1>7
<1>8. \A j \in 1..Len(todo) :
        todo[j] = Head(todo) \/ \E l \in 1..Len(Tail(todo)) : todo[j] = Tail(todo)[l]
  BY <1>1, <1>3
<1>9. \E k \in 1..Len(results) : Head(todo) = results[k]
  BY <1>1, <1>5
<1>10. \A j \in 1..Len(Tail(todo)) : \E k \in 1..Len(results) : Tail(todo)[j] = results[k]
  BY SMTT(30), <1>1, <1>2, <1>5
<1>. QED
  BY <1>1, <1>6, <1>7, <1>8, <1>9, <1>10

\* A detection that is dropped is empty or begins inside the span kept last;
\* it reaches beyond that only if the two overlap in part.
LEMMA DropCovered ==
  ASSUME Types, SpansInside, AllSeen, stage = "keep", todo # <<>>,
         ~Acceptable(Clamp(Head(todo)))
  PROVE  Covered(Clamp(Head(todo)))
<1>. DEFINE d == Head(todo)
<1>1. PICK n \in 1..Len(results) : d = results[n]
  BY HeadFirst
<1>2. results \in Seq(Spans) /\ Len(results) \in Nat /\ d \in Spans
  BY <1>1 DEF Types
<1>3. d.start \in Int /\ d.end \in Int /\ Len(text) \in Nat /\ keptEnd \in Nat
  BY SMTT(30), <1>2 DEF Spans, Types, Text
<1>. HIDE DEF d
<1>. SUFFICES ASSUME Clamp(d).start < Clamp(d).end PROVE Covered(Clamp(d))
  BY <1>3 DEF Covered, Clamp, d
<1>4. Clamp(d).start < keptEnd
  BY <1>3 DEF Acceptable, Clamp, d
<1>5. spans # <<>> /\ spans \in Seq(Spans)
  <2>1. Clamp(d).start >= 0
    BY <1>3 DEF Clamp
  <2>. QED
    BY <1>3, <1>4, <2>1 DEF AllSeen, Types, Clamp
<1>6. Len(spans) \in Nat /\ Len(spans) \in 1..Len(spans)
  BY <1>5
<1>7. PICK k \in 1..Len(results) : LastKept(results[k])
  BY <1>5 DEF AllSeen
<1>. DEFINE e == results[k]
<1>8. e \in Spans /\ e.start \in Int /\ e.end \in Int
  <2>1. e \in Spans
    BY <1>2
  <2>. QED
    BY <2>1 DEF Spans
<1>9. spans[Len(spans)] = Clamp(e) /\ keptEnd = Clamp(e).end /\ ~Precedes(d, e)
  <2>1. todo[1] = d /\ 1 \in 1..Len(todo)
    BY DEF d, Types
  <2>. QED
    BY <1>7, <2>1 DEF LastKept
<1>10. NonePartial => ~Partial(e, d)
  BY <1>1 DEF NonePartial
<1>. HIDE DEF e
<1>11. Clamp(e).start <= Clamp(d).start
  BY <1>3, <1>8, <1>9 DEF Precedes, Clamp
<1>12. NonePartial => Within(Clamp(d), Clamp(e))
  BY <1>3, <1>4, <1>8, <1>9, <1>10 DEF Precedes, Clamp, Partial, Within
<1>. QED
  BY <1>4, <1>6, <1>9, <1>11, <1>12 DEF Covered

\* What was covered stays covered by one more span.
LEMMA CoveredStays ==
  ASSUME Types, NEW span, spans' = Append(spans, span), UNCHANGED results, NEW r, Covered(r)
  PROVE  Covered(r)'
<1>1. /\ Len(spans) \in Nat /\ Len(spans') = Len(spans) + 1
      /\ \A k \in 1..Len(spans) : spans'[k] = spans[k] /\ k \in 1..Len(spans')
  BY DEF Types
<1>. QED
  BY <1>1 DEF Covered, NonePartial

LEMMA NextSeen == IInv /\ [Next]_vars => AllSeen'
<1>. SUFFICES ASSUME IInv, [Next]_vars PROVE AllSeen'
  OBVIOUS
<1>. USE DEF IInv
<1>1. ASSUME NEW t \in Texts, Call(t) PROVE AllSeen'
  BY <1>1 DEF Call, AllSeen
<1>2. CASE AnalyzeFails \/ Return
  BY <1>2 DEF AnalyzeFails, Return, AllSeen
<1>3. CASE Analyze
  <2>1. PICK rs \in SeqOf(Detections, MaxResults - Found) : results' = rs /\ todo' \in Sortings(rs)
    BY <1>3 DEF Analyze
  <2>2. rs \in Seq(Spans)
    BY <2>1, DetectionsType
  <2>3. /\ \A j \in 1..Len(todo') : \E k \in 1..Len(rs) : todo'[j] = rs[k]
        /\ \A k \in 1..Len(rs) : \E j \in 1..Len(todo') : todo'[j] = rs[k]
        /\ \A j, l \in 1..Len(todo') : j < l => ~Precedes(todo'[l], todo'[j])
    BY <2>1, <2>2, SortingsFacts
  <2>4. stage' = "keep" /\ spans' = <<>> /\ keptEnd' = 0
    BY <1>3 DEF Analyze
  <2>. QED
    BY <2>1, <2>3, <2>4 DEF AllSeen, Precedes
<1>4. CASE Keep
  <2>0. /\ stage = "keep" /\ todo # <<>> /\ Acceptable(Clamp(Head(todo)))
        /\ spans' = Append(spans, Clamp(Head(todo))) /\ keptEnd' = Clamp(Head(todo)).end
        /\ todo' = Tail(todo)
        /\ UNCHANGED <<stage, results, text>>
    BY <1>4 DEF Keep
  <2>1. PICK d : d = Head(todo)
    OBVIOUS
  <2>2. /\ \E k \in 1..Len(results) : d = results[k]
        /\ todo' \in Seq(Spans)
        /\ \A j \in 1..Len(todo') : ~Precedes(todo'[j], d)
        /\ \A j, l \in 1..Len(todo') : j < l => ~Precedes(todo'[l], todo'[j])
        /\ \A j \in 1..Len(todo') : \E k \in 1..Len(results) : todo'[j] = results[k]
        /\ \A j \in 1..Len(todo) : todo[j] = d \/ \E l \in 1..Len(todo') : todo[j] = todo'[l]
    BY <2>0, <2>1, HeadFirst
  <2>3. PICK span : span = Clamp(d)
    OBVIOUS
  <2>4. /\ span \in Spans /\ keptEnd <= span.start /\ span.start < span.end
    <3>1. d \in Spans
      BY <2>2 DEF Types
    <3>. QED
      BY <2>0, <2>1, <2>3, <3>1, ClampType
  <2>5. spans' = Append(spans, span) /\ keptEnd' = span.end
    BY <2>0, <2>1, <2>3
  <2>6. \A r : Clamp(r)' = Clamp(r)
    BY <2>0 DEF Clamp
  <2>7. /\ Len(spans) \in Nat /\ Len(spans') = Len(spans) + 1 /\ spans'[Len(spans')] = span
        /\ spans' # <<>>
    <3>1. spans \in Seq(Spans)
      BY DEF Types
    <3>. QED
      BY <2>4, <2>5, <3>1
  <2>8. Covered(span)'
    <3>1. Within(span, span) /\ span.start <= span.start
      BY <2>4 DEF Within, Spans
    <3>2. Len(spans') \in 1..Len(spans')
      BY <2>7
    <3>. QED
      BY <2>4, <2>7, <3>1, <3>2 DEF Covered
  <2>9. ASSUME NEW k \in 1..Len(results)
        PROVE  Covered(Clamp(results[k]))' \/ \E j \in 1..Len(todo') : todo'[j] = results[k]
    <3>1. PICK r : r = Clamp(results[k])
      OBVIOUS
    <3>2. r = Clamp(results[k])'
      BY <2>0, <3>1 DEF Clamp
    <3>3. CASE Covered(r)
      <4>1. Covered(r)'
        BY <2>0, <2>5, <3>3, CoveredStays
      <4>. QED
        BY <3>2, <4>1 DEF Covered
    <3>4. CASE \E j \in 1..Len(todo) : todo[j] = results[k]
      <4>1. CASE results[k] = d
        BY <2>3, <2>8, <3>1, <3>2, <4>1 DEF Covered
      <4>. QED
        BY <2>2, <3>4, <4>1
    <3>. QED
      BY <2>0, <3>1, <3>3, <3>4 DEF AllSeen
  <2>10. PICK k \in 1..Len(results) : d = results[k]
    BY <2>2
  <2>11. LastKept(results[k])'
    <3>1. spans'[Len(spans')] = Clamp(results[k])' /\ keptEnd' = Clamp(results[k])'.end
      BY <2>0, <2>3, <2>5, <2>7, <2>10 DEF Clamp
    <3>2. \A j \in 1..Len(todo') : ~Precedes(todo'[j], results'[k])
      BY <2>0, <2>2, <2>10
    <3>. QED
      BY <3>1, <3>2 DEF LastKept, Precedes
  <2>. QED
    BY <2>0, <2>2, <2>7, <2>9, <2>11 DEF AllSeen, Precedes
<1>5. CASE Drop
  <2>. DEFINE d == Head(todo)
  <2>1. /\ stage = "keep" /\ todo # <<>> /\ ~Acceptable(Clamp(d))
        /\ todo' = Tail(todo)
        /\ UNCHANGED <<stage, results, text, spans, keptEnd>>
    BY <1>5 DEF Drop
  <2>2. /\ todo' \in Seq(Spans) /\ Len(todo') = Len(todo) - 1
        /\ \A j \in 1..Len(todo') : todo'[j] = todo[j + 1]
        /\ \A j, l \in 1..Len(todo') : j < l => ~Precedes(todo'[l], todo'[j])
        /\ \A j \in 1..Len(todo') : \E k \in 1..Len(results) : todo'[j] = results[k]
        /\ \A j \in 1..Len(todo) : todo[j] = d \/ \E l \in 1..Len(todo') : todo[j] = todo'[l]
    BY <2>1, HeadFirst
  <2>3. Covered(Clamp(d))
    BY <2>1, DropCovered
  <2>. HIDE DEF d
  <2>4. ASSUME NEW r PROVE Clamp(r)' = Clamp(r) /\ (Covered(Clamp(r))' <=> Covered(Clamp(r)))
    BY <2>1 DEF Clamp, Covered, NonePartial
  <2>5. ASSUME NEW k \in 1..Len(results)
        PROVE  Covered(Clamp(results[k]))' \/ \E j \in 1..Len(todo') : todo'[j] = results[k]
    <3>1. CASE Covered(Clamp(results[k]))
      BY <2>1, <2>4, <3>1
    <3>2. CASE \E j \in 1..Len(todo) : todo[j] = results[k]
      <4>1. CASE results[k] = d
        BY <2>1, <2>3, <2>4, <4>1
      <4>. QED
        BY <2>2, <3>2, <4>1
    <3>. QED
      BY <2>1, <3>1, <3>2 DEF AllSeen
  <2>6. ASSUME NEW k \in 1..Len(results), LastKept(results[k])
        PROVE  LastKept(results[k])'
    <3>1. Len(todo) \in Nat
      BY DEF Types
    <3>2. \A j \in 1..Len(todo') : j + 1 \in 1..Len(todo)
      BY <2>2, <3>1
    <3>. QED
      BY <2>1, <2>2, <2>4, <2>6, <3>2 DEF LastKept, Precedes
  <2>. QED
    BY <2>1, <2>2, <2>5, <2>6 DEF AllSeen, Precedes
<1>6. CASE StartReplacing
  BY <1>6 DEF StartReplacing, AllSeen, LastKept, Covered, NonePartial, Clamp, Precedes
<1>7. CASE Replace
  <2>1. UNCHANGED <<text, stage, todo, spans, keptEnd, results>>
    BY <1>7 DEF Replace
  <2>. QED
    BY SMTT(30), <2>1 DEF AllSeen, LastKept, Covered, NonePartial, Clamp, Precedes
<1>8. CASE UNCHANGED vars
  <2>1. UNCHANGED <<text, stage, todo, spans, keptEnd, results>>
    BY <1>8 DEF vars
  <2>. QED
    BY SMTT(30), <2>1 DEF AllSeen, LastKept, Covered, NonePartial, Clamp, Precedes
<1>. QED
  BY <1>1, <1>2, <1>3, <1>4, <1>5, <1>6, <1>7, <1>8 DEF Next

(***************************************************************************)
(* The invariant holds for every text and everything Presidio may report.  *)
(***************************************************************************)
THEOREM Invariance == Spec => []IInv
<1>1. IInv /\ [Next]_vars => IInv'
  BY NextTypes, NextSpans, NextFront, NextSeen DEF IInv
<1>. QED
  BY InitInv, <1>1, PTL DEF Spec

(***************************************************************************)
(* Type correctness: a span that is kept lies inside the text, and what    *)
(* comes out is a text, however detections and placeholders overlap.       *)
(***************************************************************************)
THEOREM TypeCorrect == Spec => []TypeOK
<1>1. IInv => TypeOK
  <2>. SUFFICES ASSUME IInv PROVE TypeOK
    OBVIOUS
  <2>1. Types /\ SpansInside
    BY DEF IInv
  <2>2. ASSUME NEW k \in DOMAIN spans
        PROVE  spans[k].start \in 0..(Len(text) - 1) /\ spans[k].end \in 1..Len(text)
    <3>1. k \in 1..Len(spans) /\ spans[k] \in Spans /\ Len(text) \in Nat
      BY <2>1 DEF Types, Text
    <3>. QED
      BY <2>1, <3>1 DEF Types, SpansInside, Spans
  <2>. QED
    BY <2>1, <2>2 DEF TypeOK, Types
<1>. QED
  BY <1>1, Invariance, PTL

(***************************************************************************)
(* The spans that are replaced never share a byte and stand in text order. *)
(***************************************************************************)
THEOREM SpansNeverOverlap == Spec => []SpansDisjoint
<1>1. IInv => SpansDisjoint
  BY DEF IInv, Types, SpansApart, SpansDisjoint
<1>. QED
  BY <1>1, Invariance, PTL

(***************************************************************************)
(* No detection is ignored: when the spans are replaced, every detection   *)
(* that is not empty begins inside one of them, and lies inside one if no  *)
(* two detections overlap in part.                                         *)
(***************************************************************************)
THEOREM NoDetectionIgnored == Spec => []DetectionsCovered
<1>1. IInv => DetectionsCovered
  <2>. SUFFICES ASSUME IInv, stage = "replace", NEW r \in Clamped
                PROVE  \E k \in DOMAIN spans :
                         /\ spans[k].start <= r.start /\ r.start < spans[k].end
                         /\ (\A a, b \in Range(results) : ~Partial(a, b)) => Within(r, spans[k])
    BY DEF DetectionsCovered
  <2>1. /\ results \in Seq(Spans) /\ DOMAIN results = 1..Len(results)
        /\ spans \in Seq(Spans) /\ DOMAIN spans = 1..Len(spans)
    BY DEF IInv, Types
  <2>2. PICK n \in 1..Len(results) : r = Clamp(results[n]) /\ r.start < r.end
    BY <2>1 DEF Clamped
  <2>3. Covered(r)
    BY <2>2 DEF IInv, AllSeen
  <2>4. r.start \in Int /\ r.end \in Int
    <3>1. results[n] \in Spans /\ Len(text) \in Nat
      BY <2>1 DEF IInv, Types, Text
    <3>. QED
      BY <2>2, <3>1 DEF Clamp, Spans
  <2>5. (\A a, b \in Range(results) : ~Partial(a, b)) => NonePartial
    BY <2>1 DEF NonePartial, Range
  <2>. QED
    BY <2>1, <2>2, <2>3, <2>4, <2>5 DEF Covered
<1>. QED
  BY <1>1, Invariance, PTL

-----------------------------------------------------------------------------
(***************************************************************************)
(* The restorer and what is proved about it, with the request's own        *)
(* mapping as it is at any time.                                           *)
(***************************************************************************)
RT == INSTANCE RestoreText_proofs WITH Lookup <- placeholderToValue

-----------------------------------------------------------------------------
(***************************************************************************)
(* The part of a text behind place c, up to place a.                       *)
(***************************************************************************)
Part(s, c, a) == SubSeq(s, c + 1, a)

LEMMA PartFacts ==
  ASSUME NEW s \in Text, NEW c \in 0..Len(s), NEW a \in c..Len(s)
  PROVE  /\ Part(s, c, a) \in Text /\ Len(Part(s, c, a)) = a - c
         /\ \A k \in 1..(a - c) : Part(s, c, a)[k] = s[c + k]
BY DEF Text, Part

\* Two parts that meet are one part.
LEMMA PartsMeet ==
  ASSUME NEW s \in Text, NEW c \in 0..Len(s), NEW a \in c..Len(s), NEW b \in a..Len(s)
  PROVE  Part(s, c, a) \o Part(s, a, b) = Part(s, c, b)
<1>1. /\ s \in Seq(Char) /\ c + 1 \in 1..(Len(s) + 1) /\ a \in ((c + 1) - 1)..Len(s)
      /\ b \in a..Len(s)
  BY DEF Text
<1>2. SubSeq(s, c + 1, a) \o SubSeq(s, a + 1, b) = SubSeq(s, c + 1, b)
  BY <1>1, ConcatAdjacentSubSeq
<1>. QED
  BY <1>2 DEF Part

LEMMA TextConcat ==
  ASSUME NEW u \in Text, NEW v \in Text
  PROVE  u \o v \in Text
BY ConcatProperties DEF Text

LEMMA TextAssoc ==
  ASSUME NEW u \in Text, NEW v \in Text, NEW w \in Text
  PROVE  (u \o v) \o w = u \o (v \o w)
BY ConcatAssociative DEF Text

LEMMA ConcatFacts ==
  ASSUME NEW u \in Text, NEW v \in Text
  PROVE  /\ u \o v \in Text /\ Len(u \o v) = Len(u) + Len(v) /\ Len(u) \in Nat /\ Len(v) \in Nat
         /\ \A k \in 1..Len(u) : (u \o v)[k] = u[k]
         /\ \A k \in 1..Len(v) : (u \o v)[Len(u) + k] = v[k]
BY DEF Text

\* Texts of the same length and characters are the same.
LEMMA SameCharacters ==
  ASSUME NEW s \in Text, NEW t \in Text, Len(s) = Len(t), \A k \in 1..Len(s) : s[k] = t[k]
  PROVE  s = t
BY DEF Text

\* What stands behind a front is its part behind the front's length.
LEMMA PartBehind ==
  ASSUME NEW u \in Text, NEW w \in Text, NEW s, s = u \o w
  PROVE  Part(s, Len(u), Len(s)) = w
<1>1. /\ s \in Text /\ Len(u) \in Nat /\ Len(w) \in Nat /\ Len(s) = Len(u) + Len(w)
      /\ \A k \in 1..Len(w) : s[Len(u) + k] = w[k]
  BY DEF Text
<1>2. Len(u) \in 0..Len(s) /\ Len(s) \in Len(u)..Len(s)
  BY <1>1
<1>3. PICK x \in Text : /\ x = Part(s, Len(u), Len(s)) /\ Len(x) = Len(s) - Len(u)
                        /\ \A k \in 1..(Len(s) - Len(u)) : x[k] = s[Len(u) + k]
  BY <1>1, <1>2, PartFacts
<1>4. Len(x) = Len(w) /\ \A k \in 1..Len(x) : x[k] = w[k]
  BY <1>1, <1>3
<1>. QED
  BY <1>3, <1>4, SameCharacters

\* A text is what stands in front of a part, the part, and what is behind it.
LEMMA TextInThree ==
  ASSUME NEW s \in Text, NEW c \in 0..Len(s), NEW a \in c..Len(s), NEW b \in a..Len(s)
  PROVE  Part(s, c, Len(s)) = Part(s, c, a) \o (Part(s, a, b) \o Part(s, b, Len(s)))
<1>1. Len(s) \in Nat /\ a \in 0..Len(s) /\ Len(s) \in b..Len(s) /\ Len(s) \in a..Len(s)
  BY DEF Text
<1>2. Part(s, a, b) \o Part(s, b, Len(s)) = Part(s, a, Len(s))
  BY <1>1, PartsMeet
<1>3. Part(s, c, a) \o Part(s, a, Len(s)) = Part(s, c, Len(s))
  BY <1>1, PartsMeet
<1>. QED
  BY <1>2, <1>3

\* A text in which what stands between a and b is replaced, from c on.
FromPart(o, c, a, x, b) == Part(o, c, a) \o (x \o Part(o, b, Len(o)))
WithPart(o, a, x, b) == Part(o, 0, a) \o x \o Part(o, b, Len(o))

\* What a replacement between a and b leaves behind a front c that ends in
\* front of a.
LEMMA ReplacedBehind ==
  ASSUME NEW o \in Text, NEW x \in Text, NEW new \in Text,
         NEW c \in 0..Len(o), NEW a \in c..Len(o), NEW b \in a..Len(o),
         new = WithPart(o, a, x, b)
  PROVE  Part(new, c, Len(new)) = FromPart(o, c, a, x, b)
<1>1. /\ Len(o) \in Nat /\ 0 \in 0..Len(o) /\ a \in 0..Len(o) /\ b \in 0..Len(o)
      /\ Len(o) \in b..Len(o) /\ a - 0 = a
  BY DEF Text
<1>2. PICK f \in Text : f = Part(o, 0, a) /\ Len(f) = a /\ \A k \in 1..a : f[k] = o[k]
  <2>1. /\ Part(o, 0, a) \in Text /\ Len(Part(o, 0, a)) = a - 0
        /\ \A k \in 1..(a - 0) : Part(o, 0, a)[k] = o[0 + k]
    BY <1>1, PartFacts
  <2>. QED
    BY <1>1, <2>1
<1>3. PICK r \in Text : r = Part(o, b, Len(o))
  BY <1>1, PartFacts
<1>4. PICK y \in Text : y = x \o r
  BY TextConcat
<1>5. new = f \o y
  <2>1. (f \o x) \o r = f \o (x \o r)
    BY SMTT(30), TextAssoc
  <2>. QED
    BY <1>2, <1>3, <1>4, <2>1 DEF WithPart
<1>6. /\ new \in Text /\ Len(new) = a + Len(y) /\ Len(y) \in Nat
      /\ \A k \in 1..a : new[k] = o[k]
  <2>1. /\ f \o y \in Text /\ Len(f \o y) = Len(f) + Len(y) /\ Len(y) \in Nat
        /\ \A k \in 1..Len(f) : (f \o y)[k] = f[k]
    BY ConcatFacts
  <2>. QED
    BY <1>2, <1>5, <2>1
<1>7. c \in 0..Len(new) /\ a \in c..Len(new) /\ Len(new) \in a..Len(new)
  BY <1>1, <1>6
<1>8. Part(new, a, Len(new)) = y
  <2>1. Part(new, Len(f), Len(new)) = y
    BY <1>5, PartBehind
  <2>. QED
    BY <1>2, <2>1
<1>9. Part(new, c, a) = Part(o, c, a)
  <2>1. PICK u \in Text : /\ u = Part(new, c, a) /\ Len(u) = a - c
                          /\ \A k \in 1..(a - c) : u[k] = new[c + k]
    BY <1>6, <1>7, PartFacts
  <2>2. PICK v \in Text : /\ v = Part(o, c, a) /\ Len(v) = a - c
                          /\ \A k \in 1..(a - c) : v[k] = o[c + k]
    BY PartFacts
  <2>3. \A k \in 1..(a - c) : u[k] = v[k]
    <3>1. TAKE k \in 1..(a - c)
    <3>2. c + k \in 1..a
      BY <1>1
    <3>. QED
      BY <1>6, <2>1, <2>2, <3>2
  <2>. QED
    BY <2>1, <2>2, <2>3, SameCharacters
<1>10. Part(new, c, a) \o Part(new, a, Len(new)) = Part(new, c, Len(new))
  BY <1>6, <1>7, PartsMeet
<1>. QED
  BY <1>3, <1>4, <1>8, <1>9, <1>10 DEF FromPart

-----------------------------------------------------------------------------
LEMMA OneCharacter ==
  ASSUME NEW c \in Char
  PROVE  <<c>> \in Text /\ Len(<<c>>) = 1 /\ <<c>>[1] = c
BY DEF Text

LEMMA OneMore ==
  ASSUME NEW u \in Text, NEW c \in Char
  PROVE  /\ u \o <<c>> \in Text /\ Len(u \o <<c>>) = Len(u) + 1 /\ Len(u) \in Nat
         /\ \A k \in 1..Len(u) : (u \o <<c>>)[k] = u[k]
         /\ (u \o <<c>>)[Len(u) + 1] = c
BY DEF Text

FromParts(l, d) == <<Open>> \o l \o <<Underscore>> \o d \o <<Close>>

LEMMA FromPartsType ==
  ASSUME NEW l \in Text, NEW d \in Text
  PROVE  FromParts(l, d) \in Text
<1>1. Open \in Char /\ Underscore \in Char /\ Close \in Char
  BY DEF Char, Word
<1>2. <<Open>> \in Text /\ <<Underscore>> \in Text /\ <<Close>> \in Text
  BY <1>1, OneCharacter
<1>. QED
  BY <1>2, TextConcat DEF FromParts

\* The characters of a placeholder, part by part.
LEMMA FiveParts ==
  ASSUME NEW l \in Text, NEW d \in Text, NEW s \in Text, s = FromParts(l, d)
  PROVE  /\ Len(s) = Len(l) + Len(d) + 3
         /\ s[1] = Open /\ s[Len(l) + 2] = Underscore /\ s[Len(l) + Len(d) + 3] = Close
         /\ \A k \in 1..Len(l) : s[1 + k] = l[k]
         /\ \A k \in 1..Len(d) : s[Len(l) + 2 + k] = d[k]
<1>0. Len(l) \in Nat /\ Len(d) \in Nat
  BY DEF Text
<1>a. PICK x \in Char, y \in Char, z \in Char : x = Open /\ y = Underscore /\ z = Close
  BY DEF Char, Word
<1>1. PICK p \in Text : p = <<x>> \o l
  BY OneCharacter, TextConcat
<1>2. /\ Len(p) = 1 + Len(l) /\ p[1] = x
      /\ \A k \in 1..Len(l) : p[1 + k] = l[k]
  <2>1. /\ Len(<<x>> \o l) = Len(<<x>>) + Len(l)
        /\ \A k \in 1..Len(<<x>>) : (<<x>> \o l)[k] = <<x>>[k]
        /\ \A k \in 1..Len(l) : (<<x>> \o l)[Len(<<x>>) + k] = l[k]
    BY OneCharacter, ConcatFacts
  <2>. QED
    BY <1>1, <2>1, OneCharacter
<1>3. PICK q \in Text : q = p \o <<y>>
  BY OneCharacter, TextConcat
<1>4. /\ Len(q) = 2 + Len(l) /\ \A k \in 1..(1 + Len(l)) : q[k] = p[k]
      /\ q[2 + Len(l)] = y
  <2>1. /\ Len(p \o <<y>>) = Len(p) + 1
        /\ \A k \in 1..Len(p) : (p \o <<y>>)[k] = p[k]
        /\ (p \o <<y>>)[Len(p) + 1] = y
    BY OneMore
  <2>2. Len(p) + 1 = 2 + Len(l)
    BY <1>0, <1>2
  <2>. QED
    BY <1>2, <1>3, <2>1, <2>2
<1>5. PICK r \in Text : r = q \o d
  BY TextConcat
<1>6. /\ Len(r) = 2 + Len(l) + Len(d) /\ \A k \in 1..(2 + Len(l)) : r[k] = q[k]
      /\ \A k \in 1..Len(d) : r[2 + Len(l) + k] = d[k]
  <2>1. /\ Len(q \o d) = Len(q) + Len(d)
        /\ \A k \in 1..Len(q) : (q \o d)[k] = q[k]
        /\ \A k \in 1..Len(d) : (q \o d)[Len(q) + k] = d[k]
    BY ConcatFacts
  <2>. QED
    BY <1>4, <1>5, <2>1
<1>7. s = r \o <<z>>
  BY <1>a, <1>1, <1>3, <1>5 DEF FromParts
<1>8. /\ s \in Text /\ Len(s) = 3 + Len(l) + Len(d)
      /\ \A k \in 1..(2 + Len(l) + Len(d)) : s[k] = r[k]
      /\ s[3 + Len(l) + Len(d)] = z
  <2>1. /\ r \o <<z>> \in Text /\ Len(r \o <<z>>) = Len(r) + 1
        /\ \A k \in 1..Len(r) : (r \o <<z>>)[k] = r[k]
        /\ (r \o <<z>>)[Len(r) + 1] = z
    BY OneMore
  <2>2. Len(r) + 1 = 3 + Len(l) + Len(d)
    BY <1>0, <1>6
  <2>. QED
    BY <1>6, <1>7, <2>1, <2>2
<1>9. s[1] = Open /\ s[Len(l) + 2] = Underscore /\ s[Len(l) + Len(d) + 3] = Close
  <2>1. 1 \in 1..(1 + Len(l)) /\ 1 \in 1..(2 + Len(l)) /\ 1 \in 1..(2 + Len(l) + Len(d))
    BY <1>0
  <2>2. 2 + Len(l) \in 1..(2 + Len(l)) /\ 2 + Len(l) \in 1..(2 + Len(l) + Len(d))
    BY <1>0
  <2>3. Len(l) + 2 = 2 + Len(l) /\ Len(l) + Len(d) + 3 = 3 + Len(l) + Len(d)
    BY <1>0
  <2>. QED
    BY <1>a, <1>2, <1>4, <1>6, <1>8, <2>1, <2>2, <2>3
<1>10. \A k \in 1..Len(l) : s[1 + k] = l[k]
  <2>1. TAKE k \in 1..Len(l)
  <2>2. /\ 1 + k \in 1..(1 + Len(l)) /\ 1 + k \in 1..(2 + Len(l))
        /\ 1 + k \in 1..(2 + Len(l) + Len(d))
    BY <1>0
  <2>. QED
    BY <1>2, <1>4, <1>6, <1>8, <2>2
<1>11. \A k \in 1..Len(d) : s[Len(l) + 2 + k] = d[k]
  BY <1>0, <1>6, <1>8
<1>. QED
  BY <1>0, <1>8, <1>9, <1>10, <1>11

-----------------------------------------------------------------------------
(***************************************************************************)
(* The placeholders that the generator makes: label and index can be read  *)
(* off one, because no digit is an underscore.                             *)
(***************************************************************************)
Placeholder(l, n) == <<Open>> \o l \o <<Underscore>> \o Itoa[n] \o <<Close>>

\* The characters of the placeholder of a label and an index in use.
LEMMA PlaceholderCharacters ==
  ASSUME NEW l \in Range(LabelOf), NEW n \in DOMAIN Itoa
  PROVE  /\ l \in Seq(Word) /\ Len(l) \in 1..MaxLabelLen
         /\ Itoa[n] \in Seq(Digit) /\ Len(Itoa[n]) \in 1..MaxIndexLen
         /\ Placeholder(l, n) \in Text /\ Len(Placeholder(l, n)) = Len(l) + Len(Itoa[n]) + 3
         /\ Placeholder(l, n)[1] = Open
         /\ \A k \in 1..Len(l) : Placeholder(l, n)[1 + k] = l[k]
         /\ Placeholder(l, n)[Len(l) + 2] = Underscore
         /\ \A k \in 1..Len(Itoa[n]) : Placeholder(l, n)[Len(l) + 2 + k] = Itoa[n][k]
         /\ Placeholder(l, n)[Len(l) + Len(Itoa[n]) + 3] = Close
<1>1. /\ l \in Seq(Word) /\ Len(l) \in 1..MaxLabelLen
      /\ Itoa[n] \in Seq(Digit) /\ Len(Itoa[n]) \in 1..MaxIndexLen
  BY AnonymizeAssumption DEF Range
<1>2. PICK d \in Text : d = Itoa[n]
  BY <1>1 DEF Text, Char, Word
<1>3. l \in Text /\ Open \in Char /\ Underscore \in Char /\ Close \in Char
  BY <1>1 DEF Text, Char, Word
<1>4. PICK s \in Text : s = Placeholder(l, n) /\ s = FromParts(l, d)
  BY <1>2, <1>3, FromPartsType DEF Placeholder, FromParts
<1>5. /\ Len(s) = Len(l) + Len(d) + 3
      /\ s[1] = Open /\ s[Len(l) + 2] = Underscore /\ s[Len(l) + Len(d) + 3] = Close
      /\ \A k \in 1..Len(l) : s[1 + k] = l[k]
      /\ \A k \in 1..Len(d) : s[Len(l) + 2 + k] = d[k]
  BY <1>3, <1>4, FiveParts
<1>. QED
  BY <1>1, <1>2, <1>4, <1>5

\* What the generator makes is recognised as a complete placeholder.
LEMMA PlaceholderComplete ==
  ASSUME NEW l \in Range(LabelOf), NEW n \in DOMAIN Itoa
  PROVE  CompletePlaceholder(Placeholder(l, n))
<1>1. PICK d \in Seq(Digit) : d = Itoa[n] /\ Len(d) \in 1..MaxIndexLen
  BY PlaceholderCharacters
<1>2. PICK m \in 1..MaxLabelLen : m = Len(l) /\ l \in Seq(Word)
  BY PlaceholderCharacters
<1>3. PICK e \in 1..MaxIndexLen : e = Len(d)
  BY <1>1
<1>4. PICK s : s = Placeholder(l, n)
  OBVIOUS
<1>5. /\ Len(s) = m + e + 3 /\ s[1] = Open
      /\ \A k \in 1..m : s[1 + k] = l[k]
      /\ s[m + 2] = Underscore
      /\ \A k \in 1..e : s[m + 2 + k] = d[k]
      /\ s[m + e + 3] = Close
  BY <1>1, <1>2, <1>3, <1>4, PlaceholderCharacters
<1>6. m \in Nat /\ e \in Nat
  BY FormatAssumption
<1>7. \A k \in 2..(m + 1) : s[k] \in Word
  <2>1. TAKE k \in 2..(m + 1)
  <2>2. k - 1 \in 1..m /\ 1 + (k - 1) = k
    BY <1>6
  <2>3. s[k] = l[k - 1]
    BY <1>5, <2>2
  <2>. QED
    BY <1>2, <2>2, <2>3
<1>8. \A k \in (m + 3)..(m + e + 2) : s[k] \in Digit
  <2>1. TAKE k \in (m + 3)..(m + e + 2)
  <2>2. k - m - 2 \in 1..e /\ m + 2 + (k - m - 2) = k
    BY <1>6
  <2>3. s[k] = d[k - m - 2]
    BY <1>5, <2>2
  <2>. QED
    BY <1>1, <1>3, <2>2, <2>3
<1>. QED
  BY <1>4, <1>5, <1>7, <1>8 DEF CompletePlaceholder

\* A placeholder by its label, its digits and where these stand.
Spelled(s, l, d) ==
  /\ l \in Seq(Word) /\ d \in Seq(Digit) /\ Len(l) \in Nat /\ Len(d) \in Nat /\ Len(d) > 0
  /\ Len(s) = Len(l) + Len(d) + 3
  /\ \A j \in 1..Len(l) : s[1 + j] = l[j]
  /\ s[Len(l) + 2] = Underscore
  /\ \A j \in 1..Len(d) : s[Len(l) + 2 + j] = d[j]

LEMMA PlaceholderSpelled ==
  ASSUME NEW l \in Range(LabelOf), NEW n \in DOMAIN Itoa
  PROVE  Spelled(Placeholder(l, n), l, Itoa[n])
<1>1. Len(l) \in 1..MaxLabelLen /\ Len(Itoa[n]) \in 1..MaxIndexLen
  BY PlaceholderCharacters
<1>2. Len(l) \in Nat /\ Len(Itoa[n]) \in Nat /\ Len(Itoa[n]) > 0
  BY <1>1, FormatAssumption
<1>. QED
  BY <1>2, PlaceholderCharacters DEF Spelled

\* The underscore in front of the digits is the last one.
LEMMA LastUnderscore ==
  ASSUME NEW s, NEW l, NEW d, NEW m, NEW e, Spelled(s, l, d), Spelled(s, m, e)
  PROVE  ~(Len(l) < Len(m))
<1>. SUFFICES ASSUME Len(l) < Len(m) PROVE FALSE
  OBVIOUS
<1>. USE DEF Spelled
<1>1. PICK j \in 1..Len(d) : Len(l) + 2 + j = Len(m) + 2
  <2>1. Len(m) - Len(l) \in 1..Len(d) /\ Len(l) + 2 + (Len(m) - Len(l)) = Len(m) + 2
    OBVIOUS
  <2>. QED
    BY <2>1
<1>2. s[Len(m) + 2] = d[j] /\ d[j] \in Digit
  BY <1>1
<1>. QED
  BY <1>2, FormatAssumption

\* A placeholder can be read in one way only.
LEMMA SpelledOnce ==
  ASSUME NEW s, NEW l, NEW d, NEW m, NEW e, Spelled(s, l, d), Spelled(s, m, e)
  PROVE  l = m /\ d = e
<1>1. Len(l) = Len(m)
  <2>1. ~(Len(l) < Len(m)) /\ ~(Len(m) < Len(l))
    BY LastUnderscore
  <2>. QED
    BY <2>1 DEF Spelled
<1>2. Len(d) = Len(e)
  BY <1>1 DEF Spelled
<1>3. l = m
  <2>1. l \in Seq(Word) /\ m \in Seq(Word) /\ \A j \in 1..Len(l) : l[j] = m[j]
    BY <1>1 DEF Spelled
  <2>. QED
    BY <1>1, <2>1
<1>4. d = e
  <2>1. d \in Seq(Digit) /\ e \in Seq(Digit) /\ \A j \in 1..Len(d) : d[j] = e[j]
    BY <1>1, <1>2 DEF Spelled
  <2>. QED
    BY <1>2, <2>1
<1>. QED
  BY <1>3, <1>4

\* Label and index are told apart by the placeholder.
LEMMA PlaceholderUnique ==
  ASSUME NEW l \in Range(LabelOf), NEW n \in DOMAIN Itoa, NEW m \in Range(LabelOf), NEW k \in DOMAIN Itoa,
         Placeholder(l, n) = Placeholder(m, k)
  PROVE  l = m /\ n = k
<1>1. Spelled(Placeholder(l, n), l, Itoa[n]) /\ Spelled(Placeholder(l, n), m, Itoa[k])
  BY PlaceholderSpelled
<1>2. l = m /\ Itoa[n] = Itoa[k]
  BY <1>1, SpelledOnce
<1>. QED
  BY <1>2, AnonymizeAssumption

-----------------------------------------------------------------------------
(***************************************************************************)
(* The two maps of the generator agree, and a placeholder that is in use   *)
(* has an index that its label has reached.                                *)
(***************************************************************************)
Labels == Range(LabelOf)

Used(ph, l, n) == n <= labelCounts[l] /\ ph = Placeholder(l, n)

Maps ==
  /\ labelCounts \in [Labels -> Nat]
  /\ \A v \in DOMAIN valueToPlaceholder :
       /\ valueToPlaceholder[v] \in DOMAIN placeholderToValue
       /\ placeholderToValue[valueToPlaceholder[v]] = v
  /\ \A ph \in DOMAIN placeholderToValue :
       /\ placeholderToValue[ph] \in Text
       /\ \E l \in Labels : \E n \in DOMAIN Itoa : Used(ph, l, n)

\* PlaceholderFor adds to the maps and changes nothing in them.
Grows ==
  /\ \A v \in DOMAIN valueToPlaceholder :
       v \in DOMAIN valueToPlaceholder' /\ valueToPlaceholder'[v] = valueToPlaceholder[v]
  /\ \A ph \in DOMAIN placeholderToValue :
       ph \in DOMAIN placeholderToValue' /\ placeholderToValue'[ph] = placeholderToValue[ph]

\* PlaceholderFor keeps the maps in agreement, whether the value is new or not.
LEMMA PlaceholderForMaps ==
  ASSUME Maps, NEW value \in Text, NEW entity \in EntityTypes, PlaceholderFor(value, entity)
  PROVE  Maps' /\ Grows /\ value \in DOMAIN valueToPlaceholder'
<1>1. CASE value \in DOMAIN valueToPlaceholder
  <2>1. UNCHANGED gen
    BY <1>1 DEF PlaceholderFor
  <2>. QED
    BY <1>1, <2>1 DEF gen, Maps, Grows, Used
<1>2. CASE value \notin DOMAIN valueToPlaceholder
  <2>1. PICK l \in Labels : l = LabelOf[entity]
    BY AnonymizeAssumption DEF Labels, Range
  <2>2. PICK n \in Nat : n = labelCounts[l] + 1
    BY DEF Maps
  <2>3. PICK ph : ph = Placeholder(l, n)
    OBVIOUS
  <2>4. /\ n \in DOMAIN Itoa
        /\ labelCounts' = [labelCounts EXCEPT ![l] = n]
        /\ valueToPlaceholder' = Put(valueToPlaceholder, value, ph)
        /\ placeholderToValue' = Put(placeholderToValue, ph, value)
    BY <1>2, <2>1, <2>2, <2>3 DEF PlaceholderFor, Placeholder
  <2>5. ph \notin DOMAIN placeholderToValue
    <3>. SUFFICES ASSUME ph \in DOMAIN placeholderToValue PROVE FALSE
      OBVIOUS
    <3>1. PICK m \in Labels, k \in DOMAIN Itoa : Used(ph, m, k)
      BY DEF Maps
    <3>2. m = l /\ k = n
      BY <2>3, <2>4, <3>1, PlaceholderUnique DEF Used, Labels
    <3>. QED
      BY <2>1, <2>2, <3>1, <3>2 DEF Used, Maps
  <2>6. /\ DOMAIN valueToPlaceholder' = DOMAIN valueToPlaceholder \cup {value}
        /\ valueToPlaceholder'[value] = ph
        /\ \A v \in DOMAIN valueToPlaceholder : valueToPlaceholder'[v] = valueToPlaceholder[v]
    BY <1>2, <2>4 DEF Put
  <2>7. /\ DOMAIN placeholderToValue' = DOMAIN placeholderToValue \cup {ph}
        /\ placeholderToValue'[ph] = value
        /\ \A q \in DOMAIN placeholderToValue : placeholderToValue'[q] = placeholderToValue[q]
    BY <2>4, <2>5 DEF Put
  <2>8. Grows
    BY <2>6, <2>7 DEF Grows
  <2>9. /\ labelCounts' \in [Labels -> Nat] /\ labelCounts'[l] = n
        /\ \A m \in Labels : labelCounts[m] <= labelCounts'[m]
    BY <2>2, <2>4 DEF Maps
  <2>10. ASSUME NEW v \in DOMAIN valueToPlaceholder'
         PROVE  /\ valueToPlaceholder'[v] \in DOMAIN placeholderToValue'
                /\ placeholderToValue'[valueToPlaceholder'[v]] = v
    BY <2>6, <2>7 DEF Maps
  <2>11. ASSUME NEW q \in DOMAIN placeholderToValue'
         PROVE  /\ placeholderToValue'[q] \in Text
                /\ \E m \in Labels : \E k \in DOMAIN Itoa : k <= labelCounts'[m] /\ q = Placeholder(m, k)
    <3>1. CASE q = ph
      BY <2>2, <2>3, <2>4, <2>7, <2>9, <3>1
    <3>2. CASE q \in DOMAIN placeholderToValue
      <4>1. PICK m \in Labels, k \in DOMAIN Itoa : k <= labelCounts[m] /\ q = Placeholder(m, k)
        BY <3>2 DEF Maps, Used
      <4>2. k \in Int
        BY AnonymizeAssumption
      <4>. QED
        BY <2>7, <2>9, <3>2, <4>1, <4>2 DEF Maps
    <3>. QED
      BY <2>7, <3>1, <3>2
  <2>. QED
    BY <2>6, <2>8, <2>9, <2>10, <2>11 DEF Maps, Used
<1>. QED
  BY <1>1, <1>2

-----------------------------------------------------------------------------
(***************************************************************************)
(* The facts about scrubbed texts, for the mapping as it is at any time.   *)
(***************************************************************************)
LEMMA Restorer == RT!FormatAssumption /\ RT!Text = Text
<1>1. RT!FormatAssumption
  BY FormatAssumption DEF RT!FormatAssumption, RT!Open, Open, RT!Close, Close, RT!Underscore, Underscore
<1>2. RT!Text = Text
  BY DEF RT!Text, Text, RT!Char, Char, RT!Word, Word, RT!Open, Open, RT!Close, Close, RT!Underscore, Underscore
<1>. QED
  BY <1>1, <1>2

\* A text is a scrubbed form of itself.
LEMMA ScrubbedLiteral == \A f : \A x \in Text : RT!Scrubbed(f, x, x)
<1>1. \A f : \A x \in RT!Text : RT!Scrubbed(f, x, x)
  BY Restorer, RT!ScrubbedLiteral
<1>. QED
  BY <1>1, Restorer

\* A literal and a placeholder in front of a scrubbed form.
LEMMA ScrubbedStep ==
  \A f : \A o, t, l \in Text : \A ph \in DOMAIN f :
    RT!Scrubbed(f, o, t) => RT!Scrubbed(f, l \o (ph \o o), l \o (f[ph] \o t))
<1>1. \A f : \A o, t, l \in RT!Text : \A ph \in DOMAIN f :
        RT!Scrubbed(f, o, t) => RT!Scrubbed(f, l \o (ph \o o), l \o (f[ph] \o t))
  BY Restorer, RT!ScrubbedStep
<1>. QED
  BY <1>1, Restorer

\* A form scrubbed under a mapping is one under a mapping that extends it.
LEMMA ScrubbedGrows ==
  \A f, g : (\A ph \in DOMAIN f : ph \in DOMAIN g /\ g[ph] = f[ph]) =>
    \A o, t : RT!Scrubbed(f, o, t) => RT!Scrubbed(g, o, t)
BY Restorer, RT!ScrubbedGrows

\* Two texts that agree up to e agree in every part up to there.
LEMMA SamePart ==
  ASSUME NEW o \in Text, NEW t \in Text, NEW e \in Nat, e <= Len(o), e <= Len(t),
         \A p \in 1..e : o[p] = t[p],
         NEW a \in 0..e, NEW c \in 0..a
  PROVE  Part(o, c, a) = Part(t, c, a)
<1>1. Len(o) \in Nat /\ Len(t) \in Nat /\ c \in 0..Len(o) /\ a \in c..Len(o)
      /\ c \in 0..Len(t) /\ a \in c..Len(t)
  BY DEF Text
<1>2. PICK u \in Text : /\ u = Part(o, c, a) /\ Len(u) = a - c
                        /\ \A k \in 1..(a - c) : u[k] = o[c + k]
  BY <1>1, PartFacts
<1>3. PICK v \in Text : /\ v = Part(t, c, a) /\ Len(v) = a - c
                        /\ \A k \in 1..(a - c) : v[k] = t[c + k]
  BY <1>1, PartFacts
<1>4. \A k \in 1..(a - c) : u[k] = v[k]
  <2>1. TAKE k \in 1..(a - c)
  <2>2. c + k \in 1..e
    OBVIOUS
  <2>. QED
    BY <1>2, <1>3, <2>2
<1>. QED
  BY <1>2, <1>3, <1>4, SameCharacters

-----------------------------------------------------------------------------
(***************************************************************************)
(* Behind the last byte that may still be replaced the output is a scrubbed*)
(* form of the text; so is every output that has been returned.            *)
(***************************************************************************)
Edge == IF i = 0 THEN 0 ELSE spans[i].end

TailScrubbed ==
  stage = "replace" =>
    RT!Scrubbed(placeholderToValue, Part(out, Edge, Len(out)), Part(text, Edge, Len(text)))

AllScrubbed ==
  /\ finished \in Seq([text : Text, out : Text, found : Nat])
  /\ \A k \in 1..Len(finished) : RT!Scrubbed(placeholderToValue, finished[k].out, finished[k].text)

(***************************************************************************)
(* One replacement puts a literal and a placeholder in front of what was   *)
(* scrubbed already, and on the side of the text its plaintext.            *)
(***************************************************************************)
LEMMA ReplaceScrubs ==
  ASSUME IInv, Maps, TailScrubbed, Replace
  PROVE  Maps' /\ Grows /\ TailScrubbed'
<1>. USE DEF IInv
<1>1. /\ i \in 1..Len(spans) /\ spans[i] \in Spans /\ i' = i - 1 /\ UNCHANGED <<text, spans>>
      /\ out \in Text /\ text \in Text
  BY ReplaceMoves
<1>2. PICK s \in Nat, e \in Nat :
        /\ s = spans[i].start /\ e = spans[i].end /\ s < e
        /\ e <= Len(out) /\ \A p \in 1..e : out[p] = text[p]
  BY <1>1 DEF SpansInside, FrontUntouched, Spans
<1>3. e <= Len(text) /\ Len(out) \in Nat /\ Len(text) \in Nat
  BY <1>1, <1>2 DEF SpansInside, Types, Text
<1>4. PICK value \in Text : value = Part(out, s, e) /\ value = Part(text, s, e)
  <2>1. s \in 0..Len(out) /\ e \in s..Len(out) /\ e \in 0..e /\ s \in 0..e
    BY <1>2, <1>3
  <2>2. Part(out, s, e) \in Text
    BY <1>1, <2>1, PartFacts
  <2>3. Part(out, s, e) = Part(text, s, e)
    BY <1>1, <1>2, <1>3, <2>1, SamePart
  <2>. QED
    BY <2>2, <2>3
<1>5. PlaceholderFor(value, spans[i].entity) /\ spans[i].entity \in EntityTypes
  BY <1>1, <1>2, <1>4 DEF Replace, Part, Spans
<1>6. Maps' /\ Grows /\ value \in DOMAIN valueToPlaceholder'
  BY <1>5, PlaceholderForMaps
<1>7. PICK ph \in Text : ph = valueToPlaceholder'[value]
  BY <1>5, PlaceholderIsText
<1>8. ph \in DOMAIN placeholderToValue' /\ placeholderToValue'[ph] = value
  BY <1>6, <1>7 DEF Maps
<1>9. out' = Part(out, 0, s) \o ph \o Part(out, e, Len(out))
  <2>1. out' = SubSeq(out, 1, s) \o ph \o SubSeq(out, e + 1, Len(out))
    BY <1>2, <1>4, <1>7 DEF Replace, Part
  <2>2. 0 + 1 = 1
    OBVIOUS
  <2>. QED
    BY <2>1, <2>2 DEF Part
<1>10. e = Edge
  BY <1>1, <1>2 DEF Edge
<1>11. Edge' \in Nat /\ Edge' <= s
  <2>1. CASE i = 1
    BY <1>1, <1>2, <2>1 DEF Edge
  <2>2. CASE i # 1
    <3>1. i - 1 \in 1..Len(spans) /\ i - 1 < i /\ Edge' = spans[i - 1].end
      BY <1>1, <2>2 DEF Edge
    <3>2. spans[i - 1].end <= s
      BY <1>1, <1>2, <3>1 DEF SpansApart
    <3>3. spans[i - 1].start \in Int /\ spans[i - 1].end \in Int
      <4>1. spans[i - 1] \in Spans
        BY <3>1 DEF Types
      <4>. QED
        BY <4>1 DEF Spans
    <3>. QED
      BY <3>1, <3>2, <3>3 DEF SpansInside
  <2>. QED
    BY <2>1, <2>2
<1>12. PICK c \in Nat : c = Edge' /\ c <= s
  BY <1>11
<1>13. PICK l \in Text : l = Part(out, c, s) /\ l = Part(text, c, s)
  <2>1. s \in 0..e /\ c \in 0..s /\ c \in 0..Len(out) /\ s \in c..Len(out)
    BY <1>2, <1>3, <1>12
  <2>2. Part(out, c, s) \in Text
    BY <1>1, <2>1, PartFacts
  <2>3. Part(out, c, s) = Part(text, c, s)
    BY ZenonT(60), <1>1, <1>2, <1>3, <2>1, SamePart
  <2>. QED
    BY <2>2, <2>3
<1>14. PICK o \in Text, t \in Text : o = Part(out, e, Len(out)) /\ t = Part(text, e, Len(text))
  <2>1. /\ e \in 0..Len(out) /\ Len(out) \in e..Len(out)
        /\ e \in 0..Len(text) /\ Len(text) \in e..Len(text)
    BY <1>2, <1>3
  <2>. QED
    BY <1>1, <2>1, PartFacts
<1>15. Part(out', c, Len(out')) = l \o (ph \o o)
  <2>1. c \in 0..Len(out) /\ s \in c..Len(out) /\ e \in s..Len(out)
    BY <1>2, <1>3, <1>12
  <2>2. PICK new \in Text : new = out' /\ new = WithPart(out, s, ph, e)
    BY <1>9, ReplaceFacts DEF WithPart
  <2>3. Part(new, c, Len(new)) = FromPart(out, c, s, ph, e)
    BY <1>1, <2>1, <2>2, ReplacedBehind
  <2>. QED
    BY <1>13, <1>14, <2>2, <2>3 DEF FromPart
<1>16. Part(text, c, Len(text)) = l \o (value \o t)
  <2>1. c \in 0..Len(text) /\ s \in c..Len(text) /\ e \in s..Len(text)
    BY <1>2, <1>3, <1>12
  <2>2. Part(text, c, Len(text)) = Part(text, c, s) \o (Part(text, s, e) \o Part(text, e, Len(text)))
    BY <1>1, <2>1, TextInThree
  <2>. QED
    BY <1>4, <1>13, <1>14, <2>2
<1>17. RT!Scrubbed(placeholderToValue', o, t)
  <2>1. RT!Scrubbed(placeholderToValue, o, t)
    BY <1>2, <1>10, <1>14 DEF TailScrubbed, Replace
  <2>. QED
    BY <1>6, <2>1, ScrubbedGrows DEF Grows
<1>18. RT!Scrubbed(placeholderToValue', l \o (ph \o o), l \o (value \o t))
  BY <1>8, <1>17, ScrubbedStep
<1>19. RT!Scrubbed(placeholderToValue', Part(out', c, Len(out')), Part(text', c, Len(text')))
  BY <1>1, <1>15, <1>16, <1>18
<1>20. TailScrubbed'
  BY <1>12, <1>19 DEF TailScrubbed, Part, RT!Scrubbed, RT!ScrubClosed, RT!Text
<1>. QED
  BY <1>6, <1>20

-----------------------------------------------------------------------------
ScrubInv == Maps /\ TailScrubbed /\ AllScrubbed

\* Nothing is mapped and nothing is returned at the start.
LEMMA InitScrub == Init => ScrubInv
<1>. SUFFICES ASSUME Init PROVE ScrubInv
  OBVIOUS
<1>1. Maps
  BY DEF Init, Maps, Labels
<1>2. TailScrubbed /\ AllScrubbed
  BY DEF Init, TailScrubbed, AllScrubbed
<1>. QED
  BY <1>1, <1>2 DEF ScrubInv

\* What was returned stays scrubbed while the mapping stays or grows.
LEMMA AllScrubbedStays ==
  ASSUME AllScrubbed, UNCHANGED finished,
         \A ph \in DOMAIN placeholderToValue :
           ph \in DOMAIN placeholderToValue' /\ placeholderToValue'[ph] = placeholderToValue[ph]
  PROVE  AllScrubbed'
<1>1. ASSUME NEW k \in 1..Len(finished)
      PROVE  RT!Scrubbed(placeholderToValue', finished[k].out, finished[k].text)
  <2>1. RT!Scrubbed(placeholderToValue, finished[k].out, finished[k].text)
    BY DEF AllScrubbed
  <2>. QED
    BY <2>1, ScrubbedGrows
<1>. QED
  BY <1>1 DEF AllScrubbed, RT!Scrubbed, RT!ScrubClosed, RT!Text

\* One more scrubbed text is returned.
LEMMA AllScrubbedMore ==
  ASSUME AllScrubbed, UNCHANGED placeholderToValue, NEW t \in Text, NEW o \in Text, NEW n \in Nat,
         RT!Scrubbed(placeholderToValue, o, t),
         finished' = Append(finished, [text |-> t, out |-> o, found |-> n])
  PROVE  AllScrubbed'
<1>1. PICK m \in [text : Text, out : Text, found : Nat] : m = [text |-> t, out |-> o, found |-> n]
  OBVIOUS
<1>2. /\ finished' \in Seq([text : Text, out : Text, found : Nat])
      /\ Len(finished) \in Nat /\ Len(finished') = Len(finished) + 1
      /\ \A k \in 1..Len(finished) : finished'[k] = finished[k]
      /\ finished'[Len(finished')] = m
  BY <1>1 DEF AllScrubbed
<1>3. ASSUME NEW k \in 1..Len(finished')
      PROVE  RT!Scrubbed(placeholderToValue', finished'[k].out, finished'[k].text)
  <2>1. CASE k \in 1..Len(finished)
    BY <1>2, <2>1 DEF AllScrubbed
  <2>2. CASE k = Len(finished')
    BY <1>1, <1>2, <2>2
  <2>. QED
    BY <1>2, <2>1, <2>2
<1>. QED
  BY <1>2, <1>3 DEF AllScrubbed, RT!Scrubbed, RT!ScrubClosed, RT!Text

\* One step per action.
LEMMA NextScrub == IInv /\ ScrubInv /\ [Next]_vars => ScrubInv'
<1>. SUFFICES ASSUME IInv, ScrubInv, [Next]_vars PROVE ScrubInv'
  OBVIOUS
<1>. USE DEF ScrubInv
<1>a. ASSUME UNCHANGED gen PROVE Maps'
  BY <1>a DEF gen, Maps, Used
<1>b. ASSUME UNCHANGED <<gen, finished>> PROVE AllScrubbed'
  BY <1>b, AllScrubbedStays DEF gen
<1>c. ASSUME stage' # "replace" PROVE TailScrubbed'
  BY <1>c DEF TailScrubbed
<1>d. text \in Text /\ out \in Text
  BY DEF IInv, Types
<1>1. ASSUME NEW t \in Texts, Call(t) PROVE ScrubInv'
  <2>1. UNCHANGED gen /\ stage' # "replace"
    BY <1>1 DEF Call
  <2>2. CASE t = <<>>
    <3>1. finished' = Append(finished, [text |-> t, out |-> t, found |-> 0]) /\ t \in Text
      BY <1>1, <2>2, AnonymizeAssumption DEF Call
    <3>2. RT!Scrubbed(placeholderToValue, t, t)
      BY <3>1, ScrubbedLiteral
    <3>3. AllScrubbed'
      BY <2>1, <3>1, <3>2, AllScrubbedMore DEF gen
    <3>. QED
      BY <1>a, <1>c, <2>1, <3>3
  <2>3. CASE t # <<>>
    BY <1>1, <1>a, <1>b, <1>c, <2>1, <2>3 DEF Call
  <2>. QED
    BY <2>2, <2>3
<1>2. CASE AnalyzeFails \/ Analyze \/ Keep \/ Drop
  <2>1. UNCHANGED <<gen, finished>> /\ stage' # "replace"
    BY <1>2 DEF AnalyzeFails, Analyze, Keep, Drop
  <2>. QED
    BY <1>a, <1>b, <1>c, <2>1
<1>3. CASE StartReplacing
  <2>1. /\ UNCHANGED <<gen, finished, text, spans>> /\ stage' = "replace"
        /\ i' = Len(spans) /\ out' = text
    BY <1>3 DEF StartReplacing
  <2>2. PICK x \in Text : x = Part(text, Edge', Len(text))
    <3>1. Edge' \in 0..Len(text)
      <4>1. CASE Len(spans) = 0
        BY <1>d, <2>1, <4>1 DEF Edge, Text
      <4>2. CASE Len(spans) # 0
        <5>1. Len(spans) \in 1..Len(spans) /\ Edge' = spans[Len(spans)].end
          BY <2>1, <4>2 DEF Edge, IInv, Types
        <5>2. spans[Len(spans)] \in Spans
          BY <5>1 DEF IInv, Types
        <5>3. /\ 0 <= spans[Len(spans)].start /\ spans[Len(spans)].start < spans[Len(spans)].end
              /\ spans[Len(spans)].end <= keptEnd
          BY <5>1 DEF IInv, SpansInside
        <5>4. spans[Len(spans)].start \in Int /\ spans[Len(spans)].end \in Int
          BY <5>2 DEF Spans
        <5>5. keptEnd \in 0..Len(text) /\ Len(text) \in Nat
          BY DEF IInv, Types, Text
        <5>. QED
          BY <5>1, <5>3, <5>4, <5>5
      <4>. QED
        BY <4>1, <4>2
    <3>2. Len(text) \in Edge'..Len(text)
      BY <1>d, <3>1 DEF Text
    <3>. QED
      BY <1>d, <3>1, <3>2, PartFacts
  <2>3. RT!Scrubbed(placeholderToValue', x, x)
    BY ScrubbedLiteral
  <2>4. TailScrubbed'
    BY <2>1, <2>2, <2>3 DEF TailScrubbed, Part, RT!Scrubbed, RT!ScrubClosed, RT!Text
  <2>. QED
    BY <1>a, <1>b, <2>1, <2>4
<1>4. CASE Replace
  <2>1. Maps' /\ Grows /\ TailScrubbed'
    BY <1>4, ReplaceScrubs
  <2>2. AllScrubbed'
    BY <1>4, <2>1, AllScrubbedStays DEF Grows, Replace
  <2>. QED
    BY <2>1, <2>2
<1>5. CASE Return
  <2>1. /\ UNCHANGED gen /\ stage' # "replace" /\ stage = "replace" /\ i = 0
        /\ finished' = Append(finished, [text |-> text, out |-> out, found |-> Len(results)])
        /\ Len(results) \in Nat
    BY <1>5 DEF Return, IInv, Types
  <2>2. Part(out, Edge, Len(out)) = out /\ Part(text, Edge, Len(text)) = text
    <3>1. Edge = 0 /\ 0 + 1 = 1
      BY <2>1 DEF Edge
    <3>2. SubSeq(out, 1, Len(out)) = out /\ SubSeq(text, 1, Len(text)) = text
      BY <1>d, SubSeqFull DEF Text
    <3>. QED
      BY <3>1, <3>2 DEF Part
  <2>3. RT!Scrubbed(placeholderToValue, out, text)
    BY <2>1, <2>2 DEF TailScrubbed
  <2>4. AllScrubbed'
    BY <1>d, <2>1, <2>3, AllScrubbedMore DEF gen
  <2>. QED
    BY <1>a, <1>c, <2>1, <2>4
<1>6. CASE UNCHANGED vars
  <2>1. UNCHANGED <<gen, finished, text, stage, i, out, spans>>
    BY <1>6 DEF vars, gen
  <2>2. TailScrubbed'
    BY <2>1 DEF gen, TailScrubbed, Edge, Part, RT!Scrubbed, RT!ScrubClosed, RT!Text
  <2>. QED
    BY <1>a, <1>b, <2>1, <2>2
<1>. QED
  BY <1>1, <1>2, <1>3, <1>4, <1>5, <1>6 DEF Next

-----------------------------------------------------------------------------
(***************************************************************************)
(* The mappings agree, and every text returned is a scrubbed form of what  *)
(* came in, after every step.                                              *)
(***************************************************************************)
THEOREM ScrubInvariance == Spec => []ScrubInv
<1>1. IInv /\ ScrubInv /\ [Next]_vars => ScrubInv'
  BY NextScrub
<1>. QED
  BY InitScrub, Invariance, <1>1, PTL DEF Spec

(***************************************************************************)
(* Every text of a request comes back: restoring what was returned for it  *)
(* gives the text, however it was cut up, if it named no placeholder of the*)
(* request itself and leaves no "<" open in front of one.                  *)
(***************************************************************************)
THEOREM ScrubbingIsUndone == Spec => []RoundTrip
<1>1. IInv /\ ScrubInv => RoundTrip
  <2>. SUFFICES ASSUME IInv, ScrubInv, NEW k \in DOMAIN finished,
                       Restoring!KnownAt(finished[k].text) = {},
                       Restoring!NoStrayOpen(finished[k].out)
                PROVE  Restoring!RestoreString(finished[k].out) = finished[k].text
    BY DEF RoundTrip
  <2>1. PICK o \in Text, t \in Text :
          /\ o = finished[k].out /\ t = finished[k].text
          /\ RT!Scrubbed(placeholderToValue, o, t)
    <3>1. k \in 1..Len(finished) /\ finished[k] \in [text : Text, out : Text, found : Nat]
      <4>1. PICK R : R = [text : Text, out : Text, found : Nat]
        OBVIOUS
      <4>2. finished \in Seq(R)
        BY <4>1 DEF ScrubInv, AllScrubbed
      <4>3. k \in 1..Len(finished) /\ finished[k] \in R
        BY <4>2
      <4>. QED
        BY <4>1, <4>3
    <3>. QED
      BY <3>1 DEF ScrubInv, AllScrubbed
  <2>2. o \in RT!Text /\ t \in RT!Text
    BY Restorer
  <2>3. RT!WellFormedLookup
    <3>1. ASSUME NEW ph \in DOMAIN placeholderToValue
          PROVE  ph \in Text /\ CompletePlaceholder(ph) /\ placeholderToValue[ph] \in Text
      <4>1. PICK l \in Labels, n \in DOMAIN Itoa : ph = Placeholder(l, n)
        BY DEF ScrubInv, Maps, Used
      <4>2. ph \in Text
        BY <4>1, PlaceholderCharacters DEF Labels
      <4>3. CompletePlaceholder(ph)
        BY <4>1, PlaceholderComplete DEF Labels
      <4>. QED
        BY <4>2, <4>3 DEF ScrubInv, Maps
    <3>2. \A s : RT!CompletePlaceholder(s) = CompletePlaceholder(s)
      BY DEF RT!CompletePlaceholder, CompletePlaceholder, RT!Word, Word, RT!Open, Open,
             RT!Close, Close, RT!Underscore, Underscore
    <3>. QED
      BY <3>1, <3>2, Restorer DEF RT!WellFormedLookup
  <2>4. RT!KnownAt(t) = {} /\ RT!NoStrayOpen(o)
    <3>1. \A s : Restoring!KnownAt(s) = RT!KnownAt(s)
      BY DEF Restoring!KnownAt, RT!KnownAt
    <3>2. \A s : Restoring!NoStrayOpen(s) = RT!NoStrayOpen(s)
      BY DEF Restoring!NoStrayOpen, RT!NoStrayOpen, Restoring!KnownAt, RT!KnownAt,
             RT!Open, RT!Close, Restoring!Open, Restoring!Close
    <3>. QED
      BY <2>1, <3>1, <3>2
  <2>5. RT!RestoreEach(o) = t
    BY <2>1, <2>2, <2>3, <2>4, Restorer, RT!RestoringUndoesScrubbing
  <2>6. RT!RestoreString(o) = RT!RestoreEach(o)
    BY <2>2, <2>3, <2>4, Restorer, RT!ScanRestoresEach
  <2>7. Restoring!RestoreString(o) = RT!RestoreString(o)
    BY DEF Restoring!RestoreString, RT!RestoreString, Restoring!Occurrences, RT!Occurrences,
           Restoring!Resolve, RT!Resolve, RT!Open, RT!Close, Restoring!Open, Restoring!Close,
           RT!Min, Restoring!Min
  <2>. QED
    BY <2>1, <2>5, <2>6, <2>7
<1>. QED
  BY <1>1, Invariance, ScrubInvariance, PTL

-----------------------------------------------------------------------------
(***************************************************************************)
(* The elements that Replaced(n) puts together, for any mapping f of values*)
(* to placeholders.                                                        *)
(***************************************************************************)
InsideOf(n, p) == {k \in (n + 1)..Len(spans) : spans[k].start < p /\ p <= spans[k].end}
BeginsAt(n, p) == {k \in InsideOf(n, p) : p = spans[k].start + 1}
Value(k) == SubSeq(text, spans[k].start + 1, spans[k].end)

Element(f, n, p) ==
  IF InsideOf(n, p) = {} THEN <<text[p]>>
  ELSE IF BeginsAt(n, p) = {} THEN <<>>
  ELSE f[Value(CHOOSE k \in BeginsAt(n, p) : TRUE)]

Elements(f, n) == [p \in 1..Len(text) |-> Element(f, n, p)]

\* What the spans behind i held has its placeholder.
ValuesKnown ==
  stage = "replace" => \A k \in (i + 1)..Len(spans) : Value(k) \in DOMAIN valueToPlaceholder

\* Replaced, in these terms.
LEMMA ReplacedElements == \A n : Replaced(n) = FlattenSeq(Elements(valueToPlaceholder, n))
BY DEF Replaced, Elements, Element, InsideOf, BeginsAt, Value

\* As many elements as the text has characters, and each is a text.
LEMMA ElementsType ==
  ASSUME IInv, NEW f, NEW n \in 0..Len(spans),
         \A k \in (n + 1)..Len(spans) : f[Value(k)] \in Text
  PROVE  Elements(f, n) \in Seq(Text) /\ Len(Elements(f, n)) = Len(text)
<1>1. ASSUME NEW p \in 1..Len(text) PROVE Element(f, n, p) \in Text
  <2>1. CASE InsideOf(n, p) = {}
    <3>1. text[p] \in Char
      BY DEF IInv, Types, Text
    <3>2. <<text[p]>> \in Text
      BY <3>1, OneCharacter
    <3>. QED
      BY <2>1, <3>2 DEF Element
  <2>2. CASE InsideOf(n, p) # {} /\ BeginsAt(n, p) = {}
    BY <2>2 DEF Element, Text
  <2>3. CASE InsideOf(n, p) # {} /\ BeginsAt(n, p) # {}
    <3>1. PICK k \in BeginsAt(n, p) : k = CHOOSE j \in BeginsAt(n, p) : TRUE
      BY <2>3
    <3>2. k \in (n + 1)..Len(spans)
      BY DEF BeginsAt, InsideOf
    <3>. QED
      BY <2>3, <3>1, <3>2 DEF Element
  <2>. QED
    BY <2>1, <2>2, <2>3
<1>2. Len(text) \in Nat
  BY DEF IInv, Types, Text
<1>3. PICK D : D = Text
  OBVIOUS
<1>4. Elements(f, n) \in [1..Len(text) -> D]
  BY <1>1, <1>3 DEF Elements
<1>5. Elements(f, n) \in Seq(D) /\ Len(Elements(f, n)) = Len(text)
  BY <1>2, <1>4
<1>. QED
  BY <1>3, <1>5

\* The facts about FlattenSeq, in the terms of this module.
LEMMA SameFlatten == \A s : RT!FlattenSeq(s) = FlattenSeq(s)
BY DEF RT!FlattenSeq, FlattenSeq

LEMMA FlattenLiteral ==
  ASSUME NEW t \in Text, NEW ps \in Seq(Text), Len(ps) = Len(t),
         \A k \in 1..Len(t) : ps[k] = <<t[k]>>
  PROVE  FlattenSeq(ps) = t
<1>1. PICK D : D = Text /\ D = RT!Text
  BY Restorer
<1>2. t \in RT!Text /\ ps \in Seq(RT!Text)
  BY <1>1
<1>3. RT!FlattenSeq(ps) = t
  BY <1>2, Restorer, RT!FlattenLiteral
<1>. QED
  BY <1>3, SameFlatten

LEMMA FlattenReplaced ==
  ASSUME NEW t \in Text, NEW ps \in Seq(Text), NEW qs \in Seq(Text),
         Len(ps) = Len(t), Len(qs) = Len(t),
         NEW a \in 0..(Len(t) - 1), NEW b \in (a + 1)..Len(t), NEW x \in Text,
         RT!ElementsChanged(t, ps, qs, a, b, x)
  PROVE  FlattenSeq(qs) = RT!WithInside(FlattenSeq(ps), a, x, b)
<1>1. PICK D : D = Text /\ D = RT!Text
  BY Restorer
<1>2. t \in RT!Text /\ ps \in Seq(RT!Text) /\ qs \in Seq(RT!Text) /\ x \in RT!Text
  BY <1>1
<1>3. RT!FlattenSeq(qs) = RT!WithInside(RT!FlattenSeq(ps), a, x, b)
  BY <1>2, Restorer, RT!FlattenReplaced
<1>4. RT!FlattenSeq(qs) = FlattenSeq(qs) /\ RT!FlattenSeq(ps) = FlattenSeq(ps)
  BY SameFlatten
<1>. QED
  BY <1>3, <1>4

\* One more span stands as its placeholder; what was replaced keeps its own.
LEMMA ReplaceExactly ==
  ASSUME IInv, Maps, ValuesKnown, ReplacedExactly, Replace
  PROVE  ValuesKnown' /\ ReplacedExactly'
<1>. USE DEF IInv
<1>1. /\ i \in 1..Len(spans) /\ spans[i] \in Spans /\ i' = i - 1
      /\ UNCHANGED <<text, spans, stage>> /\ stage = "replace"
      /\ out \in Text /\ text \in Text /\ Len(spans) \in Nat
  BY ReplaceMoves
<1>2. PICK s \in Nat, e \in Nat :
        /\ s = spans[i].start /\ e = spans[i].end /\ s < e
        /\ e <= Len(out) /\ \A p \in 1..e : out[p] = text[p]
  BY <1>1 DEF SpansInside, FrontUntouched, Spans
<1>3. e <= Len(text) /\ Len(out) \in Nat /\ Len(text) \in Nat
  BY <1>1, <1>2 DEF SpansInside, Types, Text
<1>4. PICK value \in Text : /\ value = SubSeq(out, spans[i].start + 1, spans[i].end)
                            /\ value = Value(i)
  <2>1. s \in 0..Len(out) /\ e \in s..Len(out) /\ e \in 0..e /\ s \in 0..e
    BY <1>2, <1>3
  <2>2. Part(out, s, e) \in Text
    BY <1>1, <2>1, PartFacts
  <2>3. Part(out, s, e) = Part(text, s, e)
    BY <1>1, <1>2, <1>3, <2>1, SamePart
  <2>. QED
    BY <1>2, <2>2, <2>3 DEF Part, Value
<1>5. PlaceholderFor(value, spans[i].entity) /\ spans[i].entity \in EntityTypes
  BY <1>1, <1>4 DEF Replace, Spans
<1>6. Grows /\ value \in DOMAIN valueToPlaceholder'
  BY <1>5, PlaceholderForMaps
<1>7. PICK ph \in Text : ph = valueToPlaceholder'[value]
  BY <1>5, PlaceholderIsText
<1>8. out' = SubSeq(out, 1, s) \o ph \o SubSeq(out, e + 1, Len(out))
  BY <1>2, <1>4, <1>7 DEF Replace
<1>9. ASSUME NEW k \in (i + 1)..Len(spans)
      PROVE  /\ spans[k].start \in Int /\ spans[k].end \in Int /\ e <= spans[k].start
             /\ Value(k) \in DOMAIN valueToPlaceholder
             /\ Value(k) \in DOMAIN valueToPlaceholder'
             /\ valueToPlaceholder'[Value(k)] = valueToPlaceholder[Value(k)]
  <2>1. k \in 1..Len(spans) /\ i < k
    BY <1>1
  <2>2. spans[k] \in Spans
    BY <2>1 DEF Types
  <2>3. Value(k) \in DOMAIN valueToPlaceholder
    BY <1>1 DEF ValuesKnown
  <2>4. spans[i].end <= spans[k].start
    BY <1>1, <2>1 DEF SpansApart
  <2>. QED
    BY <1>2, <1>6, <2>2, <2>3, <2>4 DEF Grows, Spans
<1>10. ASSUME NEW k \in ((i - 1) + 1)..Len(spans)
       PROVE  k = i \/ k \in (i + 1)..Len(spans)
  BY <1>1
<1>11. PICK ps \in Seq(Text) : ps = Elements(valueToPlaceholder, i) /\ Len(ps) = Len(text)
  <2>1. \A k \in (i + 1)..Len(spans) : valueToPlaceholder[Value(k)] \in Text
    BY <1>9 DEF Types
  <2>2. i \in 0..Len(spans)
    BY <1>1
  <2>. QED
    BY <2>1, <2>2, ElementsType
<1>12. PICK qs \in Seq(Text) : qs = Elements(valueToPlaceholder', i - 1) /\ Len(qs) = Len(text)
  <2>1. \A k \in ((i - 1) + 1)..Len(spans) : valueToPlaceholder'[Value(k)] \in Text
    BY <1>4, <1>7, <1>9, <1>10 DEF Types
  <2>2. i - 1 \in 0..Len(spans)
    BY <1>1
  <2>. QED
    BY <2>1, <2>2, ElementsType
<1>13. \A p \in 1..e : ps[p] = <<text[p]>>
  <2>1. TAKE p \in 1..e
  <2>2. InsideOf(i, p) = {}
    BY <1>9 DEF InsideOf
  <2>3. p \in 1..Len(text)
    BY <1>2, <1>3
  <2>. QED
    BY <1>11, <2>2, <2>3 DEF Elements, Element
<1>14. \A p \in 1..s : qs[p] = <<text[p]>>
  <2>1. TAKE p \in 1..s
  <2>2. InsideOf(i - 1, p) = {}
    <3>. SUFFICES ASSUME NEW k \in InsideOf(i - 1, p) PROVE FALSE
      OBVIOUS
    <3>1. k \in ((i - 1) + 1)..Len(spans) /\ spans[k].start < p
      BY DEF InsideOf
    <3>2. CASE k = i
      BY <1>2, <3>1, <3>2
    <3>3. CASE k \in (i + 1)..Len(spans)
      BY SMTT(30), <1>2, <1>9, <3>1, <3>3
    <3>. QED
      BY <1>10, <3>1, <3>2, <3>3
  <2>3. p \in 1..Len(text)
    BY <1>2, <1>3
  <2>. QED
    BY <1>12, <2>2, <2>3 DEF Elements, Element
<1>15. \A p \in (s + 1)..e : InsideOf(i - 1, p) = {i}
  <2>1. TAKE p \in (s + 1)..e
  <2>2. i \in ((i - 1) + 1)..Len(spans) /\ s < p /\ p <= e
    BY <1>1, <1>2
  <2>3. ASSUME NEW k \in InsideOf(i - 1, p) PROVE k = i
    <3>1. k \in ((i - 1) + 1)..Len(spans) /\ spans[k].start < p
      BY DEF InsideOf
    <3>2. CASE k \in (i + 1)..Len(spans)
      BY SMTT(30), <1>2, <1>9, <2>2, <3>1, <3>2
    <3>. QED
      BY <1>10, <3>1, <3>2
  <2>4. i \in InsideOf(i - 1, p)
    BY <1>2, <2>2 DEF InsideOf
  <2>. QED
    BY <2>3, <2>4
<1>16. qs[s + 1] = ph
  <2>1. s + 1 \in (s + 1)..e /\ s + 1 \in 1..Len(text)
    BY <1>2, <1>3
  <2>2. InsideOf(i - 1, s + 1) = {i} /\ BeginsAt(i - 1, s + 1) = {i}
    BY <1>2, <1>15, <2>1 DEF BeginsAt
  <2>3. (CHOOSE k \in BeginsAt(i - 1, s + 1) : TRUE) = i
    BY <2>2
  <2>4. Element(valueToPlaceholder', i - 1, s + 1) = valueToPlaceholder'[Value(i)]
    BY <2>2, <2>3 DEF Element
  <2>. QED
    BY <1>4, <1>7, <1>12, <2>1, <2>4 DEF Elements
<1>17. \A p \in (s + 2)..e : qs[p] = <<>>
  <2>1. TAKE p \in (s + 2)..e
  <2>2. p \in (s + 1)..e /\ p \in 1..Len(text) /\ p # s + 1
    BY SMTT(30), <1>2, <1>3
  <2>3. InsideOf(i - 1, p) = {i} /\ BeginsAt(i - 1, p) = {}
    BY <1>2, <1>15, <2>2 DEF BeginsAt
  <2>4. Element(valueToPlaceholder', i - 1, p) = <<>>
    BY <2>3 DEF Element
  <2>. QED
    BY <1>12, <2>2, <2>4 DEF Elements
<1>18. \A p \in (e + 1)..Len(text) : qs[p] = ps[p]
  <2>1. TAKE p \in (e + 1)..Len(text)
  <2>2. p \in 1..Len(text) /\ e < p
    BY <1>2, <1>3
  <2>3. InsideOf(i - 1, p) = InsideOf(i, p)
    <3>1. ASSUME NEW k \in InsideOf(i - 1, p) PROVE k \in InsideOf(i, p)
      BY <1>1, <1>2, <1>10, <2>2, <3>1 DEF InsideOf
    <3>2. ASSUME NEW k \in InsideOf(i, p) PROVE k \in InsideOf(i - 1, p)
      BY <1>1, <3>2 DEF InsideOf
    <3>. QED
      BY <3>1, <3>2
  <2>4. BeginsAt(i - 1, p) = BeginsAt(i, p)
    BY <2>3 DEF BeginsAt
  <2>5. Element(valueToPlaceholder', i - 1, p) = Element(valueToPlaceholder, i, p)
    <3>1. CASE InsideOf(i, p) = {} \/ BeginsAt(i, p) = {}
      BY <2>3, <2>4, <3>1 DEF Element
    <3>2. CASE InsideOf(i, p) # {} /\ BeginsAt(i, p) # {}
      <4>1. PICK k \in BeginsAt(i, p) : k = CHOOSE j \in BeginsAt(i, p) : TRUE
        BY <3>2
      <4>2. k \in (i + 1)..Len(spans)
        BY DEF BeginsAt, InsideOf
      <4>3. valueToPlaceholder'[Value(k)] = valueToPlaceholder[Value(k)]
        BY <1>9, <4>2
      <4>. QED
        BY <2>3, <2>4, <3>2, <4>1, <4>3 DEF Element
    <3>. QED
      BY <3>1, <3>2
  <2>. QED
    BY <1>11, <1>12, <2>2, <2>5 DEF Elements
<1>19. FlattenSeq(qs) = RT!WithInside(out, s, ph, e)
  <2>1. out = FlattenSeq(ps)
    BY <1>1, <1>11, ReplacedElements DEF ReplacedExactly
  <2>2. s \in 0..(Len(text) - 1) /\ e \in (s + 1)..Len(text) /\ text \in Text
    BY <1>1, <1>2, <1>3
  <2>3. RT!ElementsChanged(text, ps, qs, s, e, ph)
    BY <1>13, <1>14, <1>16, <1>17, <1>18 DEF RT!ElementsChanged
  <2>. QED
    BY <1>11, <1>12, <2>1, <2>2, <2>3, FlattenReplaced
<1>20. ReplacedExactly'
  <2>1. Replaced(i)' = FlattenSeq(Elements(valueToPlaceholder', i'))
    BY <1>1 DEF Replaced, Elements, Element, InsideOf, BeginsAt, Value
  <2>. QED
    BY <1>1, <1>8, <1>12, <1>19, <2>1 DEF ReplacedExactly, RT!WithInside
<1>21. ValuesKnown'
  <2>1. \A k \in ((i - 1) + 1)..Len(spans) : Value(k) \in DOMAIN valueToPlaceholder'
    BY <1>4, <1>6, <1>9, <1>10
  <2>. QED
    BY <1>1, <2>1 DEF ValuesKnown, Value
<1>. QED
  BY <1>20, <1>21

\* Nothing is replaced when the replacing starts.
LEMMA StartExactly ==
  ASSUME IInv, StartReplacing
  PROVE  ValuesKnown' /\ ReplacedExactly'
<1>1. /\ UNCHANGED <<text, spans, valueToPlaceholder>> /\ i' = Len(spans) /\ out' = text
      /\ text \in Text /\ Len(spans) \in Nat
  BY DEF StartReplacing, gen, IInv, Types
<1>2. (Len(spans) + 1)..Len(spans) = {} /\ Len(spans) \in 0..Len(spans)
  BY <1>1
<1>3. PICK ps \in Seq(Text) : ps = Elements(valueToPlaceholder, Len(spans)) /\ Len(ps) = Len(text)
  BY <1>2, ElementsType
<1>4. \A p \in 1..Len(text) : ps[p] = <<text[p]>>
  BY <1>2, <1>3 DEF Elements, Element, InsideOf
<1>5. FlattenSeq(ps) = text
  BY <1>1, <1>3, <1>4, FlattenLiteral
<1>6. Replaced(Len(spans))' = FlattenSeq(Elements(valueToPlaceholder, Len(spans)))
  BY <1>1 DEF Replaced, Elements, Element, InsideOf, BeginsAt, Value
<1>7. Replaced(i)' = Replaced(Len(spans))'
  BY <1>1 DEF Replaced
<1>. QED
  BY <1>1, <1>2, <1>3, <1>5, <1>6, <1>7 DEF ReplacedExactly, ValuesKnown

\* One step per action that leads to the stage of replacing.
LEMMA NextExact ==
  IInv /\ ScrubInv /\ ValuesKnown /\ ReplacedExactly /\ [Next]_vars =>
    ValuesKnown' /\ ReplacedExactly'
<1>. SUFFICES ASSUME IInv, ScrubInv, ValuesKnown, ReplacedExactly, [Next]_vars
              PROVE  ValuesKnown' /\ ReplacedExactly'
  OBVIOUS
<1>1. CASE stage' # "replace"
  BY <1>1 DEF ValuesKnown, ReplacedExactly
<1>2. CASE StartReplacing
  BY <1>2, StartExactly
<1>3. CASE Replace
  BY <1>3, ReplaceExactly DEF ScrubInv
<1>4. CASE UNCHANGED vars
  <2>1. UNCHANGED <<text, spans, stage, i, out, valueToPlaceholder>>
    BY <1>4 DEF vars
  <2>2. ValuesKnown'
    BY <2>1 DEF ValuesKnown, Value
  <2>3. Replaced(i)' = Replaced(i)
    BY <2>1 DEF Replaced
  <2>. QED
    BY <2>1, <2>2, <2>3 DEF ReplacedExactly
<1>5. ASSUME stage' = "replace" PROVE StartReplacing \/ Replace \/ UNCHANGED vars
  BY <1>5 DEF Next, Call, AnalyzeFails, Analyze, Keep, Drop, Return
<1>. QED
  BY <1>1, <1>2, <1>3, <1>4, <1>5

(***************************************************************************)
(* While spans are replaced the text is the original one with exactly the  *)
(* spans behind i standing as the placeholders of what they held: an       *)
(* earlier replacement never moves the offsets of a later one.             *)
(***************************************************************************)
THEOREM ReplacesExactly == Spec => []ReplacedExactly
<1>1. Init => ValuesKnown /\ ReplacedExactly
  BY DEF Init, ValuesKnown, ReplacedExactly
<1>2. IInv /\ ScrubInv /\ (ValuesKnown /\ ReplacedExactly) /\ [Next]_vars =>
        (ValuesKnown /\ ReplacedExactly)'
  BY NextExact
<1>. QED
  BY Invariance, ScrubInvariance, <1>1, <1>2, PTL DEF Spec
=============================================================================
