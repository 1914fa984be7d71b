----------------------------- MODULE Anonymize -----------------------------
(***************************************************************************)
(* Pipeline.AnonymizeText (anonymize/pipeline.go) on the texts of one      *)
(* request, one after the other: Presidio's detections are sorted, clamped *)
(* and made disjoint (normalizeDetections), and each span left is replaced *)
(* by the placeholder of its text, the last one first.  The placeholders   *)
(* come from the request's generator, which one goroutine uses here.       *)
(***************************************************************************)
EXTENDS PlaceholderFormat, FiniteSetsExt, SequencesExt

CONSTANTS Texts,        \* the texts a request may hold
          EntityTypes, LabelOf,
          Itoa,         \* bound: the indices in use, and their decimal digits
          Offsets,      \* the byte offsets Presidio may report
          MaxResults,   \* bound: detections in the texts of one request
          MaxTexts      \* bound: texts of one request

Detections == [start : Offsets, end : Offsets, entity : EntityTypes]

ASSUME AnonymizeAssumption ==
  /\ Texts \subseteq Text
  /\ LabelOf \in [EntityTypes -> Seq(Word)]
  /\ \A e \in EntityTypes : Len(LabelOf[e]) \in 1..MaxLabelLen
  /\ DOMAIN Itoa \subseteq Nat
  /\ \A n \in DOMAIN Itoa : Itoa[n] \in Seq(Digit) /\ Len(Itoa[n]) \in 1..MaxIndexLen
  /\ \A m, n \in DOMAIN Itoa : Itoa[m] = Itoa[n] => m = n
  /\ Offsets \subseteq Int
  /\ MaxResults \in Nat /\ MaxTexts \in Nat

VARIABLES labelCounts, valueToPlaceholder, placeholderToValue,  \* the generator
          text,      \* the text being anonymized
          stage,     \* "idle", "analyze", "keep", "replace" or "failed"
          todo,      \* sorted detections that normalizeDetections has still to see
          spans,     \* the spans it has kept
          keptEnd,   \* where the last of them ends
          i,         \* spans[i] is replaced next
          out,       \* the text with the spans behind i replaced
          results,   \* history: the detections of this text
          finished   \* history: what AnonymizeText made of each text, and its detections

gen == <<labelCounts, valueToPlaceholder, placeholderToValue>>
vars == <<labelCounts, valueToPlaceholder, placeholderToValue,
          text, stage, todo, spans, keptEnd, i, out, results, finished>>

Put(f, k, v) == [x \in DOMAIN f \cup {k} |-> IF x = k THEN v ELSE f[x]]

Init ==
  /\ labelCounts = [l \in Range(LabelOf) |-> 0]
  /\ valueToPlaceholder = [v \in {} |-> <<>>]
  /\ placeholderToValue = [ph \in {} |-> <<>>]
  /\ text = <<>> /\ stage = "idle"
  /\ todo = <<>> /\ spans = <<>> /\ keptEnd = 0
  /\ i = 0 /\ out = <<>>
  /\ results = <<>> /\ finished = <<>>

Call(t) ==
  /\ stage = "idle" /\ Len(finished) < MaxTexts
  /\ text' = t
  /\ IF t = <<>>
     THEN /\ finished' = Append(finished, [text |-> t, out |-> t, found |-> 0])
          /\ UNCHANGED stage
     ELSE /\ stage' = "analyze"
          /\ UNCHANGED finished
  /\ UNCHANGED <<gen, todo, spans, keptEnd, i, out, results>>

\* Presidio does not answer, and the request ends with an error.
AnalyzeFails ==
  /\ stage = "analyze"
  /\ stage' = "failed"
  /\ UNCHANGED <<gen, text, todo, spans, keptEnd, i, out, results, finished>>

\* Mutant: of two detections that start together the shorter comes first.
PrecedesShorter(r, s) == r.start < s.start \/ (r.start = s.start /\ r.end < s.end)

\* sort.Slice's order: by start, of equal starts the longer one first.
Precedes(r, s) == r.start < s.start \/ (r.start = s.start /\ r.end > s.end)

\* sort.Slice is not stable: any order of the results that it allows.
Sortings(rs) ==
  {s \in {[k \in DOMAIN rs |-> rs[p[k]]] : p \in Bijection(DOMAIN rs, DOMAIN rs)} :
     \A k, l \in DOMAIN rs : k < l => ~Precedes(s[l], s[k])}

Found == MapThenSumSet(LAMBDA n : finished[n].found, DOMAIN finished)

Analyze ==
  /\ stage = "analyze"
  /\ \E rs \in SeqOf(Detections, MaxResults - Found) :
       /\ results' = rs
       /\ todo' \in Sortings(rs)
  /\ spans' = <<>> /\ keptEnd' = 0
  /\ stage' = "keep"
  /\ UNCHANGED <<gen, text, i, out, finished>>

\* Mutant: a detection is not cut at the end of the text.
ClampStart(r) ==
  [start |-> IF r.start < 0 THEN 0 ELSE r.start, end |-> r.end, entity |-> r.entity]

Clamp(r) ==
  [start  |-> IF r.start < 0 THEN 0 ELSE r.start,
   end    |-> IF r.end > Len(text) THEN Len(text) ELSE r.end,
   entity |-> r.entity]

\* Mutant: a span that lies inside the one kept last is kept as well.
AcceptableInside(span) == span.start < span.end

Acceptable(span) == span.start < span.end /\ span.start >= keptEnd

Keep ==
  /\ stage = "keep" /\ todo # <<>> /\ Acceptable(Clamp(Head(todo)))
  /\ spans' = Append(spans, Clamp(Head(todo)))
  /\ keptEnd' = Clamp(Head(todo)).end
  /\ todo' = Tail(todo)
  /\ UNCHANGED <<gen, text, stage, i, out, results, finished>>

\* Empty spans, and those that begin inside the span kept last.
Drop ==
  /\ stage = "keep" /\ todo # <<>> /\ ~Acceptable(Clamp(Head(todo)))
  /\ todo' = Tail(todo)
  /\ UNCHANGED <<gen, text, stage, spans, keptEnd, i, out, results, finished>>

StartReplacing ==
  /\ stage = "keep" /\ todo = <<>>
  /\ stage' = "replace"
  /\ i' = Len(spans) /\ out' = text
  /\ UNCHANGED <<gen, text, todo, spans, keptEnd, results, finished>>

\* Mutant: the counter of the label is not increased.
PlaceholderForStuck(value, entity) ==
  LET label == LabelOf[entity]
      ph == IF value \in DOMAIN valueToPlaceholder THEN valueToPlaceholder[value]
            ELSE <<Open>> \o label \o <<Underscore>> \o Itoa[1] \o <<Close>>
  IN  /\ valueToPlaceholder' = Put(valueToPlaceholder, value, ph)
      /\ placeholderToValue' = Put(placeholderToValue, ph, value)
      /\ UNCHANGED labelCounts

\* PlaceholderGenerator.PlaceholderFor.
PlaceholderFor(value, entity) ==
  LET label == LabelOf[entity]
      index == labelCounts[label] + 1
      ph    == <<Open>> \o label \o <<Underscore>> \o Itoa[index] \o <<Close>>
  IN  IF value \in DOMAIN valueToPlaceholder THEN UNCHANGED gen
      ELSE /\ index \in DOMAIN Itoa
           /\ labelCounts' = [labelCounts EXCEPT ![label] = index]
           /\ valueToPlaceholder' = Put(valueToPlaceholder, value, ph)
           /\ placeholderToValue' = Put(placeholderToValue, ph, value)

\* Mutant: the rest of the text is taken as if the placeholder were as long as
\* the value it stands for.
ReplaceSameLength ==
  LET span  == spans[i]
      value == SubSeq(out, span.start + 1, span.end)
  IN  /\ stage = "replace" /\ i > 0
      /\ PlaceholderFor(value, span.entity)
      /\ out' = SubSeq(out, 1, span.start) \o valueToPlaceholder'[value]
                  \o SubSeq(out, span.start + Len(valueToPlaceholder'[value]) + 1, Len(out))
      /\ i' = i - 1
      /\ UNCHANGED <<text, stage, todo, spans, keptEnd, results, finished>>

Replace ==
  LET span  == spans[i]
      value == SubSeq(out, span.start + 1, span.end)
  IN  /\ stage = "replace" /\ i > 0
      /\ PlaceholderFor(value, span.entity)
      /\ out' = SubSeq(out, 1, span.start) \o valueToPlaceholder'[value]
                  \o SubSeq(out, span.end + 1, Len(out))
      /\ i' = i - 1
      /\ UNCHANGED <<text, stage, todo, spans, keptEnd, results, finished>>

Return ==
  /\ stage = "replace" /\ i = 0
  /\ stage' = "idle"
  /\ finished' = Append(finished, [text |-> text, out |-> out, found |-> Len(results)])
  /\ text' = <<>> /\ spans' = <<>> /\ keptEnd' = 0 /\ out' = <<>> /\ results' = <<>>
  /\ UNCHANGED <<gen, todo, i>>

Next ==
  \/ \E t \in Texts : Call(t)
  \/ AnalyzeFails \/ Analyze
  \/ Keep \/ Drop \/ StartReplacing \/ Replace \/ Return

Spec == Init /\ [][Next]_vars

-----------------------------------------------------------------------------
\* Types; a kept span lies inside the text.
TypeOK ==
  /\ text \in Text /\ out \in Text
  /\ stage \in {"idle", "analyze", "keep", "replace", "failed"}
  /\ keptEnd \in 0..Len(text)
  /\ i \in 0..Len(spans)
  /\ \A k \in DOMAIN spans : spans[k].start \in 0..(Len(text) - 1) /\ spans[k].end \in 1..Len(text)

\* The spans that are replaced never share a byte and stand in text order:
\* what one replacement does to the text leaves the offsets of those before
\* it valid.
SpansDisjoint ==
  stage \in {"keep", "replace"} =>
    \A k, l \in DOMAIN spans : k < l => spans[k].end <= spans[l].start

Within(r, s) == s.start <= r.start /\ r.end <= s.end

Partial(r, s) == r.start < s.start /\ s.start < r.end /\ r.end < s.end

Clamped == {s \in {Clamp(results[k]) : k \in DOMAIN results} : s.start < s.end}

\* No detection is ignored: each lies inside one of the spans replaced or
\* begins inside one; inside one if no two detections overlap in part, as
\* Presidio reported them (they are sorted before they are clamped).
DetectionsCovered ==
  stage = "replace" =>
    /\ \A r \in Clamped : \E k \in DOMAIN spans :
         spans[k].start <= r.start /\ r.start < spans[k].end
    /\ (\A r, s \in Range(results) : ~Partial(r, s)) =>
         \A r \in Clamped : \E k \in DOMAIN spans : Within(r, spans[k])

\* While spans are replaced, the text is the original one in which exactly
\* the spans behind i stand as the placeholders of what they held.
Replaced(n) ==
  LET Inside(p) == {k \in (n + 1)..Len(spans) : spans[k].start < p /\ p <= spans[k].end}
      First(p)  == {k \in Inside(p) : p = spans[k].start + 1}
      Value(k)  == SubSeq(text, spans[k].start + 1, spans[k].end)
  IN  FlattenSeq([p \in 1..Len(text) |->
        IF Inside(p) = {} THEN <<text[p]>>
        ELSE IF First(p) = {} THEN <<>>
        ELSE valueToPlaceholder[Value(CHOOSE k \in First(p) : TRUE)]])

ReplacedExactly == stage = "replace" => out = Replaced(i)

Restoring == INSTANCE RestoreText WITH Lookup <- placeholderToValue

\* What the client would get if the model echoed a scrubbed text is what it
\* sent, for every text of the request at once, whatever was detected in it;
\* as long as the user's own text names no placeholder of this request and
\* leaves no "<" open in front of one.
RoundTrip ==
  \A k \in DOMAIN finished :
    Restoring!KnownAt(finished[k].text) = {} /\ Restoring!NoStrayOpen(finished[k].out)
      => Restoring!RestoreString(finished[k].out) = finished[k].text

\* README, "replaces every detected PII span".
EveryDetectionReplaced ==
  stage = "replace" =>
    \A r \in Clamped : \A p \in (r.start + 1)..r.end :
      \E k \in DOMAIN spans : spans[k].start < p /\ p <= spans[k].end
=============================================================================
