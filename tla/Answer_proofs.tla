---------------------------- MODULE Answer_proofs ----------------------------
(***************************************************************************)
(* Proofs about streamed answers (Answer).  Three steps lead to them.      *)
(*                                                                         *)
(* First, what Push and Flush do to one stream of strings: what is held is *)
(* the end of the text so far that may still grow into a placeholder, and  *)
(* what was returned restores the rest of it (HeldFollows), wherever the   *)
(* text is cut and whichever choices, tool calls or events carry it.       *)
(*                                                                         *)
(* Then, what a line more makes of the deltas, events and kinds that a     *)
(* sequence of lines holds.                                                *)
(*                                                                         *)
(* Last, the invariant (StreamInvariant): what has been written and what is*)
(* held is what the deltas taken up so far leave, and while Copy reads both*)
(* sides have got equally far.  What the runs check of the text, of its    *)
(* place and of the events follows from it.                                *)
(***************************************************************************)
EXTENDS Answer, RestoreText_proofs

(***************************************************************************)
(* FindHoldStart finds the one position at which a tail that may grow      *)
(* begins.                                                                 *)
(***************************************************************************)
LEMMA HoldStartUnique ==
  ASSUME NEW b \in Text, NEW g \in 1..Len(b), CanGrow(SubSeq(b, g, Len(b)))
  PROVE  FindHoldStart(b) = g
<1>. DEFINE f == FindHoldStart(b)
<1>0. Len(b) \in Nat
  BY DEF Text
<1>1. ~Settled(b, Len(b))
  BY DEF Settled
<1>2. f \in 1..Len(b) /\ b[f] = Open /\ CanGrow(SubSeq(b, f, Len(b)))
  BY <1>1, HoldStartFound
<1>3. b[g] = Open
  <2>1. SubSeq(b, g, Len(b)) \in Text /\ SubSeq(b, g, Len(b))[1] = b[g]
    BY <1>0, SegmentFacts
  <2>. QED
    BY <2>1, GrowingStartsOpen
<1>. HIDE DEF f
<1>4. ~(f < g) /\ ~(g < f)
  BY <1>0, <1>2, <1>3, NoGrowthOverBracket
<1>. QED
  BY <1>0, <1>2, <1>4 DEF f

LEMMA HoldStartNone ==
  ASSUME NEW b \in Text, Settled(b, Len(b))
  PROVE  FindHoldStart(b) = Len(b) + 1
<1>0. Len(b) \in Nat
  BY DEF Text
<1>. QED
  BY <1>0, HoldStartFound DEF Settled

(***************************************************************************)
(* A text is what is released of it and what is held.                      *)
(***************************************************************************)
LEMMA HeldFacts ==
  ASSUME NEW t \in Text
  PROVE  /\ HeldOf(t) \in Text /\ ReleasedOf(t) \in Text
         /\ t = ReleasedOf(t) \o HeldOf(t)
         /\ Len(t) \in Nat /\ Len(HeldOf(t)) \in Nat /\ Len(ReleasedOf(t)) \in Nat
         /\ Len(ReleasedOf(t)) = Len(t) - Len(HeldOf(t))
         /\ ReleasedOf(t) = SubSeq(t, 1, Len(t) - Len(HeldOf(t)))
         /\ FindHoldStart(t) = Len(ReleasedOf(t)) + 1
         /\ \/ HeldOf(t) = <<>> /\ Settled(t, Len(t)) /\ ReleasedOf(t) = t
            \/ CanGrow(HeldOf(t)) /\ Len(HeldOf(t)) > 0 /\ t[Len(ReleasedOf(t)) + 1] = Open
<1>. DEFINE f == FindHoldStart(t)
<1>0. Len(t) \in Nat /\ t \in Seq(Char)
  BY DEF Text
<1>1. f \in 1..(Len(t) + 1)
  BY <1>0, HoldStartFound
<1>2. /\ HeldOf(t) \in Text /\ Len(HeldOf(t)) = Len(t) - f + 1
      /\ \A k \in 1..(Len(t) - f + 1) : HeldOf(t)[k] = t[f + k - 1]
  <2>1. Len(t) \in (f - 1)..Len(t)
    BY <1>0, <1>1
  <2>. HIDE DEF f
  <2>2. /\ SubSeq(t, f, Len(t)) \in Text /\ Len(SubSeq(t, f, Len(t))) = Len(t) - f + 1
        /\ \A k \in 1..(Len(t) - f + 1) : SubSeq(t, f, Len(t))[k] = t[f + k - 1]
    BY <1>1, <2>1, SegmentFacts
  <2>. QED
    BY <2>2 DEF HeldOf, f
<1>3. /\ ReleasedOf(t) \in Text /\ Len(ReleasedOf(t)) = f - 1
      /\ \A k \in 1..(f - 1) : ReleasedOf(t)[k] = t[k]
  <2>1. f - 1 \in 0..Len(t)
    BY <1>0, <1>1
  <2>. HIDE DEF f
  <2>2. /\ SubSeq(t, 1, f - 1) \in Text /\ Len(SubSeq(t, 1, f - 1)) = f - 1
        /\ \A k \in 1..(f - 1) : SubSeq(t, 1, f - 1)[k] = t[k]
    BY <2>1, FrontFacts
  <2>. QED
    BY <2>2 DEF ReleasedOf, f
<1>4. ReleasedOf(t) = SubSeq(t, 1, f - 1)
  BY DEF ReleasedOf
<1>5. t = ReleasedOf(t) \o HeldOf(t)
  <2>. HIDE DEF f
  <2>1. ReleasedOf(t) \in Seq(Char) /\ HeldOf(t) \in Seq(Char)
    BY <1>2, <1>3 DEF Text
  <2>2. Len(t) = Len(ReleasedOf(t)) + Len(HeldOf(t))
    BY <1>0, <1>1, <1>2, <1>3
  <2>3. \A k \in 1..Len(ReleasedOf(t)) : t[k] = ReleasedOf(t)[k]
    BY <1>3
  <2>4. \A k \in 1..Len(HeldOf(t)) : t[Len(ReleasedOf(t)) + k] = HeldOf(t)[k]
    BY <1>0, <1>1, <1>2, <1>3
  <2>. QED
    BY <1>0, <2>1, <2>2, <2>3, <2>4, InTwoParts
<1>6. \/ HeldOf(t) = <<>> /\ Settled(t, Len(t)) /\ ReleasedOf(t) = t
      \/ CanGrow(HeldOf(t)) /\ Len(HeldOf(t)) > 0 /\ t[f] = Open
  <2>1. CASE f = Len(t) + 1 /\ Settled(t, Len(t))
    <3>1. HeldOf(t) = <<>>
      BY <1>0, <1>2, <2>1 DEF Text
    <3>2. ReleasedOf(t) = t
      BY <1>0, <1>3, <2>1, SameText
    <3>. QED
      BY <2>1, <3>1, <3>2
  <2>2. CASE f \in 1..Len(t) /\ t[f] = Open /\ CanGrow(SubSeq(t, f, Len(t)))
    BY <1>0, <1>2, <2>2 DEF HeldOf
  <2>. QED
    BY <2>1, <2>2, HoldStartFound
<1>. HIDE DEF f
<1>7. Len(t) - Len(HeldOf(t)) = f - 1 /\ Len(HeldOf(t)) \in Nat /\ f - 1 \in Nat /\ f - 1 + 1 = f
  BY <1>0, <1>1, <1>2
<1>. QED
  BY <1>0, <1>2, <1>3, <1>4, <1>5, <1>6, <1>7 DEF f

(***************************************************************************)
(* Whatever comes after a text, no placeholder and nothing that may become *)
(* one reaches over the end of what has been released of it.               *)
(***************************************************************************)
LEMMA NothingAcross ==
  ASSUME NEW t \in Text, NEW x \in Text, NEW s, s = t \o x,
         NEW i \in 1..Len(ReleasedOf(t)), NEW j \in (Len(ReleasedOf(t)) + 1)..Len(s)
  PROVE  ~CanGrow(SubSeq(s, i, j)) /\ ~CompletePlaceholder(SubSeq(s, i, j))
<1>. DEFINE c == Len(ReleasedOf(t))
<1>0. /\ Len(t) \in Nat /\ Len(x) \in Nat /\ s \in Text /\ Len(s) = Len(t) + Len(x)
      /\ \A k \in 1..Len(t) : s[k] = t[k]
  BY ConcatCharacters
<1>1. c \in Nat /\ c <= Len(t)
  BY HeldFacts
<1>. HIDE DEF c
<1>2. i \in 1..c /\ j \in (c + 1)..Len(s)
  BY DEF c
<1>3. CASE c = Len(t) /\ Settled(t, Len(t))
  <2>1. Settled(s, c)
    <3>1. ASSUME NEW a \in 1..c PROVE ~CanGrow(SubSeq(s, a, c))
      <4>1. a \in 1..Len(t) /\ c \in 1..Len(t)
        BY <1>0, <1>1, <1>3
      <4>2. SubSeq(s, a, c) = SubSeq(t, a, c)
        BY <4>1, SegmentOfConcat
      <4>. QED
        BY <1>3, <4>1, <4>2 DEF Settled
    <3>. QED
      BY <3>1 DEF Settled
  <2>2. c \in 0..Len(s) /\ j \in c..Len(s) /\ c < j
    BY <1>0, <1>1, <1>2
  <2>. QED
    BY <1>0, <1>2, <2>1, <2>2, SettledStays
<1>4. CASE c + 1 \in 1..Len(t) /\ t[c + 1] = Open
  <2>1. /\ i \in 1..Len(s) /\ c + 1 \in (i + 1)..Len(s) /\ j \in (c + 1)..Len(s)
        /\ s[c + 1] = Open
    BY <1>0, <1>1, <1>2, <1>4
  <2>. QED
    BY <1>0, <2>1, NoGrowthOverBracket
<1>. QED
  <2>1. \/ HeldOf(t) = <<>> /\ Settled(t, Len(t)) /\ ReleasedOf(t) = t
        \/ Len(HeldOf(t)) > 0 /\ t[c + 1] = Open
    BY HeldFacts DEF c
  <2>2. Len(HeldOf(t)) > 0 => c + 1 \in 1..Len(t)
    BY <1>1, HeldFacts DEF c
  <2>. QED
    BY <1>3, <1>4, <2>1, <2>2 DEF c

(***************************************************************************)
(* What is held of a text that goes on depends on what was held of it and  *)
(* on what comes: Push needs to keep no more.                              *)
(***************************************************************************)
LEMMA PushHolds ==
  ASSUME NEW t \in Text, NEW x \in Text
  PROVE  /\ HeldOf(t) \o x \in Text /\ t \o x \in Text
         /\ t \o x = ReleasedOf(t) \o (HeldOf(t) \o x)
         /\ HeldOf(t \o x) = HeldOf(HeldOf(t) \o x)
         /\ ReleasedOf(t \o x) = ReleasedOf(t) \o ReleasedOf(HeldOf(t) \o x)
<1>. DEFINE r == ReleasedOf(t)
            c == Len(r)
            s == t \o x
            b == HeldOf(t) \o x
            f == FindHoldStart(b)
<1>1. /\ r \in Text /\ HeldOf(t) \in Text /\ t = r \o HeldOf(t) /\ c \in Nat
      /\ b \in Text /\ s \in Text
  BY HeldFacts, TextConcat
<1>2. s = r \o b
  <2>1. PICK u \in Text, v \in Text : u = r /\ v = HeldOf(t)
    BY <1>1
  <2>. HIDE DEF r
  <2>2. t = u \o v /\ b = v \o x
    BY <1>1, <2>1
  <2>3. (u \o v) \o x = u \o (v \o x)
    BY TextAssoc
  <2>. QED
    BY <2>1, <2>2, <2>3
<1>3. /\ Len(b) \in Nat /\ Len(s) = c + Len(b)
      /\ \A k \in 1..c : s[k] = r[k]
      /\ \A k \in 1..Len(b) : s[c + k] = b[k]
  <2>1. PICK u \in Text : u = r
    BY <1>1
  <2>2. s = u \o b /\ b \in Text /\ c = Len(u)
    BY <1>1, <1>2, <2>1
  <2>. HIDE DEF r, s, b, c
  <2>3. /\ Len(b) \in Nat /\ Len(u \o b) = Len(u) + Len(b)
        /\ \A k \in 1..Len(u) : (u \o b)[k] = u[k]
        /\ \A k \in 1..Len(b) : (u \o b)[Len(u) + k] = b[k]
    BY <2>2, ConcatCharacters
  <2>. QED
    BY <2>1, <2>2, <2>3
<1>. HIDE DEF r, c, s, b, f
<1>4. FindHoldStart(s) = c + f
  <2>1. CASE f = Len(b) + 1 /\ Settled(b, Len(b))
    <3>1. ASSUME NEW i \in 1..Len(s) PROVE ~CanGrow(SubSeq(s, i, Len(s)))
      <4>1. CASE i > c
        <5>1. i - c \in 1..Len(b) /\ Len(b) \in 1..Len(b) /\ c + (i - c) = i
          BY <1>1, <1>3, <3>1, <4>1
        <5>2. SubSeq(s, c + (i - c), c + Len(b)) = SubSeq(b, i - c, Len(b))
          BY <1>1, <1>2, <5>1, SegmentOfConcat DEF c
        <5>. QED
          BY <1>3, <2>1, <5>1, <5>2 DEF Settled
      <4>2. CASE i <= c /\ Len(b) > 0
        <5>1. i \in 1..c /\ Len(s) \in (c + 1)..Len(s)
          BY <1>1, <1>3, <3>1, <4>2
        <5>. QED
          BY <5>1, NothingAcross DEF r, c, s
      <4>3. CASE Len(b) = 0
        <5>1. x = <<>> /\ Len(HeldOf(t)) = 0
          <6>1. HeldOf(t) \in Text /\ Len(HeldOf(t)) \in Nat /\ Len(x) \in Nat
                /\ 0 = Len(HeldOf(t)) + Len(x)
            BY <4>3, HeldFacts, ConcatCharacters DEF b
          <6>2. Len(HeldOf(t)) = 0 /\ Len(x) = 0
            BY <4>3, <6>1
          <6>. QED
            BY <6>2 DEF Text
        <5>2. s = t
          BY <1>1, <5>1, ConcatEmptySeq DEF s, Text
        <5>3. Settled(t, Len(t))
          BY <5>1, HeldFacts
        <5>. QED
          BY <3>1, <5>2, <5>3 DEF Settled
      <4>. QED
        BY <1>1, <1>3, <3>1, <4>1, <4>2, <4>3
    <3>2. Settled(s, Len(s))
      BY <3>1 DEF Settled
    <3>3. FindHoldStart(s) = Len(s) + 1
      BY <1>1, <3>2, HoldStartNone
    <3>. QED
      BY <1>1, <1>3, <2>1, <3>3
  <2>2. CASE f \in 1..Len(b) /\ CanGrow(SubSeq(b, f, Len(b)))
    <3>1. c + f \in 1..Len(s) /\ Len(b) \in 1..Len(b)
      BY <1>1, <1>3, <2>2
    <3>2. SubSeq(s, c + f, c + Len(b)) = SubSeq(b, f, Len(b))
      BY <1>1, <1>2, <2>2, <3>1, SegmentOfConcat DEF c
    <3>. QED
      BY <1>1, <1>3, <2>2, <3>1, <3>2, HoldStartUnique
  <2>. QED
    BY <1>1, <2>1, <2>2, HoldStartFound DEF f
<1>5. /\ HeldOf(s) \in Text /\ ReleasedOf(s) \in Text /\ s = ReleasedOf(s) \o HeldOf(s)
      /\ Len(ReleasedOf(s)) \in Nat /\ Len(ReleasedOf(s)) + 1 = c + f /\ Len(HeldOf(s)) \in Nat
  <2>1. /\ HeldOf(s) \in Text /\ ReleasedOf(s) \in Text /\ s = ReleasedOf(s) \o HeldOf(s)
        /\ Len(ReleasedOf(s)) \in Nat /\ FindHoldStart(s) = Len(ReleasedOf(s)) + 1
        /\ Len(HeldOf(s)) \in Nat
    BY <1>1, HeldFacts
  <2>. QED
    BY <1>4, <2>1
<1>6. /\ HeldOf(b) \in Text /\ ReleasedOf(b) \in Text /\ b = ReleasedOf(b) \o HeldOf(b)
      /\ Len(ReleasedOf(b)) \in Nat /\ f = Len(ReleasedOf(b)) + 1 /\ Len(HeldOf(b)) \in Nat
  BY <1>1, HeldFacts DEF f
<1>7. PICK q \in Text : /\ q = r \o ReleasedOf(b) /\ s = q \o HeldOf(b)
                        /\ Len(q) = Len(ReleasedOf(s))
  <2>1. r \o ReleasedOf(b) \in Text /\ Len(r \o ReleasedOf(b)) = c + Len(ReleasedOf(b))
    BY <1>1, <1>6, ConcatCharacters DEF c
  <2>2. s = (r \o ReleasedOf(b)) \o HeldOf(b)
    <3>1. PICK u \in Text, v \in Text : u = ReleasedOf(b) /\ v = HeldOf(b)
      BY <1>6
    <3>2. s = r \o (u \o v)
      BY <1>2, <1>6, <3>1
    <3>3. (r \o u) \o v = r \o (u \o v)
      <4>1. r \in Text
        BY <1>1
      <4>. QED
        BY <4>1, TextAssoc
    <3>. QED
      BY <3>1, <3>2, <3>3
  <2>3. Len(r \o ReleasedOf(b)) = Len(ReleasedOf(s))
    BY <1>1, <1>5, <1>6, <2>1
  <2>. QED
    BY <2>1, <2>2, <2>3
<1>8. q = ReleasedOf(s) /\ HeldOf(b) = HeldOf(s)
  <2>1. PICK p \in Text, u \in Text, v \in Text : p = ReleasedOf(s) /\ u = HeldOf(s) /\ v = HeldOf(b)
    BY <1>5, <1>6
  <2>2. s = p \o u /\ s = q \o v /\ Len(p) = Len(q)
    BY <1>5, <1>7, <2>1
  <2>3. /\ Len(p) \in Nat /\ Len(u) \in Nat /\ Len(v) \in Nat
        /\ \A k \in 1..Len(p) : s[k] = p[k] /\ s[k] = q[k]
        /\ \A k \in 1..Len(u) : s[Len(p) + k] = u[k]
        /\ \A k \in 1..Len(v) : s[Len(p) + k] = v[k]
        /\ Len(s) = Len(p) + Len(u) /\ Len(s) = Len(p) + Len(v)
    <3>1. /\ Len(p) \in Nat /\ Len(u) \in Nat /\ Len(s) = Len(p) + Len(u)
          /\ \A k \in 1..Len(p) : s[k] = p[k]
          /\ \A k \in 1..Len(u) : s[Len(p) + k] = u[k]
      <4>1. s = p \o u
        BY <2>2
      <4>. QED
        BY <4>1, ConcatCharacters
    <3>2. /\ Len(v) \in Nat /\ Len(s) = Len(q) + Len(v)
          /\ \A k \in 1..Len(q) : s[k] = q[k]
          /\ \A k \in 1..Len(v) : s[Len(q) + k] = v[k]
      BY <2>2, ConcatCharacters
    <3>. QED
      BY <2>2, <3>1, <3>2
  <2>4. p = q
    BY <2>2, <2>3, SameText
  <2>5. Len(u) = Len(v) /\ \A k \in 1..Len(u) : u[k] = v[k]
    BY <2>3
  <2>. QED
    BY <2>1, <2>4, <2>5, SameText
<1>. QED
  BY <1>1, <1>2, <1>7, <1>8 DEF r, s, b

(***************************************************************************)
(* What Push returns continues what has been released, restored.           *)
(***************************************************************************)
LEMMA PushContinues ==
  ASSUME WellFormedLookup, NEW t \in Text, NEW x \in Text, NEW b, b = HeldOf(t) \o x,
         NoStrayOpen(b)
  PROVE  RestoreEach(ReleasedOf(t \o x)) =
           RestoreEach(ReleasedOf(t)) \o RestoreString(ReleasedOf(b))
<1>. DEFINE r == ReleasedOf(t)
            e == ReleasedOf(b)
            s == t \o x
<1>1. /\ r \in Text /\ b \in Text /\ e \in Text /\ s \in Text /\ Len(r) \in Nat /\ Len(e) \in Nat
      /\ b = e \o HeldOf(b) /\ HeldOf(b) \in Text
      /\ ReleasedOf(s) = r \o e /\ ReleasedOf(s) \in Text
      /\ HeldOf(s) \in Text /\ s = ReleasedOf(s) \o HeldOf(s)
  <2>1. /\ b \in Text /\ t \o x \in Text
        /\ ReleasedOf(t \o x) = ReleasedOf(t) \o ReleasedOf(b)
    BY PushHolds
  <2>2. r \in Text /\ Len(r) \in Nat
    BY HeldFacts
  <2>3. e \in Text /\ Len(e) \in Nat /\ b = e \o HeldOf(b) /\ HeldOf(b) \in Text
    BY <2>1, HeldFacts
  <2>4. ReleasedOf(s) \in Text /\ HeldOf(s) \in Text /\ s = ReleasedOf(s) \o HeldOf(s)
    <3>1. PICK p : p = s
      OBVIOUS
    <3>2. p \in Text
      BY <2>1, <3>1
    <3>3. ReleasedOf(p) \in Text /\ HeldOf(p) \in Text /\ p = ReleasedOf(p) \o HeldOf(p)
      BY <3>2, HeldFacts
    <3>. QED
      BY <3>1, <3>3
  <2>. QED
    BY <2>1, <2>2, <2>3, <2>4
<1>2. NoStrayOpen(e)
  BY <1>1, StrayOfConcat
<1>3. PICK q \in Text : q = ReleasedOf(s)
  BY <1>1
<1>. HIDE DEF r, e, s
<1>4. /\ Len(q) \in Nat /\ Len(q) = Len(r) + Len(e) /\ Len(s) \in Nat /\ Len(q) <= Len(s)
  <2>1. Len(q) \in Nat /\ Len(q) = Len(r) + Len(e)
    BY <1>1, <1>3, ConcatCharacters
  <2>2. Len(s) = Len(q) + Len(HeldOf(s)) /\ Len(HeldOf(s)) \in Nat
    BY <1>1, <1>3, ConcatCharacters
  <2>. QED
    BY <2>1, <2>2
<1>5. ASSUME NEW i \in 1..Len(r), NEW j \in (Len(r) + 1)..Len(q)
      PROVE  SubSeq(q, i, j) \notin DOMAIN Lookup
  <2>1. i \in 1..Len(q) /\ j \in 1..Len(q) /\ j \in (Len(r) + 1)..Len(s)
    BY <1>1, <1>4, <1>5
  <2>2. SubSeq(s, i, j) = SubSeq(q, i, j)
    BY <1>1, <1>3, <2>1, SegmentOfConcat
  <2>3. ~CompletePlaceholder(SubSeq(s, i, j))
    BY <2>1, NothingAcross DEF r, s
  <2>. QED
    BY <2>2, <2>3 DEF WellFormedLookup
<1>6. RestoreEach(q) = RestoreEach(r) \o RestoreEach(e)
  BY <1>1, <1>3, <1>5, RestoredInParts
<1>7. RestoreString(e) = RestoreEach(e)
  BY <1>1, <1>2, ScanRestoresEach
<1>. QED
  BY <1>3, <1>6, <1>7 DEF r, e, s

(***************************************************************************)
(* What Flush returns completes it.                                        *)
(***************************************************************************)
LEMMA FlushCompletes ==
  ASSUME WellFormedLookup, NEW t \in Text, NoStrayOpen(HeldOf(t))
  PROVE  RestoreEach(t) = RestoreEach(ReleasedOf(t)) \o RestoreString(HeldOf(t))
<1>. DEFINE r == ReleasedOf(t)
            h == HeldOf(t)
<1>1. r \in Text /\ h \in Text /\ t = r \o h /\ Len(t) \in Nat /\ <<>> \in Text
  BY HeldFacts DEF Text
<1>2. t = t \o <<>>
  BY ConcatEmptySeq DEF Text
<1>. HIDE DEF r, h
<1>3. ASSUME NEW i \in 1..Len(r), NEW j \in (Len(r) + 1)..Len(t)
      PROVE  SubSeq(t, i, j) \notin DOMAIN Lookup
  BY <1>1, <1>2, <1>3, NothingAcross DEF WellFormedLookup, r
<1>4. RestoreEach(t) = RestoreEach(r) \o RestoreEach(h)
  BY <1>1, <1>3, RestoredInParts
<1>. QED
  BY <1>1, <1>4, ScanRestoresEach DEF r, h

-----------------------------------------------------------------------------
(***************************************************************************)
(* What HeldThrough defines recursively: what is held at first, then what  *)
(* each string leaves.                                                     *)
(***************************************************************************)
IsThrough(f, h, d, n) ==
  f = [k \in 0..n |-> IF k = 0 THEN h ELSE PushedDelta(f[k - 1], d[k]).held]

LEMMA ThroughExists ==
  ASSUME NEW h, NEW d
  PROVE  \A n \in Nat : \E f : IsThrough(f, h, d, n)
<1>. DEFINE T == {n \in Nat : \E f : IsThrough(f, h, d, n)}
<1>1. 0 \in T
  <2>. DEFINE g == [k \in 0..0 |-> h]
  <2>1. g = [k \in 0..0 |-> IF k = 0 THEN h ELSE PushedDelta(g[k - 1], d[k]).held]
    OBVIOUS
  <2>. HIDE DEF g
  <2>2. IsThrough(g, h, d, 0)
    BY <2>1 DEF IsThrough
  <2>. QED
    BY <2>2
<1>2. ASSUME NEW n \in Nat, n \in T
      PROVE  n + 1 \in T
  <2>1. PICK f : IsThrough(f, h, d, n)
    BY <1>2
  <2>2. \A k \in 0..n : f[k] = IF k = 0 THEN h ELSE PushedDelta(f[k - 1], d[k]).held
    BY <2>1 DEF IsThrough
  <2>. DEFINE g == [k \in 0..(n + 1) |->
                      IF k = n + 1 THEN PushedDelta(f[n], d[n + 1]).held ELSE f[k]]
  <2>3. ASSUME NEW k \in 0..(n + 1)
        PROVE  g[k] = IF k = 0 THEN h ELSE PushedDelta(g[k - 1], d[k]).held
    <3>1. CASE k = n + 1
      <4>1. k # 0 /\ k - 1 = n /\ n \in 0..(n + 1) /\ n # n + 1
        BY <3>1
      <4>2. g[k - 1] = f[n] /\ g[k] = PushedDelta(f[n], d[n + 1]).held
        BY <3>1, <4>1
      <4>. QED
        BY <3>1, <4>1, <4>2
    <3>2. CASE k # n + 1
      <4>1. k \in 0..n /\ (k # 0 => k - 1 \in 0..(n + 1) /\ k - 1 # n + 1)
        BY <3>2
      <4>2. g[k] = f[k] /\ (k # 0 => g[k - 1] = f[k - 1])
        BY <3>2, <4>1
      <4>. HIDE DEF g
      <4>. QED
        BY <2>2, <4>1, <4>2
    <3>. QED
      BY <3>1, <3>2
  <2>4. g = [k \in 0..(n + 1) |-> g[k]]
    OBVIOUS
  <2>. HIDE DEF g
  <2>5. IsThrough(g, h, d, n + 1)
    BY <2>3, <2>4 DEF IsThrough
  <2>. QED
    BY <2>5
<1>. HIDE DEF T
<1>3. \A n \in Nat : n \in T
  BY <1>1, <1>2, Induction
<1>. QED
  BY <1>3 DEF T

Goes(f, e, n) == \A k \in 1..n : f[k] = PushedDelta(f[k - 1], e[k]).held

LEMMA ThroughFacts ==
  ASSUME NEW h, NEW d, Len(d) \in Nat
  PROVE  HeldThrough(h, d)[0] = h /\ Goes(HeldThrough(h, d), d, Len(d))
<1>. DEFINE f == HeldThrough(h, d)
<1>1. f = CHOOSE g : IsThrough(g, h, d, Len(d))
  BY DEF HeldThrough, IsThrough
<1>2. IsThrough(f, h, d, Len(d))
  BY <1>1, ThroughExists
<1>. HIDE DEF f
<1>3. \A k \in 0..Len(d) : f[k] = IF k = 0 THEN h ELSE PushedDelta(f[k - 1], d[k]).held
  BY <1>2 DEF IsThrough
<1>4. f[0] = h
  BY <1>3
<1>5. ASSUME NEW k \in 1..Len(d) PROVE f[k] = PushedDelta(f[k - 1], d[k]).held
  <2>1. k \in 0..Len(d) /\ k # 0
    OBVIOUS
  <2>. QED
    BY <1>3, <2>1
<1>6. Goes(f, d, Len(d))
  BY <1>5 DEF Goes
<1>. QED
  BY <1>4, <1>6 DEF f

\* What is held after each string depends on what was held at first and on the strings.
LEMMA ThroughAgrees ==
  ASSUME NEW e, NEW n \in Nat, NEW f, NEW g, f[0] = g[0], Goes(f, e, n), Goes(g, e, n)
  PROVE  \A k \in 0..n : f[k] = g[k]
<1>. DEFINE T == {k \in Nat : k <= n => f[k] = g[k]}
<1>1. 0 \in T
  OBVIOUS
<1>2. ASSUME NEW k \in Nat, k \in T
      PROVE  k + 1 \in T
  <2>. SUFFICES ASSUME k + 1 <= n PROVE f[k + 1] = g[k + 1]
    OBVIOUS
  <2>1. k + 1 \in 1..n /\ (k + 1) - 1 = k /\ k <= n
    OBVIOUS
  <2>2. f[k] = g[k]
    BY <1>2, <2>1
  <2>. QED
    BY <2>1, <2>2 DEF Goes
<1>. HIDE DEF T
<1>3. \A k \in Nat : k \in T
  BY <1>1, <1>2, Induction
<1>. QED
  BY <1>3 DEF T

(***************************************************************************)
(* The strings of two events are restored one event after the other.       *)
(***************************************************************************)
LEMMA RestoreNone == \A h : RestoreDeltas(h, <<>>) = [held |-> h, deltas |-> <<>>]
<1>. SUFFICES ASSUME NEW h PROVE RestoreDeltas(h, <<>>) = [held |-> h, deltas |-> <<>>]
  OBVIOUS
<1>1. HeldThrough(h, <<>>)[0] = h
  BY ThroughFacts
<1>. QED
  BY <1>1 DEF RestoreDeltas

LEMMA RestoreOne ==
  ASSUME NEW h, NEW x
  PROVE  RestoreDeltas(h, <<x>>) = [held   |-> PushedDelta(h, x).held,
                                    deltas |-> <<Delta(x.channel, PushedDelta(h, x).out)>>]
<1>. DEFINE f == HeldThrough(h, <<x>>)
<1>1. Len(<<x>>) = 1 /\ <<x>>[1] = x /\ 1 - 1 = 0
  OBVIOUS
<1>2. f[0] = h /\ f[1] = PushedDelta(f[1 - 1], <<x>>[1]).held
  BY <1>1, ThroughFacts DEF Goes
<1>. HIDE DEF f
<1>3. f[1] = PushedDelta(h, x).held
  BY <1>1, <1>2
<1>4. RestoreDeltas(h, <<x>>) =
        [held   |-> f[1],
         deltas |-> [k \in 1..1 |-> Delta(<<x>>[k].channel, PushedDelta(f[k - 1], <<x>>[k]).out)]]
  BY <1>1 DEF RestoreDeltas, f
<1>5. \A k \in 1..1 : Delta(<<x>>[k].channel, PushedDelta(f[k - 1], <<x>>[k]).out)
                        = Delta(x.channel, PushedDelta(h, x).out)
  BY <1>1, <1>2
<1>6. PICK y : y = Delta(x.channel, PushedDelta(h, x).out)
  OBVIOUS
<1>7. [k \in 1..1 |-> Delta(<<x>>[k].channel, PushedDelta(f[k - 1], <<x>>[k]).out)] = [k \in 1..1 |-> y]
  BY <1>5, <1>6
<1>8. [k \in 1..1 |-> y] = <<y>>
  OBVIOUS
<1>. QED
  BY <1>3, <1>4, <1>6, <1>7, <1>8

(***************************************************************************)
(* Flattening what a function gives for each element of a sequence.        *)
(***************************************************************************)
Each(g, d) == FlattenSeq([k \in 1..Len(d) |-> g[d[k]]])

LEMMA EachFacts ==
  ASSUME NEW D, NEW C, NEW g \in [D -> Seq(C)]
  PROVE  /\ Each(g, <<>>) = <<>>
         /\ \A x \in D : Each(g, <<x>>) = g[x]
         /\ \A a \in Seq(D) : Each(g, a) \in Seq(C)
         /\ \A a, b \in Seq(D) : Each(g, a \o b) = Each(g, a) \o Each(g, b)
<1>. DEFINE G(d) == [k \in 1..Len(d) |-> g[d[k]]]
<1>1. ASSUME NEW a \in Seq(D)
      PROVE  G(a) \in Seq(Seq(C)) /\ Len(G(a)) = Len(a) /\ \A k \in 1..Len(a) : G(a)[k] = g[a[k]]
  <2>1. \A k \in 1..Len(a) : g[a[k]] \in Seq(C)
    OBVIOUS
  <2>. QED
    BY <2>1
<1>2. G(<<>>) = <<>>
  OBVIOUS
<1>3. Each(g, <<>>) = <<>>
  <2>1. <<>> \in Seq(Seq(C)) /\ Len(<<>>) = 0
    OBVIOUS
  <2>2. FlattenSeq(<<>>) = <<>>
    BY <2>1, JoinedFacts
  <2>. QED
    BY <1>2, <2>2 DEF Each
<1>4. ASSUME NEW x \in D PROVE Each(g, <<x>>) = g[x]
  <2>1. Len(G(<<x>>)) = 1 /\ G(<<x>>)[1] = g[x]
    OBVIOUS
  <2>. HIDE DEF G
  <2>2. FlattenSeq(G(<<x>>)) = g[x]
    BY <2>1, FlattenOne
  <2>. QED
    BY <2>2 DEF Each, G
<1>5. ASSUME NEW a \in Seq(D) PROVE Each(g, a) \in Seq(C)
  <2>. HIDE DEF G
  <2>1. FlattenSeq(G(a)) \in Seq(C)
    BY <1>1, FlattenType
  <2>. QED
    BY <2>1 DEF Each, G
<1>6. ASSUME NEW a \in Seq(D), NEW b \in Seq(D)
      PROVE  Each(g, a \o b) = Each(g, a) \o Each(g, b)
  <2>0. PICK u \in Seq(D) : u = a \o b
    <3>1. a \o b \in Seq(D)
      OBVIOUS
    <3>. QED
      BY <3>1
  <2>1. /\ Len(u) = Len(a) + Len(b) /\ Len(a) \in Nat /\ Len(b) \in Nat
        /\ \A k \in 1..Len(a) : u[k] = a[k]
        /\ \A k \in 1..Len(b) : u[Len(a) + k] = b[k]
    BY <2>0
  <2>2. G(u) = G(a) \o G(b)
    <3>1. PICK v \in Seq(Seq(C)), s \in Seq(Seq(C)), t \in Seq(Seq(C)) :
            v = G(u) /\ s = G(a) /\ t = G(b)
      BY <1>1
    <3>2. /\ Len(v) = Len(s) + Len(t) /\ Len(s) = Len(a) /\ Len(t) = Len(b)
          /\ \A k \in 1..Len(s) : v[k] = s[k]
          /\ \A k \in 1..Len(t) : v[Len(s) + k] = t[k]
      BY <1>1, <2>1, <3>1
    <3>3. PICK B : v \in Seq(B) /\ s \in Seq(B) /\ t \in Seq(B)
      BY <3>1
    <3>4. v = s \o t
      <4>1. Len(v) = Len(s) + Len(t)
        BY <3>2
      <4>2. \A k \in 1..Len(s) : v[k] = s[k]
        BY <3>2
      <4>3. \A k \in 1..Len(t) : v[Len(s) + k] = t[k]
        BY <3>2
      <4>. QED
        <5>1. /\ s \o t \in Seq(B) /\ Len(s \o t) = Len(s) + Len(t)
              /\ \A k \in 1..(Len(s) + Len(t)) :
                   (s \o t)[k] = IF k <= Len(s) THEN s[k] ELSE t[k - Len(s)]
          BY <3>3
        <5>2. \A k \in 1..Len(v) : v[k] = (s \o t)[k]
          <6>. SUFFICES ASSUME NEW k \in 1..Len(v) PROVE v[k] = (s \o t)[k]
            OBVIOUS
          <6>1. Len(s) \in Nat /\ Len(t) \in Nat /\ k \in 1..(Len(s) + Len(t))
            BY <3>3, <4>1
          <6>2. CASE k <= Len(s)
            BY <4>2, <5>1, <6>1, <6>2
          <6>3. CASE k > Len(s)
            <7>1. k - Len(s) \in 1..Len(t) /\ Len(s) + (k - Len(s)) = k
              BY <6>1, <6>3
            <7>. QED
              BY <4>3, <5>1, <6>1, <6>3, <7>1
          <6>4. k <= Len(s) \/ k > Len(s)
            BY <6>1
          <6>. QED
            BY <6>2, <6>3, <6>4
        <5>. QED
          BY <3>3, <4>1, <5>1, <5>2, SeqEqual
    <3>. QED
      BY <3>1, <3>4
  <2>. HIDE DEF G
  <2>3. FlattenSeq(G(u)) = FlattenSeq(G(a)) \o FlattenSeq(G(b))
    BY <1>1, <2>2, FlattenConcat
  <2>. QED
    BY <2>0, <2>3 DEF Each, G
<1>. QED
  BY <1>3, <1>4, <1>5, <1>6

-----------------------------------------------------------------------------
\* The strings the upstream sends and those the restorers write.
SentDelta == [channel : Channels \cup Unrestored, text : Text]
WrittenDelta == [channel : Channels \cup Unrestored \cup {"raw"}, text : Text]

LEMMA DeltaTypes ==
  /\ \A d \in Seq(SentDelta) : d \in Seq(WrittenDelta)
  /\ \A x \in SentDelta : /\ x.channel \in Channels \cup Unrestored /\ x.channel # "raw" /\ x.text \in Text
                          /\ x \in WrittenDelta
  /\ \A x \in WrittenDelta : x.channel \in Channels \cup Unrestored \cup {"raw"} /\ x.text \in Text
  /\ \A c \in Channels : c \notin Unrestored /\ c # "raw"
<1>1. "raw" \notin Channels /\ "raw" \notin Unrestored /\ Channels \cap Unrestored = {}
  BY AnswerAssumption DEF Unrestored
<1>2. SentDelta \subseteq WrittenDelta
  BY DEF SentDelta, WrittenDelta
<1>3. \A d \in Seq(SentDelta) : d \in Seq(WrittenDelta)
  BY <1>2
<1>4. \A x \in SentDelta : x.channel \in Channels \cup Unrestored /\ x.text \in Text
  BY DEF SentDelta
<1>5. \A x \in WrittenDelta : x.channel \in Channels \cup Unrestored \cup {"raw"} /\ x.text \in Text
  BY DEF WrittenDelta
<1>. QED
  BY <1>1, <1>2, <1>3, <1>4, <1>5

LEMMA DeltaFacts ==
  \A c, t : /\ Delta(c, t).channel = c /\ Delta(c, t).text = t
            /\ c \in Channels \cup Unrestored /\ t \in Text => Delta(c, t) \in SentDelta
            /\ c = "raw" /\ t \in Text => Delta(c, t) \in WrittenDelta
BY DEF Delta, SentDelta, WrittenDelta

LEMMA TextInFacts ==
  ASSUME NEW S
  PROVE  /\ TextIn(<<>>, S) = <<>>
         /\ \A x \in WrittenDelta : TextIn(<<x>>, S) = IF x.channel \in S THEN x.text ELSE <<>>
         /\ \A a \in Seq(WrittenDelta) : TextIn(a, S) \in Text
         /\ \A a, b \in Seq(WrittenDelta) : TextIn(a \o b, S) = TextIn(a, S) \o TextIn(b, S)
<1>. DEFINE g == [x \in WrittenDelta |-> IF x.channel \in S THEN x.text ELSE <<>>]
<1>1. g \in [WrittenDelta -> Seq(Char)]
  BY DEF WrittenDelta, Text
<1>2. ASSUME NEW a \in Seq(WrittenDelta) PROVE TextIn(a, S) = Each(g, a)
  <2>1. \A k \in 1..Len(a) : g[a[k]] = IF a[k].channel \in S THEN a[k].text ELSE <<>>
    OBVIOUS
  <2>. HIDE DEF g
  <2>2. [k \in 1..Len(a) |-> g[a[k]]] = [k \in 1..Len(a) |-> IF a[k].channel \in S THEN a[k].text ELSE <<>>]
    BY <2>1
  <2>. QED
    BY <2>2 DEF TextIn, Each
<1>3. \A x \in WrittenDelta : g[x] = IF x.channel \in S THEN x.text ELSE <<>>
  OBVIOUS
<1>. HIDE DEF g
<1>4. /\ Each(g, <<>>) = <<>>
      /\ \A x \in WrittenDelta : Each(g, <<x>>) = g[x]
      /\ \A a \in Seq(WrittenDelta) : Each(g, a) \in Seq(Char)
      /\ \A a, b \in Seq(WrittenDelta) : Each(g, a \o b) = Each(g, a) \o Each(g, b)
  BY <1>1, EachFacts
<1>5. /\ <<>> \in Seq(WrittenDelta) /\ \A x \in WrittenDelta : <<x>> \in Seq(WrittenDelta)
      /\ \A a, b \in Seq(WrittenDelta) : a \o b \in Seq(WrittenDelta)
  OBVIOUS
<1>6. \A x \in WrittenDelta : TextIn(<<x>>, S) = IF x.channel \in S THEN x.text ELSE <<>>
  BY <1>2, <1>3, <1>4, <1>5
<1>7. \A a, b \in Seq(WrittenDelta) : TextIn(a \o b, S) = TextIn(a, S) \o TextIn(b, S)
  BY <1>2, <1>4, <1>5
<1>. QED
  BY <1>2, <1>4, <1>5, <1>6, <1>7 DEF Text

-----------------------------------------------------------------------------
(***************************************************************************)
(* What HoldBackRestorer holds of one string: never more than a placeholder*)
(* is long.                                                                *)
(***************************************************************************)
Buffer == {h \in Text : Len(h) <= MaxPlaceholderLen}

LEMMA PushedDeltaFacts ==
  ASSUME NEW h \in Buffer, NEW x \in SentDelta
  PROVE  /\ PushedDelta(h, x).out \in Text /\ PushedDelta(h, x).held \in Buffer
         /\ x.channel \in Unrestored =>
              PushedDelta(h, x).out = x.text /\ PushedDelta(h, x).held = h
         /\ x.channel \notin Unrestored =>
              /\ PushedDelta(h, x).out = RestoreString(ReleasedOf(h \o x.text))
              /\ PushedDelta(h, x).held = HeldOf(h \o x.text)
<1>1. h \in Text /\ x.text \in Text
  BY DeltaTypes DEF Buffer
<1>2. CASE x.channel \in Unrestored
  BY <1>1, <1>2 DEF PushedDelta
<1>3. CASE x.channel \notin Unrestored
  <2>. DEFINE b == h \o x.text
  <2>1. b \in Text
    BY <1>1, TextConcat
  <2>. HIDE DEF b
  <2>2. HeldOf(b) \in Text /\ ReleasedOf(b) \in Text /\ (HeldOf(b) = <<>> \/ CanGrow(HeldOf(b)))
    BY <2>1, HeldFacts
  <2>3. MaxPlaceholderLen >= 0
    BY FormatAssumption DEF MaxPlaceholderLen
  <2>4. HeldOf(b) \in Buffer
    <3>1. Len(<<>>) = 0
      OBVIOUS
    <3>. QED
      BY <2>2, <2>3, <3>1 DEF CanGrow, Buffer
  <2>5. RestoreString(ReleasedOf(b)) \in Text
    BY <2>2, RestoreStringType, AnswerAssumption
  <2>6. Pushed(h, x.text) = [out |-> RestoreString(ReleasedOf(b)), held |-> HeldOf(b)]
    BY DEF Pushed, ReleasedOf, HeldOf, b
  <2>7. PushedDelta(h, x) = Pushed(h, x.text)
    BY <1>3 DEF PushedDelta
  <2>. QED
    BY <1>3, <2>4, <2>5, <2>6, <2>7 DEF b
<1>. QED
  BY <1>2, <1>3

LEMMA ThroughType ==
  ASSUME NEW h \in Buffer, NEW d \in Seq(SentDelta)
  PROVE  \A k \in 0..Len(d) : HeldThrough(h, d)[k] \in Buffer
<1>. DEFINE f == HeldThrough(h, d)
            T == {n \in Nat : n <= Len(d) => f[n] \in Buffer}
<1>1. f[0] = h /\ Goes(f, d, Len(d))
  BY ThroughFacts
<1>. HIDE DEF f
<1>2. 0 \in T
  BY <1>1
<1>3. ASSUME NEW n \in Nat, n \in T PROVE n + 1 \in T
  <2>. SUFFICES ASSUME n + 1 <= Len(d) PROVE f[n + 1] \in Buffer
    OBVIOUS
  <2>1. n + 1 \in 1..Len(d) /\ (n + 1) - 1 = n /\ n <= Len(d)
    OBVIOUS
  <2>2. f[n] \in Buffer /\ d[n + 1] \in SentDelta
    BY <1>3, <2>1
  <2>3. PushedDelta(f[n], d[n + 1]).held \in Buffer
    BY <2>2, PushedDeltaFacts
  <2>. QED
    BY <1>1, <2>1, <2>3 DEF Goes
<1>. HIDE DEF T
<1>4. \A n \in Nat : n \in T
  BY <1>2, <1>3, Induction
<1>. QED
  BY <1>4 DEF T, f

(***************************************************************************)
(* The strings of an event one by one.                                     *)
(***************************************************************************)
LEMMA RestoreParts ==
  ASSUME NEW h, NEW d \in Seq(SentDelta)
  PROVE  /\ RestoreDeltas(h, d).held = HeldThrough(h, d)[Len(d)]
         /\ RestoreDeltas(h, d) = [held   |-> RestoreDeltas(h, d).held,
                                   deltas |-> RestoreDeltas(h, d).deltas]
         /\ RestoreDeltas(h, d).deltas = [k \in 1..Len(d) |-> RestoreDeltas(h, d).deltas[k]]
         /\ \A k \in 1..Len(d) :
              RestoreDeltas(h, d).deltas[k] =
                Delta(d[k].channel, PushedDelta(HeldThrough(h, d)[k - 1], d[k]).out)
<1>. DEFINE f == HeldThrough(h, d)
            r == [k \in DOMAIN d |-> Delta(d[k].channel, PushedDelta(f[k - 1], d[k]).out)]
<1>1. RestoreDeltas(h, d) = [held |-> f[Len(d)], deltas |-> r]
  BY DEF RestoreDeltas
<1>2. DOMAIN d = 1..Len(d)
  OBVIOUS
<1>3. \A k \in 1..Len(d) : r[k] = Delta(d[k].channel, PushedDelta(f[k - 1], d[k]).out)
  BY <1>2
<1>4. r = [k \in 1..Len(d) |-> r[k]]
  BY <1>2
<1>. HIDE DEF r
<1>. QED
  BY <1>1, <1>3, <1>4

LEMMA RestoredAt ==
  ASSUME NEW h, NEW d \in Seq(SentDelta), NEW k \in 1..Len(d)
  PROVE  RestoreDeltas(h, d).deltas[k] =
           Delta(d[k].channel, PushedDelta(HeldThrough(h, d)[k - 1], d[k]).out)
BY RestoreParts

(***************************************************************************)
(* Restored strings stay in their channels, and those of an unrestored     *)
(* channel stay as they are.                                               *)
(***************************************************************************)
LEMMA RestoreType ==
  ASSUME NEW h \in Buffer, NEW d \in Seq(SentDelta)
  PROVE  /\ RestoreDeltas(h, d).held \in Buffer
         /\ RestoreDeltas(h, d).deltas \in Seq(SentDelta)
         /\ Len(RestoreDeltas(h, d).deltas) = Len(d)
         /\ \A k \in 1..Len(d) :
              /\ RestoreDeltas(h, d).deltas[k].channel = d[k].channel
              /\ d[k].channel \in Unrestored => RestoreDeltas(h, d).deltas[k].text = d[k].text
<1>. DEFINE f == HeldThrough(h, d)
            r == RestoreDeltas(h, d)
<1>1. \A k \in 0..Len(d) : f[k] \in Buffer
  BY ThroughType
<1>2. r.held = f[Len(d)] /\ r.deltas = [k \in 1..Len(d) |-> r.deltas[k]]
  BY RestoreParts
<1>3. \A k \in 1..Len(d) : r.deltas[k] = Delta(d[k].channel, PushedDelta(f[k - 1], d[k]).out)
  BY RestoreParts
<1>. HIDE DEF f, r
<1>4. ASSUME NEW k \in 1..Len(d)
      PROVE  /\ r.deltas[k] \in SentDelta /\ r.deltas[k].channel = d[k].channel
             /\ d[k].channel \in Unrestored => r.deltas[k].text = d[k].text
  <2>1. f[k - 1] \in Buffer /\ d[k] \in SentDelta
    BY <1>1
  <2>2. d[k].channel \in Channels \cup Unrestored
    BY <2>1, DeltaTypes
  <2>3. /\ PushedDelta(f[k - 1], d[k]).out \in Text
        /\ d[k].channel \in Unrestored => PushedDelta(f[k - 1], d[k]).out = d[k].text
    BY <2>1, PushedDeltaFacts
  <2>4. PICK c, t : /\ c = d[k].channel /\ t = PushedDelta(f[k - 1], d[k]).out
                    /\ c \in Channels \cup Unrestored /\ t \in Text
                    /\ r.deltas[k] = Delta(c, t)
    BY <1>3, <2>2, <2>3
  <2>5. Delta(c, t) \in SentDelta /\ Delta(c, t).channel = c /\ Delta(c, t).text = t
    BY <2>4, DeltaFacts
  <2>. QED
    BY <2>3, <2>4, <2>5
<1>5. Len(d) \in Nat /\ Len(d) \in 0..Len(d)
  OBVIOUS
<1>6. [k \in 1..Len(d) |-> r.deltas[k]] \in Seq(SentDelta)
      /\ Len([k \in 1..Len(d) |-> r.deltas[k]]) = Len(d)
  BY <1>4, <1>5
<1>. QED
  BY <1>1, <1>2, <1>4, <1>5, <1>6 DEF r

LEMMA RestoreConcat ==
  ASSUME NEW h \in Buffer, NEW a \in Seq(SentDelta), NEW b \in Seq(SentDelta)
  PROVE  RestoreDeltas(h, a \o b) =
           [held   |-> RestoreDeltas(RestoreDeltas(h, a).held, b).held,
            deltas |-> RestoreDeltas(h, a).deltas
                         \o RestoreDeltas(RestoreDeltas(h, a).held, b).deltas]
<1>1. PICK d \in Seq(SentDelta) : d = a \o b
  <2>1. a \o b \in Seq(SentDelta)
    OBVIOUS
  <2>. QED
    BY <2>1
<1>2. /\ Len(a) \in Nat /\ Len(b) \in Nat /\ Len(d) \in Nat /\ Len(d) = Len(a) + Len(b)
      /\ \A k \in 1..Len(a) : a[k] = d[k]
      /\ \A k \in 1..Len(b) : b[k] = d[Len(a) + k]
  BY <1>1
<1>3. PICK f : f = HeldThrough(h, d)
  OBVIOUS
<1>4. PICK g : g = HeldThrough(h, a)
  OBVIOUS
<1>5. PICK i : i = f[Len(a)]
  OBVIOUS
<1>6. PICK l : l = HeldThrough(i, b)
  OBVIOUS
<1>7. \A k \in 0..Len(a) : f[k] = g[k]
  <2>1. f[0] = h /\ Goes(f, d, Len(d))
    BY <1>2, <1>3, ThroughFacts
  <2>2. g[0] = h /\ Goes(g, a, Len(a))
    BY <1>2, <1>4, ThroughFacts
  <2>3. Goes(f, a, Len(a))
    BY <1>2, <2>1 DEF Goes
  <2>. QED
    BY <1>2, <2>1, <2>2, <2>3, ThroughAgrees
<1>8. \A k \in 0..Len(b) : f[Len(a) + k] = l[k]
  <2>1. l[0] = i /\ Goes(l, b, Len(b))
    BY <1>2, <1>6, ThroughFacts
  <2>2. Goes(f, d, Len(d))
    BY <1>2, <1>3, ThroughFacts
  <2>. DEFINE e == [k \in 0..Len(b) |-> f[Len(a) + k]]
  <2>3. e[0] = l[0]
    BY <1>2, <1>5, <2>1
  <2>4. ASSUME NEW k \in 1..Len(b) PROVE e[k] = PushedDelta(e[k - 1], b[k]).held
    <3>1. /\ Len(a) + k \in 1..Len(d) /\ (Len(a) + k) - 1 = Len(a) + (k - 1)
          /\ k \in 0..Len(b) /\ k - 1 \in 0..Len(b)
      BY <1>2
    <3>2. f[Len(a) + k] = PushedDelta(f[Len(a) + (k - 1)], d[Len(a) + k]).held
      BY <2>2, <3>1 DEF Goes
    <3>. QED
      BY <1>2, <3>1, <3>2
  <2>5. \A k \in 0..Len(b) : e[k] = f[Len(a) + k]
    OBVIOUS
  <2>. HIDE DEF e
  <2>6. Goes(e, b, Len(b))
    BY <2>4 DEF Goes
  <2>7. \A k \in 0..Len(b) : e[k] = l[k]
    <3>1. Len(b) \in Nat
      BY <1>2
    <3>. QED
      BY <2>1, <2>3, <2>6, <3>1, ThroughAgrees
  <2>. QED
    BY <2>5, <2>7
<1>9. PICK x \in Seq(SentDelta), y \in Seq(SentDelta), z \in Seq(SentDelta) :
        /\ x = RestoreDeltas(h, d).deltas /\ y = RestoreDeltas(h, a).deltas
        /\ z = RestoreDeltas(i, b).deltas
        /\ i = RestoreDeltas(h, a).held
  <2>1. i = RestoreDeltas(h, a).held
    <3>1. RestoreDeltas(h, a).held = HeldThrough(h, a)[Len(a)]
      BY RestoreParts
    <3>2. Len(a) \in 0..Len(a)
      BY <1>2
    <3>3. f[Len(a)] = g[Len(a)]
      BY <1>7, <3>2
    <3>. QED
      BY <1>4, <1>5, <3>1, <3>3
  <2>. QED
    BY <2>1, RestoreType
<1>10. /\ Len(x) = Len(d) /\ Len(y) = Len(a) /\ Len(z) = Len(b)
  BY <1>9, RestoreType
<1>11. \A k \in 1..Len(d) : x[k] = Delta(d[k].channel, PushedDelta(f[k - 1], d[k]).out)
  <2>1. \A k \in 1..Len(d) :
          RestoreDeltas(h, d).deltas[k] =
            Delta(d[k].channel, PushedDelta(HeldThrough(h, d)[k - 1], d[k]).out)
    BY RestoredAt
  <2>. QED
    BY <1>3, <1>9, <2>1
<1>12. \A k \in 1..Len(a) : y[k] = Delta(a[k].channel, PushedDelta(g[k - 1], a[k]).out)
  <2>1. \A k \in 1..Len(a) :
          RestoreDeltas(h, a).deltas[k] =
            Delta(a[k].channel, PushedDelta(HeldThrough(h, a)[k - 1], a[k]).out)
    BY RestoredAt
  <2>. QED
    BY <1>4, <1>9, <2>1
<1>13. \A k \in 1..Len(b) : z[k] = Delta(b[k].channel, PushedDelta(l[k - 1], b[k]).out)
  <2>1. \A k \in 1..Len(b) :
          RestoreDeltas(i, b).deltas[k] =
            Delta(b[k].channel, PushedDelta(HeldThrough(i, b)[k - 1], b[k]).out)
    BY RestoredAt
  <2>. QED
    BY <1>6, <1>9, <2>1
<1>14. \A k \in 1..Len(y) : x[k] = y[k]
  <2>. SUFFICES ASSUME NEW k \in 1..Len(a) PROVE x[k] = y[k]
    BY <1>10
  <2>1. k \in 1..Len(d) /\ k - 1 \in 0..Len(a)
    BY <1>2
  <2>. QED
    BY <1>2, <1>7, <1>11, <1>12, <2>1
<1>15. \A k \in 1..Len(z) : x[Len(y) + k] = z[k]
  <2>. SUFFICES ASSUME NEW k \in 1..Len(b) PROVE x[Len(a) + k] = z[k]
    BY <1>10
  <2>1. Len(a) + k \in 1..Len(d) /\ k - 1 \in 0..Len(b) /\ (Len(a) + k) - 1 = Len(a) + (k - 1)
    BY <1>2
  <2>2. f[(Len(a) + k) - 1] = l[k - 1] /\ b[k] = d[Len(a) + k]
    BY <1>2, <1>8, <2>1
  <2>3. x[Len(a) + k] = Delta(d[Len(a) + k].channel, PushedDelta(f[(Len(a) + k) - 1], d[Len(a) + k]).out)
    BY <1>11, <2>1
  <2>4. z[k] = Delta(b[k].channel, PushedDelta(l[k - 1], b[k]).out)
    BY <1>13
  <2>. QED
    BY <2>2, <2>3, <2>4
<1>16. x = y \o z
  <2>1. Len(x) = Len(y) + Len(z)
    BY <1>2, <1>10
  <2>. QED
    BY <1>14, <1>15, <2>1, InTwoParts
<1>17. RestoreDeltas(h, d).held = RestoreDeltas(i, b).held
  <2>1. RestoreDeltas(h, d).held = f[Len(d)] /\ RestoreDeltas(i, b).held = l[Len(b)]
    BY <1>3, <1>6, RestoreParts
  <2>. QED
    BY <1>2, <1>8, <2>1
<1>18. RestoreDeltas(h, d) = [held |-> RestoreDeltas(i, b).held, deltas |-> y \o z]
  <2>1. RestoreDeltas(h, d) = [held |-> RestoreDeltas(h, d).held, deltas |-> RestoreDeltas(h, d).deltas]
    BY RestoreParts
  <2>. QED
    BY <1>9, <1>16, <1>17, <2>1
<1>. QED
  BY <1>1, <1>9, <1>18

LEMMA TextInNext ==
  ASSUME NEW S, NEW a \in Seq(WrittenDelta), NEW z \in WrittenDelta
  PROVE  /\ a \o <<z>> \in Seq(WrittenDelta)
         /\ z.channel \in S => TextIn(a \o <<z>>, S) = TextIn(a, S) \o z.text
         /\ z.channel \notin S => TextIn(a \o <<z>>, S) = TextIn(a, S)
<1>1. <<z>> \in Seq(WrittenDelta) /\ a \o <<z>> \in Seq(WrittenDelta)
  OBVIOUS
<1>2. TextIn(a \o <<z>>, S) = TextIn(a, S) \o TextIn(<<z>>, S)
  BY <1>1, TextInFacts
<1>3. TextIn(<<z>>, S) = IF z.channel \in S THEN z.text ELSE <<>>
  BY TextInFacts
<1>4. TextIn(a, S) \o <<>> = TextIn(a, S)
  <2>1. TextIn(a, S) \in Seq(Char)
    BY TextInFacts DEF Text
  <2>. QED
    BY <2>1, ConcatEmptySeq
<1>. QED
  BY <1>1, <1>2, <1>3, <1>4

-----------------------------------------------------------------------------
(***************************************************************************)
(* The deltas of a whole stream, restored one after the other.             *)
(***************************************************************************)
Answered(d) == RestoreDeltas(<<>>, d)

LEMMA NothingHeld == <<>> \in Buffer /\ <<>> \in Text /\ Len(<<>>) = 0
<1>1. MaxPlaceholderLen >= 0
  BY FormatAssumption DEF MaxPlaceholderLen
<1>. QED
  BY <1>1 DEF Buffer, Text

LEMMA AnsweredNone == Answered(<<>>).held = <<>> /\ Answered(<<>>).deltas = <<>>
BY RestoreNone DEF Answered

LEMMA AnsweredType ==
  ASSUME NEW d \in Seq(SentDelta)
  PROVE  /\ Answered(d).held \in Buffer /\ Answered(d).held \in Text
         /\ Answered(d).deltas \in Seq(SentDelta) /\ Answered(d).deltas \in Seq(WrittenDelta)
<1>1. Answered(d).held \in Buffer /\ Answered(d).deltas \in Seq(SentDelta)
  BY NothingHeld, RestoreType DEF Answered
<1>. QED
  BY <1>1, DeltaTypes DEF Buffer

LEMMA AnsweredConcat ==
  ASSUME NEW a \in Seq(SentDelta), NEW b \in Seq(SentDelta)
  PROVE  /\ Answered(a \o b).held = RestoreDeltas(Answered(a).held, b).held
         /\ Answered(a \o b).deltas = Answered(a).deltas \o RestoreDeltas(Answered(a).held, b).deltas
<1>1. PICK h \in Buffer : h = <<>>
  BY NothingHeld
<1>2. RestoreDeltas(h, a \o b) =
        [held   |-> RestoreDeltas(RestoreDeltas(h, a).held, b).held,
         deltas |-> RestoreDeltas(h, a).deltas \o RestoreDeltas(RestoreDeltas(h, a).held, b).deltas]
  BY RestoreConcat
<1>3. Answered(a \o b) = RestoreDeltas(h, a \o b) /\ Answered(a) = RestoreDeltas(h, a)
  BY <1>1 DEF Answered
<1>4. PICK p, q : /\ p = RestoreDeltas(RestoreDeltas(h, a).held, b).held
                  /\ q = RestoreDeltas(h, a).deltas \o RestoreDeltas(RestoreDeltas(h, a).held, b).deltas
  OBVIOUS
<1>5. RestoreDeltas(h, a \o b) = [held |-> p, deltas |-> q]
  BY <1>2, <1>4
<1>6. RestoreDeltas(h, a \o b).held = p /\ RestoreDeltas(h, a \o b).deltas = q
  BY <1>5
<1>. QED
  BY <1>3, <1>4, <1>6

LEMMA AnsweredNext ==
  ASSUME NEW d \in Seq(SentDelta), NEW x \in SentDelta
  PROVE  /\ Answered(d \o <<x>>).held = PushedDelta(Answered(d).held, x).held
         /\ Answered(d \o <<x>>).deltas =
              Answered(d).deltas \o <<Delta(x.channel, PushedDelta(Answered(d).held, x).out)>>
<1>1. <<x>> \in Seq(SentDelta)
  OBVIOUS
<1>2. PICK h : h = Answered(d).held
  OBVIOUS
<1>3. /\ RestoreDeltas(h, <<x>>).held = PushedDelta(h, x).held
      /\ RestoreDeltas(h, <<x>>).deltas = <<Delta(x.channel, PushedDelta(h, x).out)>>
  <2>1. RestoreDeltas(h, <<x>>) = [held   |-> PushedDelta(h, x).held,
                                   deltas |-> <<Delta(x.channel, PushedDelta(h, x).out)>>]
    BY RestoreOne
  <2>. QED
    BY <2>1
<1>. QED
  BY <1>1, <1>2, <1>3, AnsweredConcat

LEMMA UnrestoredNext ==
  ASSUME NEW d \in Seq(SentDelta), NEW x \in SentDelta, x.channel \in Unrestored
  PROVE  Answered(d \o <<x>>).held = Answered(d).held
<1>1. PICK h \in Buffer : h = Answered(d).held
  BY AnsweredType
<1>2. PushedDelta(h, x).held = h
  BY PushedDeltaFacts
<1>. QED
  BY <1>1, <1>2, AnsweredNext

\* The last element of a sequence and those before it.
LEMMA LastSplit ==
  ASSUME NEW d \in Seq(SentDelta), NEW n \in Nat, Len(d) = n + 1
  PROVE  \E e \in Seq(SentDelta), x \in SentDelta : Len(e) = n /\ d = e \o <<x>>
<1>. DEFINE e == SubSeq(d, 1, n)
            x == d[n + 1]
<1>1. e \in Seq(SentDelta) /\ Len(e) = n /\ x \in SentDelta /\ \A k \in 1..n : e[k] = d[k]
  OBVIOUS
<1>. HIDE DEF e
<1>2. d = e \o <<x>>
  <2>1. Len(d) = Len(e) + Len(<<x>>) /\ <<x>> \in Seq(SentDelta)
    BY <1>1
  <2>2. \A k \in 1..Len(e) : d[k] = e[k]
    BY <1>1
  <2>3. \A k \in 1..Len(<<x>>) : d[Len(e) + k] = <<x>>[k]
    BY <1>1
  <2>. QED
    BY <1>1, <2>1, <2>2, <2>3, InTwoParts
<1>. QED
  BY <1>1, <1>2

(***************************************************************************)
(* One more string: what is held, and what has been released of the text   *)
(* it continues.                                                           *)
(***************************************************************************)
LEMMA PushFacts ==
  ASSUME NEW t \in Text, NEW x \in Text
  PROVE  /\ HeldOf(t \o x) = HeldOf(HeldOf(t) \o x)
         /\ NoStrayOpen(t \o x) => NoStrayOpen(HeldOf(t) \o x)
         /\ NoStrayOpen(HeldOf(t) \o x) =>
              RestoreEach(ReleasedOf(t \o x)) =
                RestoreEach(ReleasedOf(t)) \o RestoreString(ReleasedOf(HeldOf(t) \o x))
<1>1. /\ HeldOf(t) \o x \in Text /\ t \o x = ReleasedOf(t) \o (HeldOf(t) \o x)
      /\ HeldOf(t \o x) = HeldOf(HeldOf(t) \o x) /\ ReleasedOf(t) \in Text
  BY PushHolds, HeldFacts
<1>2. NoStrayOpen(t \o x) => NoStrayOpen(HeldOf(t) \o x)
  BY <1>1, StrayOfConcat, AnswerAssumption
<1>3. NoStrayOpen(HeldOf(t) \o x) =>
        RestoreEach(ReleasedOf(t \o x)) =
          RestoreEach(ReleasedOf(t)) \o RestoreString(ReleasedOf(HeldOf(t) \o x))
  BY <1>1, PushContinues, AnswerAssumption
<1>. QED
  BY <1>1, <1>2, <1>3

(***************************************************************************)
(* What is held after some deltas is what may still become a placeholder   *)
(* at the end of their text; what has been written restores the rest.      *)
(***************************************************************************)
ReleasedRestored(d, S) ==
  TextIn(Answered(d).deltas, S) = RestoreEach(ReleasedOf(TextIn(d, S)))

Follows(d) ==
  /\ Answered(d).held = HeldOf(TextIn(d, Channels))
  /\ NoStrayOpen(TextIn(d, Channels)) => ReleasedRestored(d, Channels)

LEMMA EmptyHeld == HeldOf(<<>>) = <<>> /\ ReleasedOf(<<>>) = <<>>
<1>1. HeldOf(<<>>) \in Text /\ ReleasedOf(<<>>) \in Text /\ Len(HeldOf(<<>>)) \in Nat
      /\ Len(ReleasedOf(<<>>)) \in Nat /\ Len(ReleasedOf(<<>>)) = 0 - Len(HeldOf(<<>>))
  BY NothingHeld, HeldFacts
<1>2. Len(HeldOf(<<>>)) = 0 /\ Len(ReleasedOf(<<>>)) = 0
  BY <1>1
<1>. QED
  BY <1>1, <1>2 DEF Text

LEMMA ReleasedNothing == \A S : ReleasedRestored(<<>>, S)
<1>. SUFFICES ASSUME NEW S PROVE ReleasedRestored(<<>>, S)
  OBVIOUS
<1>1. TextIn(<<>>, S) = <<>>
  BY TextInFacts
<1>. QED
  BY <1>1, EmptyHeld, AnsweredNone, RestoreNothing, AnswerAssumption DEF ReleasedRestored

\* One more delta of the channels that are looked at ...
LEMMA ReleasedNext ==
  ASSUME NEW S \in SUBSET Channels, NEW d \in Seq(SentDelta), NEW x \in SentDelta, x.channel \in S,
         Answered(d).held = HeldOf(TextIn(d, S))
  PROVE  /\ Answered(d \o <<x>>).held = HeldOf(TextIn(d \o <<x>>, S))
         /\ /\ ReleasedRestored(d, S)
            /\ \/ NoStrayOpen(Answered(d).held \o x.text)
               \/ NoStrayOpen(TextIn(d \o <<x>>, S))
            => ReleasedRestored(d \o <<x>>, S)
<1>1. PICK t \in Text, y \in Text, h \in Buffer :
        t = TextIn(d, S) /\ y = x.text /\ h = Answered(d).held /\ h = HeldOf(t)
  BY TextInFacts, DeltaTypes, AnsweredType
<1>2. TextIn(d \o <<x>>, S) = t \o y
  <2>1. d \in Seq(WrittenDelta) /\ x \in WrittenDelta
    BY DeltaTypes
  <2>. QED
    BY <1>1, <2>1, TextInNext
<1>3. x.channel \notin Unrestored
  BY DeltaTypes
<1>4. PICK o \in Text : o = PushedDelta(h, x).out /\ o = RestoreString(ReleasedOf(h \o y))
                        /\ PushedDelta(h, x).held = HeldOf(h \o y)
  BY <1>1, <1>3, PushedDeltaFacts
<1>5. TextIn(Answered(d \o <<x>>).deltas, S) = TextIn(Answered(d).deltas, S) \o o
  <2>1. PICK z \in WrittenDelta : z = Delta(x.channel, o) /\ z.channel = x.channel /\ z.text = o
    <3>1. x.channel \in Channels \cup Unrestored
      BY DeltaTypes
    <3>. QED
      BY <3>1, DeltaFacts, DeltaTypes
  <2>2. PICK a \in Seq(WrittenDelta) : a = Answered(d).deltas
    BY AnsweredType
  <2>3. Answered(d \o <<x>>).deltas = a \o <<z>>
    BY <1>1, <1>4, <2>1, <2>2, AnsweredNext
  <2>4. TextIn(a \o <<z>>, S) = TextIn(a, S) \o z.text
    BY <2>1, TextInNext
  <2>. QED
    BY <2>1, <2>2, <2>3, <2>4
<1>6. /\ HeldOf(t \o y) = HeldOf(h \o y)
      /\ NoStrayOpen(t \o y) => NoStrayOpen(h \o y)
      /\ NoStrayOpen(h \o y) => RestoreEach(ReleasedOf(t \o y)) = RestoreEach(ReleasedOf(t)) \o o
  BY <1>1, <1>4, PushFacts
<1>7. Answered(d \o <<x>>).held = HeldOf(h \o y)
  BY <1>1, <1>4, AnsweredNext
<1>. QED
  BY <1>1, <1>2, <1>5, <1>6, <1>7 DEF ReleasedRestored

\* ... and one of another channel.
LEMMA OthersNext ==
  ASSUME NEW S, NEW d \in Seq(SentDelta), NEW x \in SentDelta, x.channel \notin S
  PROVE  /\ TextIn(d \o <<x>>, S) = TextIn(d, S)
         /\ ReleasedRestored(d, S) => ReleasedRestored(d \o <<x>>, S)
<1>1. TextIn(d \o <<x>>, S) = TextIn(d, S)
  BY DeltaTypes, TextInNext
<1>2. PICK z \in WrittenDelta :
        /\ z.channel = x.channel
        /\ Answered(d \o <<x>>).deltas = Answered(d).deltas \o <<z>>
  <2>1. PushedDelta(Answered(d).held, x).out \in Text /\ x.channel \in Channels \cup Unrestored
    BY AnsweredType, PushedDeltaFacts, DeltaTypes
  <2>2. Delta(x.channel, PushedDelta(Answered(d).held, x).out) \in WrittenDelta
        /\ Delta(x.channel, PushedDelta(Answered(d).held, x).out).channel = x.channel
    BY <2>1, DeltaFacts, DeltaTypes
  <2>. QED
    BY <2>2, AnsweredNext
<1>3. TextIn(Answered(d \o <<x>>).deltas, S) = TextIn(Answered(d).deltas, S)
  BY <1>2, AnsweredType, TextInNext
<1>. QED
  BY <1>1, <1>3 DEF ReleasedRestored

LEMMA Extended ==
  ASSUME NEW D, NEW e \in Seq(D), NEW x \in D
  PROVE  /\ e \o <<x>> \in Seq(D) /\ Len(e) \in Nat /\ Len(e \o <<x>>) = Len(e) + 1
         /\ \A k \in 1..Len(e) : (e \o <<x>>)[k] = e[k]
         /\ (e \o <<x>>)[Len(e) + 1] = x
         /\ \A n \in 0..Len(e) : SubSeq(e \o <<x>>, 1, n) = SubSeq(e, 1, n)
<1>1. PICK d : d = e \o <<x>>
  OBVIOUS
<1>2. /\ d \in Seq(D) /\ Len(e) \in Nat /\ Len(d) = Len(e) + 1
      /\ \A k \in 1..Len(e) : d[k] = e[k]
      /\ d[Len(e) + 1] = x
  BY <1>1
<1>3. ASSUME NEW n \in 0..Len(e) PROVE SubSeq(d, 1, n) = SubSeq(e, 1, n)
  BY <1>2
<1>. QED
  BY <1>1, <1>2, <1>3

(***************************************************************************)
(* Whatever strings a restorer has pushed, in however many events, it holds*)
(* exactly the end of their text that FindHoldStart would cut off the whole*)
(* of it, and what Push has returned is the rest, restored: where the text *)
(* is cut into deltas makes no difference.                                 *)
(***************************************************************************)
THEOREM HeldFollows ==
  \A d \in Seq(SentDelta) : Follows(d)
<1>. DEFINE T == {n \in Nat : \A d \in Seq(SentDelta) : Len(d) = n => Follows(d)}
<1>1. 0 \in T
  <2>. SUFFICES ASSUME NEW d \in Seq(SentDelta), Len(d) = 0 PROVE Follows(d)
    OBVIOUS
  <2>1. d = <<>>
    OBVIOUS
  <2>2. TextIn(<<>>, Channels) = <<>>
    BY TextInFacts
  <2>. QED
    BY <2>1, <2>2, AnsweredNone, EmptyHeld, ReleasedNothing DEF Follows
<1>2. ASSUME NEW n \in Nat, n \in T PROVE n + 1 \in T
  <2>. SUFFICES ASSUME NEW d \in Seq(SentDelta), Len(d) = n + 1 PROVE Follows(d)
    OBVIOUS
  <2>1. PICK e \in Seq(SentDelta), x \in SentDelta : Len(e) = n /\ d = e \o <<x>>
    BY LastSplit
  <2>2. Follows(e)
    BY <1>2, <2>1
  <2>3. CASE x.channel \in Channels
    <3>1. TextIn(d, Channels) = TextIn(e, Channels) \o x.text /\ TextIn(e, Channels) \in Text /\ x.text \in Text
      <4>1. e \in Seq(WrittenDelta) /\ x \in WrittenDelta /\ x.text \in Text
        BY DeltaTypes
      <4>2. TextIn(e \o <<x>>, Channels) = TextIn(e, Channels) \o x.text
        BY <2>3, <4>1, TextInNext
      <4>3. TextIn(e, Channels) \in Text
        BY <4>1, TextInFacts
      <4>. QED
        BY <2>1, <4>1, <4>2, <4>3
    <3>2. NoStrayOpen(TextIn(d, Channels)) => NoStrayOpen(TextIn(e, Channels))
      BY <3>1, StrayOfConcat, AnswerAssumption
    <3>3. /\ Answered(e \o <<x>>).held = HeldOf(TextIn(e \o <<x>>, Channels))
          /\ ReleasedRestored(e, Channels) /\ NoStrayOpen(TextIn(e \o <<x>>, Channels))
               => ReleasedRestored(e \o <<x>>, Channels)
      BY <2>2, <2>3, ReleasedNext DEF Follows
    <3>. QED
      BY <2>1, <2>2, <3>2, <3>3 DEF Follows
  <2>4. CASE x.channel \notin Channels
    <3>1. x.channel \in Unrestored
      BY <2>4, DeltaTypes
    <3>2. Answered(d).held = Answered(e).held
      BY <2>1, <3>1, UnrestoredNext
    <3>3. /\ TextIn(e \o <<x>>, Channels) = TextIn(e, Channels)
          /\ ReleasedRestored(e, Channels) => ReleasedRestored(e \o <<x>>, Channels)
      BY <2>4, OthersNext
    <3>. QED
      BY <2>1, <2>2, <3>2, <3>3 DEF Follows
  <2>. QED
    BY <2>3, <2>4
<1>. HIDE DEF T
<1>3. \A n \in Nat : n \in T
  BY <1>1, <1>2, Induction
<1>. QED
  BY <1>3 DEF T

LEMMA TextInRaw ==
  ASSUME NEW S, NEW d \in Seq(SentDelta)
  PROVE  TextIn(d, S \cup {"raw"}) = TextIn(d, S)
<1>1. \A k \in 1..Len(d) : d[k].channel \in S \cup {"raw"} <=> d[k].channel \in S
  <2>. SUFFICES ASSUME NEW k \in 1..Len(d)
                PROVE  d[k].channel \in S \cup {"raw"} <=> d[k].channel \in S
    OBVIOUS
  <2>1. d[k] \in SentDelta
    OBVIOUS
  <2>2. d[k].channel # "raw"
    BY <2>1, DeltaTypes
  <2>. QED
    BY <2>2
<1>2. [k \in 1..Len(d) |-> IF d[k].channel \in S \cup {"raw"} THEN d[k].text ELSE <<>>]
        = [k \in 1..Len(d) |-> IF d[k].channel \in S THEN d[k].text ELSE <<>>]
  BY <1>1
<1>. QED
  BY <1>2 DEF TextIn

(***************************************************************************)
(* What Flush puts behind the last event.                                  *)
(***************************************************************************)
LEMMA TextBehind ==
  ASSUME NEW S, NEW d \in Seq(SentDelta), NEW rest \in Text
  PROVE  /\ d \o Behind(rest) \in Seq(WrittenDelta)
         /\ TextIn(d \o Behind(rest), S \cup {"raw"}) = TextIn(d, S) \o rest
         /\ "raw" \notin S => TextIn(d \o Behind(rest), S) = TextIn(d, S)
<1>1. d \in Seq(WrittenDelta)
  BY DeltaTypes
<1>2. CASE rest = <<>>
  <2>1. TextIn(d, S) \in Seq(Char)
    BY <1>1, TextInFacts DEF Text
  <2>2. d \o Behind(rest) = d
    BY <1>2, ConcatEmptySeq DEF Behind
  <2>3. TextIn(d, S) \o rest = TextIn(d, S)
    BY <1>2, <2>1, ConcatEmptySeq
  <2>. QED
    BY <1>1, <2>2, <2>3, TextInRaw
<1>3. CASE rest # <<>>
  <2>1. PICK z \in WrittenDelta : z = Delta("raw", rest) /\ z.channel = "raw" /\ z.text = rest
    BY DeltaFacts
  <2>2. d \o Behind(rest) = d \o <<z>>
    BY <1>3, <2>1 DEF Behind
  <2>3. TextIn(d \o <<z>>, S \cup {"raw"}) = TextIn(d, S \cup {"raw"}) \o rest
    <3>1. PICK R : R = S \cup {"raw"}
      OBVIOUS
    <3>2. z.channel \in R
      BY <2>1, <3>1
    <3>3. TextIn(d \o <<z>>, R) = TextIn(d, R) \o z.text
      BY <1>1, <3>2, TextInNext
    <3>. QED
      BY <2>1, <3>1, <3>3
  <2>4. "raw" \notin S => TextIn(d \o <<z>>, S) = TextIn(d, S)
    BY <1>1, <2>1, TextInNext
  <2>5. d \o <<z>> \in Seq(WrittenDelta)
    BY <1>1, TextInNext
  <2>. QED
    BY <2>2, <2>3, <2>4, <2>5, TextInRaw
<1>. QED
  BY <1>2, <1>3

(***************************************************************************)
(* All that has been released, and all there is.                           *)
(***************************************************************************)
LEMMA ReleasedFront ==
  ASSUME NEW t \in Text
  PROVE  /\ ReleasedOf(t) = SubSeq(t, 1, Len(t) - Len(HeldOf(t)))
         /\ SubSeq(t, 1, Len(t) - Len(<<>>)) = t
         /\ HeldOf(t) = <<>> => ReleasedOf(t) = t
<1>1. t \in Seq(Char) /\ Len(t) - Len(<<>>) = Len(t)
  BY DEF Text
<1>2. HeldOf(t) = <<>> => ReleasedOf(t) = t
  BY HeldFacts, NothingHeld, <1>1
<1>. QED
  BY <1>1, <1>2, HeldFacts

LEMMA StrayOfHeld ==
  ASSUME NEW t \in Text, NoStrayOpen(t)
  PROVE  NoStrayOpen(HeldOf(t))
BY HeldFacts, StrayOfConcat, AnswerAssumption

\* While Copy reads, and once it is done.
LEMMA TextSoFar ==
  ASSUME NEW d \in Seq(SentDelta), NoStrayOpen(TextIn(d, Channels))
  PROVE  TextIn(Answered(d).deltas, Channels \cup {"raw"}) =
           RestoreEach(SubSeq(TextIn(d, Channels), 1, Len(TextIn(d, Channels)) - Len(Answered(d).held)))
<1>1. PICK t \in Text : t = TextIn(d, Channels)
  BY DeltaTypes, TextInFacts
<1>2. Follows(d) /\ Answered(d).deltas \in Seq(SentDelta)
  BY HeldFollows, AnsweredType
<1>3. TextIn(Answered(d).deltas, Channels \cup {"raw"}) = RestoreEach(SubSeq(t, 1, Len(t) - Len(Answered(d).held)))
  <2>1. /\ TextIn(Answered(d).deltas, Channels) = RestoreEach(ReleasedOf(t))
        /\ Answered(d).held = HeldOf(t)
    BY <1>1, <1>2 DEF Follows, ReleasedRestored
  <2>. QED
    BY <1>2, <2>1, ReleasedFront, TextInRaw
<1>. QED
  BY <1>1, <1>3

LEMMA TextAtEnd ==
  ASSUME NEW d \in Seq(SentDelta), NoStrayOpen(TextIn(d, Channels)),
         NEW w, w = Answered(d).deltas \o Behind(RestoreString(Answered(d).held))
  PROVE  TextIn(w, Channels \cup {"raw"}) =
           RestoreEach(SubSeq(TextIn(d, Channels), 1, Len(TextIn(d, Channels)) - Len(<<>>)))
<1>1. PICK t \in Text : t = TextIn(d, Channels)
  BY DeltaTypes, TextInFacts
<1>2. /\ Answered(d).held = HeldOf(t) /\ Answered(d).deltas \in Seq(SentDelta)
      /\ TextIn(Answered(d).deltas, Channels) = RestoreEach(ReleasedOf(t))
  BY <1>1, HeldFollows, AnsweredType DEF Follows, ReleasedRestored
<1>3. PICK a \in Seq(SentDelta), rest \in Text :
        a = Answered(d).deltas /\ rest = RestoreString(HeldOf(t)) /\ w = a \o Behind(rest)
  BY <1>2, HeldFacts, RestoreStringType, AnswerAssumption
<1>4. NoStrayOpen(HeldOf(t))
  BY <1>1, StrayOfHeld
<1>5. TextIn(w, Channels \cup {"raw"}) = RestoreEach(t)
  <2>1. TextIn(w, Channels \cup {"raw"}) = TextIn(a, Channels) \o rest
    <3>1. TextIn(a \o Behind(rest), Channels \cup {"raw"}) = TextIn(a, Channels) \o rest
      BY TextBehind
    <3>. QED
      BY <1>3, <3>1
  <2>2. RestoreEach(t) = RestoreEach(ReleasedOf(t)) \o RestoreString(HeldOf(t))
    BY <1>4, FlushCompletes, AnswerAssumption
  <2>. QED
    BY <1>2, <1>3, <2>1, <2>2
<1>. QED
  BY <1>1, <1>5, ReleasedFront

-----------------------------------------------------------------------------
(***************************************************************************)
(* Lines.                                                                  *)
(***************************************************************************)
LEMMA LineTypes ==
  /\ UpstreamLine = [kind   : {"blank", "field", "data"} \cup RestoredKinds \cup PlainKinds,
                     part   : {"none", "whole", "first", "second", "done"},
                     deltas : Seq(SentDelta)]
  /\ AnyLine = [kind   : {"blank", "field", "data"} \cup RestoredKinds \cup PlainKinds \cup {"raw"},
                part   : {"none", "whole", "first", "second", "done"},
                deltas : Seq(WrittenDelta)]
  /\ UpstreamLine \subseteq AnyLine
<1>1. Channels \cup Unrestored \cup {} = Channels \cup Unrestored
  OBVIOUS
<1>2. UpstreamLine = [kind   : {"blank", "field", "data"} \cup RestoredKinds \cup PlainKinds,
                      part   : {"none", "whole", "first", "second", "done"},
                      deltas : Seq(SentDelta)]
  BY <1>1 DEF UpstreamLine, LinesWith, SentDelta
<1>3. AnyLine = [kind   : {"blank", "field", "data"} \cup RestoredKinds \cup PlainKinds \cup {"raw"},
                 part   : {"none", "whole", "first", "second", "done"},
                 deltas : Seq(WrittenDelta)]
  BY DEF AnyLine, LinesWith, WrittenDelta
<1>4. \A d \in Seq(SentDelta) : d \in Seq(WrittenDelta)
  BY DeltaTypes
<1>5. UpstreamLine \subseteq AnyLine
  BY <1>2, <1>3, <1>4
<1>. QED
  BY <1>2, <1>3, <1>5

LEMMA LineFacts ==
  /\ \A l \in UpstreamLine : l \in AnyLine /\ l.deltas \in Seq(SentDelta) /\ l.kind # "raw"
  /\ \A l \in AnyLine : l.deltas \in Seq(WrittenDelta)
  /\ \A s \in Seq(UpstreamLine) : s \in Seq(AnyLine)
<1>1. \A l \in UpstreamLine : l.deltas \in Seq(SentDelta) /\ l.kind # "raw"
  BY LineTypes DEF RestoredKinds, PlainKinds
<1>2. \A l \in AnyLine : l.deltas \in Seq(WrittenDelta)
  BY LineTypes
<1>3. \A s \in Seq(UpstreamLine) : s \in Seq(AnyLine)
  <2>1. UpstreamLine \subseteq AnyLine
    BY LineTypes
  <2>. QED
    BY <2>1
<1>. QED
  BY <1>1, <1>2, <1>3, LineTypes

PartDeltas(l) == IF l.part \in {"none", "whole"} THEN l.deltas ELSE <<>>

LEMMA LineDeltasFacts ==
  /\ LineDeltas(<<>>) = <<>>
  /\ \A a \in Seq(AnyLine) : LineDeltas(a) \in Seq(WrittenDelta)
  /\ \A a \in Seq(AnyLine), l \in AnyLine : LineDeltas(a \o <<l>>) = LineDeltas(a) \o PartDeltas(l)
<1>. DEFINE g == [l \in AnyLine |-> PartDeltas(l)]
<1>1. g \in [AnyLine -> Seq(WrittenDelta)]
  <2>1. \A l \in AnyLine : PartDeltas(l) \in Seq(WrittenDelta)
    BY LineFacts DEF PartDeltas
  <2>. QED
    BY <2>1
<1>2. ASSUME NEW a \in Seq(AnyLine) PROVE LineDeltas(a) = Each(g, a)
  <2>1. \A k \in 1..Len(a) : g[a[k]] = IF a[k].part \in {"none", "whole"} THEN a[k].deltas ELSE <<>>
    BY DEF PartDeltas
  <2>. HIDE DEF g
  <2>2. [k \in 1..Len(a) |-> g[a[k]]]
          = [k \in 1..Len(a) |-> IF a[k].part \in {"none", "whole"} THEN a[k].deltas ELSE <<>>]
    BY <2>1
  <2>. QED
    BY <2>2 DEF LineDeltas, Each
<1>3. \A l \in AnyLine : g[l] = PartDeltas(l)
  OBVIOUS
<1>. HIDE DEF g
<1>4. /\ Each(g, <<>>) = <<>>
      /\ \A x \in AnyLine : Each(g, <<x>>) = g[x]
      /\ \A a \in Seq(AnyLine) : Each(g, a) \in Seq(WrittenDelta)
      /\ \A a, b \in Seq(AnyLine) : Each(g, a \o b) = Each(g, a) \o Each(g, b)
  BY <1>1, EachFacts
<1>5. <<>> \in Seq(AnyLine) /\ \A l \in AnyLine : <<l>> \in Seq(AnyLine)
  OBVIOUS
<1>6. ASSUME NEW a \in Seq(AnyLine), NEW l \in AnyLine
      PROVE  LineDeltas(a \o <<l>>) = LineDeltas(a) \o PartDeltas(l)
  <2>1. a \o <<l>> \in Seq(AnyLine)
    OBVIOUS
  <2>2. LineDeltas(a \o <<l>>) = Each(g, a \o <<l>>) /\ LineDeltas(a) = Each(g, a)
    BY <1>2, <2>1
  <2>3. <<l>> \in Seq(AnyLine) /\ Each(g, <<l>>) = g[l]
    BY <1>4, <1>5
  <2>4. Each(g, a \o <<l>>) = Each(g, a) \o Each(g, <<l>>)
    BY <1>4, <2>3
  <2>. QED
    BY <1>3, <2>2, <2>3, <2>4
<1>. QED
  BY <1>2, <1>4, <1>5, <1>6

LEMMA LineDeltasSent ==
  ASSUME NEW a \in Seq(UpstreamLine)
  PROVE  LineDeltas(a) \in Seq(SentDelta)
<1>. DEFINE s == [k \in 1..Len(a) |-> IF a[k].part \in {"none", "whole"} THEN a[k].deltas ELSE <<>>]
<1>1. \A k \in 1..Len(a) :
        (IF a[k].part \in {"none", "whole"} THEN a[k].deltas ELSE <<>>) \in Seq(SentDelta)
  BY LineFacts
<1>2. s \in Seq(Seq(SentDelta))
  BY <1>1
<1>. HIDE DEF s
<1>3. FlattenSeq(s) \in Seq(SentDelta)
  BY <1>2, FlattenType
<1>. QED
  BY <1>3 DEF LineDeltas, s

LEMMA PassedFacts ==
  /\ Passed(<<>>) = <<>>
  /\ \A a \in Seq(AnyLine) : Passed(a) \in Seq(AnyLine)
  /\ \A a \in Seq(AnyLine), l \in AnyLine :
       Passed(a \o <<l>>) = IF l.kind \in {"blank", "raw"} THEN Passed(a) ELSE Passed(a) \o <<l>>
<1>. DEFINE g == [l \in AnyLine |-> IF l.kind \in {"blank", "raw"} THEN <<>> ELSE <<l>>]
<1>1. PICK C : C = AnyLine /\ g \in [AnyLine -> Seq(C)]
  OBVIOUS
<1>2. ASSUME NEW a \in Seq(AnyLine) PROVE Passed(a) = Each(g, a)
  <2>1. \A k \in 1..Len(a) : g[a[k]] = IF a[k].kind \in {"blank", "raw"} THEN <<>> ELSE <<a[k]>>
    OBVIOUS
  <2>. HIDE DEF g
  <2>2. [k \in 1..Len(a) |-> g[a[k]]]
          = [k \in 1..Len(a) |-> IF a[k].kind \in {"blank", "raw"} THEN <<>> ELSE <<a[k]>>]
    BY <2>1
  <2>. QED
    BY <2>2 DEF Passed, Each
<1>3. \A l \in AnyLine : g[l] = IF l.kind \in {"blank", "raw"} THEN <<>> ELSE <<l>>
  OBVIOUS
<1>. HIDE DEF g
<1>4. /\ Each(g, <<>>) = <<>>
      /\ \A x \in AnyLine : Each(g, <<x>>) = g[x]
      /\ \A a \in Seq(AnyLine) : Each(g, a) \in Seq(AnyLine)
      /\ \A a, b \in Seq(AnyLine) : Each(g, a \o b) = Each(g, a) \o Each(g, b)
  <2>1. g \in [AnyLine -> Seq(C)]
    BY <1>1
  <2>2. /\ Each(g, <<>>) = <<>>
        /\ \A x \in AnyLine : Each(g, <<x>>) = g[x]
        /\ \A a \in Seq(AnyLine) : Each(g, a) \in Seq(C)
        /\ \A a, b \in Seq(AnyLine) : Each(g, a \o b) = Each(g, a) \o Each(g, b)
    BY <2>1, EachFacts
  <2>. QED
    BY <1>1, <2>2
<1>5. <<>> \in Seq(AnyLine) /\ \A l \in AnyLine : <<l>> \in Seq(AnyLine)
  OBVIOUS
<1>6. ASSUME NEW a \in Seq(AnyLine), NEW l \in AnyLine
      PROVE  Passed(a \o <<l>>) = IF l.kind \in {"blank", "raw"} THEN Passed(a) ELSE Passed(a) \o <<l>>
  <2>1. a \o <<l>> \in Seq(AnyLine)
    OBVIOUS
  <2>2. Passed(a \o <<l>>) = Passed(a) \o g[l] /\ Passed(a) \in Seq(AnyLine)
    <3>1. Passed(a \o <<l>>) = Each(g, a \o <<l>>) /\ Passed(a) = Each(g, a)
      BY <1>2, <2>1
    <3>2. <<l>> \in Seq(AnyLine) /\ Each(g, <<l>>) = g[l]
      BY <1>4, <1>5
    <3>3. Each(g, a \o <<l>>) = Each(g, a) \o Each(g, <<l>>) /\ Each(g, a) \in Seq(AnyLine)
      BY <1>4, <3>2
    <3>. QED
      BY <3>1, <3>2, <3>3
  <2>3. Passed(a) \o <<>> = Passed(a)
    BY <2>2, ConcatEmptySeq
  <2>. QED
    BY <1>3, <2>2, <2>3
<1>. QED
  BY <1>2, <1>4, <1>5, <1>6

(***************************************************************************)
(* The deltas of events.                                                   *)
(***************************************************************************)
EventDeltas(event) == IF IsObject(event) THEN event[1].deltas ELSE <<>>

LEMMA EventDeltasType ==
  ASSUME NEW event \in Seq(UpstreamLine)
  PROVE  EventDeltas(event) \in Seq(SentDelta)
<1>1. IsObject(event) => event[1] \in UpstreamLine
  BY DEF IsObject
<1>. QED
  BY <1>1, LineFacts DEF EventDeltas

LEMMA DeltasOfFacts ==
  /\ DeltasOf(<<>>) = <<>>
  /\ \A a \in Seq(Seq(UpstreamLine)) : DeltasOf(a) \in Seq(SentDelta)
  /\ \A a \in Seq(Seq(UpstreamLine)), event \in Seq(UpstreamLine) :
       DeltasOf(a \o <<event>>) = DeltasOf(a) \o EventDeltas(event)
<1>. DEFINE g == [event \in Seq(UpstreamLine) |-> EventDeltas(event)]
<1>1. g \in [Seq(UpstreamLine) -> Seq(SentDelta)]
  BY EventDeltasType
<1>2. ASSUME NEW a \in Seq(Seq(UpstreamLine)) PROVE DeltasOf(a) = Each(g, a)
  <2>1. \A k \in 1..Len(a) : g[a[k]] = IF IsObject(a[k]) THEN a[k][1].deltas ELSE <<>>
    BY DEF EventDeltas
  <2>. HIDE DEF g
  <2>2. [k \in 1..Len(a) |-> g[a[k]]]
          = [k \in 1..Len(a) |-> IF IsObject(a[k]) THEN a[k][1].deltas ELSE <<>>]
    BY <2>1
  <2>. QED
    BY <2>2 DEF DeltasOf, Each
<1>3. \A event \in Seq(UpstreamLine) : g[event] = EventDeltas(event)
  OBVIOUS
<1>. HIDE DEF g
<1>. DEFINE Events == Seq(UpstreamLine)
<1>. HIDE DEF Events
<1>4. /\ Each(g, <<>>) = <<>>
      /\ \A x \in Events : Each(g, <<x>>) = g[x]
      /\ \A a \in Seq(Events) : Each(g, a) \in Seq(SentDelta)
      /\ \A a, b \in Seq(Events) : Each(g, a \o b) = Each(g, a) \o Each(g, b)
  BY <1>1, EachFacts DEF Events
<1>5. <<>> \in Seq(Events) /\ \A l \in Events : <<l>> \in Seq(Events)
  OBVIOUS
<1>6. ASSUME NEW a \in Seq(Events), NEW event \in Events
      PROVE  DeltasOf(a \o <<event>>) = DeltasOf(a) \o EventDeltas(event)
  <2>1. a \o <<event>> \in Seq(Events)
    OBVIOUS
  <2>2. DeltasOf(a \o <<event>>) = Each(g, a \o <<event>>) /\ DeltasOf(a) = Each(g, a)
    BY <1>2, <2>1 DEF Events
  <2>3. g[event] = EventDeltas(event)
    BY <1>3 DEF Events
  <2>4. <<event>> \in Seq(Events) /\ Each(g, <<event>>) = g[event]
    BY <1>4, <1>5
  <2>5. Each(g, a \o <<event>>) = Each(g, a) \o Each(g, <<event>>)
    BY <1>4, <2>4
  <2>. QED
    BY <2>2, <2>3, <2>4, <2>5
<1>7. DeltasOf(<<>>) = <<>> /\ \A a \in Seq(Events) : DeltasOf(a) \in Seq(SentDelta)
  BY <1>2, <1>4, <1>5 DEF Events
<1>. QED
  BY <1>6, <1>7 DEF Events

(***************************************************************************)
(* Reading a stream as a client does: a line is parsed after those before  *)
(* it.                                                                     *)
(***************************************************************************)
NothingParsed == [events |-> <<>>, data |-> <<>>]

IsParse(f, s, n) ==
  f = [k \in 0..n |-> IF k = 0 THEN NothingParsed ELSE ParseLine(f[k - 1], s[k])]

ParseStep(f, s, k) == f[k] = IF k = 0 THEN NothingParsed ELSE ParseLine(f[k - 1], s[k])

Parses(f, s, n) == \A k \in 0..n : ParseStep(f, s, k)

LEMMA ParseExists ==
  ASSUME NEW s
  PROVE  \A n \in Nat : \E f : IsParse(f, s, n)
<1>. DEFINE T == {n \in Nat : \E f : IsParse(f, s, n)}
<1>1. 0 \in T
  <2>. DEFINE g == [k \in 0..0 |-> NothingParsed]
  <2>1. g = [k \in 0..0 |-> IF k = 0 THEN NothingParsed ELSE ParseLine(g[k - 1], s[k])]
    OBVIOUS
  <2>. HIDE DEF g
  <2>2. IsParse(g, s, 0)
    BY <2>1 DEF IsParse
  <2>. QED
    BY <2>2
<1>2. ASSUME NEW n \in Nat, n \in T
      PROVE  n + 1 \in T
  <2>1. PICK f : IsParse(f, s, n)
    BY <1>2
  <2>2. \A k \in 0..n : f[k] = IF k = 0 THEN NothingParsed ELSE ParseLine(f[k - 1], s[k])
    BY <2>1 DEF IsParse
  <2>. DEFINE g == [k \in 0..(n + 1) |-> IF k = n + 1 THEN ParseLine(f[n], s[n + 1]) ELSE f[k]]
  <2>3. ASSUME NEW k \in 0..(n + 1)
        PROVE  g[k] = IF k = 0 THEN NothingParsed ELSE ParseLine(g[k - 1], s[k])
    <3>1. CASE k = n + 1
      <4>1. k # 0 /\ k - 1 = n /\ n \in 0..(n + 1) /\ n # n + 1
        BY <3>1
      <4>2. g[k - 1] = f[n] /\ g[k] = ParseLine(f[n], s[n + 1])
        BY <3>1, <4>1
      <4>. QED
        BY <3>1, <4>1, <4>2
    <3>2. CASE k # n + 1
      <4>1. k \in 0..n /\ (k # 0 => k - 1 \in 0..(n + 1) /\ k - 1 # n + 1)
        BY <3>2
      <4>2. g[k] = f[k] /\ (k # 0 => g[k - 1] = f[k - 1])
        BY <3>2, <4>1
      <4>. HIDE DEF g
      <4>. QED
        BY <2>2, <4>1, <4>2
    <3>. QED
      BY <3>1, <3>2
  <2>4. g = [k \in 0..(n + 1) |-> g[k]]
    OBVIOUS
  <2>. HIDE DEF g
  <2>5. IsParse(g, s, n + 1)
    BY <2>3, <2>4 DEF IsParse
  <2>. QED
    BY <2>5
<1>. HIDE DEF T
<1>3. \A n \in Nat : n \in T
  BY <1>1, <1>2, Induction
<1>. QED
  BY <1>3 DEF T

LEMMA ParseSteps ==
  ASSUME NEW s, Len(s) \in Nat
  PROVE  \E f : Parsed(s) = f[Len(s)] /\ Parses(f, s, Len(s))
<1>. DEFINE f == CHOOSE g : IsParse(g, s, Len(s))
<1>1. Parsed(s) = f[Len(s)]
  BY DEF Parsed, IsParse, NothingParsed
<1>2. IsParse(f, s, Len(s))
  BY ParseExists
<1>. HIDE DEF f
<1>3. ASSUME NEW k \in 0..Len(s) PROVE ParseStep(f, s, k)
  BY <1>2 DEF IsParse, ParseStep
<1>. QED
  BY <1>1, <1>3 DEF Parses

LEMMA ParsesAgree ==
  ASSUME NEW s, NEW t, NEW n \in Nat, NEW f, NEW g,
         Parses(f, s, n), Parses(g, t, n), \A k \in 1..n : s[k] = t[k]
  PROVE  f[n] = g[n]
<1>. DEFINE T == {k \in Nat : k <= n => f[k] = g[k]}
<1>1. 0 \in T
  <2>1. ParseStep(f, s, 0) /\ ParseStep(g, t, 0)
    BY DEF Parses
  <2>. QED
    BY <2>1 DEF ParseStep
<1>2. ASSUME NEW k \in Nat, k \in T
      PROVE  k + 1 \in T
  <2>. SUFFICES ASSUME k + 1 <= n PROVE f[k + 1] = g[k + 1]
    OBVIOUS
  <2>1. k + 1 \in 0..n /\ k + 1 \in 1..n /\ k + 1 # 0 /\ (k + 1) - 1 = k /\ k <= n
    OBVIOUS
  <2>2. f[k] = g[k] /\ s[k + 1] = t[k + 1]
    BY <1>2, <2>1
  <2>3. ParseStep(f, s, k + 1) /\ ParseStep(g, t, k + 1)
    BY <2>1 DEF Parses
  <2>. QED
    BY <2>1, <2>2, <2>3 DEF ParseStep
<1>. HIDE DEF T
<1>3. \A k \in Nat : k \in T
  BY <1>1, <1>2, Induction
<1>. QED
  BY <1>3 DEF T

LEMMA ParsedNext ==
  /\ Parsed(<<>>) = NothingParsed
  /\ \A s \in Seq(AnyLine), l \in AnyLine : Parsed(s \o <<l>>) = ParseLine(Parsed(s), l)
<1>1. Parsed(<<>>) = NothingParsed
  <2>1. PICK f : Parsed(<<>>) = f[Len(<<>>)] /\ Parses(f, <<>>, Len(<<>>))
    BY ParseSteps
  <2>2. ParseStep(f, <<>>, 0)
    BY <2>1 DEF Parses
  <2>. QED
    BY <2>1, <2>2 DEF ParseStep
<1>2. ASSUME NEW s \in Seq(AnyLine), NEW l \in AnyLine
      PROVE  Parsed(s \o <<l>>) = ParseLine(Parsed(s), l)
  <2>1. PICK t : t = s \o <<l>>
    OBVIOUS
  <2>2. PICK n \in Nat : n = Len(s)
    OBVIOUS
  <2>3. Len(t) = n + 1 /\ (\A k \in 1..n : t[k] = s[k]) /\ t[n + 1] = l
    BY <2>1, <2>2, Extended
  <2>4. PICK f : Parsed(t) = f[n + 1] /\ Parses(f, t, n + 1)
    <3>1. Len(t) \in Nat
      BY <2>3
    <3>. QED
      BY <2>3, <3>1, ParseSteps
  <2>5. PICK g : Parsed(s) = g[n] /\ Parses(g, s, n)
    BY <2>2, ParseSteps
  <2>6. Parses(f, t, n)
    BY <2>4 DEF Parses
  <2>7. f[n] = g[n]
    BY <2>3, <2>5, <2>6, ParsesAgree
  <2>8. ParseStep(f, t, n + 1) /\ n + 1 # 0 /\ (n + 1) - 1 = n
    BY <2>4 DEF Parses
  <2>9. f[n + 1] = ParseLine(f[n], t[n + 1])
    BY <2>8 DEF ParseStep
  <2>. QED
    BY <2>1, <2>3, <2>4, <2>5, <2>7, <2>9
<1>. QED
  BY <1>1, <1>2

-----------------------------------------------------------------------------
LEMMA AppendIs ==
  ASSUME NEW D, NEW s \in Seq(D), NEW x \in D
  PROVE  Append(s, x) = s \o <<x>> /\ s \o <<x>> \in Seq(D)
<1>1. /\ s \o <<x>> \in Seq(D) /\ Append(s, x) \in Seq(D)
      /\ Len(s \o <<x>>) = Len(s) + 1 /\ Len(Append(s, x)) = Len(s) + 1
      /\ \A k \in 1..(Len(s) + 1) : Append(s, x)[k] = (s \o <<x>>)[k]
  OBVIOUS
<1>. QED
  BY <1>1, SeqEqual

\* What a client has parsed, of lines of a set.
ParsedOf(L) == [events : Seq(Seq(L)), data : Seq(L)]

LEMMA ParseLineFacts ==
  ASSUME NEW L, NEW p \in ParsedOf(L), NEW l \in L
  PROVE  /\ l.kind = "data" =>
              ParseLine(p, l) = [events |-> p.events, data |-> p.data \o <<l>>]
         /\ l.kind = "field" =>
              ParseLine(p, l) = [events |-> p.events \o <<<<l>>>>, data |-> p.data]
         /\ l.kind = "blank" /\ p.data # <<>> =>
              ParseLine(p, l) = [events |-> p.events \o <<p.data>>, data |-> <<>>]
         /\ l.kind = "blank" /\ p.data = <<>> => ParseLine(p, l) = p
         /\ l.kind \notin {"data", "field", "blank"} => ParseLine(p, l) = p
         /\ ParseLine(p, l) \in ParsedOf(L)
<1>1. p = [events |-> p.events, data |-> p.data] /\ p.events \in Seq(Seq(L)) /\ p.data \in Seq(L)
  BY DEF ParsedOf
<1>2. Append(p.data, l) = p.data \o <<l>> /\ p.data \o <<l>> \in Seq(L)
  BY <1>1, AppendIs
<1>3. PICK E : E = Seq(L)
  OBVIOUS
<1>. DEFINE one == <<l>>
<1>4. one \in Seq(L)
  OBVIOUS
<1>. HIDE DEF one
<1>5. p.events \in Seq(E) /\ p.data \in E /\ one \in E
  BY <1>1, <1>3, <1>4
<1>6. \A x \in E : Append(p.events, x) = p.events \o <<x>> /\ p.events \o <<x>> \in Seq(E)
  BY <1>5, AppendIs
<1>7. CASE l.kind = "data"
  <2>1. ParseLine(p, l) = [events |-> p.events, data |-> Append(p.data, l)]
    BY <1>1, <1>7 DEF ParseLine
  <2>. QED
    BY <1>1, <1>2, <1>7, <2>1 DEF ParsedOf
<1>8. CASE l.kind = "field"
  <2>1. ParseLine(p, l) = [events |-> Append(p.events, one), data |-> p.data]
    BY <1>1, <1>8 DEF ParseLine, one
  <2>2. PICK u : u = p.events \o <<one>> /\ u = Append(p.events, one) /\ u \in Seq(Seq(L))
    BY <1>3, <1>5, <1>6
  <2>3. [events |-> u, data |-> p.data] \in ParsedOf(L)
    BY <1>1, <2>2 DEF ParsedOf
  <2>4. ParseLine(p, l) = [events |-> u, data |-> p.data]
    BY <2>1, <2>2
  <2>. QED
    BY <1>8, <2>2, <2>3, <2>4 DEF one
<1>9. CASE l.kind = "blank" /\ p.data # <<>>
  <2>1. ParseLine(p, l) = [events |-> Append(p.events, p.data), data |-> <<>>]
    BY <1>1, <1>9 DEF ParseLine
  <2>2. PICK u : u = p.events \o <<p.data>> /\ u = Append(p.events, p.data) /\ u \in Seq(Seq(L))
    BY <1>3, <1>5, <1>6
  <2>3. [events |-> u, data |-> <<>>] \in ParsedOf(L)
    BY <2>2 DEF ParsedOf
  <2>4. ParseLine(p, l) = [events |-> u, data |-> <<>>]
    BY <2>1, <2>2
  <2>. QED
    BY <1>9, <2>2, <2>3, <2>4
<1>10. CASE l.kind \notin {"data", "field", "blank"} \/ (l.kind = "blank" /\ p.data = <<>>)
  <2>1. ParseLine(p, l) = p
    BY <1>10 DEF ParseLine
  <2>. QED
    BY <1>10, <2>1
<1>. QED
  BY <1>7, <1>8, <1>9, <1>10

LEMMA ParsedType ==
  ASSUME NEW L \in SUBSET AnyLine, NEW s \in Seq(L)
  PROVE  Parsed(s) \in ParsedOf(L)
<1>. DEFINE T == {n \in Nat : \A t \in Seq(L) : Len(t) = n => Parsed(t) \in ParsedOf(L)}
<1>1. 0 \in T
  <2>. SUFFICES ASSUME NEW t \in Seq(L), Len(t) = 0 PROVE Parsed(t) \in ParsedOf(L)
    OBVIOUS
  <2>1. t = <<>> /\ <<>> \in Seq(L) /\ <<>> \in Seq(Seq(L))
    OBVIOUS
  <2>2. Parsed(t) = [events |-> <<>>, data |-> <<>>]
    BY <2>1, ParsedNext DEF NothingParsed
  <2>. QED
    <3>1. PICK u \in Seq(Seq(L)), v \in Seq(L) : Parsed(t) = [events |-> u, data |-> v]
      BY <2>1, <2>2
    <3>. QED
      BY <3>1 DEF ParsedOf
<1>2. ASSUME NEW n \in Nat, n \in T
      PROVE  n + 1 \in T
  <2>. SUFFICES ASSUME NEW t \in Seq(L), Len(t) = n + 1 PROVE Parsed(t) \in ParsedOf(L)
    OBVIOUS
  <2>1. PICK e \in Seq(L), x \in L : Len(e) = n /\ x = t[n + 1] /\ \A k \in 1..n : e[k] = t[k]
    <3>1. /\ SubSeq(t, 1, n) \in Seq(L) /\ Len(SubSeq(t, 1, n)) = n /\ t[n + 1] \in L
          /\ \A k \in 1..n : SubSeq(t, 1, n)[k] = t[k]
      OBVIOUS
    <3>. QED
      BY <3>1
  <2>2. Len(e) = n /\ t = e \o <<x>>
    <3>1. Len(t) = Len(e) + Len(<<x>>) /\ <<x>> \in Seq(L)
      BY <2>1
    <3>2. \A k \in 1..Len(e) : t[k] = e[k]
      BY <2>1
    <3>3. \A k \in 1..Len(<<x>>) : t[Len(e) + k] = <<x>>[k]
      BY <2>1
    <3>4. t = e \o <<x>>
      BY <3>1, <3>2, <3>3, InTwoParts
    <3>. QED
      BY <2>1, <3>4
  <2>3. Parsed(e) \in ParsedOf(L)
    BY <1>2, <2>2
  <2>4. e \in Seq(AnyLine) /\ x \in AnyLine
    OBVIOUS
  <2>5. Parsed(t) = ParseLine(Parsed(e), x)
    BY <2>2, <2>4, ParsedNext
  <2>6. PICK p \in ParsedOf(L) : p = Parsed(e)
    BY <2>3
  <2>7. ParseLine(p, x) \in ParsedOf(L)
    BY ParseLineFacts
  <2>. QED
    BY <2>5, <2>6, <2>7
<1>. HIDE DEF T
<1>3. \A n \in Nat : n \in T
  BY <1>1, <1>2, Induction
<1>. QED
  BY <1>3 DEF T

(***************************************************************************)
(* What both sides have in common: two lists of which each element is      *)
(* mapped to something.                                                    *)
(***************************************************************************)
IsList(f, n) == f = [k \in 1..n |-> f[k]]

LEMMA MappedAlike ==
  ASSUME NEW m \in Nat, NEW n \in Nat, NEW f, NEW g, IsList(f, m), IsList(g, n)
  PROVE  /\ f = g <=> m = n /\ \A k \in 1..m : f[k] = g[k]
         /\ IsPrefix(f, g) <=> m <= n /\ \A k \in 1..m : f[k] = g[k]
<1>. DEFINE R == {f[k] : k \in 1..m} \cup {g[k] : k \in 1..n}
<1>1. f \in Seq(R) /\ Len(f) = m
  <2>1. \A k \in 1..m : f[k] \in R
    OBVIOUS
  <2>. HIDE DEF R
  <2>2. [k \in 1..m |-> f[k]] \in Seq(R) /\ Len([k \in 1..m |-> f[k]]) = m
    BY <2>1
  <2>. QED
    BY <2>2 DEF IsList
<1>2. g \in Seq(R) /\ Len(g) = n
  <2>1. \A k \in 1..n : g[k] \in R
    OBVIOUS
  <2>. HIDE DEF R
  <2>2. [k \in 1..n |-> g[k]] \in Seq(R) /\ Len([k \in 1..n |-> g[k]]) = n
    BY <2>1
  <2>. QED
    BY <2>2 DEF IsList
<1>. HIDE DEF R
<1>3. f = g <=> m = n /\ \A k \in 1..m : f[k] = g[k]
  BY <1>1, <1>2, SeqEqual
<1>4. ASSUME m <= n
      PROVE  SubSeq(f, 1, m) = SubSeq(g, 1, m) <=> \A k \in 1..m : f[k] = g[k]
  <2>1. /\ SubSeq(f, 1, m) \in Seq(R) /\ Len(SubSeq(f, 1, m)) = m
        /\ \A k \in 1..m : SubSeq(f, 1, m)[k] = f[k]
    BY <1>1
  <2>2. /\ SubSeq(g, 1, m) \in Seq(R) /\ Len(SubSeq(g, 1, m)) = m
        /\ \A k \in 1..m : SubSeq(g, 1, m)[k] = g[k]
    BY <1>2, <1>4
  <2>. QED
    BY <2>1, <2>2, SeqEqual
<1>5. IsPrefix(f, g) <=> m <= n /\ \A k \in 1..m : f[k] = g[k]
  BY <1>1, <1>2, <1>4 DEF IsPrefix
<1>. QED
  BY <1>3, <1>5

\* One list is the other with one element more at its end.
Adds(f, g, x) ==
  \E m \in Nat : /\ IsList(f, m) /\ IsList(g, m + 1)
                 /\ \A k \in 1..m : f[k] = g[k]
                 /\ g[m + 1] = x

LEMMA AddsFacts ==
  ASSUME NEW f, NEW g, NEW x, Adds(f, g, x)
  PROVE  /\ IsPrefix(f, f) /\ IsPrefix(f, g)
         /\ \A h : Adds(f, h, x) => h = g
<1>1. PICK m \in Nat : /\ IsList(f, m) /\ IsList(g, m + 1)
                       /\ \A k \in 1..m : f[k] = g[k]
                       /\ g[m + 1] = x
  BY DEF Adds
<1>2. IsPrefix(f, f)
  BY <1>1, MappedAlike
<1>3. IsPrefix(f, g)
  <2>1. PICK n \in Nat : n = m + 1
    OBVIOUS
  <2>2. m <= n /\ IsList(g, n) /\ IsList(f, m) /\ \A k \in 1..m : f[k] = g[k]
    BY <1>1, <2>1
  <2>. QED
    BY <2>2, MappedAlike
<1>4. ASSUME NEW h, Adds(f, h, x) PROVE h = g
  <2>1. PICK n \in Nat : /\ IsList(f, n) /\ IsList(h, n + 1)
                         /\ \A k \in 1..n : f[k] = h[k]
                         /\ h[n + 1] = x
    BY <1>4 DEF Adds
  <2>2. m = n
    <3>1. f = f <=> m = n /\ \A k \in 1..m : f[k] = f[k]
      BY <1>1, <2>1, MappedAlike
    <3>. QED
      BY <3>1
  <2>3. \A k \in 1..(m + 1) : h[k] = g[k]
    <3>. SUFFICES ASSUME NEW k \in 1..(m + 1) PROVE h[k] = g[k]
      OBVIOUS
    <3>1. \A i \in 1..m : f[i] = g[i] /\ f[i] = h[i]
      BY <1>1, <2>1, <2>2
    <3>2. h[m + 1] = g[m + 1]
      BY <1>1, <2>1, <2>2
    <3>3. k \in 1..m \/ k = m + 1
      OBVIOUS
    <3>. QED
      BY <3>1, <3>2, <3>3
  <2>4. PICK l \in Nat : l = m + 1
    OBVIOUS
  <2>5. IsList(h, l) /\ IsList(g, l) /\ \A k \in 1..l : h[k] = g[k]
    BY <1>1, <2>1, <2>2, <2>3, <2>4
  <2>. QED
    BY <2>5, MappedAlike
<1>. QED
  BY <1>2, <1>3, <1>4

LEMMA EventsType ==
  /\ \A s \in Seq(AnyLine) : EventsOf(s) \in Seq(Seq(AnyLine))
  /\ \A s \in Seq(UpstreamLine) : EventsOf(s) \in Seq(Seq(UpstreamLine))
  /\ \A s \in Seq(AnyLine) : Parsed(s) \in ParsedOf(AnyLine)
  /\ \A s \in Seq(UpstreamLine) : Parsed(s) \in ParsedOf(UpstreamLine)
<1>1. UpstreamLine \in SUBSET AnyLine /\ AnyLine \in SUBSET AnyLine
  BY LineTypes
<1>2. \A s \in Seq(AnyLine) : Parsed(s) \in ParsedOf(AnyLine)
  BY <1>1, ParsedType
<1>3. \A s \in Seq(UpstreamLine) : Parsed(s) \in ParsedOf(UpstreamLine)
  BY <1>1, ParsedType
<1>. QED
  BY <1>2, <1>3 DEF EventsOf, ParsedOf

LEMMA ShapesFacts ==
  ASSUME NEW a \in Seq(AnyLine)
  PROVE  /\ IsPrefix(Shapes(a), Shapes(a))
         /\ \A b : EventsOf(b) = EventsOf(a) => Shapes(b) = Shapes(a)
         /\ \A b, x : EventsOf(b) = EventsOf(a) \o <<x>> => Adds(Shapes(a), Shapes(b), Shape(x))
<1>1. PICK u : u = EventsOf(a) /\ u \in Seq(Seq(AnyLine)) /\ Len(u) \in Nat /\ DOMAIN u = 1..Len(u)
  BY EventsType
<1>2. ASSUME NEW b, NEW x, EventsOf(b) = u \o <<x>>
      PROVE  Adds(Shapes(a), Shapes(b), Shape(x))
  <2>1. PICK v : v = u \o <<x>>
    OBVIOUS
  <2>2. /\ DOMAIN v = 1..(Len(u) + 1) /\ v[Len(u) + 1] = x
        /\ \A k \in 1..Len(u) : v[k] = u[k]
    BY <1>1, <2>1
  <2>3. PICK f : f = [k \in 1..Len(u) |-> Shape(u[k])]
    OBVIOUS
  <2>4. PICK g : g = [k \in 1..(Len(u) + 1) |-> Shape(v[k])]
    OBVIOUS
  <2>5. Shapes(a) = f /\ Shapes(b) = g
    BY <1>1, <1>2, <2>1, <2>2, <2>3, <2>4 DEF Shapes
  <2>6. IsList(f, Len(u)) /\ IsList(g, Len(u) + 1)
    BY <2>3, <2>4 DEF IsList
  <2>7. \A k \in 1..Len(u) : f[k] = g[k]
    <3>. SUFFICES ASSUME NEW k \in 1..Len(u) PROVE f[k] = g[k]
      OBVIOUS
    <3>1. k \in 1..(Len(u) + 1)
      BY <1>1
    <3>. QED
      BY <2>2, <2>3, <2>4, <3>1
  <2>8. g[Len(u) + 1] = Shape(x)
    <3>1. Len(u) + 1 \in 1..(Len(u) + 1)
      BY <1>1
    <3>. QED
      BY <2>2, <2>4, <3>1
  <2>. QED
    BY <1>1, <2>5, <2>6, <2>7, <2>8 DEF Adds
<1>3. IsPrefix(Shapes(a), Shapes(a))
  <2>1. PICK f : f = [k \in 1..Len(u) |-> Shape(u[k])]
    OBVIOUS
  <2>2. IsList(f, Len(u)) /\ Shapes(a) = f
    BY <1>1, <2>1 DEF Shapes, IsList
  <2>. QED
    BY <1>1, <2>2, MappedAlike
<1>4. \A b : EventsOf(b) = EventsOf(a) => Shapes(b) = Shapes(a)
  BY DEF Shapes
<1>. QED
  BY <1>1, <1>2, <1>3, <1>4

LEMMA KindsFacts ==
  ASSUME NEW a \in Seq(AnyLine)
  PROVE  /\ IsPrefix(Kinds(a), Kinds(a))
         /\ \A b : Passed(b) = Passed(a) => Kinds(b) = Kinds(a)
         /\ \A b, x : Passed(b) = Passed(a) \o <<x>> => Adds(Kinds(a), Kinds(b), x.kind)
<1>1. PICK u : u = Passed(a) /\ u \in Seq(AnyLine) /\ Len(u) \in Nat /\ DOMAIN u = 1..Len(u)
  BY PassedFacts
<1>2. ASSUME NEW b, NEW x, Passed(b) = u \o <<x>>
      PROVE  Adds(Kinds(a), Kinds(b), x.kind)
  <2>1. PICK v : v = u \o <<x>>
    OBVIOUS
  <2>2. /\ DOMAIN v = 1..(Len(u) + 1) /\ v[Len(u) + 1] = x
        /\ \A k \in 1..Len(u) : v[k] = u[k]
    BY <1>1, <2>1
  <2>3. PICK f : f = [k \in 1..Len(u) |-> u[k].kind]
    OBVIOUS
  <2>4. PICK g : g = [k \in 1..(Len(u) + 1) |-> v[k].kind]
    OBVIOUS
  <2>5. Kinds(a) = f /\ Kinds(b) = g
    BY <1>1, <1>2, <2>1, <2>2, <2>3, <2>4 DEF Kinds
  <2>6. IsList(f, Len(u)) /\ IsList(g, Len(u) + 1)
    BY <2>3, <2>4 DEF IsList
  <2>7. \A k \in 1..Len(u) : f[k] = g[k]
    <3>. SUFFICES ASSUME NEW k \in 1..Len(u) PROVE f[k] = g[k]
      OBVIOUS
    <3>1. k \in 1..(Len(u) + 1)
      BY <1>1
    <3>. QED
      BY <2>2, <2>3, <2>4, <3>1
  <2>8. g[Len(u) + 1] = x.kind
    <3>1. Len(u) + 1 \in 1..(Len(u) + 1)
      BY <1>1
    <3>. QED
      BY <2>2, <2>4, <3>1
  <2>. QED
    BY <1>1, <2>5, <2>6, <2>7, <2>8 DEF Adds
<1>3. IsPrefix(Kinds(a), Kinds(a))
  <2>1. PICK f : f = [k \in 1..Len(u) |-> u[k].kind]
    OBVIOUS
  <2>2. IsList(f, Len(u)) /\ Kinds(a) = f
    BY <1>1, <2>1 DEF Kinds, IsList
  <2>. QED
    BY <1>1, <2>2, MappedAlike
<1>4. \A b : Passed(b) = Passed(a) => Kinds(b) = Kinds(a)
  BY DEF Kinds
<1>. QED
  BY <1>1, <1>2, <1>3, <1>4

(***************************************************************************)
(* An event that is restored keeps its shape.                              *)
(***************************************************************************)
LEMMA RestoredShape ==
  ASSUME NEW h \in Buffer, NEW event \in Seq(UpstreamLine), IsObject(event),
         NEW z, z = Data("whole", RestoreDeltas(h, event[1].deltas).deltas)
  PROVE  /\ z \in AnyLine /\ z.kind = "data" /\ z.part = "whole"
         /\ z.deltas = RestoreDeltas(h, event[1].deltas).deltas
         /\ Shape(<<z>>) = Shape(event)
<1>1. PICK d \in Seq(SentDelta) : d = event[1].deltas
  <2>1. event[1] \in UpstreamLine
    BY DEF IsObject
  <2>. QED
    BY <2>1, LineFacts
<1>2. PICK r \in Seq(SentDelta) :
        /\ r = RestoreDeltas(h, d).deltas /\ Len(r) = Len(d)
        /\ \A k \in 1..Len(d) : /\ r[k].channel = d[k].channel
                                /\ d[k].channel \in Unrestored => r[k].text = d[k].text
  BY RestoreType
<1>3. z = [kind |-> "data", part |-> "whole", deltas |-> r]
  BY <1>1, <1>2 DEF Data, Line
<1>4. z \in AnyLine
  <2>1. r \in Seq(WrittenDelta)
    BY <1>2, DeltaTypes
  <2>. QED
    BY <1>3, <2>1, LineTypes
<1>5. IsObject(<<z>>)
  BY <1>3 DEF IsObject
<1>6. PICK s : s = [k \in 1..Len(d) |->
                      Delta(d[k].channel, IF d[k].channel \in Unrestored THEN d[k].text ELSE <<>>)]
  OBVIOUS
<1>7. Shape(event) = [object |-> TRUE, strings |-> s]
  <2>1. DOMAIN d = 1..Len(d)
    OBVIOUS
  <2>. QED
    BY <1>1, <1>6, <2>1 DEF Shape
<1>8. Shape(<<z>>) = [object |-> TRUE, strings |-> s]
  <2>1. DOMAIN r = 1..Len(d)
    BY <1>2
  <2>2. \A k \in 1..Len(d) :
          Delta(r[k].channel, IF r[k].channel \in Unrestored THEN r[k].text ELSE <<>>)
            = Delta(d[k].channel, IF d[k].channel \in Unrestored THEN d[k].text ELSE <<>>)
    BY <1>2
  <2>3. [k \in 1..Len(d) |->
           Delta(r[k].channel, IF r[k].channel \in Unrestored THEN r[k].text ELSE <<>>)] = s
    BY <1>6, <2>2
  <2>4. Shape(<<z>>) =
          [object |-> TRUE,
           strings |-> [k \in 1..Len(d) |->
             Delta(r[k].channel, IF r[k].channel \in Unrestored THEN r[k].text ELSE <<>>)]]
    <3>1. <<z>>[1].deltas = r
      BY <1>3
    <3>. QED
      BY <1>5, <2>1, <3>1 DEF Shape
  <2>. QED
    BY <2>3, <2>4
<1>. QED
  BY <1>1, <1>2, <1>3, <1>4, <1>7, <1>8

(***************************************************************************)
(* flushEvent: what is written at the end of an event.                     *)
(***************************************************************************)
DataOnly == \A k \in DOMAIN eventData : eventData[k].kind = "data" /\ eventData[k].part # "none"

LEMMA FlushType ==
  ASSUME held \in Buffer, eventData \in Seq(UpstreamLine)
  PROVE  FlushEvent.lines \in Seq(AnyLine) /\ FlushEvent.held \in Buffer
<1>1. CASE eventData = <<>>
  BY <1>1 DEF FlushEvent
<1>2. CASE eventData # <<>> /\ IsObject(eventData)
  <2>1. PICK z : z = Data("whole", RestoreDeltas(held, eventData[1].deltas).deltas)
    OBVIOUS
  <2>2. z \in AnyLine
    BY <1>2, <2>1, RestoredShape
  <2>3. FlushEvent = [lines |-> <<z>>, held |-> RestoreDeltas(held, eventData[1].deltas).held]
    BY <1>2, <2>1 DEF FlushEvent, RestoreEvent
  <2>4. eventData[1].deltas \in Seq(SentDelta)
    <3>1. eventData[1] \in UpstreamLine
      BY <1>2 DEF IsObject
    <3>. QED
      BY <3>1, LineFacts
  <2>5. RestoreDeltas(held, eventData[1].deltas).held \in Buffer
    BY <2>4, RestoreType
  <2>. QED
    BY <2>2, <2>3, <2>5
<1>3. CASE eventData # <<>> /\ ~IsObject(eventData)
  <2>1. FlushEvent = [lines |-> [k \in DOMAIN eventData |->
                                   IF k = 1 THEN eventData[1] ELSE [eventData[k] EXCEPT !.kind = "field"]],
                      held  |-> held]
    BY <1>3 DEF FlushEvent, RestoreEvent
  <2>2. DOMAIN eventData = 1..Len(eventData) /\ Len(eventData) \in Nat
    OBVIOUS
  <2>3. ASSUME NEW k \in 1..Len(eventData)
        PROVE  (IF k = 1 THEN eventData[1] ELSE [eventData[k] EXCEPT !.kind = "field"]) \in AnyLine
    <3>1. eventData[k] \in AnyLine /\ (k = 1 => eventData[1] \in AnyLine)
      BY LineFacts
    <3>2. [eventData[k] EXCEPT !.kind = "field"] \in AnyLine
      BY <3>1, LineTypes
    <3>. QED
      BY <3>1, <3>2
  <2>4. [k \in 1..Len(eventData) |->
           IF k = 1 THEN eventData[1] ELSE [eventData[k] EXCEPT !.kind = "field"]] \in Seq(AnyLine)
    BY <2>2, <2>3
  <2>. QED
    BY <2>1, <2>2, <2>4
<1>. QED
  BY <1>1, <1>2, <1>3

LEMMA FlushFacts ==
  ASSUME held \in Buffer, eventData \in Seq(UpstreamLine), DataOnly, eventData # <<>>,
         IsObject(eventData) \/ Len(eventData) = 1
  PROVE  \E z \in AnyLine :
           /\ z.kind = "data" /\ Shape(<<z>>) = Shape(eventData)
           /\ PartDeltas(z) = RestoreDeltas(held, EventDeltas(eventData)).deltas
           /\ FlushEvent.lines = <<z>>
           /\ FlushEvent.held = RestoreDeltas(held, EventDeltas(eventData)).held
<1>1. CASE IsObject(eventData)
  <2>1. PICK z : z = Data("whole", RestoreDeltas(held, eventData[1].deltas).deltas)
    OBVIOUS
  <2>2. /\ z \in AnyLine /\ z.kind = "data" /\ z.part = "whole" /\ Shape(<<z>>) = Shape(eventData)
        /\ z.deltas = RestoreDeltas(held, eventData[1].deltas).deltas
    BY <1>1, <2>1, RestoredShape
  <2>3. FlushEvent = [lines |-> <<z>>, held |-> RestoreDeltas(held, eventData[1].deltas).held]
    BY <1>1, <2>1 DEF FlushEvent, RestoreEvent
  <2>4. EventDeltas(eventData) = eventData[1].deltas
    BY <1>1 DEF EventDeltas
  <2>. QED
    BY <2>2, <2>3, <2>4 DEF PartDeltas
<1>2. CASE ~IsObject(eventData)
  <2>1. Len(eventData) = 1 /\ DOMAIN eventData = 1..1 /\ eventData[1] \in UpstreamLine
    BY <1>2
  <2>2. PICK z \in AnyLine : z = eventData[1]
    BY <2>1, LineFacts
  <2>3. z.kind = "data" /\ z.part \notin {"none", "whole"}
    BY <1>2, <2>1, <2>2 DEF DataOnly, IsObject
  <2>4. [k \in 1..1 |-> IF k = 1 THEN eventData[1] ELSE [eventData[k] EXCEPT !.kind = "field"]]
          = [k \in 1..1 |-> z]
    BY <2>2
  <2>5. [k \in 1..1 |-> z] = <<z>> /\ eventData = <<z>>
    BY <2>1, <2>2
  <2>6. FlushEvent = [lines |-> <<z>>, held |-> held]
    BY <1>2, <2>1, <2>4, <2>5 DEF FlushEvent, RestoreEvent
  <2>7. EventDeltas(eventData) = <<>> /\ PartDeltas(z) = <<>>
    BY <1>2, <2>3 DEF EventDeltas, PartDeltas
  <2>8. RestoreDeltas(held, <<>>) = [held |-> held, deltas |-> <<>>]
    BY RestoreNone
  <2>. QED
    BY <2>2, <2>3, <2>5, <2>6, <2>7, <2>8
<1>. QED
  BY <1>1, <1>2

(***************************************************************************)
(* Events with an element more, and the lines of each endpoint.            *)
(***************************************************************************)
LEMMA OrderlyNext ==
  ASSUME NEW D, NEW a \in Seq(D), NEW x \in D
  PROVE  Orderly(a \o <<x>>) <=> Orderly(a) /\ (IsObject(x) \/ Len(x) = 1)
<1>1. PICK b : b = a \o <<x>>
  OBVIOUS
<1>2. PICK n \in Nat : n = Len(a)
  OBVIOUS
<1>3. /\ DOMAIN a = 1..n /\ DOMAIN b = 1..(n + 1)
      /\ (\A k \in 1..n : b[k] = a[k]) /\ b[n + 1] = x
  BY <1>1, <1>2, Extended
<1>4. ASSUME Orderly(b) PROVE Orderly(a) /\ (IsObject(x) \/ Len(x) = 1)
  <2>1. n + 1 \in 1..(n + 1) /\ \A k \in 1..n : k \in 1..(n + 1)
    OBVIOUS
  <2>. QED
    BY <1>3, <1>4, <2>1 DEF Orderly
<1>5. ASSUME Orderly(a), IsObject(x) \/ Len(x) = 1 PROVE Orderly(b)
  <2>1. \A k \in 1..(n + 1) : k \in 1..n \/ k = n + 1
    OBVIOUS
  <2>. QED
    BY <1>3, <1>5, <2>1 DEF Orderly
<1>. QED
  BY <1>1, <1>4, <1>5

LEMMA SentLines ==
  ASSUME NEW e, NEW line, Sends(e, line)
  PROVE  /\ line \in UpstreamLine /\ line \in AnyLine
         /\ e # "responses" => /\ line.kind \in {"blank", "field", "data"}
                               /\ line.kind = "data" => line.part # "none"
                               /\ line.kind = "field" => line = Field
         /\ e = "responses" => /\ line.part = "none" /\ line.kind \in RestoredKinds \cup PlainKinds
                               /\ line.kind \in RestoredKinds =>
                                    Len(line.deltas) = 1 /\ line.deltas[1].channel = line.kind
                               /\ line.kind \in PlainKinds => line.deltas = <<>>
<1>1. line \in UpstreamLine /\ line \in AnyLine
  BY LineFacts DEF Sends
<1>. QED
  BY <1>1 DEF Sends, Blank, Field, Line, RestoredKinds, PlainKinds

LEMMA FixedLines ==
  /\ Blank \in UpstreamLine /\ Field \in UpstreamLine /\ Blank \in AnyLine /\ Field \in AnyLine
  /\ Blank.kind = "blank" /\ Field.kind = "field"
  /\ PartDeltas(Blank) = <<>> /\ PartDeltas(Field) = <<>>
  /\ Field.part = "none" /\ Blank.part = "none"
  /\ \A e : e # "responses" => Sends(e, Blank)
<1>1. Blank \in UpstreamLine /\ Field \in UpstreamLine
  BY LineTypes DEF Blank, Field, Line
<1>2. \A e : e # "responses" => Sends(e, Blank)
  BY <1>1 DEF Sends
<1>. QED
  BY <1>1, <1>2, LineFacts DEF Blank, Field, Line, PartDeltas

LEMMA RawLine ==
  ASSUME NEW rest \in Text
  PROVE  /\ Raw(rest) \in AnyLine /\ Raw(rest).kind = "raw"
         /\ PartDeltas(Raw(rest)) = <<Delta("raw", rest)>>
<1>1. <<Delta("raw", rest)>> \in Seq(WrittenDelta)
  BY DeltaFacts
<1>2. PICK d \in Seq(WrittenDelta) : d = <<Delta("raw", rest)>>
  BY <1>1
<1>3. Raw(rest) = [kind |-> "raw", part |-> "none", deltas |-> d]
  BY <1>2 DEF Raw, Line
<1>. QED
  BY <1>2, <1>3, LineTypes DEF PartDeltas

(***************************************************************************)
(* What has been written after a step: all of its lines, or fewer, and then*)
(* the client has gone away and Copy has failed.                           *)
(***************************************************************************)
LEMMA WriteType ==
  ASSUME out \in Seq(AnyLine), NEW lines \in Seq(AnyLine), NEW next, Write(lines, next)
  PROVE  out' \in Seq(AnyLine) /\ (status' = next \/ (gone /\ status' = "failed"))
<1>1. CASE out' = out \o lines /\ status' = next
  BY <1>1
<1>2. CASE gone /\ (\E n \in 0..(Len(lines) - 1) : out' = out \o SubSeq(lines, 1, n)) /\ status' = "failed"
  <2>1. PICK n \in 0..(Len(lines) - 1) : out' = out \o SubSeq(lines, 1, n)
    BY <1>2
  <2>2. SubSeq(lines, 1, n) \in Seq(AnyLine)
    OBVIOUS
  <2>3. PICK part \in Seq(AnyLine) : part = SubSeq(lines, 1, n)
    BY <2>2
  <2>4. out \o part \in Seq(AnyLine)
    OBVIOUS
  <2>. QED
    BY <1>2, <2>1, <2>3, <2>4
<1>. QED
  BY <1>1, <1>2 DEF Write

LEMMA WriteOne ==
  ASSUME out \in Seq(AnyLine), NEW z \in AnyLine, NEW next, Write(<<z>>, next)
  PROVE  \/ out' = out \o <<z>> /\ status' = next
         \/ gone /\ out' = out /\ status' = "failed"
<1>1. CASE gone /\ (\E n \in 0..(Len(<<z>>) - 1) : out' = out \o SubSeq(<<z>>, 1, n)) /\ status' = "failed"
  <2>1. PICK n \in 0..(Len(<<z>>) - 1) : out' = out \o SubSeq(<<z>>, 1, n)
    BY <1>1
  <2>2. n = 0
    OBVIOUS
  <2>3. SubSeq(<<z>>, 1, 0) = <<>>
    OBVIOUS
  <2>4. out \o <<>> = out
    BY ConcatEmptySeq
  <2>. QED
    BY <1>1, <2>1, <2>2, <2>3, <2>4
<1>. QED
  BY <1>1 DEF Write

LEMMA Pair ==
  ASSUME NEW L, NEW z \in L, NEW y \in L
  PROVE  /\ SubSeq(<<z, y>>, 1, 0) = <<>> /\ SubSeq(<<z, y>>, 1, 1) = <<z>>
         /\ <<z, y>> = <<z>> \o <<y>>
<1>0. <<z, y>> \in Seq(L) /\ <<z>> \in Seq(L) /\ <<y>> \in Seq(L)
  OBVIOUS
<1>1. PICK p \in Seq(L) : p = <<z, y>>
  BY <1>0
<1>2. Len(p) = 2 /\ p[1] = z /\ p[2] = y
  BY <1>1
<1>3. PICK a \in Seq(L) : a = <<z>>
  BY <1>0
<1>4. PICK b \in Seq(L) : b = <<y>>
  BY <1>0
<1>5. Len(a) = 1 /\ a[1] = z /\ Len(b) = 1 /\ b[1] = y
  BY <1>3, <1>4
<1>6. /\ SubSeq(p, 1, 1) \in Seq(L) /\ Len(SubSeq(p, 1, 1)) = 1
      /\ SubSeq(p, 1, 1)[1] = p[1]
  BY <1>2
<1>7. SubSeq(p, 1, 1) = a
  BY <1>2, <1>5, <1>6, SeqEqual
<1>8. p = a \o b
  <2>1. \A k \in 1..Len(a) : p[k] = a[k]
    BY <1>2, <1>5
  <2>2. \A k \in 1..Len(b) : p[Len(a) + k] = b[k]
    BY <1>2, <1>5
  <2>3. Len(p) = Len(a) + Len(b)
    BY <1>2, <1>5
  <2>. QED
    BY <2>1, <2>2, <2>3, InTwoParts
<1>9. SubSeq(p, 1, 0) = <<>>
  OBVIOUS
<1>. QED
  BY <1>1, <1>3, <1>4, <1>7, <1>8, <1>9

LEMMA WriteTwo ==
  ASSUME out \in Seq(AnyLine), NEW z \in AnyLine, NEW y \in AnyLine, NEW next,
         Write(<<z, y>>, next)
  PROVE  \/ out' = (out \o <<z>>) \o <<y>> /\ status' = next
         \/ gone /\ (out' = out \/ out' = out \o <<z>>) /\ status' = "failed"
<1>1. CASE gone /\ (\E n \in 0..(Len(<<z, y>>) - 1) : out' = out \o SubSeq(<<z, y>>, 1, n)) /\ status' = "failed"
  <2>1. PICK n \in 0..(Len(<<z, y>>) - 1) : out' = out \o SubSeq(<<z, y>>, 1, n)
    BY <1>1
  <2>2. n = 0 \/ n = 1
    OBVIOUS
  <2>3. SubSeq(<<z, y>>, 1, 0) = <<>> /\ SubSeq(<<z, y>>, 1, 1) = <<z>>
    BY Pair
  <2>4. out \o <<>> = out
    BY ConcatEmptySeq
  <2>. QED
    BY <1>1, <2>1, <2>2, <2>3, <2>4
<1>2. CASE out' = out \o <<z, y>> /\ status' = next
  <2>1. PICK L : L = AnyLine
    OBVIOUS
  <2>2. <<z, y>> = <<z>> \o <<y>> /\ <<z>> \in Seq(L) /\ <<y>> \in Seq(L) /\ out \in Seq(L)
    <3>1. <<z, y>> = <<z>> \o <<y>>
      BY Pair
    <3>2. z \in L /\ y \in L /\ out \in Seq(L)
      BY <2>1
    <3>. QED
      BY <3>1, <3>2
  <2>3. (out \o <<z>>) \o <<y>> = out \o (<<z>> \o <<y>>)
    BY <2>2, Assoc
  <2>. QED
    BY <1>2, <2>2, <2>3
<1>. QED
  BY <1>1, <1>2 DEF Write

LEMMA LineSent ==
  ASSUME endpoint \in Endpoints
  PROVE  MaxLines[endpoint] \in Nat /\ \A line \in Lines[endpoint] : Sends(endpoint, line)
BY AnswerAssumption

LEMMA ReadNext ==
  ASSUME TypeOK, AllSent, NEW line, Sends(endpoint, line), Reading(line)
  PROVE  /\ status = "copying" /\ source = "open"
         /\ read' = read \o <<line>> /\ read' \in Seq(UpstreamLine)
         /\ Len(read') <= MaxLines[endpoint]
         /\ \A k \in DOMAIN read' : Sends(endpoint, read'[k])
<1>1. PICK s \in Seq(UpstreamLine) : s = read
  BY DEF TypeOK
<1>2. PICK t : t = s \o <<line>>
  OBVIOUS
<1>3. line \in UpstreamLine
  BY SentLines
<1>4. Append(s, line) = t /\ t \in Seq(UpstreamLine)
  BY <1>2, <1>3, AppendIs
<1>5. read' = t
  BY <1>1, <1>4 DEF Reading
<1>6. /\ Len(t) = Len(s) + 1 /\ Len(s) \in Nat /\ (\A k \in 1..Len(s) : t[k] = s[k])
      /\ t[Len(s) + 1] = line
  BY <1>2, <1>3, Extended
<1>7. Len(t) <= MaxLines[endpoint]
  BY <1>1, <1>6, LineSent DEF Reading, TypeOK
<1>8. ASSUME NEW k \in DOMAIN t PROVE Sends(endpoint, t[k])
  <2>1. DOMAIN t = 1..(Len(s) + 1) /\ DOMAIN s = 1..Len(s)
    BY <1>4, <1>6
  <2>2. k \in 1..Len(s) \/ k = Len(s) + 1
    BY <1>6, <2>1
  <2>3. k \in 1..Len(s) => Sends(endpoint, s[k])
    BY <1>1, <2>1 DEF AllSent
  <2>. QED
    BY <1>6, <2>2, <2>3
<1>. QED
  BY <1>1, <1>2, <1>4, <1>5, <1>7, <1>8 DEF Reading

LEMMA FlushedType ==
  ASSUME NEW lines \in Seq(AnyLine), NEW rest \in Text
  PROVE  Flushed(lines, rest) \in Seq(AnyLine)
<1>1. Raw(rest) \in AnyLine
  BY RawLine
<1>2. Append(lines, Raw(rest)) \in Seq(AnyLine)
  BY <1>1, AppendIs
<1>. QED
  BY <1>2 DEF Flushed

LEMMA RestOfHeld ==
  ASSUME NEW h \in Buffer
  PROVE  RestoreString(h) \in Text
BY RestoreStringType, AnswerAssumption DEF Buffer

(***************************************************************************)
(* Every step keeps the types, and takes up only what the upstream sends.  *)
(***************************************************************************)
LEMMA TypeFacts ==
  ASSUME TypeOK
  PROVE  /\ endpoint \in Endpoints /\ held \in Buffer /\ held \in Text
         /\ out \in Seq(AnyLine) /\ read \in Seq(UpstreamLine) /\ read \in Seq(AnyLine)
         /\ eventData \in Seq(UpstreamLine)
BY LineFacts DEF TypeOK, Buffer

LEMMA TypeStep ==
  ASSUME TypeOK, AllSent, [Next]_vars
  PROVE  TypeOK' /\ AllSent'
<1>1. ASSUME SSE, EndEvent, UNCHANGED endpoint PROVE TypeOK' /\ AllSent'
  <2>1. Sends(endpoint, Blank) /\ Reading(Blank)
    BY <1>1, FixedLines DEF SSE, EndEvent
  <2>2. FlushEvent.lines \in Seq(AnyLine) /\ FlushEvent.held \in Buffer
    BY TypeFacts, FlushType
  <2>3. Append(FlushEvent.lines, Blank) \in Seq(AnyLine)
    BY <2>2, FixedLines, AppendIs
  <2>4. out' \in Seq(AnyLine) /\ status' \in {"copying", "failed"}
    BY <1>1, <2>3, TypeFacts, WriteType DEF EndEvent
  <2>5. held' \in Buffer /\ eventData' = <<>> /\ UNCHANGED <<endpoint, source, gone>>
    BY <1>1, <2>2 DEF EndEvent
  <2>6. /\ read' \in Seq(UpstreamLine) /\ Len(read') <= MaxLines[endpoint]
        /\ \A k \in DOMAIN read' : Sends(endpoint, read'[k])
    BY <2>1, ReadNext
  <2>7. eventData' \in Seq(UpstreamLine) /\ \A k \in DOMAIN eventData' : FALSE
    BY <2>5
  <2>8. TypeOK'
    BY <2>4, <2>5, <2>6, <2>7 DEF TypeOK, Buffer
  <2>9. AllSent'
    BY <2>5, <2>6, <2>7 DEF AllSent
  <2>. QED
    BY <2>8, <2>9
<1>2. ASSUME SSE, NEW line \in Lines[endpoint], DataLine(line), UNCHANGED endpoint
      PROVE  TypeOK' /\ AllSent'
  <2>1. Sends(endpoint, line) /\ Reading(line) /\ line.kind = "data"
    BY <1>2, TypeFacts, LineSent DEF DataLine
  <2>2. PICK e \in Seq(UpstreamLine) : e = eventData
    BY TypeFacts
  <2>3. line \in UpstreamLine
    BY <2>1, SentLines
  <2>4. PICK t : t = e \o <<line>>
    OBVIOUS
  <2>5. /\ t \in Seq(UpstreamLine) /\ Append(e, line) = t
        /\ Len(t) = Len(e) + 1 /\ Len(e) \in Nat /\ (\A k \in 1..Len(e) : t[k] = e[k])
        /\ t[Len(e) + 1] = line
    BY <2>3, <2>4, AppendIs, Extended
  <2>6. ASSUME NEW k \in DOMAIN t PROVE t[k].kind = "data" /\ Sends(endpoint, t[k])
    <3>1. DOMAIN t = 1..(Len(e) + 1) /\ DOMAIN e = 1..Len(e)
      BY <2>5
    <3>2. k \in 1..Len(e) \/ k = Len(e) + 1
      BY <2>5, <3>1
    <3>3. k \in 1..Len(e) => e[k].kind = "data" /\ Sends(endpoint, e[k])
      BY <2>2, <3>1 DEF AllSent, TypeOK
    <3>. QED
      BY <2>1, <2>5, <3>2, <3>3
  <2>7. eventData' = t /\ UNCHANGED <<endpoint, held, out, status, source, gone>>
    BY <1>2, <2>2, <2>5 DEF DataLine
  <2>. QED
    BY <2>1, <2>5, <2>6, <2>7, ReadNext DEF TypeOK, AllSent
<1>3. ASSUME NEW line \in Lines[endpoint], OtherLine(line), UNCHANGED endpoint
      PROVE  TypeOK' /\ AllSent'
  <2>1. Sends(endpoint, line) /\ Reading(line) /\ Write(<<line>>, "copying")
    BY <1>3, TypeFacts, LineSent DEF OtherLine
  <2>2. <<line>> \in Seq(AnyLine)
    BY <2>1, SentLines
  <2>3. out' \in Seq(AnyLine) /\ status' \in {"copying", "failed"}
    BY <2>1, <2>2, TypeFacts, WriteType
  <2>4. UNCHANGED <<endpoint, eventData, held, source, gone>>
    BY <1>3 DEF OtherLine
  <2>. QED
    BY <2>1, <2>3, <2>4, ReadNext DEF TypeOK, AllSent
<1>4. ASSUME EndOfEvents, UNCHANGED endpoint PROVE TypeOK' /\ AllSent'
  <2>1. FlushEvent.lines \in Seq(AnyLine) /\ FlushEvent.held \in Buffer
    BY TypeFacts, FlushType
  <2>2. RestoreString(FlushEvent.held) \in Text
    BY <2>1, RestOfHeld
  <2>3. Flushed(FlushEvent.lines, RestoreString(FlushEvent.held)) \in Seq(AnyLine)
    BY <2>1, <2>2, FlushedType
  <2>4. out' \in Seq(AnyLine) /\ status' \in {"done", "failed"}
    BY <1>4, <2>3, TypeFacts, WriteType DEF EndOfEvents
  <2>5. held' = <<>> /\ eventData' = <<>> /\ UNCHANGED <<endpoint, source, gone, read>>
    BY <1>4 DEF EndOfEvents
  <2>6. held' \in Buffer
    BY <2>5, NothingHeld
  <2>. QED
    BY <2>4, <2>5, <2>6 DEF TypeOK, AllSent, Buffer
<1>5. ASSUME NEW line \in Lines[endpoint], RestoreLine(line), UNCHANGED <<endpoint, eventData>>
      PROVE  TypeOK' /\ AllSent'
  <2>1. Sends(endpoint, line) /\ Reading(line)
    BY <1>5, TypeFacts, LineSent DEF RestoreLine
  <2>2. line \in UpstreamLine
    BY <2>1, SentLines
  <2>3. PICK d \in Seq(SentDelta) : d = line.deltas
    BY <2>2, LineFacts
  <2>4. RestoreDeltas(held, d).held \in Buffer /\ RestoreDeltas(held, d).deltas \in Seq(SentDelta)
    BY TypeFacts, RestoreType
  <2>5. PICK w \in Seq(WrittenDelta) : w = RestoreDeltas(held, d).deltas
    BY <2>4, DeltaTypes
  <2>6. Line(line.kind, "none", w) \in AnyLine
    BY <2>2, LineTypes DEF Line
  <2>7. <<Line(line.kind, "none", w)>> \in Seq(AnyLine)
    BY <2>6
  <2>8. Write(<<Line(line.kind, "none", w)>>, "copying") /\ held' \in Buffer
        /\ UNCHANGED <<endpoint, eventData, source, gone>>
    BY <1>5, <2>3, <2>4, <2>5 DEF RestoreLine
  <2>9. out' \in Seq(AnyLine) /\ status' \in {"copying", "failed"}
    BY <2>7, <2>8, TypeFacts, WriteType
  <2>. QED
    BY <2>1, <2>8, <2>9, ReadNext DEF TypeOK, AllSent, Buffer
<1>6. ASSUME NEW line \in Lines[endpoint], PassLine(line), UNCHANGED <<endpoint, eventData>>
      PROVE  TypeOK' /\ AllSent'
  <2>1. Sends(endpoint, line) /\ Reading(line) /\ Write(<<line>>, "copying")
    BY <1>6, TypeFacts, LineSent DEF PassLine
  <2>2. <<line>> \in Seq(AnyLine)
    BY <2>1, SentLines
  <2>3. out' \in Seq(AnyLine) /\ status' \in {"copying", "failed"}
    BY <2>1, <2>2, TypeFacts, WriteType
  <2>4. UNCHANGED <<endpoint, eventData, held, source, gone>>
    BY <1>6 DEF PassLine
  <2>. QED
    BY <2>1, <2>3, <2>4, ReadNext DEF TypeOK, AllSent
<1>7. ASSUME NEW line \in Lines[endpoint], SkipBlank(line), UNCHANGED <<endpoint, eventData>>
      PROVE  TypeOK' /\ AllSent'
  <2>1. Sends(endpoint, line) /\ Reading(line)
    BY <1>7, TypeFacts, LineSent DEF SkipBlank
  <2>2. UNCHANGED <<endpoint, eventData, held, out, status, source, gone>>
    BY <1>7 DEF SkipBlank
  <2>. QED
    BY <2>1, <2>2, ReadNext DEF TypeOK, AllSent
<1>8. ASSUME EndOfLines, UNCHANGED <<endpoint, eventData>> PROVE TypeOK' /\ AllSent'
  <2>1. <<>> \in Seq(AnyLine) /\ RestoreString(held) \in Text
    BY TypeFacts, RestOfHeld
  <2>2. Flushed(<<>>, RestoreString(held)) \in Seq(AnyLine)
    BY <2>1, FlushedType
  <2>3. out' \in Seq(AnyLine) /\ status' \in {"done", "failed"}
    BY <1>8, <2>2, TypeFacts, WriteType DEF EndOfLines
  <2>4. held' = <<>> /\ UNCHANGED <<endpoint, eventData, source, gone, read>>
    BY <1>8 DEF EndOfLines
  <2>5. held' \in Buffer
    BY <2>4, NothingHeld
  <2>. QED
    BY <2>3, <2>4, <2>5 DEF TypeOK, AllSent, Buffer
<1>9. ASSUME Interrupted PROVE TypeOK' /\ AllSent'
  BY <1>9 DEF Interrupted, ReadFails, UpstreamEnds, ClientLeaves, TypeOK, AllSent
<1>10. ASSUME UNCHANGED vars PROVE TypeOK' /\ AllSent'
  BY <1>10 DEF vars, TypeOK, AllSent
<1>. QED
  BY <1>1, <1>2, <1>3, <1>4, <1>5, <1>6, <1>7, <1>8, <1>9, <1>10
     DEF Next, HandleSSE, CopyEvents, HandleStreamable, CopyLines, SSE

(***************************************************************************)
(* What a blank line makes of the lines read so far.                       *)
(***************************************************************************)
LEMMA AtBlank ==
  ASSUME NEW s \in Seq(UpstreamLine)
  PROVE  /\ EventsOf(s) \in Seq(Seq(UpstreamLine)) /\ Parsed(s).data \in Seq(UpstreamLine)
         /\ Parsed(s) = [events |-> EventsOf(s), data |-> Parsed(s).data]
         /\ Append(s, Blank) = s \o <<Blank>>
         /\ Parsed(s \o <<Blank>>).data = <<>>
         /\ EventsOf(s \o <<Blank>>) = IF Parsed(s).data = <<>> THEN EventsOf(s)
                                      ELSE EventsOf(s) \o <<Parsed(s).data>>
         /\ Orderly(EventsOf(s \o <<Blank>>)) <=>
              /\ Orderly(EventsOf(s))
              /\ Parsed(s).data # <<>> => IsObject(Parsed(s).data) \/ Len(Parsed(s).data) = 1
<1>1. PICK p \in ParsedOf(UpstreamLine) : p = Parsed(s)
  BY EventsType
<1>2. p = [events |-> p.events, data |-> p.data] /\ p.data \in Seq(UpstreamLine)
      /\ p.events \in Seq(Seq(UpstreamLine))
  BY DEF ParsedOf
<1>3. PICK q : q = Parsed(s \o <<Blank>>)
  OBVIOUS
<1>4. q = ParseLine(p, Blank)
  BY <1>1, <1>3, LineFacts, FixedLines, ParsedNext
<1>5. Append(s, Blank) = s \o <<Blank>>
  BY FixedLines, AppendIs
<1>6. CASE p.data = <<>>
  <2>1. q = p
    BY <1>4, <1>6, FixedLines, ParseLineFacts
  <2>. QED
    BY <1>1, <1>2, <1>3, <1>5, <1>6, <2>1 DEF EventsOf
<1>7. CASE p.data # <<>>
  <2>1. q = [events |-> p.events \o <<p.data>>, data |-> <<>>]
    BY <1>4, <1>7, FixedLines, ParseLineFacts
  <2>2. q.events = p.events \o <<p.data>> /\ q.data = <<>>
    BY <2>1
  <2>3. Orderly(p.events \o <<p.data>>) <=> Orderly(p.events) /\ (IsObject(p.data) \/ Len(p.data) = 1)
    BY <1>2, OrderlyNext
  <2>. QED
    BY <1>1, <1>2, <1>3, <1>5, <1>7, <2>2, <2>3 DEF EventsOf
<1>. QED
  BY <1>6, <1>7

(***************************************************************************)
(* While Copy reads, both sides have got equally far; and what has to be   *)
(* shown of a step.                                                        *)
(***************************************************************************)
Alike(events) ==
  /\ held = Answered(DeltasOf(events)).held /\ LineDeltas(out) = Answered(DeltasOf(events)).deltas
  /\ Parsed(out).data = <<>> /\ Shapes(out) = Shapes(read)

LEMMA CopyingEvents ==
  ASSUME IInv, SSE, status = "copying"
  PROVE  /\ eventData = Parsed(read).data /\ DataOnly
         /\ Orderly(EventsOf(read)) => Alike(EventsOf(read))
<1>1. eventData = Parsed(read).data
  BY DEF IInv, InPlace
<1>2. DataOnly
  <2>. SUFFICES ASSUME NEW k \in DOMAIN eventData
                PROVE  eventData[k].kind = "data" /\ eventData[k].part # "none"
    BY DEF DataOnly
  <2>1. Sends(endpoint, eventData[k]) /\ eventData[k].kind = "data"
    BY DEF IInv, AllSent, TypeOK
  <2>. QED
    BY <2>1, SentLines DEF SSE
<1>3. ASSUME Orderly(EventsOf(read)) PROVE Alike(EventsOf(read))
  <2>1. EventsRead = EventsOf(read) /\ Received = DeltasOf(EventsOf(read))
    BY DEF EventsRead, Received
  <2>2. held = Answered(Received).held /\ LineDeltas(out) = Answered(Received).deltas
    BY <1>3, <2>1 DEF IInv, Tracked, Answered, Written
  <2>3. Parsed(out).data = <<>> /\ Shapes(out) = Shapes(read)
    BY <1>3 DEF IInv, InPlace
  <2>. QED
    BY <2>1, <2>2, <2>3 DEF Alike
<1>. QED
  BY <1>1, <1>2, <1>3

LEMMA EventsStep ==
  ASSUME SSE, UNCHANGED endpoint, read' \in Seq(UpstreamLine), out' \in Seq(AnyLine),
         \/ /\ status' = "copying" /\ eventData' = Parsed(read').data
            /\ Orderly(EventsOf(read')) => Alike(EventsOf(read))'
         \/ /\ status' = "failed" /\ gone'
            /\ Orderly(EventsOf(read' \o <<Blank>>)) => IsPrefix(Shapes(out'), Shapes(read'))
  PROVE  Tracked' /\ InPlace' /\ EventsPreserved'
<1>1. SSE'
  BY DEF SSE
<1>2. /\ Append(read', Blank) = read' \o <<Blank>>
      /\ Orderly(EventsOf(read' \o <<Blank>>)) => Orderly(EventsOf(read'))
  BY AtBlank
<1>3. OneObjectPerEvent' => Orderly(EventsOf(read' \o <<Blank>>)) /\ Orderly(EventsOf(read'))
  BY <1>2 DEF OneObjectPerEvent
<1>4. CASE status' = "copying"
  <2>1. /\ eventData' = Parsed(read').data
        /\ Orderly(EventsOf(read')) => Alike(EventsOf(read))'
    BY <1>4
  <2>2. EventsRead' = EventsOf(read') /\ Received' = DeltasOf(EventsOf(read'))
    BY <1>1, <1>4 DEF EventsRead, Received
  <2>3. Tracked'
    BY <1>1, <1>4, <2>1, <2>2 DEF Tracked, Alike, Answered, Written
  <2>4. InPlace'
    BY <1>1, <2>1 DEF InPlace, Alike
  <2>5. EventsPreserved'
    <3>1. IsPrefix(Shapes(out'), Shapes(out'))
      BY ShapesFacts
    <3>. QED
      BY <1>1, <1>3, <2>1, <3>1 DEF EventsPreserved, SSEPreserved, Alike
  <2>. QED
    BY <2>3, <2>4, <2>5
<1>5. CASE status' = "failed" /\ gone'
                /\ (Orderly(EventsOf(read' \o <<Blank>>)) => IsPrefix(Shapes(out'), Shapes(read')))
  <2>1. Tracked'
    BY <1>5 DEF Tracked
  <2>2. InPlace'
    BY <1>5 DEF InPlace
  <2>3. EventsPreserved'
    BY <1>1, <1>3, <1>5 DEF EventsPreserved, SSEPreserved
  <2>. QED
    BY <2>1, <2>2, <2>3
<1>. QED
  BY <1>4, <1>5

(***************************************************************************)
(* One line more on either side.                                           *)
(***************************************************************************)
LEMMA LineParsed ==
  ASSUME NEW s \in Seq(AnyLine), NEW z \in AnyLine
  PROVE  /\ s \o <<z>> \in Seq(AnyLine)
         /\ EventsOf(s) \in Seq(Seq(AnyLine)) /\ Parsed(s).data \in Seq(AnyLine)
         /\ z.kind = "data" => /\ EventsOf(s \o <<z>>) = EventsOf(s)
                               /\ Parsed(s \o <<z>>).data = Parsed(s).data \o <<z>>
         /\ z.kind = "field" => /\ EventsOf(s \o <<z>>) = EventsOf(s) \o <<<<z>>>>
                                /\ Parsed(s \o <<z>>).data = Parsed(s).data
         /\ z.kind = "blank" =>
              /\ Parsed(s \o <<z>>).data = <<>>
              /\ EventsOf(s \o <<z>>) = IF Parsed(s).data = <<>> THEN EventsOf(s)
                                        ELSE EventsOf(s) \o <<Parsed(s).data>>
         /\ z.kind = "raw" => EventsOf(s \o <<z>>) = EventsOf(s)
<1>1. PICK p \in ParsedOf(AnyLine) : p = Parsed(s)
  BY EventsType
<1>2. p = [events |-> p.events, data |-> p.data] /\ p.data \in Seq(AnyLine)
      /\ p.events \in Seq(Seq(AnyLine))
  BY DEF ParsedOf
<1>3. PICK q : q = Parsed(s \o <<z>>)
  OBVIOUS
<1>4. q = ParseLine(p, z)
  BY <1>1, <1>3, ParsedNext
<1>5. z.kind = "data" => q.events = p.events /\ q.data = p.data \o <<z>>
  <2>1. z.kind = "data" => q = [events |-> p.events, data |-> p.data \o <<z>>]
    BY <1>4, ParseLineFacts
  <2>. QED
    BY <2>1
<1>6. z.kind = "field" => q.events = p.events \o <<<<z>>>> /\ q.data = p.data
  <2>1. z.kind = "field" => q = [events |-> p.events \o <<<<z>>>>, data |-> p.data]
    BY <1>4, ParseLineFacts
  <2>. QED
    BY <2>1
<1>7. z.kind = "blank" => q.data = <<>> /\ q.events = IF p.data = <<>> THEN p.events
                                                      ELSE p.events \o <<p.data>>
  <2>1. z.kind = "blank" /\ p.data = <<>> => q = p
    <3>1. z.kind = "blank" /\ p.data = <<>> => ParseLine(p, z) = p
      BY DEF ParseLine
    <3>. QED
      BY <1>4, <3>1
  <2>2. z.kind = "blank" /\ p.data # <<>> => q = [events |-> p.events \o <<p.data>>, data |-> <<>>]
    BY <1>4, ParseLineFacts
  <2>3. z.kind = "blank" /\ p.data # <<>> => q.data = <<>> /\ q.events = p.events \o <<p.data>>
    BY <2>2
  <2>4. z.kind = "blank" /\ p.data = <<>> => q.data = <<>> /\ q.events = p.events
    BY <2>1
  <2>. QED
    BY <2>3, <2>4
<1>8. z.kind = "raw" => q = p
  BY <1>4, ParseLineFacts
<1>9. s \o <<z>> \in Seq(AnyLine)
  OBVIOUS
<1>. QED
  BY <1>1, <1>2, <1>3, <1>5, <1>6, <1>7, <1>8, <1>9 DEF EventsOf

(***************************************************************************)
(* Copy's steps on an event stream.                                        *)
(***************************************************************************)
LEMMA DataLineStep ==
  ASSUME IInv, SSE, NEW line \in Lines[endpoint], DataLine(line), UNCHANGED endpoint
  PROVE  Tracked' /\ InPlace' /\ EventsPreserved'
<1>1. TypeOK /\ AllSent /\ Sends(endpoint, line) /\ line.kind = "data" /\ Reading(line)
  BY TypeFacts, LineSent DEF DataLine, IInv
<1>2. status = "copying" /\ read' = read \o <<line>> /\ read' \in Seq(UpstreamLine)
  BY <1>1, ReadNext
<1>3. /\ EventsOf(read') = EventsOf(read)
      /\ Parsed(read').data = Parsed(read).data \o <<line>>
  BY <1>1, <1>2, SentLines, TypeFacts, LineParsed
<1>4. eventData = Parsed(read).data /\ eventData \in Seq(UpstreamLine)
      /\ (Orderly(EventsOf(read)) => Alike(EventsOf(read)))
  BY <1>1, <1>2, CopyingEvents, TypeFacts
<1>5. eventData' = Parsed(read').data
  <2>1. Append(eventData, line) = eventData \o <<line>>
    BY <1>1, <1>4, SentLines, AppendIs
  <2>. QED
    BY <1>3, <1>4, <2>1 DEF DataLine
<1>6. UNCHANGED <<held, out, status>>
  BY DEF DataLine
<1>7. Shapes(read') = Shapes(read)
  BY <1>3 DEF Shapes
<1>8. Orderly(EventsOf(read')) => Alike(EventsOf(read))'
  BY <1>3, <1>4, <1>6, <1>7 DEF Alike
<1>9. out' \in Seq(AnyLine) /\ status' = "copying"
  BY <1>1, <1>2, <1>6, TypeFacts
<1>. QED
  BY <1>2, <1>5, <1>8, <1>9, EventsStep

LEMMA OtherLineStep ==
  ASSUME IInv, SSE, NEW line \in Lines[endpoint], OtherLine(line), UNCHANGED endpoint
  PROVE  Tracked' /\ InPlace' /\ EventsPreserved'
<1>1. TypeOK /\ AllSent /\ Sends(endpoint, line) /\ line = Field /\ Reading(line)
      /\ Write(<<line>>, "copying")
  BY TypeFacts, LineSent, SentLines DEF OtherLine, IInv, SSE
<1>2. status = "copying" /\ read' = read \o <<line>> /\ read' \in Seq(UpstreamLine)
  BY <1>1, ReadNext
<1>3. /\ out \in Seq(AnyLine) /\ line \in AnyLine /\ line.kind = "field"
      /\ read \in Seq(AnyLine) /\ read \in Seq(UpstreamLine)
  BY <1>1, FixedLines, TypeFacts
<1>. DEFINE e == <<line>>
<1>4. EventsOf(read') = EventsOf(read) \o <<e>> /\ Parsed(read').data = Parsed(read).data
  BY <1>2, <1>3, LineParsed
<1>5. eventData = Parsed(read).data /\ (Orderly(EventsOf(read)) => Alike(EventsOf(read)))
  BY <1>1, <1>2, CopyingEvents
<1>6. UNCHANGED <<eventData, held>>
  BY DEF OtherLine
<1>7. e \in Seq(UpstreamLine) /\ Len(e) = 1 /\ ~IsObject(e)
  BY <1>1, FixedLines DEF IsObject
<1>8. EventDeltas(e) = <<>>
  BY <1>7 DEF EventDeltas
<1>. HIDE DEF e
<1>9. Orderly(EventsOf(read')) => Orderly(EventsOf(read))
  <2>1. EventsOf(read) \in Seq(Seq(UpstreamLine))
    BY <1>3, AtBlank
  <2>. QED
    BY <1>4, <1>7, <2>1, OrderlyNext
<1>10. DeltasOf(EventsOf(read')) = DeltasOf(EventsOf(read))
  <2>1. EventsOf(read) \in Seq(Seq(UpstreamLine))
    BY <1>3, AtBlank
  <2>2. DeltasOf(EventsOf(read')) = DeltasOf(EventsOf(read)) \o <<>> /\ DeltasOf(EventsOf(read)) \in Seq(SentDelta)
    BY <1>4, <1>7, <1>8, <2>1, DeltasOfFacts
  <2>. QED
    BY <2>2, ConcatEmptySeq
<1>11. Adds(Shapes(read), Shapes(read'), Shape(e))
  BY <1>3, <1>4, ShapesFacts
<1>12. CASE out' = out \o <<line>> /\ status' = "copying"
  <2>1. LineDeltas(out') = LineDeltas(out)
    <3>1. LineDeltas(out') = LineDeltas(out) \o <<>> /\ LineDeltas(out) \in Seq(WrittenDelta)
      BY <1>1, <1>3, <1>12, FixedLines, LineDeltasFacts
    <3>. QED
      BY <3>1, ConcatEmptySeq
  <2>2. EventsOf(out') = EventsOf(out) \o <<e>> /\ Parsed(out').data = Parsed(out).data
    BY <1>3, <1>12, LineParsed DEF e
  <2>3. Adds(Shapes(out), Shapes(out'), Shape(e))
    BY <1>3, <2>2, ShapesFacts
  <2>4. Shapes(out) = Shapes(read) => Shapes(out') = Shapes(read')
    BY <1>11, <2>3, AddsFacts
  <2>5. Orderly(EventsOf(read')) => Alike(EventsOf(read))'
    BY <1>5, <1>6, <1>9, <1>10, <2>1, <2>2, <2>4 DEF Alike
  <2>6. out' \in Seq(AnyLine) /\ eventData' = Parsed(read').data
    BY <1>3, <1>4, <1>5, <1>6, <1>12, LineParsed
  <2>. QED
    BY <1>2, <1>12, <2>5, <2>6, EventsStep
<1>13. CASE gone /\ out' = out /\ status' = "failed"
  <2>1. Orderly(EventsOf(read' \o <<Blank>>)) => Orderly(EventsOf(read'))
    BY <1>2, AtBlank
  <2>2. Orderly(EventsOf(read' \o <<Blank>>)) => Shapes(out') = Shapes(read)
    BY <1>5, <1>9, <1>13, <2>1 DEF Alike
  <2>3. IsPrefix(Shapes(read), Shapes(read'))
    BY <1>11, AddsFacts
  <2>4. gone' /\ out' \in Seq(AnyLine)
    BY <1>3, <1>13 DEF OtherLine
  <2>. QED
    BY <1>2, <1>13, <2>2, <2>3, <2>4, EventsStep
<1>. QED
  BY <1>1, <1>3, <1>12, <1>13, WriteOne

(***************************************************************************)
(* The event that ends, when it is one object or one line, is written as   *)
(* one data line.                                                          *)
(***************************************************************************)
LEMMA EventTaken ==
  ASSUME IInv, SSE, status = "copying", Orderly(EventsOf(read \o <<Blank>>))
  PROVE  /\ Alike(EventsOf(read))
         /\ FlushEvent.held = Answered(DeltasOf(EventsOf(read \o <<Blank>>))).held
         /\ LineDeltas(out \o FlushEvent.lines) = Answered(DeltasOf(EventsOf(read \o <<Blank>>))).deltas
         /\ EventsOf(out \o FlushEvent.lines) = EventsOf(out)
         /\ \/ /\ eventData = <<>> /\ FlushEvent.lines = <<>> /\ out \o FlushEvent.lines = out
            \/ /\ eventData # <<>>
               /\ \E z \in AnyLine : /\ FlushEvent.lines = <<z>> /\ Shape(<<z>>) = Shape(eventData)
                                     /\ Parsed(out \o <<z>>).data = <<z>>
<1>1. /\ TypeOK /\ held \in Buffer /\ out \in Seq(AnyLine) /\ read \in Seq(UpstreamLine)
      /\ eventData \in Seq(UpstreamLine) /\ eventData = Parsed(read).data /\ DataOnly
  BY TypeFacts, CopyingEvents DEF IInv
<1>2. PICK a \in Seq(Seq(UpstreamLine)) : a = EventsOf(read)
  BY <1>1, AtBlank
<1>3. PICK b : b = EventsOf(read \o <<Blank>>)
  OBVIOUS
<1>4. /\ b = IF eventData = <<>> THEN a ELSE a \o <<eventData>>
      /\ Orderly(a) /\ (eventData # <<>> => IsObject(eventData) \/ Len(eventData) = 1)
  BY <1>1, <1>2, <1>3, AtBlank
<1>5. Alike(a)
  BY <1>2, <1>4, CopyingEvents
<1>6. CASE eventData = <<>>
  <2>1. FlushEvent = [lines |-> <<>>, held |-> held]
    BY <1>6 DEF FlushEvent
  <2>2. out \o <<>> = out
    BY <1>1, ConcatEmptySeq
  <2>. QED
    BY <1>2, <1>3, <1>4, <1>5, <1>6, <2>1, <2>2 DEF Alike
<1>7. CASE eventData # <<>>
  <2>1. PICK z \in AnyLine :
           /\ z.kind = "data" /\ Shape(<<z>>) = Shape(eventData)
           /\ PartDeltas(z) = RestoreDeltas(held, EventDeltas(eventData)).deltas
           /\ FlushEvent.lines = <<z>>
           /\ FlushEvent.held = RestoreDeltas(held, EventDeltas(eventData)).held
    BY <1>1, <1>4, <1>7, FlushFacts
  <2>2. PICK d \in Seq(SentDelta) : d = DeltasOf(a)
    BY DeltasOfFacts
  <2>3. PICK x \in Seq(SentDelta) : x = EventDeltas(eventData)
    BY <1>1, EventDeltasType
  <2>4. DeltasOf(b) = d \o x
    BY <1>1, <1>4, <1>7, <2>2, <2>3, DeltasOfFacts
  <2>5. held = Answered(d).held /\ LineDeltas(out) = Answered(d).deltas
        /\ Parsed(out).data = <<>>
    BY <1>5, <2>2 DEF Alike
  <2>6. /\ Answered(d \o x).held = RestoreDeltas(held, x).held
        /\ Answered(d \o x).deltas = LineDeltas(out) \o RestoreDeltas(held, x).deltas
    BY <2>5, AnsweredConcat
  <2>7. LineDeltas(out \o <<z>>) = LineDeltas(out) \o PartDeltas(z)
    BY <1>1, LineDeltasFacts
  <2>8. /\ EventsOf(out \o <<z>>) = EventsOf(out)
        /\ Parsed(out \o <<z>>).data = <<>> \o <<z>>
    <3>1. z.kind = "data" => /\ EventsOf(out \o <<z>>) = EventsOf(out)
                             /\ Parsed(out \o <<z>>).data = Parsed(out).data \o <<z>>
      BY <1>1, LineParsed
    <3>. QED
      BY <2>1, <2>5, <3>1
  <2>9. <<>> \o <<z>> = <<z>>
    OBVIOUS
  <2>. QED
    BY <1>2, <1>3, <1>5, <1>7, <2>1, <2>3, <2>4, <2>6, <2>7, <2>8, <2>9
<1>. QED
  BY <1>6, <1>7

LEMMA EndEventStep ==
  ASSUME IInv, SSE, EndEvent, UNCHANGED endpoint
  PROVE  Tracked' /\ InPlace' /\ EventsPreserved'
<1>1. TypeOK /\ AllSent /\ Sends(endpoint, Blank) /\ Reading(Blank)
      /\ Write(Append(FlushEvent.lines, Blank), "copying")
  BY FixedLines DEF EndEvent, IInv, SSE
<1>2. status = "copying" /\ read' = read \o <<Blank>> /\ read' \in Seq(UpstreamLine)
  BY <1>1, ReadNext
<1>3. /\ out \in Seq(AnyLine) /\ Blank \in AnyLine /\ read \in Seq(AnyLine) /\ read \in Seq(UpstreamLine)
      /\ eventData = Parsed(read).data
  BY <1>1, <1>2, FixedLines, TypeFacts, CopyingEvents
<1>4. held' = FlushEvent.held /\ eventData' = <<>> /\ gone' = gone
  BY DEF EndEvent
<1>5. /\ out' \in Seq(AnyLine) /\ (status' = "copying" \/ (gone /\ status' = "failed"))
  <2>1. FlushEvent.lines \in Seq(AnyLine)
    BY <1>1, TypeFacts, FlushType
  <2>2. Append(FlushEvent.lines, Blank) \in Seq(AnyLine)
    BY <1>3, <2>1, AppendIs
  <2>. QED
    BY <1>1, <1>3, <2>2, WriteType
<1>6. eventData' = Parsed(read').data
  BY <1>2, <1>3, <1>4, AtBlank
<1>7. Orderly(EventsOf(read' \o <<Blank>>)) => Orderly(EventsOf(read'))
  BY <1>2, AtBlank
<1>8. CASE ~Orderly(EventsOf(read'))
  BY <1>2, <1>4, <1>5, <1>6, <1>7, <1>8, EventsStep
<1>9. CASE Orderly(EventsOf(read')) /\ eventData = <<>>
  <2>1. /\ Alike(EventsOf(read)) /\ FlushEvent.lines = <<>> /\ out \o FlushEvent.lines = out
        /\ FlushEvent.held = Answered(DeltasOf(EventsOf(read'))).held
        /\ LineDeltas(out) = Answered(DeltasOf(EventsOf(read'))).deltas
    BY <1>2, <1>9, EventTaken
  <2>2. EventsOf(read') = EventsOf(read)
    BY <1>2, <1>3, <1>9, AtBlank
  <2>3. Shapes(read') = Shapes(read) /\ Shapes(out) = Shapes(read) /\ Parsed(out).data = <<>>
    BY <2>1, <2>2 DEF Shapes, Alike
  <2>4. Write(<<Blank>>, "copying")
    BY <1>1, <2>1
  <2>5. CASE out' = out \o <<Blank>> /\ status' = "copying"
    <3>1. Parsed(out').data = <<>> /\ EventsOf(out') = EventsOf(out)
      BY <1>3, <2>3, <2>5, FixedLines, LineParsed
    <3>2. LineDeltas(out') = LineDeltas(out)
      <4>1. LineDeltas(out') = LineDeltas(out) \o <<>> /\ LineDeltas(out) \in Seq(WrittenDelta)
        BY <1>3, <2>5, FixedLines, LineDeltasFacts
      <4>. QED
        BY <4>1, ConcatEmptySeq
    <3>3. Shapes(out') = Shapes(out)
      BY <3>1 DEF Shapes
    <3>4. Alike(EventsOf(read))'
      BY <1>4, <2>1, <2>3, <3>1, <3>2, <3>3 DEF Alike
    <3>. QED
      BY <1>2, <1>5, <1>6, <2>5, <3>4, EventsStep
  <2>6. CASE gone /\ out' = out /\ status' = "failed"
    <3>1. IsPrefix(Shapes(read), Shapes(read))
      BY <1>3, ShapesFacts
    <3>2. IsPrefix(Shapes(out'), Shapes(read'))
      BY <2>3, <2>6, <3>1
    <3>. QED
      BY <1>2, <1>4, <1>5, <2>6, <3>2, EventsStep
  <2>. QED
    BY <1>3, <2>4, <2>5, <2>6, WriteOne
<1>10. CASE Orderly(EventsOf(read')) /\ eventData # <<>>
  <2>1. PICK z \in AnyLine :
        /\ Alike(EventsOf(read))
        /\ FlushEvent.lines = <<z>> /\ Shape(<<z>>) = Shape(eventData)
        /\ FlushEvent.held = Answered(DeltasOf(EventsOf(read'))).held
        /\ LineDeltas(out \o <<z>>) = Answered(DeltasOf(EventsOf(read'))).deltas
        /\ EventsOf(out \o <<z>>) = EventsOf(out)
        /\ Parsed(out \o <<z>>).data = <<z>>
    BY <1>2, <1>10, EventTaken
  <2>2. EventsOf(read') = EventsOf(read) \o <<eventData>>
    BY <1>2, <1>3, <1>10, AtBlank
  <2>3. Shapes(out) = Shapes(read) /\ Adds(Shapes(read), Shapes(read'), Shape(eventData))
    BY <1>3, <2>1, <2>2, ShapesFacts DEF Alike
  <2>4. Write(<<z, Blank>>, "copying")
    <3>1. Append(<<z>>, Blank) = <<z, Blank>>
      <4>1. <<z>> \in Seq(AnyLine)
        OBVIOUS
      <4>2. Append(<<z>>, Blank) = <<z>> \o <<Blank>>
        BY <1>3, <4>1, AppendIs
      <4>. QED
        BY <1>3, <4>2, Pair
    <3>. QED
      BY <1>1, <2>1, <3>1
  <2>5. PICK w \in Seq(AnyLine) : w = out \o <<z>>
    BY <1>3, LineParsed
  <2>6. CASE out' = w \o <<Blank>> /\ status' = "copying"
    <3>1. <<z>> # <<>>
      OBVIOUS
    <3>2. Parsed(out').data = <<>> /\ EventsOf(out') = EventsOf(out) \o <<<<z>>>>
      <4>1. /\ Parsed(w \o <<Blank>>).data = <<>>
            /\ EventsOf(w \o <<Blank>>) = IF Parsed(w).data = <<>> THEN EventsOf(w)
                                           ELSE EventsOf(w) \o <<Parsed(w).data>>
        BY FixedLines, LineParsed
      <4>2. EventsOf(w) = EventsOf(out) /\ Parsed(w).data = <<z>>
        BY <2>1, <2>5
      <4>. QED
        BY <2>6, <3>1, <4>1, <4>2
    <3>3. LineDeltas(out') = LineDeltas(w)
      <4>1. LineDeltas(out') = LineDeltas(w) \o <<>> /\ LineDeltas(w) \in Seq(WrittenDelta)
        BY <1>3, <2>6, FixedLines, LineDeltasFacts
      <4>. QED
        BY <4>1, ConcatEmptySeq
    <3>4. Adds(Shapes(out), Shapes(out'), Shape(eventData))
      BY <1>3, <2>1, <3>2, ShapesFacts
    <3>5. Shapes(out') = Shapes(read')
      BY <2>3, <3>4, AddsFacts
    <3>6. Alike(EventsOf(read))'
      BY <1>4, <2>1, <2>5, <3>2, <3>3, <3>5 DEF Alike
    <3>. QED
      BY <1>2, <1>5, <1>6, <2>6, <3>6, EventsStep
  <2>7. CASE gone /\ (out' = out \/ out' = w) /\ status' = "failed"
    <3>1. EventsOf(out') = EventsOf(out)
      BY <2>1, <2>5, <2>7
    <3>2. Shapes(out') = Shapes(out)
      BY <3>1 DEF Shapes
    <3>3. IsPrefix(Shapes(out'), Shapes(read'))
      BY <2>3, <3>2, AddsFacts
    <3>. QED
      BY <1>2, <1>4, <1>5, <2>7, <3>3, EventsStep
  <2>. QED
    BY <1>3, <2>4, <2>5, <2>6, <2>7, WriteTwo
<1>. QED
  BY <1>8, <1>9, <1>10

(***************************************************************************)
(* The end of a stream: what is held is restored and written unframed.     *)
(***************************************************************************)
LEMMA WriteFlushed ==
  ASSUME out \in Seq(AnyLine), NEW lines \in Seq(AnyLine), NEW rest \in Text, NEW next,
         lines = <<>> \/ \E z \in AnyLine : lines = <<z>>,
         Write(Flushed(lines, rest), next)
  PROVE  /\ out' \in Seq(AnyLine)
         /\ \/ /\ status' = next
               /\ out' = IF rest = <<>> THEN out \o lines ELSE (out \o lines) \o <<Raw(rest)>>
            \/ gone /\ status' = "failed" /\ (out' = out \/ out' = out \o lines)
<1>1. out' \in Seq(AnyLine)
  BY FlushedType, WriteType
<1>2. PICK y \in AnyLine : y = Raw(rest)
  BY RawLine
<1>3. out \o <<>> = out
  BY ConcatEmptySeq
<1>4. CASE lines = <<>> /\ rest = <<>>
  <2>1. Write(<<>>, next)
    BY <1>4 DEF Flushed
  <2>2. 0..(Len(<<>>) - 1) = {}
    OBVIOUS
  <2>. QED
    BY <1>1, <1>4, <2>1, <2>2 DEF Write
<1>5. CASE lines = <<>> /\ rest # <<>>
  <2>1. Append(<<>>, y) = <<y>>
    OBVIOUS
  <2>2. Write(<<y>>, next)
    BY <1>2, <1>5, <2>1 DEF Flushed
  <2>. QED
    BY <1>1, <1>2, <1>3, <1>5, <2>2, WriteOne
<1>6. ASSUME NEW z \in AnyLine, lines = <<z>>, rest = <<>>
      PROVE  \/ /\ status' = next
                /\ out' = IF rest = <<>> THEN out \o lines ELSE (out \o lines) \o <<Raw(rest)>>
             \/ gone /\ status' = "failed" /\ (out' = out \/ out' = out \o lines)
  <2>1. Write(<<z>>, next)
    BY <1>6 DEF Flushed
  <2>. QED
    BY <1>6, <2>1, WriteOne
<1>7. ASSUME NEW z \in AnyLine, lines = <<z>>, rest # <<>>
      PROVE  \/ /\ status' = next
                /\ out' = IF rest = <<>> THEN out \o lines ELSE (out \o lines) \o <<Raw(rest)>>
             \/ gone /\ status' = "failed" /\ (out' = out \/ out' = out \o lines)
  <2>1. Append(lines, y) = lines \o <<y>>
    BY AppendIs
  <2>2. Append(lines, y) = <<z, y>>
    BY <1>7, <2>1, Pair
  <2>3. Write(<<z, y>>, next)
    BY <1>2, <1>7, <2>2 DEF Flushed
  <2>. QED
    BY <1>2, <1>7, <2>3, WriteTwo
<1>. QED
  BY <1>1, <1>4, <1>5, <1>6, <1>7

LEMMA BehindIs ==
  ASSUME NEW s \in Seq(AnyLine), NEW rest \in Text, NEW w,
         w = IF rest = <<>> THEN s ELSE s \o <<Raw(rest)>>
  PROVE  /\ w \in Seq(AnyLine) /\ LineDeltas(w) = LineDeltas(s) \o Behind(rest)
         /\ EventsOf(w) = EventsOf(s) /\ Passed(w) = Passed(s)
<1>1. CASE rest = <<>>
  <2>1. LineDeltas(s) \o <<>> = LineDeltas(s)
    <3>1. LineDeltas(s) \in Seq(WrittenDelta)
      BY LineDeltasFacts
    <3>. QED
      BY <3>1, ConcatEmptySeq
  <2>. QED
    BY <1>1, <2>1 DEF Behind
<1>2. CASE rest # <<>>
  <2>1. PICK y \in AnyLine : y = Raw(rest) /\ y.kind = "raw" /\ PartDeltas(y) = <<Delta("raw", rest)>>
    BY RawLine
  <2>2. w = s \o <<y>>
    BY <1>2, <2>1
  <2>3. w \in Seq(AnyLine) /\ EventsOf(w) = EventsOf(s)
    BY <2>1, <2>2, LineParsed
  <2>4. LineDeltas(w) = LineDeltas(s) \o <<Delta("raw", rest)>>
    BY <2>1, <2>2, LineDeltasFacts
  <2>5. Passed(w) = Passed(s)
    BY <2>1, <2>2, PassedFacts
  <2>. QED
    BY <1>2, <2>3, <2>4, <2>5 DEF Behind
<1>. QED
  BY <1>1, <1>2

LEMMA EndOfEventsStep ==
  ASSUME IInv, SSE, EndOfEvents, UNCHANGED endpoint
  PROVE  Tracked' /\ InPlace' /\ EventsPreserved'
<1>1. /\ TypeOK /\ status = "copying" /\ held' = <<>> /\ read' = read /\ gone' = gone
      /\ Write(Flushed(FlushEvent.lines, RestoreString(FlushEvent.held)), "done")
  BY DEF EndOfEvents, IInv
<1>2. /\ out \in Seq(AnyLine) /\ read \in Seq(UpstreamLine) /\ eventData = Parsed(read).data
      /\ FlushEvent.lines \in Seq(AnyLine) /\ FlushEvent.held \in Buffer
  BY <1>1, TypeFacts, CopyingEvents, FlushType
<1>3. PICK rest \in Text : rest = RestoreString(FlushEvent.held)
  BY <1>2, RestOfHeld
<1>4. PICK b : b = EventsOf(read \o <<Blank>>)
  OBVIOUS
<1>5. Append(read, Blank) = read \o <<Blank>>
  BY <1>2, AtBlank
<1>6. SSE'
  BY DEF SSE
<1>7. status' = "done" \/ (gone /\ status' = "failed")
  BY <1>1, <1>2, <1>3, FlushedType, WriteType
<1>8. InPlace'
  BY <1>7 DEF InPlace
<1>9. CASE ~Orderly(b)
  <2>1. ~OneObjectPerEvent'
    BY <1>1, <1>4, <1>5, <1>9 DEF OneObjectPerEvent
  <2>2. EventsPreserved'
    BY <1>6, <2>1 DEF EventsPreserved, SSEPreserved
  <2>3. status' = "done" => EventsRead' = b
    BY <1>1, <1>4, <1>5 DEF EventsRead
  <2>4. Tracked'
    BY <1>1, <1>6, <1>7, <1>9, <2>3 DEF Tracked
  <2>. QED
    BY <1>8, <2>2, <2>4
<1>10. CASE Orderly(b)
  <2>1. /\ Alike(EventsOf(read))
        /\ FlushEvent.held = Answered(DeltasOf(b)).held
        /\ LineDeltas(out \o FlushEvent.lines) = Answered(DeltasOf(b)).deltas
        /\ EventsOf(out \o FlushEvent.lines) = EventsOf(out)
        /\ FlushEvent.lines = <<>> \/ \E z \in AnyLine : FlushEvent.lines = <<z>>
    BY <1>1, <1>4, <1>10, EventTaken
  <2>2. PICK w \in Seq(AnyLine) : w = out \o FlushEvent.lines
    <3>1. PICK lines \in Seq(AnyLine) : lines = FlushEvent.lines
      BY <1>2
    <3>2. out \o lines \in Seq(AnyLine)
      BY <1>2
    <3>. QED
      BY <3>1, <3>2
  <2>3. \/ status' = "done" /\ out' = IF rest = <<>> THEN w ELSE w \o <<Raw(rest)>>
        \/ gone /\ status' = "failed" /\ (out' = out \/ out' = w)
    BY <1>1, <1>2, <1>3, <2>1, <2>2, WriteFlushed
  <2>4. EventsOf(out') = EventsOf(out)
    <3>1. EventsOf(w) = EventsOf(out)
      BY <2>1, <2>2
    <3>2. PICK v : v = IF rest = <<>> THEN w ELSE w \o <<Raw(rest)>>
      OBVIOUS
    <3>3. EventsOf(v) = EventsOf(w)
      BY <3>2, BehindIs
    <3>. QED
      BY <2>3, <3>1, <3>2, <3>3
  <2>5. Shapes(out') = Shapes(read') /\ IsPrefix(Shapes(out'), Shapes(read'))
    <3>1. Shapes(out') = Shapes(out) /\ Shapes(out) = Shapes(read) /\ IsPrefix(Shapes(read), Shapes(read))
      BY <1>2, <2>1, <2>4, LineFacts, ShapesFacts DEF Alike
    <3>. QED
      BY <1>1, <3>1
  <2>6. EventsPreserved'
    BY <1>6, <2>5 DEF EventsPreserved, SSEPreserved
  <2>7. CASE status' = "done"
    <3>1. LineDeltas(out') = Answered(DeltasOf(b)).deltas \o Behind(rest)
      BY <2>1, <2>2, <2>3, <2>7, BehindIs
    <3>2. EventsRead' = b /\ Received' = DeltasOf(b)
      BY <1>1, <1>4, <1>5, <1>6, <2>7 DEF EventsRead, Received
    <3>3. Tracked'
      BY <1>1, <1>3, <2>1, <2>7, <3>1, <3>2 DEF Tracked, Answered, Written
    <3>. QED
      BY <1>8, <2>6, <3>3
  <2>8. CASE gone /\ status' = "failed"
    <3>1. Tracked'
      BY <1>1, <2>8 DEF Tracked
    <3>. QED
      BY <1>8, <2>6, <3>1
  <2>. QED
    BY <1>7, <2>7, <2>8
<1>. QED
  BY <1>9, <1>10

(***************************************************************************)
(* Copy's steps on a stream of one event per line.                         *)
(***************************************************************************)
(***************************************************************************)
(* What the invariant says of such a stream while Copy reads, and what has *)
(* to be shown of a step.                                                  *)
(***************************************************************************)
LEMMA CopyingLines ==
  ASSUME IInv, ~SSE, status = "copying"
  PROVE  /\ LineDeltas(read) \in Seq(SentDelta)
         /\ held = Answered(LineDeltas(read)).held /\ LineDeltas(out) = Answered(LineDeltas(read)).deltas
         /\ Kinds(out) = Kinds(read)
         /\ Passed(read) \in Seq(AnyLine) /\ Passed(out) \in Seq(AnyLine)
         /\ Len(Passed(read)) = Len(Passed(out))
<1>1. LineDeltas(read) \in Seq(SentDelta)
  BY TypeFacts, LineDeltasSent DEF IInv
<1>2. Received = LineDeltas(read)
  BY DEF Received
<1>3. held = Answered(LineDeltas(read)).held /\ LineDeltas(out) = Answered(LineDeltas(read)).deltas
  BY <1>2 DEF IInv, Tracked, Answered, Written
<1>4. Kinds(out) = Kinds(read)
  BY DEF IInv, InPlace
<1>5. Passed(read) \in Seq(AnyLine) /\ Passed(out) \in Seq(AnyLine)
  BY TypeFacts, PassedFacts DEF IInv
<1>6. Len(Passed(read)) = Len(Passed(out))
  <2>1. DOMAIN Kinds(out) = DOMAIN Passed(out) /\ DOMAIN Kinds(read) = DOMAIN Passed(read)
    BY DEF Kinds
  <2>2. DOMAIN Passed(out) = DOMAIN Passed(read)
    BY <1>4, <2>1
  <2>. QED
    BY <1>5, <2>2
<1>. QED
  BY <1>1, <1>3, <1>4, <1>5, <1>6

LEMMA LinesStep ==
  ASSUME ~SSE, UNCHANGED endpoint, out' \in Seq(AnyLine),
         \/ /\ status' = "copying" /\ Kinds(out') = Kinds(read')
            /\ held' = Answered(LineDeltas(read')).held
            /\ LineDeltas(out') = Answered(LineDeltas(read')).deltas
         \/ status' = "failed" /\ gone' /\ IsPrefix(Kinds(out'), Kinds(read'))
  PROVE  Tracked' /\ InPlace' /\ EventsPreserved'
<1>1. ~SSE'
  BY DEF SSE
<1>2. Received' = LineDeltas(read')
  BY <1>1 DEF Received
<1>3. CASE /\ status' = "copying" /\ Kinds(out') = Kinds(read')
           /\ held' = Answered(LineDeltas(read')).held
           /\ LineDeltas(out') = Answered(LineDeltas(read')).deltas
  <2>1. IsPrefix(Kinds(out'), Kinds(out'))
    BY KindsFacts
  <2>2. Tracked'
    BY <1>1, <1>2, <1>3 DEF Tracked, Answered, Written
  <2>3. InPlace'
    BY <1>1, <1>3 DEF InPlace
  <2>4. EventsPreserved'
    BY <1>1, <1>3, <2>1 DEF EventsPreserved, LinesPreserved
  <2>. QED
    BY <2>2, <2>3, <2>4
<1>4. CASE status' = "failed" /\ gone' /\ IsPrefix(Kinds(out'), Kinds(read'))
  BY <1>1, <1>4 DEF Tracked, InPlace, EventsPreserved, LinesPreserved
<1>. QED
  BY <1>3, <1>4

LEMMA RestoreLineStep ==
  ASSUME IInv, ~SSE, NEW line \in Lines[endpoint], RestoreLine(line), UNCHANGED endpoint
  PROVE  Tracked' /\ InPlace' /\ EventsPreserved'
<1>1. TypeOK /\ AllSent /\ Sends(endpoint, line) /\ line.kind \in RestoredKinds /\ Reading(line)
  BY TypeFacts, LineSent DEF RestoreLine, IInv
<1>2. /\ status = "copying" /\ read' = read \o <<line>>
      /\ out \in Seq(AnyLine) /\ read \in Seq(AnyLine) /\ held \in Buffer
  BY <1>1, ReadNext, TypeFacts
<1>3. /\ endpoint = "responses" /\ line \in UpstreamLine /\ line \in AnyLine /\ line.part = "none"
      /\ Len(line.deltas) = 1 /\ line.deltas[1].channel = line.kind
      /\ line.kind \notin {"blank", "raw"} /\ line.kind \in Channels
  BY <1>1, SentLines, AnswerAssumption DEF SSE, RestoredKinds
<1>4. PICK d \in Seq(SentDelta) :
        /\ d = LineDeltas(read)
        /\ held = Answered(d).held /\ LineDeltas(out) = Answered(d).deltas
        /\ Kinds(out) = Kinds(read)
  BY <1>2, CopyingLines
<1>5. PICK sent \in Seq(AnyLine), written \in Seq(AnyLine) :
        sent = Passed(read) /\ written = Passed(out) /\ Len(sent) = Len(written)
  BY <1>2, CopyingLines
<1>6. PICK y \in SentDelta : line.deltas = <<y>> /\ y.channel = line.kind
  <2>1. PICK s \in Seq(SentDelta) : s = line.deltas
    BY <1>3, LineFacts
  <2>2. Len(s) = 1 /\ s[1] \in SentDelta /\ s = <<s[1]>>
    BY <1>3, <2>1
  <2>. QED
    BY <1>3, <2>1, <2>2
<1>7. <<y>> \in Seq(SentDelta)
  OBVIOUS
<1>8. PICK r \in Seq(WrittenDelta) : r = RestoreDeltas(held, <<y>>).deltas
  <2>1. RestoreDeltas(held, <<y>>).deltas \in Seq(SentDelta)
    BY <1>2, <1>7, RestoreType
  <2>. QED
    BY <2>1, DeltaTypes
<1>9. PICK w \in AnyLine : w = Line(line.kind, "none", r)
  BY <1>3, LineTypes DEF Line
<1>10. w.kind = line.kind /\ w.part = "none" /\ w.deltas = r
  BY <1>9 DEF Line
<1>11. Write(<<w>>, "copying") /\ held' = RestoreDeltas(held, <<y>>).held /\ gone' = gone
  BY <1>6, <1>8, <1>9 DEF RestoreLine
<1>12. Passed(read') = sent \o <<line>> /\ Adds(Kinds(read), Kinds(read'), line.kind)
  <2>1. Passed(read') = sent \o <<line>>
    BY <1>2, <1>3, <1>5, PassedFacts
  <2>. QED
    BY <1>2, <1>5, <2>1, KindsFacts
<1>13. CASE out' = out \o <<w>> /\ status' = "copying"
  <2>1. Passed(out') = written \o <<w>> /\ Adds(Kinds(out), Kinds(out'), line.kind)
    <3>1. Passed(out') = written \o <<w>>
      BY <1>2, <1>3, <1>5, <1>10, <1>13, PassedFacts
    <3>. QED
      BY <1>2, <1>5, <1>10, <3>1, KindsFacts
  <2>2. Kinds(out') = Kinds(read')
    BY <1>4, <1>12, <2>1, AddsFacts
  <2>3. LineDeltas(read') = d \o <<y>>
    BY <1>2, <1>3, <1>4, <1>6, LineDeltasFacts DEF PartDeltas
  <2>4. LineDeltas(out') = Answered(d).deltas \o r
    BY <1>2, <1>4, <1>10, <1>13, LineDeltasFacts DEF PartDeltas
  <2>5. /\ Answered(d \o <<y>>).held = RestoreDeltas(Answered(d).held, <<y>>).held
        /\ Answered(d \o <<y>>).deltas = Answered(d).deltas \o RestoreDeltas(Answered(d).held, <<y>>).deltas
    BY <1>7, AnsweredConcat
  <2>6. /\ held' = Answered(LineDeltas(read')).held
        /\ LineDeltas(out') = Answered(LineDeltas(read')).deltas
    BY <1>4, <1>8, <1>11, <2>3, <2>4, <2>5
  <2>9. out' \in Seq(AnyLine)
    BY <1>2, <1>13, LineParsed
  <2>. QED
    BY <1>13, <2>2, <2>6, <2>9, LinesStep
<1>14. CASE gone /\ out' = out /\ status' = "failed"
  <2>2. IsPrefix(Kinds(out'), Kinds(read'))
    BY <1>4, <1>12, <1>14, AddsFacts
  <2>3. out' \in Seq(AnyLine) /\ gone'
    BY <1>2, <1>11, <1>14
  <2>. QED
    BY <1>14, <2>2, <2>3, LinesStep
<1>. QED
  BY <1>2, <1>11, <1>13, <1>14, WriteOne

LEMMA PassLineStep ==
  ASSUME IInv, ~SSE, NEW line \in Lines[endpoint], PassLine(line), UNCHANGED endpoint
  PROVE  Tracked' /\ InPlace' /\ EventsPreserved'
<1>1. TypeOK /\ AllSent /\ Sends(endpoint, line) /\ line.kind \in {"other", "junk"} /\ Reading(line)
      /\ Write(<<line>>, "copying") /\ UNCHANGED <<held, gone>>
  BY TypeFacts, LineSent DEF PassLine, IInv
<1>2. /\ status = "copying" /\ read' = read \o <<line>>
      /\ out \in Seq(AnyLine) /\ read \in Seq(AnyLine)
  BY <1>1, ReadNext, TypeFacts
<1>3. /\ line \in AnyLine /\ line.deltas = <<>> /\ line.kind \notin {"blank", "raw"}
      /\ line.kind \notin RestoredKinds
  BY <1>1, SentLines DEF SSE, RestoredKinds, PlainKinds
<1>4. /\ LineDeltas(read) \in Seq(SentDelta)
      /\ held = Answered(LineDeltas(read)).held /\ LineDeltas(out) = Answered(LineDeltas(read)).deltas
      /\ Kinds(out) = Kinds(read)
  BY <1>2, CopyingLines
<1>5. PICK sent \in Seq(AnyLine), written \in Seq(AnyLine) :
        sent = Passed(read) /\ written = Passed(out) /\ Len(sent) = Len(written)
  BY <1>2, CopyingLines
<1>6. PartDeltas(line) = <<>>
  BY <1>3 DEF PartDeltas
<1>7. Passed(read') = sent \o <<line>> /\ Adds(Kinds(read), Kinds(read'), line.kind)
  <2>1. Passed(read') = sent \o <<line>>
    BY <1>2, <1>3, <1>5, PassedFacts
  <2>. QED
    BY <1>2, <1>5, <2>1, KindsFacts
<1>8. LineDeltas(read') = LineDeltas(read)
  <2>1. LineDeltas(read') = LineDeltas(read) \o <<>>
    BY <1>2, <1>3, <1>6, LineDeltasFacts
  <2>. QED
    BY <1>4, <2>1, ConcatEmptySeq
<1>9. CASE out' = out \o <<line>> /\ status' = "copying"
  <2>1. Passed(out') = written \o <<line>> /\ Adds(Kinds(out), Kinds(out'), line.kind)
    <3>1. Passed(out') = written \o <<line>>
      BY <1>2, <1>3, <1>5, <1>9, PassedFacts
    <3>. QED
      BY <1>2, <1>5, <3>1, KindsFacts
  <2>2. Kinds(out') = Kinds(read')
    BY <1>4, <1>7, <2>1, AddsFacts
  <2>3. LineDeltas(out') = LineDeltas(out)
    <3>1. LineDeltas(out') = LineDeltas(out) \o <<>> /\ LineDeltas(out) \in Seq(WrittenDelta)
      BY <1>2, <1>3, <1>6, <1>9, LineDeltasFacts
    <3>. QED
      BY <3>1, ConcatEmptySeq
  <2>6. out' \in Seq(AnyLine)
    BY <1>2, <1>3, <1>9, LineParsed
  <2>. QED
    BY <1>1, <1>4, <1>8, <1>9, <2>2, <2>3, <2>6, LinesStep
<1>10. CASE gone /\ out' = out /\ status' = "failed"
  <2>2. IsPrefix(Kinds(out'), Kinds(read'))
    BY <1>4, <1>7, <1>10, AddsFacts
  <2>3. out' \in Seq(AnyLine) /\ gone'
    BY <1>1, <1>2, <1>10
  <2>. QED
    BY <1>10, <2>2, <2>3, LinesStep
<1>. QED
  BY <1>1, <1>2, <1>3, <1>9, <1>10, WriteOne

LEMMA SkipBlankStep ==
  ASSUME IInv, ~SSE, NEW line \in Lines[endpoint], SkipBlank(line), UNCHANGED endpoint
  PROVE  Tracked' /\ InPlace' /\ EventsPreserved'
<1>1. TypeOK /\ AllSent /\ Sends(endpoint, line) /\ line.kind = "blank" /\ Reading(line)
      /\ UNCHANGED <<held, out, status, gone>>
  BY TypeFacts, LineSent DEF SkipBlank, IInv
<1>2. /\ status = "copying" /\ read' = read \o <<line>>
      /\ out \in Seq(AnyLine) /\ read \in Seq(AnyLine)
  BY <1>1, ReadNext, TypeFacts
<1>3. line \in AnyLine /\ line.deltas = <<>>
  BY <1>1, SentLines DEF SSE, PlainKinds
<1>4. /\ LineDeltas(read) \in Seq(SentDelta)
      /\ held = Answered(LineDeltas(read)).held /\ LineDeltas(out) = Answered(LineDeltas(read)).deltas
      /\ Kinds(out) = Kinds(read)
  BY <1>2, CopyingLines
<1>5. Passed(read') = Passed(read)
  BY <1>1, <1>2, <1>3, PassedFacts
<1>6. Kinds(read') = Kinds(read)
  BY <1>5 DEF Kinds
<1>7. LineDeltas(read') = LineDeltas(read)
  <2>1. LineDeltas(read') = LineDeltas(read) \o <<>>
    BY <1>2, <1>3, LineDeltasFacts DEF PartDeltas
  <2>. QED
    BY <1>4, <2>1, ConcatEmptySeq
<1>. QED
  BY <1>1, <1>2, <1>4, <1>5, <1>6, <1>7, LinesStep

LEMMA EndOfLinesStep ==
  ASSUME IInv, ~SSE, EndOfLines, UNCHANGED endpoint
  PROVE  Tracked' /\ InPlace' /\ EventsPreserved'
<1>1. /\ TypeOK /\ status = "copying" /\ held' = <<>> /\ UNCHANGED <<gone, read>>
      /\ Write(Flushed(<<>>, RestoreString(held)), "done")
  BY DEF EndOfLines, IInv
<1>2. out \in Seq(AnyLine) /\ read \in Seq(AnyLine) /\ held \in Buffer
  BY <1>1, TypeFacts
<1>3. PICK rest \in Text : rest = RestoreString(held)
  BY <1>2, RestOfHeld
<1>4. /\ held = Answered(LineDeltas(read)).held /\ LineDeltas(out) = Answered(LineDeltas(read)).deltas
      /\ Kinds(out) = Kinds(read)
  BY <1>1, CopyingLines
<1>5. out \o <<>> = out
  BY <1>2, ConcatEmptySeq
<1>6. \/ status' = "done" /\ out' = IF rest = <<>> THEN out ELSE out \o <<Raw(rest)>>
      \/ gone /\ status' = "failed" /\ out' = out
  <2>1. PICK lines \in Seq(AnyLine) : lines = <<>>
    <3>1. <<>> \in Seq(AnyLine)
      OBVIOUS
    <3>. QED
      BY <3>1
  <2>2. Write(Flushed(lines, rest), "done") /\ out \o lines = out
    BY <1>1, <1>3, <1>5, <2>1
  <2>. QED
    BY <1>2, <2>1, <2>2, WriteFlushed
<1>7. Passed(out') = Passed(out)
  BY <1>2, <1>6, BehindIs
<1>8. ~SSE' /\ InPlace'
  BY <1>6 DEF SSE, InPlace
<1>9. EventsPreserved'
  <2>1. Kinds(out') = Kinds(out)
    BY <1>7 DEF Kinds
  <2>2. IsPrefix(Kinds(out), Kinds(out))
    BY <1>2, KindsFacts
  <2>3. Kinds(out') = Kinds(read') /\ IsPrefix(Kinds(out'), Kinds(read'))
    BY <1>1, <1>4, <2>1, <2>2
  <2>. QED
    BY <1>8, <2>3 DEF EventsPreserved, LinesPreserved
<1>10. Tracked'
  <2>1. CASE status' = "done"
    <3>1. LineDeltas(out') = LineDeltas(out) \o Behind(rest)
      BY <1>2, <1>6, <2>1, BehindIs
    <3>2. Received' = LineDeltas(read)
      BY <1>1, <1>8 DEF Received
    <3>. QED
      BY <1>1, <1>3, <1>4, <2>1, <3>1, <3>2 DEF Tracked, Answered, Written
  <2>2. CASE gone /\ status' = "failed"
    BY <1>1, <2>2 DEF Tracked
  <2>. QED
    BY <1>6, <2>1, <2>2
<1>. QED
  BY <1>8, <1>9, <1>10

(***************************************************************************)
(* What the environment does changes neither side.                         *)
(***************************************************************************)
LEMMA QuietStep ==
  ASSUME IInv, UNCHANGED <<endpoint, eventData, held, out, read>>,
         status' = status \/ (status = "copying" /\ status' = "failed"),
         gone => gone'
  PROVE  Tracked' /\ InPlace' /\ EventsPreserved'
<1>1. SSE' <=> SSE
  BY DEF SSE
<1>2. InPlace'
  BY <1>1 DEF IInv, InPlace
<1>3. EventsPreserved'
  BY <1>1 DEF IInv, EventsPreserved, SSEPreserved, LinesPreserved, OneObjectPerEvent
<1>4. Tracked'
  <2>1. EventsRead' = EventsRead
    BY DEF EventsRead
  <2>2. Received' = Received /\ Written' = Written
    BY <1>1, <2>1 DEF Received, Written
  <2>. QED
    BY <1>1, <2>1, <2>2 DEF IInv, Tracked
<1>. QED
  BY <1>2, <1>3, <1>4

(***************************************************************************)
(* The invariant holds at first, and every step keeps it.                  *)
(***************************************************************************)
LEMMA Start == Init => IInv
<1>. SUFFICES ASSUME Init PROVE IInv
  OBVIOUS
<1>1. /\ endpoint \in Endpoints /\ held = <<>> /\ out = <<>> /\ eventData = <<>> /\ read = <<>>
      /\ status = "copying" /\ source = "open" /\ gone = FALSE
  BY DEF Init, InitStream
<1>2. TypeOK
  <2>1. held \in Text /\ Len(held) <= MaxPlaceholderLen
    BY <1>1, NothingHeld DEF Buffer
  <2>2. Len(read) <= MaxLines[endpoint]
    BY <1>1, LineSent
  <2>3. eventData \in Seq(UpstreamLine) /\ out \in Seq(AnyLine) /\ read \in Seq(UpstreamLine)
        /\ DOMAIN eventData = {}
    BY <1>1
  <2>. QED
    BY <1>1, <2>1, <2>2, <2>3 DEF TypeOK
<1>3. AllSent
  BY <1>1 DEF AllSent
<1>4. PICK s \in Seq(AnyLine) : s = <<>>
  <2>1. <<>> \in Seq(AnyLine)
    OBVIOUS
  <2>. QED
    BY <2>1
<1>5. out = s /\ read = s
  BY <1>1, <1>4
<1>6. Parsed(s) = NothingParsed /\ LineDeltas(s) = <<>> /\ Passed(s) = <<>>
  BY <1>4, ParsedNext, LineDeltasFacts, PassedFacts
<1>7. EventsOf(s) = <<>> /\ Parsed(s).data = <<>>
  BY <1>6 DEF EventsOf, NothingParsed
<1>8. Received = <<>>
  BY <1>1, <1>5, <1>6, <1>7, DeltasOfFacts DEF Received, EventsRead
<1>9. Tracked
  <2>1. Answered(<<>>).held = <<>> /\ Answered(<<>>).deltas = <<>>
    BY AnsweredNone
  <2>2. Written = <<>>
    BY <1>5, <1>6 DEF Written
  <2>. QED
    BY <1>1, <1>8, <2>1, <2>2 DEF Tracked, Answered
<1>10. InPlace
  BY <1>1, <1>5, <1>7 DEF InPlace
<1>11. EventsPreserved
  <2>1. IsPrefix(Shapes(s), Shapes(s)) /\ IsPrefix(Kinds(s), Kinds(s))
    BY ShapesFacts, KindsFacts
  <2>. QED
    BY <1>5, <2>1 DEF EventsPreserved, SSEPreserved, LinesPreserved
<1>. QED
  BY <1>2, <1>3, <1>9, <1>10, <1>11 DEF IInv

LEMMA Inductive == IInv /\ [Next]_vars => IInv'
<1>. SUFFICES ASSUME IInv, [Next]_vars PROVE IInv'
  OBVIOUS
<1>1. TypeOK' /\ AllSent'
  BY TypeStep DEF IInv
<1>2. ASSUME SSE, CopyEvents, UNCHANGED endpoint
      PROVE  Tracked' /\ InPlace' /\ EventsPreserved'
  BY <1>2, EndEventStep, DataLineStep, OtherLineStep, EndOfEventsStep DEF CopyEvents
<1>3. ASSUME ~SSE, CopyLines, UNCHANGED endpoint
      PROVE  Tracked' /\ InPlace' /\ EventsPreserved'
  BY <1>3, RestoreLineStep, PassLineStep, SkipBlankStep, EndOfLinesStep DEF CopyLines
<1>4. ASSUME Interrupted PROVE Tracked' /\ InPlace' /\ EventsPreserved'
  <2>1. /\ UNCHANGED <<endpoint, eventData, held, out, read>>
        /\ status' = status \/ (status = "copying" /\ status' = "failed")
        /\ gone => gone'
    BY <1>4 DEF Interrupted, ReadFails, UpstreamEnds, ClientLeaves
  <2>. QED
    BY <2>1, QuietStep
<1>5. ASSUME UNCHANGED vars PROVE Tracked' /\ InPlace' /\ EventsPreserved'
  BY <1>5, QuietStep DEF vars
<1>6. Tracked' /\ InPlace' /\ EventsPreserved'
  BY <1>2, <1>3, <1>4, <1>5 DEF Next, HandleSSE, HandleStreamable, SSE
<1>. QED
  BY <1>1, <1>6 DEF IInv

(***************************************************************************)
(* The deltas taken up are ones the upstream sends, and what has been      *)
(* written is what the hold-back restorer makes of them.                   *)
(***************************************************************************)
LEMMA ReceivedSent ==
  ASSUME IInv
  PROVE  Received \in Seq(SentDelta)
<1>1. read \in Seq(UpstreamLine)
  BY TypeFacts DEF IInv
<1>2. LineDeltas(read) \in Seq(SentDelta)
  BY <1>1, LineDeltasSent
<1>3. EventsOf(read) \in Seq(Seq(UpstreamLine))
  BY <1>1, AtBlank
<1>4. EventsOf(Append(read, Blank)) \in Seq(Seq(UpstreamLine))
  <2>1. Append(read, Blank) \in Seq(UpstreamLine)
    BY <1>1, FixedLines, AppendIs
  <2>. QED
    BY <2>1, EventsType
<1>5. DeltasOf(EventsRead) \in Seq(SentDelta)
  BY <1>3, <1>4, DeltasOfFacts DEF EventsRead
<1>. QED
  BY <1>2, <1>5 DEF Received

LEMMA InStepTracked ==
  ASSUME IInv, InStep
  PROVE  IF status = "done"
         THEN held = <<>> /\ Written = Answered(Received).deltas \o Behind(RestoreString(Answered(Received).held))
         ELSE held = Answered(Received).held /\ Written = Answered(Received).deltas
<1>1. SSE => Orderly(EventsRead)
  <2>. SUFFICES ASSUME SSE PROVE Orderly(EventsRead)
    OBVIOUS
  <2>1. read \in Seq(UpstreamLine)
    BY TypeFacts DEF IInv
  <2>2. /\ Append(read, Blank) = read \o <<Blank>>
        /\ Orderly(EventsOf(read \o <<Blank>>)) => Orderly(EventsOf(read))
    BY <2>1, AtBlank
  <2>3. Orderly(EventsOf(Append(read, Blank)))
    BY DEF InStep, OneObjectPerEvent
  <2>. QED
    BY <2>2, <2>3 DEF EventsRead
<1>. QED
  BY <1>1 DEF IInv, InStep, Tracked, Answered

(***************************************************************************)
(* So the text written is the text received, restored.                     *)
(***************************************************************************)
LEMMA TextFollows == IInv => TextRestored
<1>. SUFFICES ASSUME IInv PROVE TextRestored
  OBVIOUS
<1>1. PICK d \in Seq(SentDelta) : d = Received
  BY ReceivedSent
<1>2. ASSUME InStep, NoStrayOpen(TextIn(d, Channels))
      PROVE  TextIn(Written, Channels \cup {"raw"}) =
               RestoreEach(SubSeq(TextIn(d, Channels), 1, Len(TextIn(d, Channels)) - Len(held)))
  <2>1. CASE status = "done"
    <3>1. PICK w : w = Answered(d).deltas \o Behind(RestoreString(Answered(d).held))
      OBVIOUS
    <3>2. held = <<>> /\ Written = w
      BY <1>1, <1>2, <2>1, <3>1, InStepTracked
    <3>3. TextIn(w, Channels \cup {"raw"}) =
            RestoreEach(SubSeq(TextIn(d, Channels), 1, Len(TextIn(d, Channels)) - Len(<<>>)))
      BY <1>2, <3>1, TextAtEnd
    <3>. QED
      BY <3>2, <3>3
  <2>2. CASE status # "done"
    <3>1. held = Answered(d).held /\ Written = Answered(d).deltas
      BY <1>1, <1>2, <2>2, InStepTracked
    <3>2. TextIn(Answered(d).deltas, Channels \cup {"raw"}) =
            RestoreEach(SubSeq(TextIn(d, Channels), 1, Len(TextIn(d, Channels)) - Len(Answered(d).held)))
      BY <1>2, TextSoFar
    <3>. QED
      BY <3>1, <3>2
  <2>. QED
    BY <2>1, <2>2
<1>. QED
  BY <1>1, <1>2 DEF TextRestored

(***************************************************************************)
(* The strings that stand for the first n hold the text of these n, less   *)
(* what is held of it.                                                     *)
(***************************************************************************)
LEMMA CutInTwo ==
  ASSUME NEW d \in Seq(SentDelta), NEW n \in 0..Len(d)
  PROVE  \E a, b \in Seq(SentDelta) : Len(a) = n /\ a = SubSeq(d, 1, n) /\ d = a \o b
<1>. DEFINE a == SubSeq(d, 1, n)
            b == SubSeq(d, n + 1, Len(d))
<1>1. /\ Len(d) \in Nat /\ n \in Nat /\ n <= Len(d)
      /\ a \in Seq(SentDelta) /\ Len(a) = n /\ \A k \in 1..n : a[k] = d[k]
  OBVIOUS
<1>2. b \in Seq(SentDelta) /\ Len(b) = Len(d) - n /\ \A k \in 1..(Len(d) - n) : b[k] = d[n + k]
  OBVIOUS
<1>. HIDE DEF a, b
<1>3. d = a \o b
  <2>1. Len(d) = Len(a) + Len(b)
    BY <1>1, <1>2
  <2>2. \A k \in 1..Len(a) : d[k] = a[k]
    BY <1>1
  <2>3. \A k \in 1..Len(b) : d[Len(a) + k] = b[k]
    BY <1>1, <1>2
  <2>. QED
    BY <1>1, <1>2, <2>1, <2>2, <2>3, InTwoParts
<1>. QED
  BY <1>1, <1>2, <1>3 DEF a

LEMMA FrontOfConcat ==
  ASSUME NEW C, NEW a \in Seq(C), NEW b \in Seq(C), NEW n, n = Len(a)
  PROVE  SubSeq(a \o b, 1, n) = a
<1>1. PICK s \in Seq(C) : s = a \o b
  <2>1. a \o b \in Seq(C)
    OBVIOUS
  <2>. QED
    BY <2>1
<1>2. n \in Nat /\ n <= Len(s) /\ \A k \in 1..n : s[k] = a[k]
  BY <1>1
<1>3. SubSeq(s, 1, n) \in Seq(C) /\ Len(SubSeq(s, 1, n)) = n /\ \A k \in 1..n : SubSeq(s, 1, n)[k] = a[k]
  BY <1>2
<1>. QED
  BY <1>1, <1>3, SeqEqual

LEMMA WrittenFront ==
  ASSUME NEW a \in Seq(SentDelta), NEW b \in Seq(SentDelta), NEW rest \in Seq(WrittenDelta)
  PROVE  SubSeq(Answered(a \o b).deltas \o rest, 1, Len(a)) = Answered(a).deltas
<1>1. PICK u \in Seq(WrittenDelta) : u = Answered(a).deltas /\ Len(u) = Len(a)
  <2>1. Len(Answered(a).deltas) = Len(a)
    BY NothingHeld, RestoreType DEF Answered
  <2>. QED
    BY <2>1, AnsweredType
<1>2. PICK v \in Seq(WrittenDelta) : v = RestoreDeltas(Answered(a).held, b).deltas
  <2>1. PICK h \in Buffer : h = Answered(a).held
    BY AnsweredType
  <2>2. RestoreDeltas(h, b).deltas \in Seq(SentDelta)
    BY RestoreType
  <2>. QED
    BY <2>1, <2>2, DeltaTypes
<1>3. Answered(a \o b).deltas = u \o v
  BY <1>1, <1>2, AnsweredConcat
<1>4. PICK w \in Seq(WrittenDelta) : w = v \o rest /\ (u \o v) \o rest = u \o w
  <2>1. v \o rest \in Seq(WrittenDelta)
    OBVIOUS
  <2>2. (u \o v) \o rest = u \o (v \o rest)
    OBVIOUS
  <2>. QED
    BY <2>1, <2>2
<1>5. SubSeq(u \o w, 1, Len(a)) = u
  BY <1>1, FrontOfConcat
<1>. QED
  BY <1>1, <1>3, <1>4, <1>5

\* What is held of a text is the end that is late.
LEMMA HeldIsLate ==
  ASSUME NEW d \in Seq(SentDelta), NEW t, t = TextIn(d, Channels), NoStrayOpen(t)
  PROVE  \E late \in 0..MaxPlaceholderLen :
           /\ late <= Len(t) /\ (late > 0 => t[Len(t) - late + 1] = Open)
           /\ TextIn(Answered(d).deltas, Channels) = RestoreEach(SubSeq(t, 1, Len(t) - late))
<1>1. t \in Text
  BY DeltaTypes, TextInFacts
<1>2. /\ Len(t) \in Nat /\ Len(HeldOf(t)) \in Nat /\ Len(ReleasedOf(t)) \in Nat
      /\ Len(ReleasedOf(t)) = Len(t) - Len(HeldOf(t))
      /\ ReleasedOf(t) = SubSeq(t, 1, Len(t) - Len(HeldOf(t)))
      /\ \/ HeldOf(t) = <<>>
         \/ CanGrow(HeldOf(t)) /\ t[Len(ReleasedOf(t)) + 1] = Open
  BY <1>1, HeldFacts
<1>3. PICK late \in Nat : late = Len(HeldOf(t))
  BY <1>2
<1>4. late <= MaxPlaceholderLen
  <2>1. Len(<<>>) = 0 /\ MaxPlaceholderLen >= 0
    BY NothingHeld DEF Buffer
  <2>. QED
    BY <1>2, <1>3, <2>1 DEF CanGrow
<1>5. late \in 0..MaxPlaceholderLen
  BY <1>3, <1>4, FormatAssumption DEF MaxPlaceholderLen
<1>6. late > 0 => t[Len(t) - late + 1] = Open
  <2>1. Len(<<>>) = 0
    OBVIOUS
  <2>2. Len(ReleasedOf(t)) + 1 = Len(t) - late + 1
    BY <1>2, <1>3
  <2>. QED
    BY <1>2, <1>3, <2>1, <2>2
<1>7. late <= Len(t)
  BY <1>2, <1>3
<1>8. TextIn(Answered(d).deltas, Channels) = RestoreEach(SubSeq(t, 1, Len(t) - late))
  BY <1>2, <1>3, HeldFollows DEF Follows, ReleasedRestored
<1>. QED
  BY <1>5, <1>6, <1>7, <1>8

LEMMA PlacesFollow == IInv => TextInItsPlace
<1>. SUFFICES ASSUME IInv, InStep, NoStrayOpen(TextIn(Received, Channels)),
                     NEW n \in 0..Len(Received),
                     NEW before, before = TextIn(SubSeq(Received, 1, n), Channels)
              PROVE  \E late \in 0..MaxPlaceholderLen :
                       /\ late <= Len(before)
                       /\ late > 0 => before[Len(before) - late + 1] = Open
                       /\ TextIn(SubSeq(Written, 1, n), Channels)
                            = RestoreEach(SubSeq(before, 1, Len(before) - late))
  BY DEF TextInItsPlace
<1>1. PICK d \in Seq(SentDelta) : d = Received
  BY ReceivedSent
<1>2. PICK a \in Seq(SentDelta), b \in Seq(SentDelta) :
        Len(a) = n /\ a = SubSeq(d, 1, n) /\ d = a \o b
  <2>1. PICK m \in 0..Len(d) : m = n
    BY <1>1
  <2>2. \E a, b \in Seq(SentDelta) : Len(a) = m /\ a = SubSeq(d, 1, m) /\ d = a \o b
    BY <2>1, CutInTwo
  <2>. QED
    BY <2>1, <2>2
<1>3. NoStrayOpen(before) /\ before = TextIn(a, Channels)
  <2>1. a \in Seq(WrittenDelta) /\ b \in Seq(WrittenDelta)
    BY DeltaTypes
  <2>2. /\ TextIn(a, Channels) \in Text /\ TextIn(b, Channels) \in Text
        /\ TextIn(a \o b, Channels) = TextIn(a, Channels) \o TextIn(b, Channels)
    BY <2>1, TextInFacts
  <2>. QED
    BY <1>1, <1>2, <2>2, StrayOfConcat, AnswerAssumption
<1>4. SubSeq(Written, 1, n) = Answered(a).deltas
  <2>1. PICK rest \in Seq(WrittenDelta) : Written = Answered(d).deltas \o rest
    <3>1. CASE status = "done"
      <4>1. PICK text \in Text : text = RestoreString(Answered(d).held)
        <5>1. Answered(d).held \in Text
          BY AnsweredType
        <5>. QED
          BY <5>1, RestoreStringType, AnswerAssumption
      <4>2. Behind(text) \in Seq(WrittenDelta)
        <5>1. Delta("raw", text) \in WrittenDelta
          BY DeltaFacts
        <5>2. <<>> \in Seq(WrittenDelta) /\ <<Delta("raw", text)>> \in Seq(WrittenDelta)
          BY <5>1
        <5>. QED
          BY <5>2 DEF Behind
      <4>. QED
        BY <1>1, <3>1, <4>1, <4>2, InStepTracked
    <3>2. CASE status # "done"
      <4>1. Written = Answered(d).deltas
        BY <1>1, <3>2, InStepTracked
      <4>2. Answered(d).deltas \in Seq(WrittenDelta)
        BY AnsweredType
      <4>3. Answered(d).deltas = Answered(d).deltas \o <<>> /\ <<>> \in Seq(WrittenDelta)
        BY <4>2, ConcatEmptySeq
      <4>. QED
        BY <4>1, <4>3
    <3>. QED
      BY <3>1, <3>2
  <2>2. SubSeq(Answered(a \o b).deltas \o rest, 1, Len(a)) = Answered(a).deltas
    BY WrittenFront
  <2>. QED
    BY <1>2, <2>1, <2>2
<1>5. PICK late \in 0..MaxPlaceholderLen :
        /\ late <= Len(before) /\ (late > 0 => before[Len(before) - late + 1] = Open)
        /\ TextIn(Answered(a).deltas, Channels) = RestoreEach(SubSeq(before, 1, Len(before) - late))
  BY <1>3, HeldIsLate
<1>. QED
  BY <1>4, <1>5

(***************************************************************************)
(* IInv holds in every state: whatever the upstream sends, wherever it     *)
(* breaks off and whenever the client goes away.                           *)
(***************************************************************************)
THEOREM StreamInvariant == Spec => []IInv
BY Start, Inductive, PTL DEF Spec

\* Copy buffers the data lines of one event, and no more text than a placeholder
\* is long.
THEOREM TypeInvariant == Spec => []TypeOK
<1>1. IInv => TypeOK
  BY DEF IInv
<1>. QED
  BY <1>1, StreamInvariant, PTL

\* No text is lost, doubled or reordered, and every placeholder is restored,
\* however it is cut into strings, events and lines.
THEOREM TextRestoredInvariant == Spec => []TextRestored
BY TextFollows, StreamInvariant, PTL

\* Text is late by less than a placeholder and otherwise in the string it came in:
\* no more than that moves from one choice, tool call or event into another.
THEOREM TextInItsPlaceInvariant == Spec => []TextInItsPlace
BY PlacesFollow, StreamInvariant, PTL

\* The client gets the events, or lines, that the upstream sent, in its order.
THEOREM EventsPreservedInvariant == Spec => []EventsPreserved
<1>1. IInv => EventsPreserved
  BY DEF IInv
<1>. QED
  BY <1>1, StreamInvariant, PTL
=============================================================================
