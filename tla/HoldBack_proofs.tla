--------------------------- MODULE HoldBack_proofs ---------------------------
(***************************************************************************)
(* Proofs about HoldBack.  The argument rests on three facts about the     *)
(* format: an opening bracket occurs in a placeholder, or in what may grow *)
(* into one, only at its start; every proper prefix of a placeholder may   *)
(* grow; and every prefix of a text that may grow may grow.  With them what*)
(* is held back never splits a known placeholder, so that restoring what is*)
(* released piece by piece is restoring the stream (OutputInvariant).      *)
(***************************************************************************)
EXTENDS HoldBack, RestoreText_proofs, TLAPS

(***************************************************************************)
(* The strengthened invariant implies that no placeholder is ever cut.     *)
(***************************************************************************)
LEMMA InvariantImpliesNoSplit == IInv => NoSplit
<1>. SUFFICES ASSUME IInv,
                     NEW c \in cuts, NEW i \in 1..c, NEW j \in (c + 1)..Len(received)
              PROVE  ~CompletePlaceholder(SubSeq(received, i, j))
  BY DEF NoSplit
<1>1. received \in Text /\ Len(received) \in Nat /\ c \in 0..Len(received)
  BY DEF IInv, TypeOK, Text
<1>2. CASE c < Len(received) /\ received[c + 1] = Open
  BY <1>1, <1>2, NoGrowthOverBracket
<1>3. CASE Settled(received, c)
  BY <1>1, <1>3, SettledStays
<1>. QED
  BY <1>2, <1>3 DEF IInv, CutsSafe

(***************************************************************************)
(* The invariant holds initially.                                          *)
(***************************************************************************)
LEMMA InvariantInit == Init => IInv
<1>. SUFFICES ASSUME Init PROVE IInv
  OBVIOUS
<1>1. /\ pending = <<>> /\ received = <<>> /\ cuts = {}
      /\ Len(received) = 0 /\ Len(pending) = 0
  BY DEF Init
<1>2. TypeOK
  <2>1. flushed \in BOOLEAN
    BY DEF Init
  <2>2. received \in Text /\ pending \in Text /\ cuts \subseteq 0..Len(received)
    BY <1>1 DEF Text
  <2>3. Len(pending) <= MaxPlaceholderLen
    BY <1>1, FormatAssumption DEF MaxPlaceholderLen
  <2>. QED
    BY <2>1, <2>2, <2>3 DEF TypeOK
<1>3. HeldGrows
  BY <1>1 DEF HeldGrows
<1>4. CutsSafe
  BY <1>1 DEF CutsSafe
<1>5. RestSettled
  BY <1>1 DEF RestSettled, Settled
<1>6. HeldFromCut
  BY <1>1 DEF HeldFromCut
<1>. QED
  BY <1>2, <1>3, <1>4, <1>5, <1>6 DEF IInv

(***************************************************************************)
(* What one Push makes of the restorer's state.  b is the buffer, h where  *)
(* its held part starts, c the cut's position in the whole stream.         *)
(***************************************************************************)
LEMMA PushFacts ==
  ASSUME TypeOK, HeldGrows, NEW chunk \in Text,
         NEW b, b = pending \o chunk,
         NEW r, r = received \o chunk,
         NEW base, base = Len(received) - Len(pending)
  PROVE  /\ b \in Text /\ r \in Text
         /\ base \in Nat
         /\ Len(b) = Len(r) - base
         /\ Len(r) = Len(received) + Len(chunk)
         /\ \A k \in 1..Len(b) : b[k] = r[base + k]
         /\ \A k \in 1..Len(received) : r[k] = received[k]
<1>1. /\ pending \in Seq(Char) /\ received \in Seq(Char) /\ chunk \in Seq(Char)
      /\ Len(pending) \in Nat /\ Len(received) \in Nat /\ Len(chunk) \in Nat
      /\ Len(pending) <= Len(received)
  BY DEF TypeOK, HeldGrows, Text
<1>2. b \in Seq(Char) /\ r \in Seq(Char)
  BY <1>1
<1>3. Len(b) = Len(pending) + Len(chunk) /\ Len(r) = Len(received) + Len(chunk)
  BY <1>1
<1>4. \A k \in 1..Len(received) : r[k] = received[k]
  BY <1>1
<1>5. ASSUME NEW k \in 1..Len(b)
      PROVE  b[k] = r[base + k]
  <2>1. CASE k <= Len(pending)
    <3>1. pending[k] = received[base + k]
      <4>1. base + 1 \in 1..(Len(received) + 1)
        BY <1>1
      <4>2. pending = SubSeq(received, base + 1, Len(received))
        BY <1>1 DEF HeldGrows
      <4>3. \A q \in 1..Len(pending) : SubSeq(received, base + 1, Len(received))[q] = received[(base + 1) + q - 1]
        BY <1>1, <4>1, SegmentFacts DEF TypeOK
      <4>4. k \in 1..Len(pending) /\ (base + 1) + k - 1 = base + k
        BY <1>1, <1>3, <2>1
      <4>5. pending[k] = received[(base + 1) + k - 1]
        BY <4>2, <4>3, <4>4
      <4>. QED
        BY <4>4, <4>5
    <3>. QED
      BY <1>1, <1>3, <2>1, <3>1
  <2>2. CASE k > Len(pending)
    BY <1>1, <1>3, <2>2
  <2>. QED
    BY <1>1, <1>3, <2>1, <2>2
<1>. QED
  BY <1>1, <1>2, <1>3, <1>4, <1>5 DEF Text

(***************************************************************************)
(* Every step preserves the invariant.                                     *)
(***************************************************************************)
LEMMA PushPreserves ==
  ASSUME IInv, NEW chunk \in Chunks, Push(chunk)
  PROVE  IInv'
<1>. DEFINE b == pending \o chunk
            r == received \o chunk
            base == Len(received) - Len(pending)
            h == FindHoldStart(b)
            cut == base + h - 1
<1>0. chunk \in Text /\ TypeOK /\ HeldGrows
  BY StreamAssumption DEF IInv
<1>1. /\ received' = r
      /\ pending' = SubSeq(b, h, Len(b))
      /\ cuts' = cuts \cup {Len(received) + h - 1 - Len(pending)}
  BY DEF Push
<1>22. ~flushed /\ flushed' = flushed
  BY DEF Push
<1>2. /\ b \in Text /\ r \in Text
      /\ base \in Nat
      /\ Len(b) = Len(r) - base
      /\ Len(r) = Len(received) + Len(chunk)
      /\ \A k \in 1..Len(b) : b[k] = r[base + k]
      /\ \A k \in 1..Len(received) : r[k] = received[k]
  BY <1>0, PushFacts
<1>3. /\ Len(b) \in Nat /\ Len(r) \in Nat /\ Len(received) \in Nat /\ Len(pending) \in Nat
      /\ Len(chunk) \in Nat /\ Len(pending) <= Len(received)
  BY <1>0, <1>2 DEF TypeOK, HeldGrows, Text
<1>4. \/ h = Len(b) + 1 /\ Settled(b, Len(b))
      \/ h \in 1..Len(b) /\ b[h] = Open /\ CanGrow(SubSeq(b, h, Len(b)))
  BY <1>2, HoldStartFound
<1>. HIDE DEF h
<1>5. h \in 1..(Len(b) + 1)
  BY <1>3, <1>4
<1>. HIDE DEF b, r
<1>6. /\ pending' \in Text
      /\ Len(pending') = Len(b) - h + 1
      /\ \A k \in 1..(Len(b) - h + 1) : pending'[k] = b[h + k - 1]
  BY <1>1, <1>2, <1>3, <1>5, SegmentFacts
<1>20. /\ base \in Nat /\ cut \in Nat
          /\ base = Len(received) - Len(pending) /\ cut = base + h - 1
          /\ Len(b) = Len(r) - base /\ Len(r) = Len(received) + Len(chunk)
          /\ Len(pending') = Len(r) - cut
          /\ cut <= Len(r)
  BY <1>2, <1>3, <1>5, <1>6
<1>7. cut \in 0..Len(r) /\ cuts' = cuts \cup {cut}
  <2>1. Len(received) + h - 1 - Len(pending) = cut
    BY <1>3, <1>5, <1>20
  <2>. QED
    BY <1>1, <1>3, <1>20, <2>1
<1>. HIDE DEF base, cut
<1>8. HeldGrows'
  <2>1. Len(pending') <= Len(received') /\ Len(received') - Len(pending') = cut
    <3>1. Len(received') = Len(r)
      BY <1>1
    <3>. QED
      BY <1>3, <1>20, <3>1
  <2>2. pending' = SubSeq(r, cut + 1, Len(r))
    <3>1. /\ SubSeq(r, cut + 1, Len(r)) \in Text
          /\ Len(SubSeq(r, cut + 1, Len(r))) = Len(r) - cut
          /\ \A k \in 1..(Len(r) - cut) : SubSeq(r, cut + 1, Len(r))[k] = r[cut + k]
      <4>1. /\ cut + 1 \in 1..(Len(r) + 1) /\ Len(r) \in ((cut + 1) - 1)..Len(r)
            /\ Len(r) - (cut + 1) + 1 = Len(r) - cut
            /\ \A k \in 1..(Len(r) - cut) : (cut + 1) + k - 1 = cut + k
        BY SMTT(30), <1>3, <1>20
      <4>2. /\ SubSeq(r, cut + 1, Len(r)) \in Text
            /\ Len(SubSeq(r, cut + 1, Len(r))) = Len(r) - (cut + 1) + 1
            /\ \A k \in 1..(Len(r) - (cut + 1) + 1) :
                 SubSeq(r, cut + 1, Len(r))[k] = r[(cut + 1) + k - 1]
        BY <1>2, <4>1, SegmentFacts
      <4>. QED
        BY <4>1, <4>2
    <3>2. Len(pending') = Len(r) - cut
      BY <1>20
    <3>3. \A k \in 1..(Len(r) - cut) : pending'[k] = r[cut + k]
      <4>1. TAKE k \in 1..(Len(r) - cut)
      <4>2. h + k - 1 \in 1..Len(b) /\ base + (h + k - 1) = cut + k
        BY <1>3, <1>5, <1>20, <4>1
      <4>3. pending'[k] = b[h + k - 1]
        BY <1>6, <3>2, <4>1
      <4>4. b[h + k - 1] = r[base + (h + k - 1)]
        BY <1>2, <4>2
      <4>. QED
        BY <4>2, <4>3, <4>4
    <3>. QED
      BY <1>6, <3>1, <3>2, <3>3 DEF Text
  <2>3. pending' # <<>> => CanGrow(pending')
    BY <1>1, <1>3, <1>4, <1>6 DEF Text
  <2>. QED
    BY <1>1, <2>1, <2>2, <2>3 DEF HeldGrows
<1>9. TypeOK'
  <2>1. cuts' \subseteq 0..Len(received')
    <3>1. received' = r /\ cuts' = cuts \cup {cut} /\ cut \in 0..Len(r)
      BY <1>1, <1>7
    <3>2. cuts \subseteq 0..Len(received) /\ Len(received) <= Len(r)
      BY <1>0, <1>3, <1>20 DEF TypeOK
    <3>3. 0..Len(received) \subseteq 0..Len(r)
      BY <1>3, <3>2
    <3>. QED
      BY <3>1, <3>2, <3>3
  <2>2. Len(pending') <= MaxPlaceholderLen
    <3>1. pending' = <<>> => Len(pending') = 0
      OBVIOUS
    <3>. QED
      BY <1>8, <3>1, FormatAssumption DEF HeldGrows, CanGrow, MaxPlaceholderLen
  <2>. QED
    BY <1>0, <1>1, <1>2, <1>6, <1>22, <2>1, <2>2 DEF TypeOK
\* The text received before is still the same text.
<1>21. ASSUME NEW c \in 0..Len(received), NEW q \in 1..c
         PROVE  SubSeq(r, q, c) = SubSeq(received, q, c)
  <2>1. /\ SubSeq(r, q, c) \in Text /\ Len(SubSeq(r, q, c)) = c - q + 1
        /\ \A k \in 1..(c - q + 1) : SubSeq(r, q, c)[k] = r[q + k - 1]
    <3>1. q \in 1..(Len(r) + 1) /\ c \in (q - 1)..Len(r)
      BY <1>3, <1>20
    <3>. QED
      BY <1>2, <3>1, SegmentFacts DEF Text
  <2>2. /\ SubSeq(received, q, c) \in Text /\ Len(SubSeq(received, q, c)) = c - q + 1
        /\ \A k \in 1..(c - q + 1) : SubSeq(received, q, c)[k] = received[q + k - 1]
    <3>1. q \in 1..(Len(received) + 1) /\ c \in (q - 1)..Len(received)
      BY <1>3
    <3>. QED
      BY <1>0, <3>1, SegmentFacts DEF TypeOK, Text
  <2>3. \A k \in 1..(c - q + 1) : SubSeq(r, q, c)[k] = SubSeq(received, q, c)[k]
    <3>1. TAKE k \in 1..(c - q + 1)
    <3>2. q + k - 1 \in 1..Len(received)
      BY <1>3
    <3>. QED
      BY <1>2, <2>1, <2>2, <3>2
  <2>. QED
    BY <2>1, <2>2, <2>3, SameText
\* Nothing held, and none of the buffer may grow: then no earlier text may.
<1>10. ASSUME h = Len(b) + 1
       PROVE  Settled(r, Len(r))
  <2>. SUFFICES ASSUME NEW i \in 1..Len(r) PROVE ~CanGrow(SubSeq(r, i, Len(r)))
    BY DEF Settled
  <2>1. CASE i > base
    <3>1. SubSeq(r, i, Len(r)) = SubSeq(b, i - base, Len(b))
      <4>1. i - base \in 1..Len(b)
        BY <1>3, <1>20, <2>1
      <4>2. /\ SubSeq(b, i - base, Len(b)) \in Text
            /\ Len(SubSeq(b, i - base, Len(b))) = Len(b) - (i - base) + 1
            /\ \A k \in 1..(Len(b) - (i - base) + 1) :
                 SubSeq(b, i - base, Len(b))[k] = b[(i - base) + k - 1]
        BY <1>2, <1>3, <4>1, SegmentFacts DEF Text
      <4>3. /\ SubSeq(r, i, Len(r)) \in Text
            /\ Len(SubSeq(r, i, Len(r))) = Len(r) - i + 1
            /\ \A k \in 1..(Len(r) - i + 1) : SubSeq(r, i, Len(r))[k] = r[i + k - 1]
        BY <1>2, <1>3, SegmentFacts DEF Text
      <4>4. Len(r) - i + 1 = Len(b) - (i - base) + 1
        BY <1>3, <1>20
      <4>5. ASSUME NEW k \in 1..(Len(r) - i + 1)
            PROVE  SubSeq(r, i, Len(r))[k] = SubSeq(b, i - base, Len(b))[k]
        <5>1. (i - base) + k - 1 \in 1..Len(b) /\ base + ((i - base) + k - 1) = i + k - 1
          BY <1>3, <1>20, <2>1
        <5>2. b[(i - base) + k - 1] = r[i + k - 1]
          BY <1>2, <5>1
        <5>. QED
          BY <4>2, <4>3, <4>4, <5>2
      <4>. QED
        BY <4>2, <4>3, <4>4, <4>5, SameText
    <3>2. Settled(b, Len(b))
      BY <1>3, <1>4, <1>10
    <3>3. i - base \in 1..Len(b)
      BY <1>3, <1>20, <2>1
    <3>. QED
      BY <3>1, <3>2, <3>3 DEF Settled
  <2>2. CASE i <= base /\ pending # <<>>
    <3>1. pending[1] = Open /\ Len(pending) >= 1
      BY <1>0, <2>2, GrowingStartsOpen DEF HeldGrows, TypeOK
    <3>2. b[1] = pending[1] /\ 1 \in 1..Len(b)
      BY <1>0, <1>3, <3>1 DEF b, TypeOK, Text
    <3>3. r[base + 1] = Open
      BY <1>2, <3>1, <3>2
    <3>4. base + 1 \in (i + 1)..Len(r) /\ Len(r) \in (base + 1)..Len(r)
      BY <1>3, <1>20, <2>2, <3>2
    <3>. QED
      BY <1>2, <3>3, <3>4, NoGrowthOverBracket
  <2>3. CASE i <= base /\ pending = <<>>
    <3>1. Len(received) = base /\ Settled(received, base)
      <4>1. Settled(received, Len(received))
        BY <1>22, <2>3 DEF IInv, RestSettled
      <4>2. Len(received) = base
        BY <1>3, <1>20, <2>3
      <4>. QED
        BY <4>1, <4>2
    <3>2. Settled(r, base)
      <4>. SUFFICES ASSUME NEW q \in 1..base PROVE ~CanGrow(SubSeq(r, q, base))
        BY DEF Settled
      <4>1. SubSeq(r, q, base) = SubSeq(received, q, base)
        <5>1. base \in 0..Len(received) /\ q \in 1..base
          BY <1>3, <1>20, <3>1
        <5>. QED
          BY <5>1, <1>21
      <4>. QED
        BY <3>1, <4>1 DEF Settled
    <3>3. base \in 0..Len(r) /\ i \in 1..base /\ Len(r) \in base..Len(r)
      BY <1>3, <1>20, <2>3
    <3>. QED
      BY <1>2, <3>2, <3>3, SettledStays
  <2>. QED
    BY <1>2, <1>3, <2>1, <2>2, <2>3
<1>11. CutsSafe'
  <2>. SUFFICES ASSUME NEW c \in cuts'
                PROVE  \/ c < Len(r) /\ r[c + 1] = Open
                       \/ Settled(r, c)
    BY <1>1 DEF CutsSafe, Settled
  <2>1. CASE c = cut /\ h \in 1..Len(b)
    <3>1. b[h] = Open /\ h # Len(b) + 1
      BY <1>3, <1>4, <2>1
    <3>2. base + h = cut + 1 /\ cut < Len(r)
      BY <1>3, <1>20, <2>1
    <3>3. r[cut + 1] = Open
      BY <1>2, <2>1, <3>1, <3>2
    <3>. QED
      BY <2>1, <3>2, <3>3
  <2>2. CASE c = cut /\ h = Len(b) + 1
    <3>1. cut = Len(r)
      BY <1>3, <1>20, <2>2
    <3>. QED
      BY <1>10, <2>2, <3>1
  <2>3. CASE c \in cuts
    <3>1. c \in 0..Len(received) /\ Len(received) <= Len(r)
      BY <1>0, <1>3, <1>20, <2>3 DEF TypeOK
    <3>2. CASE c < Len(received) /\ received[c + 1] = Open
      <4>1. c + 1 \in 1..Len(received) /\ c < Len(r)
        BY <1>3, <3>1, <3>2
      <4>. QED
        BY <1>2, <3>2, <4>1
    <3>3. CASE Settled(received, c)
      <4>. SUFFICES ASSUME NEW q \in 1..c PROVE ~CanGrow(SubSeq(r, q, c))
        BY DEF Settled
      <4>1. SubSeq(r, q, c) = SubSeq(received, q, c)
        BY <1>21, <3>1
      <4>. QED
        BY <3>3, <4>1 DEF Settled
    <3>. QED
      BY <2>3, <3>2, <3>3 DEF IInv, CutsSafe
  <2>. QED
    BY <1>4, <1>7, <2>1, <2>2, <2>3
<1>12. RestSettled'
  <2>. SUFFICES ASSUME pending' = <<>> PROVE Settled(r, Len(r))
    BY <1>1, <1>22 DEF RestSettled, Settled
  <2>1. h = Len(b) + 1
    BY <1>3, <1>5, <1>6
  <2>. QED
    BY <1>10, <2>1
<1>13. HeldFromCut'
  <2>1. Len(received') - Len(pending') = cut
    <3>1. Len(received') = Len(r)
      BY <1>1
    <3>. QED
      BY <1>3, <1>20, <3>1
  <2>. QED
    BY <1>7, <2>1 DEF HeldFromCut
<1>. QED
  BY <1>8, <1>9, <1>11, <1>12, <1>13 DEF IInv

LEMMA FlushPreserves ==
  ASSUME IInv, Flush
  PROVE  IInv'
<1>1. TypeOK'
  <2>1. Len(pending') <= MaxPlaceholderLen
    BY FormatAssumption DEF Flush, MaxPlaceholderLen
  <2>. QED
    BY <2>1 DEF IInv, TypeOK, Flush, Text
<1>2. HeldGrows'
  <2>1. received' = received /\ pending' = <<>> /\ received \in Seq(Char)
    BY DEF IInv, TypeOK, Flush, Text
  <2>. QED
    BY <2>1 DEF HeldGrows
<1>3. CutsSafe'
  BY DEF IInv, CutsSafe, Settled, Flush
<1>4. RestSettled'
  BY DEF RestSettled, Flush
<1>5. HeldFromCut'
  BY DEF HeldFromCut, Flush
<1>. QED
  BY <1>1, <1>2, <1>3, <1>4, <1>5 DEF IInv

(***************************************************************************)
(* The strengthened invariant, and what follows from it for every stream   *)
(* of the specification.                                                   *)
(***************************************************************************)
THEOREM Invariance == Spec => []IInv
<1>1. Init => IInv
  BY InvariantInit
<1>2. IInv /\ [Next]_vars => IInv'
  <2>. SUFFICES ASSUME IInv, [Next]_vars PROVE IInv'
    OBVIOUS
  <2>1. CASE Flush
    BY <2>1, FlushPreserves
  <2>2. ASSUME NEW chunk \in Chunks, Push(chunk) PROVE IInv'
    BY <2>2, PushPreserves
  <2>3. CASE UNCHANGED vars
    BY <2>3 DEF vars, IInv, TypeOK, HeldGrows, CutsSafe, RestSettled, Settled, HeldFromCut
  <2>. QED
    BY <2>1, <2>2, <2>3 DEF Next
<1>. QED
  BY <1>1, <1>2, PTL DEF Spec

(***************************************************************************)
(* Type correctness: Push and Flush keep the restorer's fields well-typed. *)
(***************************************************************************)
THEOREM TypeCorrect == Spec => []TypeOK
BY Invariance, PTL DEF IInv

(***************************************************************************)
(* What a text and some characters behind it look like.                    *)
(***************************************************************************)
LEMMA Continued ==
  ASSUME NEW s \in Text, NEW n \in Nat, NEW rest \in [1..n -> Word]
  PROVE  /\ s \o rest \o <<Close>> \in Text
         /\ Len(s \o rest \o <<Close>>) = Len(s) + n + 1
         /\ \A k \in 1..Len(s) : (s \o rest \o <<Close>>)[k] = s[k]
         /\ \A k \in 1..n : (s \o rest \o <<Close>>)[Len(s) + k] = rest[k]
         /\ (s \o rest \o <<Close>>)[Len(s) + n + 1] = Close
<1>1. PICK w \in Text : w = rest /\ Len(w) = n
  <2>1. rest \in Seq(Word)
    OBVIOUS
  <2>2. Word \subseteq Char
    BY DEF Char
  <2>3. rest \in Seq(Char) /\ Len(rest) = n
    BY <2>2
  <2>. QED
    BY <2>3 DEF Text
<1>2. PICK c \in Text : c = <<Close>> /\ Len(c) = 1 /\ c[1] = Close
  <2>1. Close \in Char
    BY DEF Char
  <2>2. <<Close>> \in Seq(Char) /\ Len(<<Close>>) = 1 /\ <<Close>>[1] = Close
    BY <2>1
  <2>. QED
    BY <2>2 DEF Text
<1>3. PICK t \in Text : /\ t = s \o w /\ Len(t) = Len(s) + Len(w)
                        /\ \A k \in 1..Len(s) : t[k] = s[k]
                        /\ \A k \in 1..Len(w) : t[Len(s) + k] = w[k]
  BY ConcatCharacters
<1>4. PICK u \in Text : /\ u = t \o c /\ Len(u) = Len(t) + Len(c)
                        /\ \A k \in 1..Len(t) : u[k] = t[k]
                        /\ \A k \in 1..Len(c) : u[Len(t) + k] = c[k]
  BY ConcatCharacters
<1>5. Len(s) \in Nat
  BY DEF Text
<1>6. u = s \o rest \o <<Close>>
  BY <1>1, <1>2, <1>3, <1>4
<1>7. /\ Len(u) = Len(s) + n + 1
      /\ \A k \in 1..Len(s) : u[k] = s[k]
      /\ \A k \in 1..n : u[Len(s) + k] = rest[k]
      /\ u[Len(s) + n + 1] = Close
  <2>1. Len(t) = Len(s) + n /\ Len(u) = Len(s) + n + 1
    BY <1>1, <1>2, <1>3, <1>4
  <2>2. \A k \in 1..Len(s) : u[k] = s[k]
    BY <1>3, <1>4, <1>5, <2>1
  <2>3. \A k \in 1..n : u[Len(s) + k] = w[k]
    BY <1>1, <1>3, <1>4, <1>5, <2>1
  <2>4. u[Len(s) + n + 1] = Close
    BY <1>2, <1>4, <1>5, <2>1
  <2>. QED
    BY <1>1, <2>1, <2>2, <2>3, <2>4
<1>. QED
  BY <1>6, <1>7

(***************************************************************************)
(* What may become a placeholder is what may grow and has no ">" yet: the  *)
(* regular expression is exact but for its optional ">".                   *)
(***************************************************************************)
LEMMA BecomingGrows ==
  ASSUME NEW s \in Text, s # <<>>, CanBecome(s)
  PROVE  CanGrow(s)
<1>0. Len(s) \in Nat \ {0} /\ MaxPlaceholderLen \in Nat
  BY FormatAssumption DEF Text, MaxPlaceholderLen
<1>1. PICK n \in 0..(MaxPlaceholderLen - Len(s) - 1) :
        \E rest \in [1..n -> Word] : CompletePlaceholder(s \o rest \o <<Close>>)
  BY DEF CanBecome
<1>2. PICK rest \in [1..n -> Word] : CompletePlaceholder(s \o rest \o <<Close>>)
  BY <1>1
<1>3. n \in Nat
  BY <1>0
<1>4. PICK t \in Text : /\ CompletePlaceholder(t) /\ Len(t) = Len(s) + n + 1
                        /\ \A k \in 1..Len(s) : t[k] = s[k]
  BY <1>2, <1>3, Continued
<1>5. Len(s) \in 1..(Len(t) - 1) /\ Len(s) \in 1..Len(t)
  BY <1>0, <1>3, <1>4
<1>6. SubSeq(t, 1, Len(s)) = s
  <2>1. PICK v \in Text : v = SubSeq(t, 1, Len(s)) /\ Len(v) = Len(s)
                          /\ \A i \in 1..Len(s) : v[i] = t[i]
    BY <1>4, <1>5, PrefixFacts
  <2>2. \A i \in 1..Len(v) : v[i] = s[i]
    BY <1>4, <2>1
  <2>. QED
    BY <2>1, <2>2, SameText
<1>. QED
  BY <1>4, <1>5, <1>6, PrefixOfComplete

LEMMA GrowingBecomes ==
  ASSUME NEW s \in Text, CanGrow(s), s[Len(s)] # Close
  PROVE  CanBecome(s)
<1>. USE FormatAssumption, LimitsAssumption
<1>1. PICK m \in 0..MaxLabelLen, n \in 0..(MaxIndexLen + 1), c \in 0..1 :
        /\ Len(s) = 1 + m + n + c
        /\ s[1] = Open
        /\ \A k \in 2..(m + 1) : s[k] \in Word
        /\ n > 0 => s[m + 2] = Underscore
        /\ \A k \in (m + 3)..(m + n + 1) : s[k] \in Digit
        /\ c = 1 => s[1 + m + n + 1] = Close
  BY DEF CanGrow, ViablePrefix
<1>2. c = 0 /\ Len(s) = 1 + m + n /\ m \in Nat /\ n \in Nat /\ Len(s) \in Nat
  BY <1>1 DEF Text
<1>3. PICK d : d \in Digit
  OBVIOUS
<1>4. d \in Word /\ Underscore \in Word
  BY <1>3 DEF Word
\* It is enough to name the rest, and the label and index it makes.
<1>5. ASSUME NEW q \in Nat, NEW rest \in [1..q -> Word],
             NEW a \in 1..MaxLabelLen, NEW e \in 1..MaxIndexLen,
             Len(s) + q + 1 = a + e + 3,
             NEW t \in Text, t = s \o rest \o <<Close>>,
             \A k \in 2..(a + 1) : t[k] \in Word,
             t[a + 2] = Underscore,
             \A k \in (a + 3)..(a + e + 2) : t[k] \in Digit
      PROVE  CanBecome(s)
  <2>1. /\ Len(t) = Len(s) + q + 1
        /\ \A k \in 1..Len(s) : t[k] = s[k]
        /\ t[Len(s) + q + 1] = Close
    BY <1>5, Continued
  <2>2. Len(s) + q + 1 = a + e + 3 /\ 1 \in 1..Len(s)
    BY <1>2, <1>5
  <2>3. t[1] = Open /\ t[a + e + 3] = Close /\ Len(t) = a + e + 3
    BY <1>1, <2>1, <2>2
  <2>4. CompletePlaceholder(t)
    BY <1>5, <2>3 DEF CompletePlaceholder
  <2>5. q \in 0..(MaxPlaceholderLen - Len(s) - 1)
    BY <1>2, <1>5 DEF MaxPlaceholderLen
  <2>6. CompletePlaceholder(s \o rest \o <<Close>>)
    BY <1>5, <2>4
  <2>. QED
    BY <2>5, <2>6 DEF CanBecome
\* "<": a label, the underscore and an index are missing.
<1>6. CASE m = 0 /\ n = 0
  <2>. DEFINE rest == [k \in 1..3 |-> IF k = 2 THEN Underscore ELSE d]
  <2>1. rest \in [1..3 -> Word] /\ rest[1] = d /\ rest[2] = Underscore /\ rest[3] = d
    BY <1>4
  <2>. HIDE DEF rest
  <2>2. Len(s) = 1
    BY <1>2, <1>6
  <2>7. PICK a \in 1..MaxLabelLen, e \in 1..MaxIndexLen : a = 1 /\ e = 1
    OBVIOUS
  <2>8. PICK q \in Nat : q = 3
    OBVIOUS
  <2>9. PICK t : /\ t \in Text /\ t = s \o rest \o <<Close>>
                 /\ Len(t) = Len(s) + q + 1
                 /\ \A k \in 1..Len(s) : t[k] = s[k]
                 /\ \A k \in 1..q : t[Len(s) + k] = rest[k]
    <3>1. rest \in [1..q -> Word]
      BY <2>1, <2>8
    <3>2. /\ s \o rest \o <<Close>> \in Text
          /\ Len(s \o rest \o <<Close>>) = Len(s) + q + 1
          /\ \A k \in 1..Len(s) : (s \o rest \o <<Close>>)[k] = s[k]
          /\ \A k \in 1..q : (s \o rest \o <<Close>>)[Len(s) + k] = rest[k]
      BY <3>1, Continued
    <3>. QED
      BY <3>2
  <2>3. t[2] = d /\ t[3] = Underscore /\ t[4] = d
    BY <2>1, <2>2, <2>8, <2>9
  <2>4. \A k \in 2..(a + 1) : t[k] \in Word
    BY <1>4, <2>3, <2>7
  <2>5. t[a + 2] = Underscore
    BY <2>3, <2>7
  <2>6. \A k \in (a + 3)..(a + e + 2) : t[k] \in Digit
    <3>1. \A k \in (a + 3)..(a + e + 2) : k = 4
      BY <2>7
    <3>. QED
      BY <1>3, <2>3, <3>1
  <2>10. Len(s) + q + 1 = a + e + 3 /\ rest \in [1..q -> Word]
    BY <2>1, <2>2, <2>7, <2>8
  <2>. QED
    BY <1>5, <2>4, <2>5, <2>6, <2>9, <2>10
\* A label without its underscore, or an underscore and digits that are read
\* as a label: the underscore and an index are missing.
<1>7. CASE (m > 0 /\ n = 0) \/ (m = 0 /\ n > 0)
  <2>. DEFINE rest == [k \in 1..2 |-> IF k = 1 THEN Underscore ELSE d]
              a == m + n
  <2>1. rest \in [1..2 -> Word] /\ rest[1] = Underscore /\ rest[2] = d
    BY <1>4
  <2>. HIDE DEF rest
  <2>2. a \in 1..MaxLabelLen /\ Len(s) = a + 1 /\ a \in Nat
    BY <1>1, <1>2, <1>7
  <2>3. \A k \in 2..(a + 1) : s[k] \in Word
    <3>1. CASE n = 0
      BY <1>1, <1>2, <3>1
    <3>2. CASE m = 0 /\ n > 0
      <4>1. TAKE k \in 2..(a + 1)
      <4>2. k = 2 => s[k] = Underscore
        BY <1>1, <3>2
      <4>3. k # 2 => s[k] \in Digit
        BY <1>1, <1>2, <3>2
      <4>. QED
        BY <1>4, <4>2, <4>3 DEF Word
    <3>. QED
      BY <1>7, <3>1, <3>2
  <2>. HIDE DEF a
  <2>7. PICK e \in 1..MaxIndexLen : e = 1
    OBVIOUS
  <2>8. PICK q \in Nat : q = 2
    OBVIOUS
  <2>9. PICK t : /\ t \in Text /\ t = s \o rest \o <<Close>>
                 /\ Len(t) = Len(s) + q + 1
                 /\ \A k \in 1..Len(s) : t[k] = s[k]
                 /\ \A k \in 1..q : t[Len(s) + k] = rest[k]
    <3>1. rest \in [1..q -> Word]
      BY <2>1, <2>8
    <3>2. /\ s \o rest \o <<Close>> \in Text
          /\ Len(s \o rest \o <<Close>>) = Len(s) + q + 1
          /\ \A k \in 1..Len(s) : (s \o rest \o <<Close>>)[k] = s[k]
          /\ \A k \in 1..q : (s \o rest \o <<Close>>)[Len(s) + k] = rest[k]
      BY <3>1, Continued
    <3>. QED
      BY <3>2
  <2>4. t[a + 2] = Underscore /\ t[a + 3] = d
    BY <2>1, <2>2, <2>8, <2>9
  <2>5. \A k \in 2..(a + 1) : t[k] \in Word
    BY <2>2, <2>3, <2>9
  <2>6. \A k \in (a + 3)..(a + e + 2) : t[k] \in Digit
    <3>1. \A k \in (a + 3)..(a + e + 2) : k = a + 3
      BY <2>2, <2>7
    <3>. QED
      BY <1>3, <2>4, <3>1
  <2>10. Len(s) + q + 1 = a + e + 3 /\ rest \in [1..q -> Word]
    BY <2>1, <2>2, <2>7, <2>8
  <2>. QED
    BY <1>5, <2>2, <2>4, <2>5, <2>6, <2>9, <2>10
\* A label and its underscore: an index is missing.
<1>8. CASE m > 0 /\ n = 1
  <2>. DEFINE rest == [k \in 1..1 |-> d]
  <2>1. rest \in [1..1 -> Word] /\ rest[1] = d
    BY <1>4
  <2>. HIDE DEF rest
  <2>2. m \in 1..MaxLabelLen /\ Len(s) = m + 2
    BY <1>1, <1>2, <1>8
  <2>8. PICK q \in Nat : q = 1
    OBVIOUS
  <2>9. PICK t : /\ t \in Text /\ t = s \o rest \o <<Close>>
                 /\ Len(t) = Len(s) + q + 1
                 /\ \A k \in 1..Len(s) : t[k] = s[k]
                 /\ \A k \in 1..q : t[Len(s) + k] = rest[k]
    <3>1. rest \in [1..q -> Word]
      BY <2>1, <2>8
    <3>2. /\ s \o rest \o <<Close>> \in Text
          /\ Len(s \o rest \o <<Close>>) = Len(s) + q + 1
          /\ \A k \in 1..Len(s) : (s \o rest \o <<Close>>)[k] = s[k]
          /\ \A k \in 1..q : (s \o rest \o <<Close>>)[Len(s) + k] = rest[k]
      BY <3>1, Continued
    <3>. QED
      BY <3>2
  <2>3. /\ \A k \in 2..(m + 1) : t[k] \in Word
        /\ t[m + 2] = Underscore
        /\ \A k \in (m + 3)..(m + 1 + 2) : t[k] \in Digit
    <3>1. t[m + 2] = Underscore /\ \A k \in 2..(m + 1) : t[k] = s[k]
      BY <1>1, <1>8, <2>2, <2>8, <2>9
    <3>2. t[m + 3] = d
      BY <2>1, <2>2, <2>8, <2>9
    <3>3. \A k \in (m + 3)..(m + 1 + 2) : k = m + 3
      BY <2>2
    <3>. QED
      BY <1>1, <1>3, <3>1, <3>2, <3>3
  <2>4. 1 \in 1..MaxIndexLen /\ Len(s) + q + 1 = m + 1 + 3
    BY <2>2, <2>8
  <2>. QED
    BY <1>5, <2>1, <2>2, <2>3, <2>4, <2>8, <2>9
\* Only the ">" is missing.
<1>9. CASE m > 0 /\ n > 1
  <2>. DEFINE rest == [k \in 1..0 |-> d]
              e == n - 1
  <2>1. rest \in [1..0 -> Word]
    BY <1>4
  <2>. HIDE DEF rest
  <2>2. m \in 1..MaxLabelLen /\ e \in 1..MaxIndexLen /\ Len(s) = m + e + 2 /\ n = e + 1
    BY <1>1, <1>2, <1>9
  <2>. HIDE DEF e
  <2>8. PICK q \in Nat : q = 0
    OBVIOUS
  <2>9. PICK t : /\ t \in Text /\ t = s \o rest \o <<Close>>
                 /\ Len(t) = Len(s) + q + 1
                 /\ \A k \in 1..Len(s) : t[k] = s[k]
                 /\ \A k \in 1..q : t[Len(s) + k] = rest[k]
    <3>1. rest \in [1..q -> Word]
      BY <2>1, <2>8
    <3>2. /\ s \o rest \o <<Close>> \in Text
          /\ Len(s \o rest \o <<Close>>) = Len(s) + q + 1
          /\ \A k \in 1..Len(s) : (s \o rest \o <<Close>>)[k] = s[k]
          /\ \A k \in 1..q : (s \o rest \o <<Close>>)[Len(s) + k] = rest[k]
      BY <3>1, Continued
    <3>. QED
      BY <3>2
  <2>3. /\ \A k \in 2..(m + 1) : t[k] \in Word
        /\ t[m + 2] = Underscore
        /\ \A k \in (m + 3)..(m + e + 2) : t[k] \in Digit
    <3>1. \A k \in 2..(m + e + 2) : t[k] = s[k]
      BY <2>2, <2>8, <2>9
    <3>2. m + 2 \in 2..(m + e + 2) /\ s[m + 2] = Underscore
      BY <1>1, <1>9, <2>2
    <3>3. \A k \in (m + 3)..(m + e + 2) : s[k] \in Digit /\ k \in 2..(m + e + 2)
      BY <1>1, <2>2
    <3>4. \A k \in 2..(m + 1) : s[k] \in Word /\ k \in 2..(m + e + 2)
      BY <1>1, <2>2
    <3>. QED
      BY <3>1, <3>2, <3>3, <3>4
  <2>4. Len(s) + q + 1 = m + e + 3
    BY <2>2, <2>8
  <2>. QED
    BY <1>5, <2>1, <2>2, <2>3, <2>4, <2>8, <2>9
<1>. QED
  BY <1>2, <1>6, <1>7, <1>8, <1>9

(***************************************************************************)
(* The strengthened invariant implies that what may become a placeholder   *)
(* is held and, but for a closed token, nothing else.                      *)
(***************************************************************************)
LEMMA InvariantImpliesHeldTail == IInv => HeldTail
<1>. SUFFICES ASSUME IInv PROVE HeldTail
  OBVIOUS
<1>1. /\ received \in Text /\ pending \in Text
      /\ Len(received) \in Nat /\ Len(pending) \in Nat /\ Len(pending) <= Len(received)
      /\ pending = SubSeq(received, Len(received) - Len(pending) + 1, Len(received))
      /\ pending # <<>> => CanGrow(pending)
  BY DEF IInv, TypeOK, HeldGrows, Text
<1>2. pending # <<>> /\ Last(pending) # Close => CanBecome(pending)
  BY <1>1, GrowingBecomes DEF Last
<1>4. ~CompletePlaceholder(pending)
  <2>1. CASE pending = <<>>
    BY <2>1 DEF CompletePlaceholder
  <2>2. CASE pending # <<>>
    BY <1>1, <2>2 DEF CanGrow
  <2>. QED
    BY <2>1, <2>2
<1>3. ASSUME ~flushed, NEW i \in 1..(Len(received) - Len(pending))
      PROVE  ~CanBecome(SubSeq(received, i, Len(received)))
  <2>. DEFINE tail == SubSeq(received, i, Len(received))
  <2>0. i \in 1..Len(received) /\ i \in Nat
    BY <1>1
  <2>1. tail \in Text /\ tail # <<>>
    <3>1. tail \in Text /\ Len(tail) = Len(received) - i + 1
      BY <1>1, <2>0, SegmentFacts
    <3>2. Len(tail) # 0
      BY <1>1, <2>0, <3>1
    <3>. HIDE DEF tail
    <3>3. tail # <<>>
      BY <3>2
    <3>. QED
      BY <3>1, <3>3
  <2>2. ~CanGrow(tail)
    <3>1. CASE pending = <<>>
      BY <1>3, <2>0, <3>1 DEF IInv, RestSettled, Settled
    <3>2. CASE pending # <<>>
      <4>1. Len(pending) > 0 /\ pending[1] = Open
        BY <1>1, <3>2, GrowingStartsOpen
      <4>2. PICK p : p = Len(received) - Len(pending) + 1
        OBVIOUS
      <4>3. p \in 1..Len(received) /\ p \in (i + 1)..Len(received)
        BY <1>1, <2>0, <4>1, <4>2
      <4>4. received[p] = Open
        <5>1. \A k \in 1..(Len(received) - p + 1) :
                SubSeq(received, p, Len(received))[k] = received[p + k - 1]
          BY <1>1, <4>3, SegmentFacts
        <5>2. 1 \in 1..(Len(received) - p + 1) /\ p + 1 - 1 = p
          BY <1>1, <4>3
        <5>. QED
          BY <1>1, <4>1, <4>2, <5>1, <5>2
      <4>. QED
        BY <1>1, <2>0, <4>3, <4>4, NoGrowthOverBracket
    <3>. QED
      BY <3>1, <3>2
  <2>. QED
    BY <2>1, <2>2, BecomingGrows
<1>. QED
  BY <1>1, <1>2, <1>3, <1>4 DEF HeldTail

(***************************************************************************)
(* What is held back is the end of the stream and no complete placeholder; *)
(* all of it that some further text makes a placeholder of is held and,    *)
(* unless it ends in a ">", nothing else: for every label and index length *)
(* and every chunking.                                                     *)
(***************************************************************************)
THEOREM HeldTailInvariant == Spec => []HeldTail
BY Invariance, InvariantImpliesHeldTail, PTL

(***************************************************************************)
(* No placeholder of the stream is ever cut in two, for every label and    *)
(* index length, every alphabet and every way to chunk the stream.         *)
(***************************************************************************)
THEOREM NoSplitInvariant == Spec => []NoSplit
BY Invariance, InvariantImpliesNoSplit, PTL

(***************************************************************************)
(* What the client got so far, initially and after each step.              *)
(***************************************************************************)
LEMMA OutputInit == Init => OutputRestored
<1>. SUFFICES ASSUME Init PROVE out = RestoreEach(Released)
  BY DEF OutputRestored
<1>1. out = <<>> /\ received = <<>> /\ Len(received) - Len(pending) = 0
  BY DEF Init
<1>2. Released = <<>>
  BY <1>1 DEF Released
<1>. QED
  BY <1>1, <1>2, StreamAssumption, RestoreNothing

LEMMA PushRestores ==
  ASSUME IInv, NoSplit', OutputRestored, NEW chunk \in Chunks, Push(chunk)
  PROVE  OutputRestored'
<1>. SUFFICES ASSUME NoStrayOpen(received)' PROVE out' = RestoreEach(Released')
  BY DEF OutputRestored
<1>0. chunk \in Text /\ TypeOK /\ HeldGrows /\ WellFormedLookup
  BY StreamAssumption DEF IInv
<1>1. /\ pending \o chunk \in Text /\ received \o chunk \in Text
      /\ Len(received) - Len(pending) \in Nat
      /\ Len(pending \o chunk) = Len(received \o chunk) - (Len(received) - Len(pending))
      /\ Len(received \o chunk) = Len(received) + Len(chunk)
      /\ \A k \in 1..Len(pending \o chunk) :
           (pending \o chunk)[k] = (received \o chunk)[(Len(received) - Len(pending)) + k]
      /\ \A k \in 1..Len(received) : (received \o chunk)[k] = received[k]
  BY <1>0, PushFacts
<1>2. PICK b \in Text, r \in Text, base \in Nat :
        b = pending \o chunk /\ r = received \o chunk /\ base = Len(received) - Len(pending)
  BY <1>1
<1>4. /\ Len(b) = Len(r) - base
      /\ Len(r) = Len(received) + Len(chunk)
      /\ \A k \in 1..Len(b) : b[k] = r[base + k]
      /\ \A k \in 1..Len(received) : r[k] = received[k]
  BY <1>1, <1>2
<1>5. PICK h : h = FindHoldStart(b)
  OBVIOUS
<1>6. /\ received' = r /\ pending' = SubSeq(b, h, Len(b))
      /\ out' = out \o RestoreString(SubSeq(b, 1, h - 1))
      /\ ~flushed /\ cuts \subseteq cuts'
  BY <1>2, <1>5 DEF Push
<1>7. /\ Len(b) \in Nat /\ Len(r) \in Nat /\ Len(received) \in Nat /\ Len(pending) \in Nat
      /\ Len(chunk) \in Nat
  BY <1>0, <1>4 DEF TypeOK, Text
<1>8. h \in 1..(Len(b) + 1)
  <2>1. \/ FindHoldStart(b) = Len(b) + 1
        \/ FindHoldStart(b) \in 1..Len(b)
    BY <1>4, HoldStartFound
  <2>. QED
    BY <1>5, <1>7, <2>1
<1>9. PICK d : d = base + h - 1
  OBVIOUS
<1>10. base \in 0..Len(r) /\ d \in base..Len(r) /\ base <= Len(received)
  BY <1>2, <1>4, <1>7, <1>8, <1>9
<1>11. Released' = SubSeq(r, 1, d)
  <2>1. PICK n \in Nat : n = Len(SubSeq(b, h, Len(b))) /\ n = Len(b) - h + 1
    <3>1. h \in 1..(Len(b) + 1) /\ Len(b) \in (h - 1)..Len(b) /\ Len(b) - h + 1 \in Nat
      BY <1>7, <1>8
    <3>. QED
      BY <3>1, SegmentFacts
  <2>2. Len(r) - n = d
    <3>1. n = Len(b) - h + 1 /\ Len(b) = Len(r) - base /\ h \in Nat
      BY <1>4, <1>7, <1>8, <2>1
    <3>. QED
      BY <1>7, <1>9, <3>1
  <2>3. Len(received') - Len(pending') = d
    BY <1>6, <2>1, <2>2
  <2>. QED
    BY <1>6, <2>3 DEF Released
<1>12. Released = SubSeq(r, 1, base)
  <2>1. CASE base = 0
    BY <1>2, <2>1, SubSeqEmpty DEF Released
  <2>2. CASE base # 0
    <3>1. 1 \in 1..Len(received) /\ base \in 1..Len(received)
      BY <1>4, <1>7, <1>10, <2>2
    <3>2. SubSeq(r, 1, base) = SubSeq(received, 1, base)
      BY <1>0, <1>2, <3>1, SegmentOfConcat DEF TypeOK
    <3>. QED
      BY <1>2, <3>2 DEF Released
  <2>. QED
    BY <2>1, <2>2
<1>13. SubSeq(b, 1, h - 1) = SubSeq(r, base + 1, d)
  <2>1. PICK u \in Text : /\ u = SubSeq(b, 1, h - 1) /\ Len(u) = h - 1
                          /\ \A k \in 1..(h - 1) : u[k] = b[k]
    <3>1. 1 \in 1..(Len(b) + 1) /\ h - 1 \in (1 - 1)..Len(b) /\ (h - 1) - 1 + 1 = h - 1
          /\ \A k \in 1..(h - 1) : 1 + k - 1 = k
      BY <1>7, <1>8
    <3>2. /\ SubSeq(b, 1, h - 1) \in Text /\ Len(SubSeq(b, 1, h - 1)) = (h - 1) - 1 + 1
          /\ \A k \in 1..((h - 1) - 1 + 1) : SubSeq(b, 1, h - 1)[k] = b[1 + k - 1]
      BY <1>4, <3>1, SegmentFacts
    <3>. QED
      BY <3>1, <3>2
  <2>2. PICK v \in Text : /\ v = SubSeq(r, base + 1, d) /\ Len(v) = h - 1
                          /\ \A k \in 1..(h - 1) : v[k] = r[base + k]
    <3>1. PICK p \in 1..(Len(r) + 1) : p = base + 1
      BY <1>7, <1>10
    <3>2. d \in (p - 1)..Len(r) /\ d - p + 1 = h - 1 /\ \A k \in 1..(h - 1) : p + k - 1 = base + k
      BY <1>4, <1>7, <1>8, <1>9, <1>10, <3>1
    <3>3. /\ SubSeq(r, p, d) \in Text /\ Len(SubSeq(r, p, d)) = d - p + 1
          /\ \A k \in 1..(d - p + 1) : SubSeq(r, p, d)[k] = r[p + k - 1]
      BY <3>2, SegmentFacts
    <3>4. PICK v \in Text : v = SubSeq(r, p, d)
      BY <3>3
    <3>5. Len(v) = h - 1 /\ \A k \in 1..(h - 1) : v[k] = r[p + k - 1]
      BY <3>2, <3>3, <3>4
    <3>6. \A k \in 1..(h - 1) : v[k] = r[base + k]
      BY <3>2, <3>5
    <3>. QED
      BY <3>1, <3>4, <3>5, <3>6
  <2>3. \A k \in 1..(h - 1) : u[k] = v[k]
    <3>1. \A k \in 1..(h - 1) : k \in 1..Len(b)
      BY <1>7, <1>8
    <3>. QED
      BY <1>4, <2>1, <2>2, <3>1
  <2>. QED
    BY <2>1, <2>2, <2>3, SameText
\* The text received before has no stray bracket either.
<1>14. out = RestoreEach(Released)
  <2>1. NoStrayOpen(r)
    BY <1>6 DEF NoStrayOpen, KnownAt
  <2>2. NoStrayOpen(received)
    BY <1>0, <1>2, <2>1, StrayOfConcat DEF TypeOK
  <2>. QED
    BY <2>2 DEF OutputRestored
\* No placeholder lies across the position up to which text was released.
<1>15. \A i \in 1..base, j \in (base + 1)..Len(r) : ~CompletePlaceholder(SubSeq(r, i, j))
  <2>1. CASE base = 0
    BY <2>1
  <2>2. CASE base # 0
    <3>1. base \in cuts
      BY <1>2, <1>6, <1>7, <2>2 DEF IInv, HeldFromCut
    <3>2. base \in cuts'
      BY <1>6, <3>1
    <3>. QED
      BY <1>6, <3>2 DEF NoSplit
  <2>. QED
    BY <2>1, <2>2
<1>16. RestoreEach(SubSeq(r, 1, d)) = RestoreEach(SubSeq(r, 1, base)) \o RestoreString(SubSeq(r, base + 1, d))
  <2>1. NoStrayOpen(r)
    BY <1>6 DEF NoStrayOpen, KnownAt
  <2>. QED
    BY <1>0, <1>4, <1>10, <1>15, <2>1, ScanGoesOn
<1>. QED
  BY <1>6, <1>11, <1>12, <1>13, <1>14, <1>16 DEF RestoreEach, KnownAt, Piece

LEMMA FlushRestores ==
  ASSUME IInv, NoSplit, OutputRestored, Flush
  PROVE  OutputRestored'
<1>. SUFFICES ASSUME NoStrayOpen(received)' PROVE out' = RestoreEach(Released')
  BY DEF OutputRestored
<1>0. received \in Text /\ Len(received) \in Nat /\ Len(pending) \in Nat
      /\ Len(pending) <= Len(received) /\ WellFormedLookup
  BY StreamAssumption DEF IInv, TypeOK, HeldGrows, Text
<1>1. PICK base \in 0..Len(received) : base = Len(received) - Len(pending)
  BY <1>0
<1>2. pending = SubSeq(received, base + 1, Len(received))
  BY <1>1 DEF IInv, HeldGrows
<1>3. /\ received' = received /\ pending' = <<>>
      /\ out' = out \o RestoreString(pending)
  BY DEF Flush
<1>4. Released' = SubSeq(received, 1, Len(received))
  <2>1. Len(received) - Len(pending') = Len(received)
    BY <1>0, <1>3
  <2>. QED
    BY <1>3, <2>1 DEF Released
<1>5. NoStrayOpen(received)
  BY <1>3 DEF NoStrayOpen, KnownAt
<1>6. out = RestoreEach(SubSeq(received, 1, base))
  BY <1>1, <1>5 DEF OutputRestored, Released
<1>7. \A i \in 1..base, j \in (base + 1)..Len(received) :
        ~CompletePlaceholder(SubSeq(received, i, j))
  <2>1. CASE base = 0
    BY <2>1
  <2>2. CASE base # 0
    <3>1. base \in cuts
      BY <1>0, <1>1, <2>2 DEF IInv, HeldFromCut, Flush
    <3>. QED
      BY <3>1 DEF NoSplit
  <2>. QED
    BY <2>1, <2>2
<1>8. RestoreEach(SubSeq(received, 1, Len(received)))
        = RestoreEach(SubSeq(received, 1, base)) \o RestoreString(SubSeq(received, base + 1, Len(received)))
  <2>1. Len(received) \in base..Len(received)
    BY <1>0
  <2>. QED
    BY <1>0, <1>5, <1>7, <2>1, ScanGoesOn
<1>. QED
  BY <1>2, <1>3, <1>4, <1>6, <1>8

(***************************************************************************)
(* However the stream is chunked, the client gets the released text with   *)
(* every known placeholder replaced and nothing else changed, as long as   *)
(* no "<" stands open in front of one: for every stream, every mapping and *)
(* every label and index length.                                           *)
(***************************************************************************)
THEOREM OutputInvariant == Spec => []OutputRestored
<1>1. Init => OutputRestored
  BY OutputInit
<1>2. IInv /\ NoSplit /\ NoSplit' /\ OutputRestored /\ [Next]_vars => OutputRestored'
  <2>. SUFFICES ASSUME IInv, NoSplit, NoSplit', OutputRestored, [Next]_vars
                PROVE  OutputRestored'
    OBVIOUS
  <2>1. CASE Flush
    BY <2>1, FlushRestores
  <2>2. ASSUME NEW chunk \in Chunks, Push(chunk) PROVE OutputRestored'
    BY <2>2, PushRestores
  <2>3. CASE UNCHANGED vars
    BY <2>3 DEF vars, OutputRestored, Released
  <2>. QED
    BY <2>1, <2>2, <2>3 DEF Next
<1>. QED
  BY <1>1, <1>2, Invariance, NoSplitInvariant, PTL DEF Spec
=============================================================================
