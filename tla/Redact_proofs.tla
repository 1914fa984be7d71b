--------------------------- MODULE Redact_proofs ---------------------------
(***************************************************************************)
(* Proofs about Redact: the types, that the text with a token for each     *)
(* secret comes out when secrets lie apart or inside each other, and that  *)
(* however they overlap only ends of secrets are left over.                *)
(*                                                                         *)
(* The loop is proved by what it has dealt with: the findings still to come*)
(* are sorted, the others begin before the cursor, and the cursor stands at*)
(* the end of a finding that none of those to come precedes.  Then what is *)
(* written is the concatenation, up to the cursor, of what becomes of each *)
(* byte of the text.                                                       *)
(***************************************************************************)
EXTENDS Redact, SequenceTheorems, FiniteSetTheorems, TLAPS

\* The facts about FlattenSeq there hold whatever the alphabet is.
Flat == INSTANCE RestoreText_proofs
          WITH Letter <- {"a"}, Digit <- {"0"}, Other <- {}, MaxLabelLen <- 1, MaxIndexLen <- 1,
               Lookup <- <<>>

\* The instance is one that the theorems of RestoreText_proofs are about.
LEMMA FlatAssumption == Flat!FormatAssumption
BY DEF Flat!FormatAssumption, Flat!Open, Flat!Close, Flat!Underscore

\* Both modules take FlattenSeq from the same place.
LEMMA SameFlatten == \A s : Flat!FlattenSeq(s) = FlattenSeq(s)
BY DEF Flat!FlattenSeq, FlattenSeq

(***************************************************************************)
(* The concatenation of the first n elements of s.                         *)
(***************************************************************************)
Joined(s, n) == FlattenSeq(SubSeq(s, 1, n))

LEMMA SameJoined == \A s, n : Flat!Joined(s, n) = Joined(s, n)
BY SameFlatten DEF Flat!Joined, Joined

LEMMA JoinedFacts ==
  ASSUME NEW C, NEW s \in Seq(Seq(C))
  PROVE  /\ Joined(s, 0) = <<>>
         /\ \A n \in 1..Len(s) : Joined(s, n) = Joined(s, n - 1) \o s[n]
         /\ Joined(s, Len(s)) = FlattenSeq(s)
         /\ \A n \in 0..Len(s) : Joined(s, n) \in Seq(C)
BY FlatAssumption, SameFlatten, SameJoined, Flat!JoinedFacts, Flat!JoinedType

\* Elements that are single elements of t, and elements that are empty.
LEMMA LiteralRun ==
  ASSUME NEW C, NEW s \in Seq(Seq(C)), NEW t \in Seq(C), Len(t) = Len(s),
         NEW a \in 0..Len(s), NEW b \in a..Len(s),
         \A k \in (a + 1)..b : s[k] = SubSeq(t, k, k)
  PROVE  Joined(s, b) = Joined(s, a) \o SubSeq(t, a + 1, b)
<1>1. Flat!Joined(s, b) = Flat!Joined(s, a) \o SubSeq(t, a + 1, b)
  BY ZenonT(60), FlatAssumption, Flat!LiteralRun
<1>. QED
  BY <1>1, SameJoined

LEMMA EmptyRun ==
  ASSUME NEW C, NEW s \in Seq(Seq(C)), NEW a \in 0..Len(s), NEW b \in a..Len(s),
         \A k \in (a + 1)..b : s[k] = <<>>
  PROVE  Joined(s, b) = Joined(s, a)
BY FlatAssumption, SameJoined, Flat!EmptyRun

\* The first elements decide the concatenation of the first elements.
LEMMA JoinedAgree ==
  ASSUME NEW C, NEW s \in Seq(Seq(C)), NEW t \in Seq(Seq(C)), Len(s) = Len(t),
         NEW a \in 0..Len(s), \A k \in 1..a : s[k] = t[k]
  PROVE  Joined(s, a) = Joined(t, a)
BY FlatAssumption, SameJoined, Flat!JoinedAgree

-----------------------------------------------------------------------------
(***************************************************************************)
(* Filtering a sequence.                                                   *)
(***************************************************************************)
Pick(seq, S) == [k \in DOMAIN seq |-> IF seq[k] \in S THEN <<seq[k]>> ELSE <<>>]

LEMMA PickFacts ==
  ASSUME NEW C, NEW s \in Seq(C), NEW S
  PROVE  /\ Pick(s, S) \in Seq(Seq(C)) /\ Len(Pick(s, S)) = Len(s)
         /\ \A k \in 1..Len(s) : Pick(s, S)[k] = IF s[k] \in S THEN <<s[k]>> ELSE <<>>
         /\ Kept(s, S) = FlattenSeq(Pick(s, S))
<1>1. PICK D : D = Seq(C)
  OBVIOUS
<1>2. DOMAIN s = 1..Len(s) /\ Len(s) \in Nat
  OBVIOUS
<1>3. \A k \in 1..Len(s) : (IF s[k] \in S THEN <<s[k]>> ELSE <<>>) \in D
  BY <1>1
<1>4. PICK p \in [1..Len(s) -> D] : p = Pick(s, S)
  BY <1>2, <1>3 DEF Pick
<1>5. p \in Seq(D) /\ Len(p) = Len(s)
  BY <1>2, <1>4
<1>. QED
  BY <1>1, <1>2, <1>4, <1>5 DEF Pick, Kept

IsPick(p, s, S) ==
  /\ Len(p) = Len(s) /\ Kept(s, S) = FlattenSeq(p)
  /\ \A k \in 1..Len(s) : p[k] = IF s[k] \in S THEN <<s[k]>> ELSE <<>>

LEMMA HasPick ==
  ASSUME NEW C, NEW s \in Seq(C), NEW S
  PROVE  \E p \in Seq(Seq(C)) : IsPick(p, s, S)
<1>1. Pick(s, S) \in Seq(Seq(C))
  BY PickFacts
<1>2. IsPick(Pick(s, S), s, S)
  BY PickFacts DEF IsPick
<1>. QED
  BY <1>1, <1>2

\* Membership in a sequence.
Has(s, x) == \E k \in 1..Len(s) : s[k] = x

LEMMA HasConcat ==
  ASSUME NEW C, NEW s \in Seq(C), NEW t \in Seq(C), NEW x
  PROVE  Has(s \o t, x) <=> Has(s, x) \/ Has(t, x)
<1>1. /\ Len(s) \in Nat /\ Len(t) \in Nat /\ Len(s \o t) = Len(s) + Len(t)
      /\ \A k \in 1..Len(s) : (s \o t)[k] = s[k]
      /\ \A k \in 1..Len(t) : (s \o t)[Len(s) + k] = t[k]
  OBVIOUS
<1>2. ASSUME Has(s \o t, x) PROVE Has(s, x) \/ Has(t, x)
  <2>1. PICK k \in 1..(Len(s) + Len(t)) : (s \o t)[k] = x
    BY <1>1, <1>2 DEF Has
  <2>2. CASE k <= Len(s)
    BY <1>1, <2>1, <2>2 DEF Has
  <2>3. CASE k > Len(s)
    <3>1. k - Len(s) \in 1..Len(t) /\ Len(s) + (k - Len(s)) = k
      BY <1>1, <2>3
    <3>2. t[k - Len(s)] = x
      BY <1>1, <2>1, <3>1
    <3>. QED
      BY <3>1, <3>2 DEF Has
  <2>. QED
    BY <1>1, <2>2, <2>3
<1>3. ASSUME Has(s, x) PROVE Has(s \o t, x)
  BY <1>1, <1>3 DEF Has
<1>4. ASSUME Has(t, x) PROVE Has(s \o t, x)
  <2>1. PICK k \in 1..Len(t) : t[k] = x
    BY <1>4 DEF Has
  <2>2. Len(s) + k \in 1..(Len(s) + Len(t)) /\ (s \o t)[Len(s) + k] = x
    BY <1>1, <2>1
  <2>. QED
    BY <1>1, <2>2 DEF Has
<1>. QED
  BY <1>2, <1>3, <1>4

LEMMA KeptFacts ==
  ASSUME NEW C, NEW s \in Seq(C), NEW S
  PROVE  /\ Kept(s, S) \in Seq(C)
         /\ \A x : Has(Kept(s, S), x) <=> Has(s, x) /\ x \in S
<1>1. PICK p \in Seq(Seq(C)) :
        /\ Len(p) = Len(s) /\ Kept(s, S) = FlattenSeq(p)
        /\ \A k \in 1..Len(s) : p[k] = IF s[k] \in S THEN <<s[k]>> ELSE <<>>
  BY PickFacts
<1>2. Len(s) \in Nat
  OBVIOUS
<1>3. /\ Joined(p, 0) = <<>>
      /\ \A n \in 1..Len(s) : Joined(p, n) = Joined(p, n - 1) \o p[n]
      /\ Joined(p, Len(s)) = Kept(s, S)
      /\ \A n \in 0..Len(s) : Joined(p, n) \in Seq(C)
  <2>1. Joined(p, Len(p)) = FlattenSeq(p)
    BY JoinedFacts
  <2>. QED
    BY <1>1, <2>1, JoinedFacts
<1>. DEFINE In(n, x) == Has(Joined(p, n), x) <=> \E k \in 1..n : s[k] = x /\ x \in S
            T == {n \in Nat : n \in 0..Len(s) => \A x : In(n, x)}
<1>4. 0 \in T
  BY <1>3 DEF Has
<1>5. ASSUME NEW n \in Nat, n \in T PROVE n + 1 \in T
  <2>. SUFFICES ASSUME n + 1 \in 0..Len(s), NEW x PROVE In(n + 1, x)
    OBVIOUS
  <2>1. /\ n + 1 \in 1..Len(s) /\ (n + 1) - 1 = n /\ n \in 0..Len(s)
        /\ \A k : k \in 1..(n + 1) <=> k \in 1..n \/ k = n + 1
    BY <1>2
  <2>2. Joined(p, n + 1) = Joined(p, n) \o p[n + 1] /\ Joined(p, n) \in Seq(C) /\ p[n + 1] \in Seq(C)
    <3>1. Joined(p, n + 1) = Joined(p, n) \o p[n + 1]
      BY <1>3, <2>1
    <3>2. Joined(p, n) \in Seq(C)
      BY <1>3, <2>1
    <3>3. p[n + 1] \in Seq(C)
      <4>1. n + 1 \in 1..Len(p)
        BY <1>1, <2>1
      <4>. QED
        BY <1>1, <4>1
    <3>. QED
      BY <3>1, <3>2, <3>3
  <2>3. Has(Joined(p, n + 1), x) <=> Has(Joined(p, n), x) \/ Has(p[n + 1], x)
    <3>1. PICK a \in Seq(C), b \in Seq(C) : a = Joined(p, n) /\ b = p[n + 1]
      BY <2>2
    <3>2. Has(a \o b, x) <=> Has(a, x) \/ Has(b, x)
      BY HasConcat
    <3>. QED
      BY <2>2, <3>1, <3>2
  <2>4. Has(p[n + 1], x) <=> s[n + 1] = x /\ x \in S
    <3>1. CASE s[n + 1] \in S
      <4>1. p[n + 1] = <<s[n + 1]>>
        BY <1>1, <2>1, <3>1
      <4>2. Has(<<s[n + 1]>>, x) <=> s[n + 1] = x
        BY DEF Has
      <4>. QED
        BY <3>1, <4>1, <4>2
    <3>2. CASE s[n + 1] \notin S
      <4>1. p[n + 1] = <<>>
        BY <1>1, <2>1, <3>2
      <4>2. ~Has(<<>>, x)
        BY DEF Has
      <4>. QED
        BY <3>2, <4>1, <4>2
    <3>. QED
      BY <3>1, <3>2
  <2>5. In(n, x)
    BY <1>5, <2>1
  <2>. QED
    BY <2>1, <2>3, <2>4, <2>5
<1>. HIDE DEF T
<1>6. \A n \in Nat : n \in T
  BY <1>4, <1>5, FlatAssumption, Flat!Induction
<1>7. \A x : In(Len(s), x)
  BY <1>2, <1>6 DEF T
<1>8. Kept(s, S) \in Seq(C)
  <2>1. Len(s) \in 0..Len(s)
    BY <1>2
  <2>. QED
    BY <1>3, <2>1
<1>. QED
  BY <1>3, <1>7, <1>8 DEF Has

LEMMA KeptConcat ==
  ASSUME NEW C, NEW s \in Seq(C), NEW t \in Seq(C), NEW S
  PROVE  Kept(s \o t, S) = Kept(s, S) \o Kept(t, S)
<1>0. /\ s \o t \in Seq(C) /\ Len(s \o t) = Len(s) + Len(t) /\ Len(s) \in Nat /\ Len(t) \in Nat
      /\ \A k \in 1..Len(s) : (s \o t)[k] = s[k]
      /\ \A k \in 1..Len(t) : (s \o t)[Len(s) + k] = t[k]
  OBVIOUS
<1>1. PICK D : D = Seq(C)
  OBVIOUS
<1>2. PICK p \in Seq(D) : IsPick(p, s, S)
  BY <1>1, HasPick
<1>3. PICK q \in Seq(D) : IsPick(q, t, S)
  BY <1>1, HasPick
<1>4. PICK u \in Seq(C) : u = s \o t
  BY <1>0
<1>5. PICK r \in Seq(D) : IsPick(r, u, S)
  BY <1>1, HasPick
<1>. USE DEF IsPick
<1>6. r = p \o q
  <2>1. ASSUME NEW k \in 1..Len(p) PROVE r[k] = p[k]
    <3>1. k \in 1..Len(u) /\ u[k] = s[k] /\ k \in 1..Len(s)
      BY <1>0, <1>2, <1>4
    <3>2. r[k] = IF u[k] \in S THEN <<u[k]>> ELSE <<>>
      BY <1>5, <3>1
    <3>3. p[k] = IF s[k] \in S THEN <<s[k]>> ELSE <<>>
      BY <1>2, <3>1
    <3>. QED
      BY <3>1, <3>2, <3>3
  <2>2. ASSUME NEW k \in 1..Len(q) PROVE r[Len(p) + k] = q[k]
    <3>1. Len(s) + k \in 1..Len(u) /\ u[Len(s) + k] = t[k] /\ k \in 1..Len(t)
      BY <1>0, <1>3, <1>4
    <3>2. r[Len(s) + k] = IF u[Len(s) + k] \in S THEN <<u[Len(s) + k]>> ELSE <<>>
      BY <1>5, <3>1
    <3>. QED
      BY <1>2, <1>3, <3>1, <3>2
  <2>3. Len(r) = Len(p) + Len(q)
    BY <1>0, <1>2, <1>3, <1>4, <1>5
  <2>. QED
    BY <2>1, <2>2, <2>3, FlatAssumption, Flat!InTwoParts
<1>7. FlattenSeq(p \o q) = FlattenSeq(p) \o FlattenSeq(q)
  BY ZenonT(60), <1>1, <1>2, <1>3, FlatAssumption, SameFlatten, Flat!FlattenConcat
<1>. QED
  BY <1>2, <1>3, <1>4, <1>5, <1>6, <1>7

\* One element of a sequence.
LEMMA OneElement ==
  ASSUME NEW C, NEW s \in Seq(C), NEW k \in 1..Len(s)
  PROVE  SubSeq(s, k, k) = <<s[k]>>
<1>1. PICK a \in Seq(C) : a = SubSeq(s, k, k) /\ Len(a) = 1 /\ a[1] = s[k]
  <2>1. k \in Nat /\ s[k] \in C /\ Len(s) \in Nat /\ k + 0 = k
    OBVIOUS
  <2>2. SubSeq(s, k, k) \in Seq(C)
    BY <2>1
  <2>3. Len(SubSeq(s, k, k)) = 1
    BY <2>1
  <2>4. SubSeq(s, k, k)[1] = s[k]
    BY <2>1
  <2>. QED
    BY <2>2, <2>3, <2>4
<1>2. PICK b \in Seq(C) : b = <<s[k]>> /\ Len(b) = 1 /\ b[1] = s[k]
  <2>1. s[k] \in C
    OBVIOUS
  <2>2. <<s[k]>> \in Seq(C) /\ Len(<<s[k]>>) = 1 /\ <<s[k]>>[1] = s[k]
    BY <2>1
  <2>. QED
    BY <2>2
<1>3. a = b
  <2>1. Len(a) = Len(b) /\ \A i \in 1..Len(a) : a[i] = b[i]
    BY <1>1, <1>2
  <2>. QED
    BY <2>1, SeqEqual
<1>. QED
  BY <1>1, <1>2, <1>3

\* What keeps everything, and one element that is not kept.
LEMMA KeptAll ==
  ASSUME NEW C, NEW s \in Seq(C), NEW S, \A k \in 1..Len(s) : s[k] \in S
  PROVE  Kept(s, S) = s
<1>1. PICK p \in Seq(Seq(C)) : IsPick(p, s, S)
  BY HasPick
<1>. USE DEF IsPick
<1>2. Len(s) \in Nat /\ 0 \in 0..Len(s) /\ Len(s) \in 0..Len(s) /\ SubSeq(s, 1, Len(s)) = s
  BY SubSeqFull
<1>3. ASSUME NEW k \in 1..Len(s) PROVE p[k] = SubSeq(s, k, k)
  <2>1. SubSeq(s, k, k) = <<s[k]>>
    BY OneElement
  <2>2. p[k] = <<s[k]>>
    BY <1>1
  <2>. QED
    BY <2>1, <2>2
<1>4. Joined(p, Len(s)) = Joined(p, 0) \o SubSeq(s, 1, Len(s))
  <2>1. Len(s) = Len(p) /\ 0 + 1 = 1
    BY <1>1
  <2>2. \A k \in (0 + 1)..Len(s) : p[k] = SubSeq(s, k, k)
    BY <1>3
  <2>. QED
    <3>1. PICK a \in 0..Len(p), b \in 0..Len(p) : a = 0 /\ b = Len(s) /\ b \in a..Len(p)
      BY <1>2, <2>1
    <3>2. \A k \in (a + 1)..b : p[k] = SubSeq(s, k, k)
      BY <2>2, <3>1
    <3>3. Joined(p, b) = Joined(p, a) \o SubSeq(s, a + 1, b)
      BY ZenonT(60), <2>1, <3>1, <3>2, LiteralRun
    <3>. QED
      BY <2>1, <3>1, <3>3
<1>5. Joined(p, 0) = <<>> /\ Joined(p, Len(s)) = FlattenSeq(p)
  BY <1>1, JoinedFacts
<1>. QED
  BY <1>1, <1>2, <1>4, <1>5, ConcatEmptySeq

LEMMA KeptNot ==
  ASSUME NEW x, NEW S, x \notin S
  PROVE  Kept(<<x>>, S) = <<>>
<1>1. PICK C : x \in C
  <2>1. x \in {x}
    OBVIOUS
  <2>. QED
    BY <2>1
<1>2. PICK s \in Seq(C) : s = <<x>> /\ Len(s) = 1 /\ s[1] = x
  <2>1. <<x>> \in Seq(C)
    BY <1>1
  <2>2. Len(<<x>>) = 1 /\ <<x>>[1] = x
    OBVIOUS
  <2>. QED
    BY <2>1, <2>2
<1>3. PICK p \in Seq(Seq(C)) : IsPick(p, s, S)
  BY HasPick
<1>4. Len(p) = 1 /\ p[1] = <<>> /\ Kept(s, S) = FlattenSeq(p)
  BY <1>2, <1>3 DEF IsPick
<1>5. FlattenSeq(p) = p[1]
  BY <1>4, FlatAssumption, SameFlatten, Flat!FlattenOne
<1>. QED
  BY <1>2, <1>4, <1>5

-----------------------------------------------------------------------------
(***************************************************************************)
(* What the loop of Redact does to a text t with the findings F.           *)
(***************************************************************************)
NonEmpty(t) == {f \in [start : 0..Len(t), end : 0..Len(t)] : f.start < f.end}

Apart(F) == \A f, g \in F : ~Partial(f, g)

Outer(F) == {f \in F : \A g \in F : Within(f, g) => g = f}

\* What becomes of each byte when every span of F is one token.
PiecesOf(t, F) ==
  [p \in 1..Len(t) |->
    IF \E f \in F : p = f.start + 1 THEN <<RedactionToken>>
    ELSE IF \E f \in F : Covers(f, p) THEN <<>>
    ELSE <<t[p]>>]

\* What becomes of each byte when those of S are left.
Left(t, S) == [p \in 1..Len(t) |-> IF p \in S THEN <<t[p]>> ELSE <<>>]

Symbols == Bytes \cup {RedactionToken}

LEMMA PiecesFacts ==
  ASSUME NEW t \in Seq(Bytes), NEW F
  PROVE  /\ PiecesOf(t, F) \in Seq(Seq(Symbols)) /\ Len(PiecesOf(t, F)) = Len(t)
         /\ \A p \in 1..Len(t) : PiecesOf(t, F)[p] =
              IF \E f \in F : p = f.start + 1 THEN <<RedactionToken>>
              ELSE IF \E f \in F : Covers(f, p) THEN <<>>
              ELSE <<t[p]>>
<1>1. PICK D : D = Seq(Symbols)
  OBVIOUS
<1>2. Len(t) \in Nat
  OBVIOUS
<1>. DEFINE Piece(p) == IF \E f \in F : p = f.start + 1 THEN <<RedactionToken>>
                        ELSE IF \E f \in F : Covers(f, p) THEN <<>>
                        ELSE <<t[p]>>
<1>3. ASSUME NEW p \in 1..Len(t) PROVE Piece(p) \in D
  <2>1. RedactionToken \in Symbols /\ t[p] \in Symbols
    BY DEF Symbols
  <2>2. <<RedactionToken>> \in D /\ <<>> \in D /\ <<t[p]>> \in D
    BY <1>1, <2>1
  <2>. HIDE DEF Covers
  <2>. QED
    BY <2>2
<1>. HIDE DEF Piece
<1>4. PICK q \in [1..Len(t) -> D] : q = [p \in 1..Len(t) |-> Piece(p)]
  BY <1>3
<1>5. q \in Seq(D) /\ Len(q) = Len(t) /\ \A p \in 1..Len(t) : q[p] = Piece(p)
  BY <1>2, <1>4
<1>6. q = PiecesOf(t, F)
  BY <1>4 DEF PiecesOf, Piece
<1>. QED
  BY <1>1, <1>5, <1>6 DEF Piece

LEMMA LeftFacts ==
  ASSUME NEW t \in Seq(Bytes), NEW S
  PROVE  /\ Left(t, S) \in Seq(Seq(Bytes)) /\ Len(Left(t, S)) = Len(t)
         /\ \A p \in 1..Len(t) : Left(t, S)[p] = IF p \in S THEN <<t[p]>> ELSE <<>>
<1>1. PICK D : D = Seq(Bytes)
  OBVIOUS
<1>2. Len(t) \in Nat
  OBVIOUS
<1>3. ASSUME NEW p \in 1..Len(t) PROVE (IF p \in S THEN <<t[p]>> ELSE <<>>) \in D
  <2>1. t[p] \in Bytes
    OBVIOUS
  <2>2. <<>> \in D /\ <<t[p]>> \in D
    BY <1>1, <2>1
  <2>. QED
    BY <2>2
<1>4. PICK q \in [1..Len(t) -> D] : q = [p \in 1..Len(t) |-> IF p \in S THEN <<t[p]>> ELSE <<>>]
  BY <1>3
<1>5. q \in Seq(D) /\ Len(q) = Len(t)
      /\ \A p \in 1..Len(t) : q[p] = IF p \in S THEN <<t[p]>> ELSE <<>>
  BY <1>2, <1>4
<1>. QED
  BY <1>1, <1>4, <1>5 DEF Left

\* A part of the text that no span of F touches is copied.
LEMMA Untouched ==
  ASSUME NEW t \in Seq(Bytes), NEW F \in SUBSET NonEmpty(t),
         NEW a \in 0..Len(t), NEW b \in a..Len(t),
         \A f \in F, p \in (a + 1)..b : ~Covers(f, p)
  PROVE  Joined(PiecesOf(t, F), b) = Joined(PiecesOf(t, F), a) \o SubSeq(t, a + 1, b)
<1>1. PICK s \in Seq(Seq(Symbols)) : s = PiecesOf(t, F) /\ Len(s) = Len(t)
  BY PiecesFacts
<1>2. PICK u \in Seq(Symbols) : u = t
  <2>1. Bytes \subseteq Symbols
    BY DEF Symbols
  <2>. QED
    BY <2>1
<1>3. Len(t) \in Nat /\ a \in Nat /\ b \in Nat /\ b <= Len(t)
  OBVIOUS
<1>4. ASSUME NEW k \in (a + 1)..b PROVE s[k] = SubSeq(u, k, k)
  <2>1. k \in 1..Len(t) /\ k \in Nat
    BY <1>3
  <2>2. ASSUME NEW f \in F PROVE k # f.start + 1 /\ ~Covers(f, k)
    <3>1. ~Covers(f, k) /\ f.start \in Nat /\ f.end \in Nat /\ f.start < f.end
      BY DEF NonEmpty
    <3>. QED
      BY <2>1, <3>1 DEF Covers
  <2>3. s[k] = <<t[k]>>
    <3>1. s[k] = IF \E f \in F : k = f.start + 1 THEN <<RedactionToken>>
                 ELSE IF \E f \in F : Covers(f, k) THEN <<>>
                 ELSE <<t[k]>>
      BY SMTT(30), <1>1, <2>1, PiecesFacts
    <3>. QED
      BY <2>2, <3>1
  <2>4. SubSeq(t, k, k) = <<t[k]>>
    BY <2>1, OneElement
  <2>. QED
    BY <1>2, <2>3, <2>4
<1>5. Joined(s, b) = Joined(s, a) \o SubSeq(u, a + 1, b)
  <2>1. Len(u) = Len(s) /\ a \in 0..Len(s) /\ b \in a..Len(s)
    BY <1>1, <1>2
  <2>. QED
    BY <1>4, <2>1, LiteralRun
<1>. QED
  BY <1>1, <1>2, <1>5

\* One span that no other one of F touches is one token.
LEMMA OneToken ==
  ASSUME NEW t \in Seq(Bytes), NEW F \in SUBSET NonEmpty(t), NEW f \in F,
         \A g \in F : ~(f.start < g.start /\ g.start < f.end)
  PROVE  Joined(PiecesOf(t, F), f.end) = Joined(PiecesOf(t, F), f.start) \o <<RedactionToken>>
<1>1. PICK s \in Seq(Seq(Symbols)) : s = PiecesOf(t, F) /\ Len(s) = Len(t)
  BY PiecesFacts
<1>2. /\ Len(t) \in Nat /\ f.start \in Nat /\ f.end \in Nat /\ f.start + 1 \in 1..Len(s)
      /\ f.start + 1 \in 0..Len(s) /\ f.end \in (f.start + 1)..Len(s) /\ (f.start + 1) - 1 = f.start
  BY <1>1 DEF NonEmpty
<1>3. Joined(s, f.start + 1) = Joined(s, f.start) \o s[f.start + 1]
  BY <1>2, JoinedFacts
<1>4. s[f.start + 1] = <<RedactionToken>>
  <2>1. PICK p \in 1..Len(t) : p = f.start + 1
    BY <1>1, <1>2
  <2>2. s[p] = <<RedactionToken>>
    BY ZenonT(60), <1>1, <2>1, PiecesFacts
  <2>. QED
    BY <2>1, <2>2
<1>5. ASSUME NEW k \in ((f.start + 1) + 1)..f.end PROVE s[k] = <<>>
  <2>1. k \in 1..Len(t) /\ f.start + 1 < k /\ k <= f.end
    BY <1>1, <1>2
  <2>2. ASSUME NEW g \in F, k = g.start + 1 PROVE FALSE
    <3>1. g.start \in Nat
      BY DEF NonEmpty
    <3>2. f.start < g.start /\ g.start < f.end
      <4>1. g.start = k - 1
        BY <2>1, <2>2, <3>1
      <4>. QED
        BY <1>2, <2>1, <4>1
    <3>. QED
      BY <3>2
  <2>3. Covers(f, k)
    BY <1>2, <2>1 DEF Covers
  <2>. QED
    BY <1>1, <2>1, <2>2, <2>3, PiecesFacts
<1>6. Joined(s, f.end) = Joined(s, f.start + 1)
  BY <1>2, <1>5, EmptyRun
<1>. QED
  BY <1>1, <1>3, <1>4, <1>6

\* WriteToken, when no finding begins in one and ends behind it: what is left
\* of the text up to the end of the finding.
LEMMA TokenReplaces ==
  ASSUME NEW t \in Seq(Bytes), NEW F \in SUBSET NonEmpty(t), Apart(F),
         NEW c \in 0..Len(t), NEW f \in F, c <= f.start,
         \A h \in F : h.end <= c \/ ~Precedes(h, f)
  PROVE  Joined(PiecesOf(t, Outer(F)), f.end) =
           Append(Joined(PiecesOf(t, Outer(F)), c) \o SubSeq(t, c + 1, f.start), RedactionToken)
<1>. DEFINE G == Outer(F)
            s == PiecesOf(t, G)
<1>1. G \in SUBSET NonEmpty(t) /\ G \subseteq F
  BY DEF Outer
<1>2. /\ Len(t) \in Nat /\ c \in Nat
      /\ \A h \in F : h.start \in Nat /\ h.end \in Nat /\ h.start < h.end /\ h.end <= Len(t)
      /\ \A h \in F : h.start = f.start /\ h.end = f.end => h = f
  BY DEF NonEmpty
<1>3. f \in G
  <2>. SUFFICES ASSUME NEW h \in F, Within(f, h) PROVE h = f
    BY DEF Outer
  <2>1. h.start <= f.start /\ f.end <= h.end
    BY DEF Within
  <2>2. ~Precedes(h, f)
    BY <1>2, <2>1
  <2>3. h.start = f.start /\ h.end = f.end
    BY <1>2, <2>1, <2>2 DEF Precedes
  <2>. QED
    BY <1>2, <2>3
<1>4. ASSUME NEW h \in G, NEW p \in (c + 1)..f.start PROVE ~Covers(h, p)
  <2>1. CASE h.end <= c
    BY <1>1, <1>2, <2>1 DEF Covers
  <2>2. CASE ~Precedes(h, f)
    BY <1>1, <1>2, <2>2 DEF Covers, Precedes
  <2>. QED
    BY <1>1, <2>1, <2>2
<1>5. ASSUME NEW g \in G, f.start < g.start, g.start < f.end PROVE FALSE
  <2>1. g.end <= f.end
    BY <1>1, <1>2, <1>5 DEF Apart, Partial
  <2>2. Within(g, f)
    BY <1>2, <1>1, <1>5, <2>1 DEF Within
  <2>3. f = g
    BY <2>2 DEF Outer
  <2>. QED
    BY <1>2, <1>5, <2>3
<1>6. f.start \in c..Len(t) /\ f.start \in 0..Len(t)
  BY <1>2
<1>. HIDE DEF G
<1>7. Joined(s, f.start) = Joined(s, c) \o SubSeq(t, c + 1, f.start)
  BY <1>1, <1>4, <1>6, Untouched
<1>8. Joined(s, f.end) = Joined(s, f.start) \o <<RedactionToken>>
  BY <1>1, <1>3, <1>5, OneToken
<1>9. Joined(s, f.start) \in Seq(Symbols)
  <2>1. s \in Seq(Seq(Symbols)) /\ Len(s) = Len(t)
    BY PiecesFacts
  <2>. QED
    BY <1>6, <2>1, JoinedFacts
<1>10. Append(Joined(s, f.start), RedactionToken) = Joined(s, f.start) \o <<RedactionToken>>
  <2>1. RedactionToken \in Symbols
    BY DEF Symbols
  <2>. HIDE DEF s
  <2>. QED
    BY <1>9, <2>1, AppendIsConcat
<1>. QED
  BY <1>7, <1>8, <1>10 DEF G

-----------------------------------------------------------------------------
\* More bytes are left: those behind the ones that were.
LEMMA LeftGrows ==
  ASSUME NEW t \in Seq(Bytes), NEW a \in 0..Len(t), NEW b \in a..Len(t), NEW S \in SUBSET (1..a)
  PROVE  FlattenSeq(Left(t, S \cup (a + 1)..b)) = FlattenSeq(Left(t, S)) \o SubSeq(t, a + 1, b)
<1>1. PICK s \in Seq(Seq(Bytes)) : s = Left(t, S) /\ Len(s) = Len(t)
  BY LeftFacts
<1>2. PICK r \in Seq(Seq(Bytes)) : r = Left(t, S \cup (a + 1)..b) /\ Len(r) = Len(t)
  BY LeftFacts
<1>3. /\ Len(t) \in Nat /\ a \in Nat /\ b \in Nat /\ a <= b /\ b <= Len(t)
      /\ a \in 0..Len(s) /\ Len(s) \in a..Len(s) /\ a \in 0..Len(r)
      /\ b \in a..Len(r) /\ b \in 0..Len(r) /\ Len(r) \in b..Len(r)
  BY <1>1, <1>2
<1>4. ASSUME NEW k \in 1..Len(t)
      PROVE  /\ k <= a => s[k] = r[k]
             /\ a < k => s[k] = <<>>
             /\ a < k /\ k <= b => r[k] = SubSeq(t, k, k)
             /\ b < k => r[k] = <<>>
  <2>1. /\ s[k] = IF k \in S THEN <<t[k]>> ELSE <<>>
        /\ r[k] = IF k \in S \cup (a + 1)..b THEN <<t[k]>> ELSE <<>>
    BY <1>1, <1>2, LeftFacts
  <2>2. SubSeq(t, k, k) = <<t[k]>>
    BY OneElement
  <2>3. k \in S => k <= a
    OBVIOUS
  <2>4. k \in (a + 1)..b <=> a < k /\ k <= b
    BY <1>3
  <2>. QED
    BY <1>3, <2>1, <2>2, <2>3, <2>4
<1>5. Joined(s, Len(s)) = Joined(s, a)
  <2>1. ASSUME NEW k \in (a + 1)..Len(s) PROVE s[k] = <<>>
    <3>1. k \in 1..Len(t) /\ a < k
      BY <1>1, <1>3
    <3>. QED
      BY <1>4, <3>1
  <2>. QED
    BY <1>3, <2>1, EmptyRun
<1>6. Joined(r, Len(r)) = Joined(r, b)
  <2>1. ASSUME NEW k \in (b + 1)..Len(r) PROVE r[k] = <<>>
    <3>1. k \in 1..Len(t) /\ b < k
      BY <1>2, <1>3
    <3>. QED
      BY <1>4, <3>1
  <2>. QED
    BY <1>3, <2>1, EmptyRun
<1>7. Joined(r, b) = Joined(r, a) \o SubSeq(t, a + 1, b)
  <2>1. ASSUME NEW k \in (a + 1)..b PROVE r[k] = SubSeq(t, k, k)
    <3>1. k \in 1..Len(t) /\ a < k /\ k <= b
      BY <1>3
    <3>. QED
      BY <1>4, <3>1
  <2>. QED
    BY <1>2, <1>3, <2>1, LiteralRun
<1>8. Joined(s, a) = Joined(r, a)
  <2>1. ASSUME NEW k \in 1..a PROVE s[k] = r[k]
    <3>1. k \in 1..Len(t) /\ k <= a
      BY <1>3
    <3>. QED
      BY <1>4, <3>1
  <2>2. Len(s) = Len(r) /\ a \in 0..Len(s)
    BY <1>1, <1>2, <1>3
  <2>. QED
    BY <2>1, <2>2, JoinedAgree
<1>9. Joined(s, Len(s)) = FlattenSeq(s) /\ Joined(r, Len(r)) = FlattenSeq(r)
  BY JoinedFacts
<1>. QED
  BY <1>1, <1>2, <1>5, <1>6, <1>7, <1>8, <1>9

\* Nothing is left of nothing.
LEMMA LeftNone ==
  ASSUME NEW t \in Seq(Bytes)
  PROVE  FlattenSeq(Left(t, {})) = <<>>
<1>1. PICK s \in Seq(Seq(Bytes)) : s = Left(t, {}) /\ Len(s) = Len(t)
  BY LeftFacts
<1>2. 0 \in 0..Len(s) /\ Len(s) \in 0..Len(s)
  OBVIOUS
<1>3. ASSUME NEW k \in (0 + 1)..Len(s) PROVE s[k] = <<>>
  <2>1. k \in 1..Len(t)
    BY <1>1
  <2>2. \A p \in 1..Len(t) : Left(t, {})[p] = IF p \in {} THEN <<t[p]>> ELSE <<>>
    BY LeftFacts
  <2>. QED
    BY <1>1, <2>1, <2>2
<1>4. Joined(s, Len(s)) = Joined(s, 0)
  BY <1>2, <1>3, EmptyRun
<1>. QED
  BY <1>1, <1>4, JoinedFacts

-----------------------------------------------------------------------------
LEMMA RangeFacts ==
  ASSUME NEW C, NEW s \in Seq(C)
  PROVE  /\ Range(s) \subseteq C
         /\ \A x : x \in Range(s) <=> Has(s, x)
BY DEF Range, Has

\* The entropy of a secret is a number.
LEMMA EntropyIsNumber ==
  ASSUME NEW s \in Seq(Bytes)
  PROVE  Entropy(s) \in Nat
<1>1. Len(s) \in Nat /\ DOMAIN s = 1..Len(s) /\ s \in [1..Len(s) -> Bytes]
  OBVIOUS
<1>2. s \in Surjection(1..Len(s), Range(s))
  BY <1>1 DEF Surjection, Range
<1>3. IsFiniteSet(1..Len(s))
  BY <1>1, FS_Interval
<1>. QED
  BY <1>2, <1>3, FS_Surjection, FS_CardinalityType DEF Entropy

\* The rules that NewScanner keeps are rules of the configuration.
LEMMA UsableFacts ==
  ASSUME config \in Configs
  PROVE  /\ UsableRules(config) \in Seq(Rules)
         /\ \A k \in 1..Len(UsableRules(config)) :
              /\ UsableRules(config)[k] \in Rules
              /\ ~UsableRules(config)[k].path /\ UsableRules(config)[k].compiles
         /\ DOMAIN UsableRules(config) = 1..Len(UsableRules(config))
<1>1. PICK s \in Seq(Rules) : s = config.rules
  BY RedactAssumption
<1>. DEFINE S == {rule \in Range(config.rules) : ~rule.path /\ rule.compiles}
<1>2. PICK u \in Seq(Rules) : u = Kept(s, S)
  BY ZenonT(60), KeptFacts
<1>3. ASSUME NEW k \in 1..Len(u) PROVE u[k] \in Rules /\ u[k] \in S
  <2>1. Has(u, u[k])
    BY DEF Has
  <2>. HIDE DEF S
  <2>. QED
    BY <1>2, <2>1, KeptFacts
<1>4. u = UsableRules(config)
  BY <1>1, <1>2 DEF UsableRules
<1>. QED
  BY <1>3, <1>4

\* The part of the text that a match is about, and whether it is a secret.
SpanOf(m) ==
  LET rule == UsableRules(config)[m.rule]
  IN  m.groups[IF rule.secretGroup \in 1..rule.groups THEN rule.secretGroup ELSE 0]

IsSecret(m) ==
  LET usable == UsableRules(config)
      Secret(s) == SubSeq(text, s.start + 1, s.end)
  IN  /\ ~usable[m.rule].path /\ usable[m.rule].compiles
      /\ SpanOf(m) # Absent /\ Secret(SpanOf(m)) # <<>>
      /\ usable[m.rule].keywords # {} =>
           \E word \in usable[m.rule].keywords : HasSubstring(ToLower(text), word)
      /\ Entropy(Secret(SpanOf(m))) >= usable[m.rule].entropy
      /\ ~\E word \in config.stopwords : HasSubstring(ToLower(Secret(SpanOf(m))), word)
      /\ ~\E re \in config.allowlist : re.compiles /\ Secret(SpanOf(m)) \in re.secrets

SecretsOf(ms) == {SpanOf(m) : m \in {n \in Range(ms) : IsSecret(n)}}

LEMMA SecretsAreOf == Secrets = SecretsOf(matches)
BY DEF Secrets, SecretsOf, SpanOf, IsSecret

LEMMA MatchFacts ==
  ASSUME config \in Configs, text \in Texts, NEW m \in Matches
  PROVE  /\ m.rule \in 1..Len(UsableRules(config)) /\ UsableRules(config)[m.rule] \in Rules
         /\ ~UsableRules(config)[m.rule].path /\ UsableRules(config)[m.rule].compiles
         /\ SpanOf(m) = m.groups[NewScanner(config).rules[m.rule].group]
         /\ NewScanner(config).rules[m.rule] = Compiled(UsableRules(config)[m.rule])
         /\ SpanOf(m) \in Spans \cup {Absent}
<1>. DEFINE U == UsableRules(config)
<1>1. PICK r \in DOMAIN U : \E g \in [0..U[r].groups -> Spans \cup {Absent}] :
        m = [rule |-> r, groups |-> g]
  BY DEF Matches
<1>2. /\ m.rule \in 1..Len(U) /\ U[m.rule] \in Rules /\ m.rule \in DOMAIN U
      /\ ~U[m.rule].path /\ U[m.rule].compiles
  BY <1>1, UsableFacts
<1>. HIDE DEF U
<1>3. PICK rule \in Rules : rule = U[m.rule]
  BY <1>2
<1>4. NewScanner(config).rules[m.rule] = Compiled(rule)
  BY <1>2, <1>3 DEF NewScanner, U
<1>5. PICK k \in 0..rule.groups :
        /\ k = IF rule.secretGroup \in 1..rule.groups THEN rule.secretGroup ELSE 0
        /\ k = Compiled(rule).group
  <2>1. rule.groups \in Nat /\ rule.secretGroup \in Int
    BY DEF Rules
  <2>2. Compiled(rule).group = IF rule.secretGroup \in 0..rule.groups THEN rule.secretGroup ELSE 0
    BY DEF Compiled
  <2>. QED
    BY <2>1, <2>2
<1>6. SpanOf(m) = m.groups[k]
  BY <1>3, <1>5 DEF SpanOf, U
<1>7. m.groups[k] \in Spans \cup {Absent}
  BY <1>1, <1>3, <1>5
<1>. QED
  BY <1>2, <1>3, <1>4, <1>5, <1>6, <1>7 DEF U

\* Scan reports the secrets and nothing else.
LEMMA ReportedIsSecret ==
  ASSUME config \in Configs, text \in Texts, NEW m \in Matches
  PROVE  /\ Reported(NewScanner(config), text, m) <=> IsSecret(m)
         /\ IsSecret(m) => SpanOf(m) \in NonEmpty(text)
<1>. DEFINE U == UsableRules(config)
            sc == NewScanner(config)
            span == SpanOf(m)
            secret == SubSeq(text, span.start + 1, span.end)
<1>1. /\ m.rule \in 1..Len(U) /\ U[m.rule] \in Rules
      /\ ~U[m.rule].path /\ U[m.rule].compiles
      /\ span = m.groups[sc.rules[m.rule].group]
      /\ sc.rules[m.rule] = Compiled(U[m.rule])
      /\ span \in Spans \cup {Absent}
  BY MatchFacts
<1>. HIDE DEF U, sc, span
<1>2. PICK rule \in Rules : rule = U[m.rule]
  BY <1>1
<1>3. /\ sc.rules[m.rule].keywords = rule.keywords
      /\ sc.rules[m.rule].entropy = rule.entropy /\ rule.entropy \in Int
  BY <1>1, <1>2 DEF Compiled, Rules
<1>4. CASE span = Absent
  <2>1. ~Reported(sc, text, m)
    BY <1>1, <1>4 DEF Reported
  <2>2. ~IsSecret(m)
    BY <1>4 DEF IsSecret, span
  <2>. QED
    BY <2>1, <2>2 DEF sc
<1>5. CASE span # Absent
  <2>1. /\ span \in Spans /\ span.start \in 0..Len(text) /\ span.end \in 0..Len(text)
        /\ span.start <= span.end
    BY <1>1, <1>5 DEF Spans
  <2>2. text \in Seq(Bytes) /\ Len(text) \in Nat
    BY RedactAssumption
  <2>3. secret \in Seq(Bytes) /\ (secret # <<>> <=> span.start < span.end)
    <3>1. PICK a \in Nat, b \in Nat : a = span.start /\ b = span.end /\ a <= b /\ b <= Len(text)
      BY <2>1, <2>2
    <3>2. SubSeq(text, a + 1, b) \in Seq(Bytes) /\ Len(SubSeq(text, a + 1, b)) = b - a
      BY <2>2, <3>1
    <3>3. SubSeq(text, a + 1, b) # <<>> <=> Len(SubSeq(text, a + 1, b)) > 0
      <4>1. PICK u \in Seq(Bytes) : u = SubSeq(text, a + 1, b)
        BY <3>2
      <4>2. u # <<>> <=> Len(u) > 0
        OBVIOUS
      <4>. QED
        BY <4>1, <4>2
    <3>. QED
      BY <3>1, <3>2, <3>3
  <2>. HIDE DEF secret
  <2>4. Entropy(secret) >= rule.entropy <=> (rule.entropy > 0 => Entropy(secret) >= rule.entropy)
    <3>1. Entropy(secret) \in Nat
      BY <2>3, EntropyIsNumber
    <3>. QED
      BY <1>3, <3>1
  <2>5. Allowlisted(sc, secret) <=>
          \/ \E word \in config.stopwords : HasSubstring(ToLower(secret), word)
          \/ \E re \in config.allowlist : re.compiles /\ secret \in re.secrets
    BY DEF Allowlisted, NewScanner, sc
  <2>6. Reported(sc, text, m) <=>
          /\ rule.keywords = {} \/ \E word \in rule.keywords : HasSubstring(ToLower(text), word)
          /\ span.start < span.end
          /\ rule.entropy > 0 => Entropy(secret) >= rule.entropy
          /\ ~Allowlisted(sc, secret)
    BY <1>1, <1>3, <1>5 DEF Reported, Applies, secret
  <2>7. IsSecret(m) <=>
          /\ secret # <<>>
          /\ rule.keywords # {} => \E word \in rule.keywords : HasSubstring(ToLower(text), word)
          /\ Entropy(secret) >= rule.entropy
          /\ ~\E word \in config.stopwords : HasSubstring(ToLower(secret), word)
          /\ ~\E re \in config.allowlist : re.compiles /\ secret \in re.secrets
    BY <1>1, <1>2, <1>5 DEF IsSecret, span, secret, U
  <2>8. Reported(sc, text, m) <=> IsSecret(m)
    <3>. HIDE DEF sc
    <3>. QED
      BY <2>3, <2>4, <2>5, <2>6, <2>7
  <2>9. IsSecret(m) => span \in NonEmpty(text)
    BY <2>1, <2>3, <2>7 DEF NonEmpty, Spans
  <2>. QED
    BY <2>8, <2>9 DEF sc, span
<1>. QED
  BY <1>4, <1>5

LEMMA ScanFacts ==
  ASSUME config \in Configs, text \in Texts, NEW ms \in Seq(Matches)
  PROVE  /\ Scan(NewScanner(config), text, ms) \in Seq(NonEmpty(text))
         /\ Range(Scan(NewScanner(config), text, ms)) = SecretsOf(ms)
<1>. DEFINE sc == NewScanner(config)
            S == {m \in Range(ms) : Reported(sc, text, m)}
            span(m) == m.groups[sc.rules[m.rule].group]
            spans == Scan(sc, text, ms)
<1>1. PICK kept \in Seq(Matches) : kept = Kept(ms, S)
  BY KeptFacts
<1>2. \A x : Has(kept, x) <=> Has(ms, x) /\ x \in S
  BY <1>1, KeptFacts
<1>3. \A x : x \in Range(ms) => x \in Matches /\ Has(ms, x)
  BY RangeFacts
<1>4. \A x \in Range(ms) : (x \in S <=> IsSecret(x)) /\ span(x) = SpanOf(x)
  BY <1>3, ReportedIsSecret, MatchFacts
<1>5. \A x : Has(kept, x) <=> x \in Range(ms) /\ IsSecret(x)
  BY <1>2, <1>3, <1>4
<1>6. Len(kept) \in Nat /\ DOMAIN kept = 1..Len(kept)
  OBVIOUS
<1>7. spans = [k \in 1..Len(kept) |-> span(kept[k])]
  BY <1>1, <1>6 DEF Scan
<1>. HIDE DEF spans, span, S, sc
<1>8. ASSUME NEW k \in 1..Len(kept)
      PROVE  kept[k] \in Range(ms) /\ IsSecret(kept[k]) /\ spans[k] = SpanOf(kept[k])
             /\ spans[k] \in NonEmpty(text)
  <2>1. Has(kept, kept[k])
    BY DEF Has
  <2>2. kept[k] \in Range(ms) /\ IsSecret(kept[k]) /\ kept[k] \in Matches
    BY <1>3, <1>5, <2>1
  <2>3. spans[k] = SpanOf(kept[k])
    BY <1>4, <1>7, <2>2
  <2>. QED
    BY <2>2, <2>3, ReportedIsSecret
<1>9. spans \in Seq(NonEmpty(text)) /\ DOMAIN spans = 1..Len(kept)
  BY <1>6, <1>7, <1>8
<1>10. Range(spans) \subseteq SecretsOf(ms)
  BY <1>8, <1>9 DEF Range, SecretsOf
<1>11. ASSUME NEW f \in SecretsOf(ms) PROVE f \in Range(spans)
  <2>1. PICK m \in Range(ms) : IsSecret(m) /\ f = SpanOf(m)
    BY DEF SecretsOf
  <2>2. PICK k \in 1..Len(kept) : kept[k] = m
    BY <1>5, <2>1 DEF Has
  <2>. QED
    BY <1>8, <1>9, <2>1, <2>2 DEF Range
<1>. QED
  BY <1>9, <1>10, <1>11 DEF spans, sc

Sorted(s) == \A k, l \in 1..Len(s) : k < l => ~Precedes(s[l], s[k])

\* Sorting loses no finding and makes none up.
LEMMA SortingFacts ==
  ASSUME NEW C, NEW fs \in Seq(C), NEW s \in Sortings(fs)
  PROVE  s \in Seq(C) /\ Range(s) = Range(fs) /\ Sorted(s)
<1>1. Len(fs) \in Nat /\ DOMAIN fs = 1..Len(fs) /\ \A k \in 1..Len(fs) : fs[k] \in C
  OBVIOUS
<1>2. PICK p \in Bijection(DOMAIN fs, DOMAIN fs) : s = [k \in DOMAIN fs |-> fs[p[k]]]
  BY DEF Sortings
<1>3. p \in [1..Len(fs) -> 1..Len(fs)] /\ \A l \in 1..Len(fs) : \E k \in 1..Len(fs) : p[k] = l
  BY <1>1, <1>2 DEF Bijection, Surjection
<1>4. s \in [1..Len(fs) -> C]
  BY <1>1, <1>2, <1>3
<1>5. s \in Seq(C) /\ Len(s) = Len(fs) /\ DOMAIN s = 1..Len(fs)
  BY <1>1, <1>4
<1>6. Range(s) \subseteq Range(fs)
  BY <1>1, <1>2, <1>3 DEF Range
<1>7. ASSUME NEW f \in Range(fs) PROVE f \in Range(s)
  <2>1. PICK l \in 1..Len(fs) : fs[l] = f
    BY <1>1 DEF Range
  <2>2. PICK k \in 1..Len(fs) : p[k] = l
    BY <1>3
  <2>. QED
    BY <1>1, <1>2, <2>1, <2>2 DEF Range
<1>8. Sorted(s)
  BY <1>1, <1>5 DEF Sortings, Sorted
<1>. QED
  BY <1>5, <1>6, <1>7, <1>8

\* The first finding and the others.
LEMMA HeadFacts ==
  ASSUME NEW C, NEW s \in Seq(C), s # <<>>
  PROVE  /\ Head(s) \in C /\ Tail(s) \in Seq(C) /\ Head(s) \in Range(s)
         /\ \A x : x \in Range(s) <=> x = Head(s) \/ x \in Range(Tail(s))
         /\ Sorted(s) => Sorted(Tail(s)) /\ \A x \in Range(Tail(s)) : ~Precedes(x, Head(s))
<1>1. /\ Len(s) \in Nat /\ Len(s) >= 1 /\ DOMAIN s = 1..Len(s) /\ Head(s) = s[1] /\ s[1] \in C
      /\ Tail(s) \in Seq(C) /\ Len(Tail(s)) = Len(s) - 1 /\ DOMAIN Tail(s) = 1..(Len(s) - 1)
      /\ \A k \in 1..(Len(s) - 1) : Tail(s)[k] = s[k + 1]
  OBVIOUS
<1>2. \A x : x \in Range(s) <=> \E k \in 1..Len(s) : s[k] = x
  BY <1>1 DEF Range
<1>3. \A x : x \in Range(Tail(s)) <=> \E k \in 1..(Len(s) - 1) : s[k + 1] = x
  BY <1>1 DEF Range
<1>4. \A k \in 1..Len(s) : k = 1 \/ (k - 1 \in 1..(Len(s) - 1) /\ (k - 1) + 1 = k)
  BY <1>1
<1>5. \A k \in 1..(Len(s) - 1) : k + 1 \in 1..Len(s) /\ 1 < k + 1
  BY <1>1
<1>6. 1 \in 1..Len(s)
  BY <1>1
<1>7. ASSUME NEW x PROVE x \in Range(s) <=> x = Head(s) \/ x \in Range(Tail(s))
  BY <1>1, <1>2, <1>3, <1>4, <1>5, <1>6
<1>8. ASSUME Sorted(s) PROVE Sorted(Tail(s))
  <2>. SUFFICES ASSUME NEW k \in 1..(Len(s) - 1), NEW l \in 1..(Len(s) - 1), k < l
                PROVE  ~Precedes(s[l + 1], s[k + 1])
    BY <1>1 DEF Sorted
  <2>1. k + 1 < l + 1 /\ k + 1 \in 1..Len(s) /\ l + 1 \in 1..Len(s)
    BY <1>1
  <2>. QED
    BY <1>8, <2>1 DEF Sorted
<1>9. ASSUME Sorted(s), NEW x \in Range(Tail(s)) PROVE ~Precedes(x, Head(s))
  BY <1>1, <1>3, <1>5, <1>6, <1>9 DEF Sorted
<1>. QED
  BY <1>1, <1>6, <1>2, <1>7, <1>8, <1>9

-----------------------------------------------------------------------------
(***************************************************************************)
(* The invariant.                                                          *)
(***************************************************************************)
Kinds ==
  /\ config \in Configs /\ text \in Texts
  /\ cursor \in 0..Len(text)
  /\ stage \in {"scan", "redact", "done", "unusable"}
  /\ findings \in Seq(NonEmpty(text)) /\ todo \in Seq(NonEmpty(text))
  /\ Range(todo) \subseteq Range(findings)
  /\ out \in Seq(Symbols)
  /\ stage \in {"scan", "unusable"} => cursor = 0 /\ out = <<>>

\* What Scan reported are the secrets.
Found == stage \in {"redact", "done"} => Range(findings) = Secrets

\* One of F begins before f and ends inside it, at n or before.
CutShort(F, f, n) == \E g \in F : Partial(g, f) /\ g.end <= n

\* The findings still to come are in order; the others begin in the part dealt
\* with, and reach behind it only if another one cuts them short; and that part
\* ends with a finding that none of those to come precedes.
Ordered ==
  stage = "redact" =>
    /\ Sorted(todo)
    /\ \A f \in Range(findings) : f \in Range(todo) \/ f.start < cursor
    /\ \A f \in Range(findings) :
         f \in Range(todo) \/ f.end <= cursor \/ CutShort(Range(findings), f, cursor)
    /\ cursor = 0 \/ \E g \in Range(findings) :
         g.end = cursor /\ \A f \in Range(todo) : ~Precedes(f, g)

\* The text up to here is dealt with.
Dealt == IF stage = "done" THEN Len(text) ELSE cursor

\* Unless findings overlap in part, those not to come lie in the part dealt
\* with, and what is written is that part with a token for each secret.
Replaced ==
  stage \in {"redact", "done"} /\ Apart(Range(findings)) =>
    /\ stage = "redact" => \A f \in Range(findings) : f \in Range(todo) \/ f.end <= cursor
    /\ out = Joined(PiecesOf(text, Outer(Range(findings))), Dealt)

\* o has, of the first n bytes of t, all that none of F covers, and of those that
\* one of F covers only some that lie behind another one that cuts it short.
OutOf(t, F, o, n) ==
  \E S \in SUBSET (1..n) :
     /\ \A f \in F, p \in S : Covers(f, p) => CutShort(F, f, p - 1)
     /\ \A p \in 1..n : p \in S \/ \E f \in F : Covers(f, p)
     /\ Kept(o, Bytes) = FlattenSeq(Left(t, S))

Copied == stage \in {"redact", "done"} => OutOf(text, Range(findings), out, Dealt)

Inv == Kinds /\ Found /\ Ordered /\ Replaced /\ Copied

-----------------------------------------------------------------------------
LEMMA TokenIsNoByte == RedactionToken \notin Bytes /\ Bytes \subseteq Symbols
                       /\ RedactionToken \in Symbols
BY RedactAssumption DEF Symbols

LEMMA TextType == ASSUME NEW t \in Texts PROVE t \in Seq(Bytes)
BY RedactAssumption

\* Bytes behind what was written, and then perhaps a token.
LEMMA KeptGrows ==
  ASSUME NEW o \in Seq(Symbols), NEW b \in Seq(Bytes)
  PROVE  /\ o \o b \in Seq(Symbols) /\ Append(o \o b, RedactionToken) \in Seq(Symbols)
         /\ Kept(o \o b, Bytes) = Kept(o, Bytes) \o b
         /\ Kept(Append(o \o b, RedactionToken), Bytes) = Kept(o, Bytes) \o b
<1>1. PICK c \in Seq(Symbols) : c = b
  BY TokenIsNoByte
<1>2. o \o c \in Seq(Symbols)
  OBVIOUS
<1>3. Kept(o \o c, Bytes) = Kept(o, Bytes) \o b
  <2>1. Kept(o \o c, Bytes) = Kept(o, Bytes) \o Kept(c, Bytes)
    BY KeptConcat
  <2>2. Kept(b, Bytes) = b
    BY KeptAll
  <2>. QED
    BY <1>1, <2>1, <2>2
<1>4. PICK d \in Seq(Symbols) : d = o \o c
  BY <1>2
<1>5. Append(d, RedactionToken) = d \o <<RedactionToken>> /\ <<RedactionToken>> \in Seq(Symbols)
      /\ Append(d, RedactionToken) \in Seq(Symbols)
  <2>1. RedactionToken \in Symbols
    BY TokenIsNoByte
  <2>. QED
    BY <2>1, AppendIsConcat
<1>6. Kept(d \o <<RedactionToken>>, Bytes) = Kept(d, Bytes) \o <<>>
  <2>1. PICK e \in Seq(Symbols) : e = <<RedactionToken>>
    BY <1>5
  <2>2. Kept(d \o e, Bytes) = Kept(d, Bytes) \o Kept(e, Bytes)
    BY SMTT(30), KeptConcat
  <2>3. Kept(<<RedactionToken>>, Bytes) = <<>>
    BY TokenIsNoByte, KeptNot
  <2>. QED
    BY <2>1, <2>2, <2>3
<1>7. Kept(d, Bytes) \o <<>> = Kept(d, Bytes)
  <2>1. Kept(d, Bytes) \in Seq(Symbols)
    BY KeptFacts
  <2>. QED
    BY <2>1, ConcatEmptySeq
<1>. QED
  BY <1>1, <1>2, <1>3, <1>4, <1>5, <1>6, <1>7

\* The bytes from a to b are copied and those up to n left out.
LEMMA OutGrows ==
  ASSUME NEW t \in Seq(Bytes), NEW F \in SUBSET NonEmpty(t), NEW o, NEW o2,
         NEW a \in 0..Len(t), NEW b \in a..Len(t), NEW n \in b..Len(t),
         OutOf(t, F, o, a),
         \A f \in F, p \in (a + 1)..b : Covers(f, p) => CutShort(F, f, p - 1),
         \A p \in (b + 1)..n : \E f \in F : Covers(f, p),
         Kept(o2, Bytes) = Kept(o, Bytes) \o SubSeq(t, a + 1, b)
  PROVE  OutOf(t, F, o2, n)
<1>1. PICK S \in SUBSET (1..a) :
        /\ \A f \in F, p \in S : Covers(f, p) => CutShort(F, f, p - 1)
        /\ \A p \in 1..a : p \in S \/ \E f \in F : Covers(f, p)
        /\ Kept(o, Bytes) = FlattenSeq(Left(t, S))
  BY DEF OutOf
<1>. DEFINE R == S \cup (a + 1)..b
<1>2. a \in Nat /\ b \in Nat /\ n \in Nat /\ a <= b /\ b <= n
  OBVIOUS
<1>3. R \in SUBSET (1..n)
  BY <1>2
<1>4. \A f \in F, p \in R : Covers(f, p) => CutShort(F, f, p - 1)
  BY <1>1
<1>5. ASSUME NEW p \in 1..n PROVE p \in R \/ \E f \in F : Covers(f, p)
  <2>1. p \in 1..a \/ p \in (a + 1)..b \/ p \in (b + 1)..n
    BY <1>2
  <2>. HIDE DEF Covers
  <2>. QED
    BY <1>1, <2>1
<1>6. Kept(o2, Bytes) = FlattenSeq(Left(t, R))
  <2>1. FlattenSeq(Left(t, S \cup (a + 1)..b)) = FlattenSeq(Left(t, S)) \o SubSeq(t, a + 1, b)
    BY LeftGrows
  <2>. QED
    BY <1>1, <2>1
<1>. HIDE DEF R
<1>. QED
  BY <1>3, <1>4, <1>5, <1>6 DEF OutOf

-----------------------------------------------------------------------------
LEMMA Initially == Init => Inv
<1>. SUFFICES ASSUME Init PROVE Inv
  OBVIOUS
<1>. USE DEF Init
<1>1. text \in Seq(Bytes) /\ Len(text) \in Nat
  BY TextType
<1>2. stage \in {"scan", "unusable"}
  OBVIOUS
<1>3. Kinds
  BY <1>1, <1>2 DEF Kinds, Range
<1>. QED
  BY <1>2, <1>3 DEF Inv, Found, Ordered, Replaced, Copied

LEMMA FindSecretsKeeps ==
  ASSUME Inv, FindSecrets PROVE Inv'
<1>. DEFINE F == Range(findings')
<1>1. /\ config \in Configs /\ text \in Texts /\ text \in Seq(Bytes) /\ Len(text) \in Nat
      /\ cursor = 0 /\ out = <<>>
  BY TextType DEF Inv, Kinds, FindSecrets
<1>2. config' = config /\ text' = text /\ cursor' = 0 /\ out' = <<>> /\ stage' = "redact"
  BY <1>1 DEF FindSecrets
<1>3. PICK ms \in Seq(Matches) : ms = matches'
  <2>1. PICK k \in 0..MaxMatches : matches' \in [1..k -> Matches]
    BY DEF FindSecrets, SeqOf
  <2>2. k \in Nat
    BY RedactAssumption
  <2>. QED
    BY <2>1, <2>2
<1>4. findings' = Scan(NewScanner(config), text, ms) /\ todo' \in Sortings(findings')
  BY <1>3 DEF FindSecrets
<1>5. findings' \in Seq(NonEmpty(text)) /\ F = SecretsOf(ms)
  BY <1>1, <1>4, ScanFacts
<1>6. todo' \in Seq(NonEmpty(text)) /\ Range(todo') = F /\ Sorted(todo')
  BY <1>4, <1>5, SortingFacts
<1>7. Kinds'
  BY <1>1, <1>2, <1>5, <1>6, TokenIsNoByte DEF Kinds
<1>8. Found'
  <2>1. Secrets' = SecretsOf(ms)
    <3>1. Secrets' = SecretsOf(matches)'
      BY DEF Secrets, SecretsOf, SpanOf, IsSecret
    <3>. QED
      BY ZenonT(60), <1>2, <1>3, <3>1 DEF SecretsOf, SpanOf, IsSecret
  <2>. QED
    BY <1>5, <2>1 DEF Found
<1>9. Ordered'
  BY <1>2, <1>6 DEF Ordered, Sorted
<1>10. Replaced'
  <2>1. Joined(PiecesOf(text, Outer(F)), 0) = <<>>
    BY <1>1, PiecesFacts, JoinedFacts
  <2>2. (Dealt = 0)'
    BY <1>2 DEF Dealt
  <2>. QED
    BY <1>2, <1>6, <2>1, <2>2 DEF Replaced
<1>11. Copied'
  <2>1. Kept(<<>>, Bytes) = <<>>
    <3>1. <<>> \in Seq(Bytes)
      OBVIOUS
    <3>2. PICK e \in Seq(Bytes) : e = <<>>
      BY <3>1
    <3>3. \A k \in 1..Len(e) : e[k] \in Bytes
      OBVIOUS
    <3>. QED
      BY <3>2, <3>3, KeptAll
  <2>2. OutOf(text, F, <<>>, 0)
    <3>1. FlattenSeq(Left(text, {})) = <<>>
      BY <1>1, LeftNone
    <3>2. {} \in SUBSET (1..0) /\ \A p \in 1..0 : FALSE
      OBVIOUS
    <3>. QED
      BY <2>1, <3>1, <3>2 DEF OutOf
  <2>3. (Dealt = 0)'
    BY <1>2 DEF Dealt
  <2>. QED
    BY <1>2, <2>2, <2>3 DEF Copied
<1>. QED
  BY <1>7, <1>8, <1>9, <1>10, <1>11 DEF Inv

\* The secrets are those of the matches.
LEMMA FoundStays ==
  ASSUME Found, stage = "redact", UNCHANGED <<config, text, matches, findings>> PROVE Found'
BY ZenonT(60), SecretsAreOf DEF Found, Secrets

LEMMA WriteTokenKeeps ==
  ASSUME Inv, WriteToken PROVE Inv'
<1>. DEFINE F == Range(findings)
            f == Head(todo)
<1>1. /\ stage = "redact" /\ todo # <<>> /\ f.start >= cursor
      /\ out' = Append(out \o SubSeq(text, cursor + 1, f.start), RedactionToken)
      /\ cursor' = f.end /\ todo' = Tail(todo)
      /\ config' = config /\ text' = text /\ matches' = matches /\ findings' = findings
      /\ stage' = "redact"
  BY DEF WriteToken
<1>2. /\ config \in Configs /\ text \in Texts /\ text \in Seq(Bytes) /\ Len(text) \in Nat
      /\ cursor \in 0..Len(text) /\ findings \in Seq(NonEmpty(text)) /\ todo \in Seq(NonEmpty(text))
      /\ Range(todo) \subseteq F /\ out \in Seq(Symbols)
  BY TextType DEF Inv, Kinds
<1>3. /\ f \in NonEmpty(text) /\ Tail(todo) \in Seq(NonEmpty(text)) /\ f \in F
      /\ \A g : g \in Range(todo) <=> g = f \/ g \in Range(Tail(todo))
      /\ Sorted(Tail(todo)) /\ \A g \in Range(Tail(todo)) : ~Precedes(g, f)
  <2>1. Sorted(todo)
    BY <1>1 DEF Inv, Ordered
  <2>. QED
    BY <1>1, <1>2, <2>1, HeadFacts
<1>4. /\ F \in SUBSET NonEmpty(text)
      /\ \A g \in F : g.start \in Nat /\ g.end \in Nat /\ g.start < g.end /\ g.end <= Len(text)
  <2>1. F \in SUBSET NonEmpty(text)
    BY <1>2, RangeFacts
  <2>. QED
    BY <2>1 DEF NonEmpty
<1>5. /\ f.start \in cursor..Len(text) /\ f.end \in f.start..Len(text) /\ f.end \in 0..Len(text)
      /\ cursor \in Nat /\ f.start \in Nat /\ f.end \in Nat /\ f.start < f.end /\ cursor < f.end
  BY <1>1, <1>2, <1>3, <1>4
<1>. HIDE DEF f
<1>6. SubSeq(text, cursor + 1, f.start) \in Seq(Bytes)
  BY <1>2, <1>5
<1>7. /\ out' \in Seq(Symbols)
      /\ Kept(out', Bytes) = Kept(out, Bytes) \o SubSeq(text, cursor + 1, f.start)
  BY <1>1, <1>2, <1>6, KeptGrows
<1>8. Kinds'
  BY <1>1, <1>2, <1>3, <1>5, <1>7 DEF Kinds
<1>9. Found'
  BY <1>1, FoundStays DEF Inv
<1>10. \A g \in F : g \in Range(todo) \/ g.start < cursor
  BY <1>1 DEF Inv, Ordered
<1>12. Ordered'
  <2>1. \A g \in F : g \in Range(Tail(todo)) \/ g.start < f.end
    BY <1>3, <1>4, <1>5, <1>10
  <2>2. ASSUME NEW g \in F
        PROVE  g \in Range(Tail(todo)) \/ g.end <= f.end \/ CutShort(F, g, f.end)
    <3>1. \A h \in F : h.end <= cursor => h.end <= f.end
      BY <1>4, <1>5
    <3>2. g \in Range(todo) \/ g.end <= cursor \/ CutShort(F, g, cursor)
      BY <1>1 DEF Inv, Ordered
    <3>. QED
      BY <1>3, <1>5, <3>1, <3>2 DEF CutShort
  <2>. QED
    BY <1>1, <1>3, <2>1, <2>2 DEF Ordered
<1>13. Replaced'
  <2>. SUFFICES ASSUME Apart(F)
                PROVE  /\ \A g \in F : g \in Range(Tail(todo)) \/ g.end <= f.end
                       /\ out' = Joined(PiecesOf(text, Outer(F)), f.end)
    BY <1>1 DEF Replaced, Dealt
  <2>1. /\ \A g \in F : g \in Range(todo) \/ g.end <= cursor
        /\ out = Joined(PiecesOf(text, Outer(F)), cursor)
    BY <1>1 DEF Inv, Replaced, Dealt
  <2>2. \A g \in F : g \in Range(Tail(todo)) \/ g.end <= f.end
    BY <1>3, <1>4, <1>5, <2>1
  <2>3. \A g \in F : g.end <= cursor \/ ~Precedes(g, f)
    <3>1. ~Precedes(f, f)
      BY <1>5 DEF Precedes
    <3>. QED
      BY <1>3, <2>1, <3>1
  <2>4. Joined(PiecesOf(text, Outer(F)), f.end) =
          Append(Joined(PiecesOf(text, Outer(F)), cursor) \o SubSeq(text, cursor + 1, f.start), RedactionToken)
    <3>1. cursor <= f.start
      BY <1>5
    <3>. HIDE DEF F
    <3>. QED
      BY <1>2, <1>3, <1>4, <2>3, <3>1, TokenReplaces
  <2>. QED
    BY <1>1, <2>1, <2>2, <2>4
<1>14. Copied'
  <2>1. OutOf(text, F, out, cursor)
    BY <1>1 DEF Inv, Copied, Dealt
  <2>2. ASSUME NEW g \in F, NEW p \in (cursor + 1)..f.start, Covers(g, p)
        PROVE  CutShort(F, g, p - 1)
    <3>1. cursor <= p - 1 /\ p - 1 \in Nat /\ g.start < f.start /\ ~(g.end <= cursor)
      BY <1>4, <1>5, <2>2 DEF Covers
    <3>2. g \notin Range(todo)
      <4>1. Precedes(g, f) /\ ~Precedes(f, f)
        BY <1>4, <1>5, <3>1 DEF Precedes
      <4>. QED
        BY <1>3, <4>1
    <3>3. CutShort(F, g, cursor)
      BY <1>1, <3>1, <3>2 DEF Inv, Ordered
    <3>. QED
      BY <1>4, <1>5, <3>1, <3>3 DEF CutShort
  <2>3. \A p \in (f.start + 1)..f.end : \E g \in F : Covers(g, p)
    <3>1. \A p \in (f.start + 1)..f.end : Covers(f, p)
      BY <1>5 DEF Covers
    <3>. QED
      BY <1>3, <3>1
  <2>4. OutOf(text, F, out', f.end)
    <3>. HIDE DEF F
    <3>. QED
      BY ZenonT(60), <1>2, <1>4, <1>5, <1>7, <2>1, <2>2, <2>3, OutGrows
  <2>. QED
    BY <1>1, <2>4 DEF Copied, Dealt
<1>. QED
  BY <1>8, <1>9, <1>12, <1>13, <1>14 DEF Inv

LEMMA SkipKeeps ==
  ASSUME Inv, Skip PROVE Inv'
<1>. DEFINE F == Range(findings)
            f == Head(todo)
<1>1. /\ stage = "redact" /\ todo # <<>> /\ f.start < cursor /\ todo' = Tail(todo)
      /\ config' = config /\ text' = text /\ matches' = matches /\ findings' = findings
      /\ cursor' = cursor /\ out' = out /\ stage' = stage
  BY DEF Skip
<1>2. /\ cursor \in 0..Len(text) /\ findings \in Seq(NonEmpty(text)) /\ todo \in Seq(NonEmpty(text))
      /\ Range(todo) \subseteq F
  BY DEF Inv, Kinds
<1>3. /\ f \in NonEmpty(text) /\ Tail(todo) \in Seq(NonEmpty(text)) /\ f \in F
      /\ \A g : g \in Range(todo) <=> g = f \/ g \in Range(Tail(todo))
      /\ Sorted(Tail(todo))
  <2>1. Sorted(todo)
    BY <1>1 DEF Inv, Ordered
  <2>. QED
    BY <1>1, <1>2, <2>1, HeadFacts
<1>4. \A g \in F : g.start \in Nat /\ g.end \in Nat /\ g.start < g.end
  <2>1. F \in SUBSET NonEmpty(text)
    BY <1>2, RangeFacts
  <2>. QED
    BY <2>1 DEF NonEmpty
<1>. HIDE DEF f
<1>5. Kinds'
  BY <1>1, <1>2, <1>3 DEF Inv, Kinds
<1>6. Found'
  BY <1>1, FoundStays DEF Inv
<1>7. PICK g \in F : g.end = cursor /\ \A h \in Range(todo) : ~Precedes(h, g)
  <2>1. cursor # 0
    BY <1>1, <1>3, <1>4
  <2>. QED
    BY <1>1, <2>1 DEF Inv, Ordered
<1>8. Ordered'
  <2>1. \A h \in F : h \in Range(Tail(todo)) \/ h.start < cursor
    BY <1>1, <1>3 DEF Inv, Ordered
  <2>2. \A h \in Range(Tail(todo)) : ~Precedes(h, g)
    BY <1>3, <1>7
  <2>3. f.end <= cursor \/ Partial(g, f)
    <3>1. ~Precedes(f, g)
      BY <1>3, <1>7
    <3>. QED
      BY <1>1, <1>3, <1>4, <1>7, <3>1 DEF Precedes, Partial
  <2>4. \A h \in F : h \in Range(Tail(todo)) \/ h.end <= cursor \/ CutShort(F, h, cursor)
    <3>1. \A h \in F : h \in Range(todo) \/ h.end <= cursor \/ CutShort(F, h, cursor)
      BY <1>1 DEF Inv, Ordered
    <3>2. f.end <= cursor \/ CutShort(F, f, cursor)
      BY <1>4, <1>7, <2>3 DEF CutShort
    <3>. QED
      BY <1>3, <3>1, <3>2
  <2>. QED
    BY <1>1, <1>3, <1>7, <2>1, <2>2, <2>4 DEF Ordered
<1>9. Replaced'
  <2>. SUFFICES ASSUME Apart(F)
                PROVE  /\ \A h \in F : h \in Range(Tail(todo)) \/ h.end <= cursor
                       /\ out' = Joined(PiecesOf(text, Outer(F)), cursor)
    BY <1>1 DEF Replaced, Dealt
  <2>1. /\ \A h \in F : h \in Range(todo) \/ h.end <= cursor
        /\ out = Joined(PiecesOf(text, Outer(F)), cursor)
    BY <1>1 DEF Inv, Replaced, Dealt
  <2>2. f.end <= cursor
    <3>1. ~Precedes(f, g) /\ ~Partial(g, f)
      BY <1>3, <1>7 DEF Apart
    <3>. QED
      BY <1>1, <1>3, <1>4, <1>7, <3>1 DEF Precedes, Partial
  <2>. QED
    BY <1>1, <1>3, <2>1, <2>2
<1>10. Copied'
  BY <1>1 DEF Inv, Copied, Dealt
<1>. QED
  BY <1>5, <1>6, <1>8, <1>9, <1>10 DEF Inv

LEMMA WriteRestKeeps ==
  ASSUME Inv, WriteRest PROVE Inv'
<1>. DEFINE F == Range(findings)
<1>1. /\ stage = "redact" /\ todo = <<>>
      /\ out' = out \o SubSeq(text, cursor + 1, Len(text)) /\ stage' = "done"
      /\ config' = config /\ text' = text /\ matches' = matches /\ findings' = findings
      /\ cursor' = cursor /\ todo' = todo
  BY DEF WriteRest
<1>2. /\ text \in Seq(Bytes) /\ Len(text) \in Nat /\ cursor \in 0..Len(text) /\ cursor \in Nat
      /\ Len(text) \in cursor..Len(text) /\ Len(text) \in Len(text)..Len(text)
      /\ findings \in Seq(NonEmpty(text)) /\ out \in Seq(Symbols)
  BY TextType DEF Inv, Kinds
<1>3. Range(todo) = {}
  BY <1>1 DEF Range
<1>4. /\ F \in SUBSET NonEmpty(text)
      /\ \A g \in F : g.start \in Nat /\ g.end \in Nat /\ g.start < g.end /\ g.end <= Len(text)
  <2>1. F \in SUBSET NonEmpty(text)
    BY <1>2, RangeFacts
  <2>. QED
    BY <2>1 DEF NonEmpty
<1>5. SubSeq(text, cursor + 1, Len(text)) \in Seq(Bytes)
  BY <1>2
<1>6. /\ out' \in Seq(Symbols)
      /\ Kept(out', Bytes) = Kept(out, Bytes) \o SubSeq(text, cursor + 1, Len(text))
  BY <1>1, <1>2, <1>5, KeptGrows
<1>7. Kinds'
  BY <1>1, <1>6 DEF Inv, Kinds
<1>8. Found'
  BY <1>1, FoundStays DEF Inv
<1>9. Ordered'
  BY <1>1 DEF Ordered
<1>10. Replaced'
  <2>. SUFFICES ASSUME Apart(F) PROVE out' = Joined(PiecesOf(text, Outer(F)), Len(text))
    BY <1>1 DEF Replaced, Dealt
  <2>1. /\ \A g \in F : g.end <= cursor
        /\ out = Joined(PiecesOf(text, Outer(F)), cursor)
    BY <1>1, <1>3 DEF Inv, Replaced, Dealt
  <2>2. Outer(F) \in SUBSET NonEmpty(text) /\ Outer(F) \subseteq F
    BY <1>4 DEF Outer
  <2>3. ASSUME NEW g \in Outer(F), NEW p \in (cursor + 1)..Len(text) PROVE ~Covers(g, p)
    <3>1. g.end <= cursor /\ g.end \in Nat
      BY <1>4, <2>1, <2>2
    <3>. QED
      BY <1>2, <3>1 DEF Covers
  <2>4. PICK G \in SUBSET NonEmpty(text) : G = Outer(F)
    BY <2>2
  <2>5. Joined(PiecesOf(text, G), Len(text)) = Joined(PiecesOf(text, G), cursor) \o SubSeq(text, cursor + 1, Len(text))
    BY <1>2, <2>3, <2>4, Untouched
  <2>. QED
    BY <1>1, <2>1, <2>4, <2>5
<1>11. Copied'
  <2>1. OutOf(text, F, out, cursor)
    BY <1>1 DEF Inv, Copied, Dealt
  <2>2. ASSUME NEW g \in F, NEW p \in (cursor + 1)..Len(text), Covers(g, p)
        PROVE  CutShort(F, g, p - 1)
    <3>1. cursor <= p - 1 /\ p - 1 \in Nat /\ ~(g.end <= cursor)
      BY <1>2, <1>4, <2>2 DEF Covers
    <3>2. CutShort(F, g, cursor)
      BY <1>1, <1>3, <3>1 DEF Inv, Ordered
    <3>. QED
      BY <1>2, <1>4, <3>1, <3>2 DEF CutShort
  <2>3. \A p \in (Len(text) + 1)..Len(text) : \E g \in F : Covers(g, p)
    BY <1>2
  <2>4. OutOf(text, F, out', Len(text))
    <3>. HIDE DEF F
    <3>. QED
      BY ZenonT(60), <1>2, <1>4, <1>6, <2>1, <2>2, <2>3, OutGrows
  <2>. QED
    BY <1>1, <2>4 DEF Copied, Dealt
<1>. QED
  BY <1>7, <1>8, <1>9, <1>10, <1>11 DEF Inv

LEMMA StutterKeeps ==
  ASSUME Inv, UNCHANGED vars PROVE Inv'
<1>. USE DEF vars
<1>1. Kinds' /\ Ordered' /\ Replaced' /\ Copied'
  BY DEF Inv, Kinds, Ordered, Replaced, Copied, Dealt
<1>2. Found'
  BY ZenonT(60), SMTT(30) DEF Inv, Found, Secrets
<1>. QED
  BY <1>1, <1>2 DEF Inv

\* The invariant holds in every state.
LEMMA InvHolds == Spec => []Inv
<1>1. Inv /\ [Next]_vars => Inv'
  BY FindSecretsKeeps, WriteTokenKeeps, SkipKeeps, WriteRestKeeps, StutterKeeps DEF Next
<1>. QED
  BY Initially, <1>1, PTL DEF Spec

-----------------------------------------------------------------------------
(***************************************************************************)
(* The stage's variables are well-typed, and whatever group of a match a   *)
(* rule names, a finding is a part of the text that is not empty.          *)
(***************************************************************************)
THEOREM TypeCorrect == Spec => []TypeOK
<1>1. Inv => TypeOK
  <2>. SUFFICES ASSUME Inv PROVE TypeOK
    OBVIOUS
  <2>1. text \in Seq(Bytes) /\ Len(text) \in Nat /\ findings \in Seq(NonEmpty(text))
    BY TextType DEF Inv, Kinds
  <2>2. \A k \in DOMAIN findings : findings[k] \in Spans /\ findings[k].start < findings[k].end
    <3>1. \A k \in DOMAIN findings : findings[k] \in NonEmpty(text)
      BY <2>1
    <3>. QED
      BY <2>1, <3>1 DEF NonEmpty, Spans
  <2>. QED
    BY <2>2 DEF Inv, Kinds, TypeOK
<1>. QED
  BY <1>1, InvHolds, PTL

(***************************************************************************)
(* For every configuration, text and set of matches: when no two secrets   *)
(* overlap in part, the loop of Redact writes the text with one token in   *)
(* place of each secret that no other one contains.                        *)
(***************************************************************************)
THEOREM SecretsAreRedacted == Spec => []SecretsRedacted
<1>1. Inv => SecretsRedacted
  <2>. SUFFICES ASSUME Inv, stage = "done", \A f, g \in Secrets : ~Partial(f, g)
                PROVE  out = Redacted(Outermost)
    BY DEF SecretsRedacted
  <2>1. Range(findings) = Secrets
    BY DEF Inv, Found
  <2>2. Apart(Range(findings)) /\ Outer(Range(findings)) = Outermost
    BY <2>1 DEF Apart, Outer, Outermost
  <2>3. out = Joined(PiecesOf(text, Outermost), Len(text))
    BY <2>2 DEF Inv, Replaced, Dealt
  <2>4. PICK s \in Seq(Seq(Symbols)) : s = PiecesOf(text, Outermost) /\ Len(s) = Len(text)
    BY TextType, PiecesFacts DEF Inv, Kinds
  <2>5. Joined(s, Len(s)) = FlattenSeq(s)
    BY JoinedFacts
  <2>. QED
    BY <2>3, <2>4, <2>5 DEF Redacted, PiecesOf, Covers
<1>. QED
  BY <1>1, InvHolds, PTL

(***************************************************************************)
(* However secrets overlap, Redact leaves all bytes that no secret has, in *)
(* their order, and of a secret only an end that lies behind another one   *)
(* that begins before it and ends inside it.                               *)
(***************************************************************************)
THEOREM SecretsLeaveEndsOnly == Spec => []OnlyEndsSurvive
<1>1. Inv => OnlyEndsSurvive
  <2>. SUFFICES ASSUME Inv, stage = "done" PROVE OnlyEndsSurvive
    BY DEF OnlyEndsSurvive
  <2>1. Range(findings) = Secrets
    BY DEF Inv, Found
  <2>2. PICK S \in SUBSET (1..Len(text)) :
          /\ \A f \in Secrets, p \in S : Covers(f, p) => CutShort(Secrets, f, p - 1)
          /\ \A p \in 1..Len(text) : p \in S \/ \E f \in Secrets : Covers(f, p)
          /\ Kept(out, Bytes) = FlattenSeq(Left(text, S))
    BY <2>1 DEF Inv, Copied, Dealt, OutOf
  <2>3. ASSUME NEW f \in Secrets, NEW p \in S, Covers(f, p)
        PROVE  \E g \in Secrets : Partial(g, f) /\ g.end < p
    <3>1. PICK g \in Secrets : Partial(g, f) /\ g.end <= p - 1
      BY <2>2, <2>3 DEF CutShort
    <3>2. g.end \in Nat /\ p \in Nat
      <4>1. Secrets \subseteq NonEmpty(text)
        BY <2>1, RangeFacts DEF Inv, Kinds
      <4>2. Len(text) \in Nat
        BY TextType DEF Inv, Kinds
      <4>. QED
        BY <2>2, <4>1, <4>2 DEF NonEmpty
    <3>. QED
      BY <3>1, <3>2
  <2>. QED
    BY <2>2, <2>3 DEF OnlyEndsSurvive, Left
<1>. QED
  BY <1>1, InvHolds, PTL
=============================================================================
