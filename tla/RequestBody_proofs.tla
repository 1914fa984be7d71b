------------------------- MODULE RequestBody_proofs -------------------------
(***************************************************************************)
(* Proofs about the request body: every user text reaches the upstream     *)
(* scrubbed in its place, and scrubbing and restoring change nothing else. *)
(*                                                                         *)
(* The loop writes through paths, and a path is a list of names in which   *)
(* the keys are no longer told apart.  The argument: a key without a dot   *)
(* gives one name, so a path of such keys leads back to its position; a    *)
(* position that is extracted is a string, so nothing lies below it and    *)
(* writing it changes the value of one node; and the texts are therefore   *)
(* scrubbed one by one, in whatever order the loop takes them.             *)
(***************************************************************************)
EXTENDS RequestBody, SequenceTheorems, TLAPS

\* The facts about FlattenSeq there hold whatever the alphabet is.
Flat == INSTANCE RestoreText_proofs
          WITH Letter <- {"a"}, Digit <- {"0"}, Other <- {}, MaxLabelLen <- 1, MaxIndexLen <- 1,
               Lookup <- <<>>

\* The instance is one that the theorems of RestoreText_proofs are about.
LEMMA FlatAssumption == Flat!FormatAssumption
BY DEF Flat!FormatAssumption, Flat!Open, Flat!Close, Flat!Underscore

\* Both modules take FlattenSeq from the same place.
LEMMA SameFlatten == \A s : Flat!FlattenSeq(s) = FlattenSeq(s)
BY DEF Flat!FlattenSeq, FlattenSeq

\* joinPath makes a list of names.
LEMMA PathType ==
  ASSUME NEW q \in Positions
  PROVE  Path(q) \in Seq(STRING)
<1>1. Flat!FlattenSeq(q) \in Seq(STRING)
  BY FlatAssumption, Flat!FlattenType DEF Positions
<1>. QED
  BY <1>1, SameFlatten DEF Path

\* Every key on the way is one name: not empty and without a dot.
Plain(q) == \A k \in DOMAIN q : Len(q[k]) = 1

\* Only then does splitPath lead back to where joinPath came from.
LEMMA PlainPath ==
  ASSUME NEW q \in Positions, Plain(q)
  PROVE  /\ Path(q) \in Seq(STRING) /\ Len(Path(q)) = Len(q)
         /\ \A k \in 1..Len(q) : Path(q)[k] = q[k][1]
         /\ At(Path(q)) = q
<1>1. PICK C : C = Seq(STRING)
  OBVIOUS
<1>2. q \in Seq(C) /\ Len(q) \in Nat /\ DOMAIN q = 1..Len(q)
  BY <1>1 DEF Positions
<1>3. ASSUME NEW k \in 1..Len(q)
      PROVE  q[k] \in Seq(STRING) /\ q[k][1] \in STRING /\ q[k] = <<q[k][1]>>
  <2>1. q[k] \in C /\ k \in DOMAIN q
    BY <1>2
  <2>2. q[k] \in Seq(STRING) /\ Len(q[k]) = 1
    BY <1>1, <2>1 DEF Plain
  <2>. QED
    BY <2>2
<1>4. PICK names \in Seq(STRING) : names = [k \in 1..Len(q) |-> q[k][1]] /\ Len(names) = Len(q)
  <2>1. PICK names \in [1..Len(q) -> STRING] : names = [k \in 1..Len(q) |-> q[k][1]]
    BY <1>3
  <2>2. names \in Seq(STRING) /\ Len(names) = Len(q)
    BY <1>2, <2>1
  <2>. QED
    BY <2>1, <2>2
<1>5. Path(q) = names
  <2>1. CASE Len(q) = 0
    <3>1. q = <<>> /\ names = <<>>
      BY <1>2, <1>4, <2>1
    <3>. QED
      BY <3>1 DEF Path, FlattenSeq
  <2>2. CASE Len(q) # 0
    <3>1. PICK F : Flat!IsJoin(F, q, Len(q)) /\ Flat!FlattenSeq(q) = F[Len(q)]
      BY <1>2, <2>2, FlatAssumption, Flat!FlattenIsJoin
    <3>2. \A k \in 1..Len(q) : F[k] = IF k = 1 THEN q[k] ELSE F[k - 1] \o q[k]
      BY <3>1 DEF Flat!IsJoin
    <3>. DEFINE T == {n \in Nat : n \in 1..Len(q) => F[n] = SubSeq(names, 1, n)}
    <3>3. 0 \in T
      OBVIOUS
    <3>4. ASSUME NEW n \in Nat, n \in T PROVE n + 1 \in T
      <4>. SUFFICES ASSUME n + 1 \in 1..Len(q) PROVE F[n + 1] = SubSeq(names, 1, n + 1)
        OBVIOUS
      <4>1. q[n + 1] = <<names[n + 1]>> /\ (n + 1) - 1 = n /\ names[n + 1] \in STRING
        BY <1>3, <1>4
      <4>2. CASE n = 0
        BY <1>4, <3>2, <4>1, <4>2
      <4>3. CASE n # 0
        <5>0. n \in 1..Len(q) /\ n + 1 # 1
          BY <1>2, <4>3
        <5>1. F[n] = SubSeq(names, 1, n) /\ F[n + 1] = F[n] \o q[n + 1]
          BY <3>2, <3>4, <4>1, <5>0
        <5>2. SubSeq(names, 1, n + 1) = SubSeq(names, 1, n) \o <<names[n + 1]>>
          BY <1>4
        <5>. QED
          BY <4>1, <5>1, <5>2
      <4>. QED
        BY <4>2, <4>3
    <3>. HIDE DEF T
    <3>5. \A n \in Nat : n \in T
      BY <3>3, <3>4, FlatAssumption, Flat!Induction
    <3>6. F[Len(q)] = SubSeq(names, 1, Len(q))
      BY <1>2, <2>2, <3>5 DEF T
    <3>7. SubSeq(names, 1, Len(q)) = names
      BY <1>4, SubSeqFull
    <3>. QED
      BY <3>1, <3>6, <3>7, SameFlatten DEF Path
  <2>. QED
    BY <2>1, <2>2
<1>6. At(names) = q
  <2>1. At(names) = [k \in 1..Len(q) |-> q[k]]
    BY <1>2, <1>3, <1>4 DEF At
  <2>. QED
    BY <1>2, <2>1
<1>. QED
  BY <1>2, <1>4, <1>5, <1>6

\* The first n elements of a sequence.
LEMMA FirstOf ==
  ASSUME NEW C, NEW s \in Seq(C), NEW n \in 0..Len(s)
  PROVE  /\ SubSeq(s, 1, n) \in Seq(C) /\ Len(SubSeq(s, 1, n)) = n
         /\ \A k \in 1..n : SubSeq(s, 1, n)[k] = s[k]
<1>1. n \in Nat /\ Len(s) \in Nat /\ n <= Len(s)
  OBVIOUS
<1>2. \A k \in 1..n : s[k] \in C
  BY <1>1
<1>3. SubSeq(s, 1, n) \in Seq(C) /\ Len(SubSeq(s, 1, n)) = IF 1 <= n THEN n - 1 + 1 ELSE 0
  BY <1>1, <1>2, SubSeqProperties
<1>4. ASSUME NEW k \in 1..n PROVE SubSeq(s, 1, n)[k] = s[k]
  BY <1>1
<1>. QED
  BY <1>1, <1>3, <1>4

\* A sequence without its last element.
LEMMA FrontOf ==
  ASSUME NEW C, NEW s \in Seq(C), s # <<>>
  PROVE  /\ Front(s) \in Seq(C) /\ Len(Front(s)) = Len(s) - 1 /\ Len(s) \in Nat \ {0}
         /\ \A k \in 1..(Len(s) - 1) : Front(s)[k] = s[k]
<1>1. Len(s) \in Nat \ {0} /\ Len(s) - 1 \in 0..Len(s)
  OBVIOUS
<1>. QED
  BY <1>1, FirstOf DEF Front

\* The position of a path is a position, of as many keys.
LEMMA AtType ==
  ASSUME NEW path \in Seq(STRING)
  PROVE  /\ At(path) \in Positions /\ Len(At(path)) = Len(path)
         /\ \A k \in 1..Len(path) : At(path)[k] = <<path[k]>>
<1>1. PICK C : C = Seq(STRING)
  OBVIOUS
<1>2. ASSUME NEW k \in 1..Len(path) PROVE <<path[k]>> \in C
  <2>1. path[k] \in STRING
    OBVIOUS
  <2>. QED
    BY <1>1, <2>1
<1>3. PICK a \in [1..Len(path) -> C] : a = At(path) /\ \A k \in 1..Len(path) : a[k] = <<path[k]>>
  <2>1. At(path) = [k \in 1..Len(path) |-> <<path[k]>>]
    BY DEF At
  <2>2. [k \in 1..Len(path) |-> <<path[k]>>] \in [1..Len(path) -> C]
    BY <1>2
  <2>. QED
    BY <2>1, <2>2
<1>4. a \in Seq(C) /\ Len(a) = Len(path)
  <2>1. Len(path) \in Nat
    OBVIOUS
  <2>. QED
    BY <1>3, <2>1
<1>. QED
  BY <1>1, <1>3, <1>4 DEF Positions

\* A position without its last key.
LEMMA FrontFacts ==
  ASSUME NEW q \in Positions, q # <<>>
  PROVE  /\ Front(q) \in Positions /\ Len(Front(q)) = Len(q) - 1 /\ Len(q) \in Nat \ {0}
         /\ \A k \in 1..(Len(q) - 1) : Front(q)[k] = q[k]
<1>1. PICK C : C = Seq(STRING)
  OBVIOUS
<1>2. q \in Seq(C) /\ Len(q) \in Nat \ {0}
  BY <1>1 DEF Positions
<1>3. /\ Front(q) \in Seq(C) /\ Len(Front(q)) = Len(q) - 1
      /\ \A k \in 1..(Len(q) - 1) : Front(q)[k] = q[k]
  BY <1>2, FrontOf
<1>. QED
  BY <1>1, <1>2, <1>3 DEF Positions

\* Positions are equal that have the same keys.
LEMMA SamePositions ==
  ASSUME NEW q \in Positions, NEW r \in Positions, Len(q) = Len(r),
         \A k \in 1..Len(q) : q[k] = r[k]
  PROVE  q = r
BY SMTT(30) DEF Positions

\* The position of a path without its last name.
LEMMA AtFront ==
  ASSUME NEW path \in Seq(STRING), path # <<>>
  PROVE  At(Front(path)) = Front(At(path))
<1>1. /\ Len(path) \in Nat \ {0} /\ Front(path) \in Seq(STRING) /\ Len(Front(path)) = Len(path) - 1
      /\ \A k \in 1..(Len(path) - 1) : Front(path)[k] = path[k]
  BY FrontOf
<1>2. PICK p \in Positions : /\ p = At(path) /\ Len(p) = Len(path) /\ p # <<>>
                             /\ \A k \in 1..Len(path) : p[k] = <<path[k]>>
  <2>1. Len(<<>>) = 0
    OBVIOUS
  <2>. QED
    BY <1>1, <2>1, AtType
<1>3. PICK f \in Seq(STRING) : f = Front(path)
  BY <1>1
<1>4. PICK a \in Positions : /\ a = At(f) /\ Len(a) = Len(f)
                             /\ \A k \in 1..Len(f) : a[k] = <<f[k]>>
  BY AtType
<1>5. PICK b \in Positions : /\ b = Front(p) /\ Len(b) = Len(p) - 1
                             /\ \A k \in 1..(Len(p) - 1) : b[k] = p[k]
  BY <1>2, FrontFacts
<1>6. ASSUME NEW k \in 1..Len(a) PROVE a[k] = b[k]
  <2>1. k \in 1..Len(path) /\ k \in 1..(Len(path) - 1)
    BY <1>1, <1>3, <1>4
  <2>. QED
    BY <1>1, <1>2, <1>3, <1>4, <1>5, <2>1
<1>7. Len(a) = Len(b)
  BY <1>1, <1>2, <1>3, <1>4, <1>5
<1>. QED
  BY <1>2, <1>3, <1>4, <1>5, <1>6, <1>7, SamePositions

-----------------------------------------------------------------------------
(***************************************************************************)
(* Documents as trees.                                                     *)
(***************************************************************************)
Tree(doc) ==
  /\ <<>> \in DOMAIN doc /\ DOMAIN doc \subseteq Positions
  /\ \A q \in DOMAIN doc :
       q # <<>> =>
         /\ Front(q) \in DOMAIN doc
         /\ \/ doc[Front(q)].kind = "object"
            \/ doc[Front(q)].kind = "array" /\ \E d \in Indices : Last(q) = <<d>>

\* Everything on the way to a position of a document is in the document.
LEMMA OnTheWay ==
  ASSUME NEW doc, Tree(doc), NEW r \in DOMAIN doc
  PROVE  \A n \in 0..Len(r) : SubSeq(r, 1, n) \in DOMAIN doc
<1>1. PICK C : C = Seq(STRING)
  OBVIOUS
<1>2. r \in Seq(C) /\ Len(r) \in Nat
  BY <1>1 DEF Tree, Positions
<1>. DEFINE T == {k \in Nat : k \in 0..Len(r) => SubSeq(r, 1, Len(r) - k) \in DOMAIN doc}
<1>3. 0 \in T
  <2>1. SubSeq(r, 1, Len(r)) = r
    BY <1>2, SubSeqFull
  <2>2. Len(r) - 0 = Len(r)
    BY <1>2
  <2>. QED
    BY <2>1, <2>2
<1>4. ASSUME NEW k \in Nat, k \in T PROVE k + 1 \in T
  <2>. SUFFICES ASSUME k + 1 \in 0..Len(r) PROVE SubSeq(r, 1, Len(r) - (k + 1)) \in DOMAIN doc
    OBVIOUS
  <2>1. PICK n \in Nat : n = Len(r) - k /\ n # 0 /\ n <= Len(r) /\ Len(r) - (k + 1) = n - 1
    BY <1>2
  <2>2. PICK q \in Seq(C) : q = SubSeq(r, 1, n) /\ Len(q) = n /\ \A j \in 1..n : q[j] = r[j]
    <3>1. n \in 0..Len(r)
      BY <1>2, <2>1
    <3>. QED
      BY ZenonT(60), <1>2, <3>1, FirstOf
  <2>3. q \in DOMAIN doc /\ q # <<>>
    <3>1. k \in 0..Len(r)
      BY <1>2
    <3>. QED
      BY <1>4, <2>1, <2>2, <3>1
  <2>4. Front(q) \in DOMAIN doc
    BY <2>3 DEF Tree
  <2>5. Front(q) = SubSeq(r, 1, n - 1)
    <3>1. /\ Front(q) \in Seq(C) /\ Len(Front(q)) = n - 1
          /\ \A j \in 1..(n - 1) : Front(q)[j] = q[j]
      BY <2>2, <2>3, FrontOf
    <3>2. PICK m \in Nat : m = n - 1 /\ m <= Len(r)
      BY <1>2, <2>1
    <3>3. /\ SubSeq(r, 1, m) \in Seq(C) /\ Len(SubSeq(r, 1, m)) = m
          /\ \A j \in 1..m : SubSeq(r, 1, m)[j] = r[j]
      BY <1>2, <3>2
    <3>4. \A j \in 1..m : Front(q)[j] = r[j]
      BY <2>2, <3>1, <3>2
    <3>. QED
      BY <3>1, <3>2, <3>3, <3>4, SeqEqual
  <2>. QED
    BY <2>1, <2>4, <2>5
<1>. HIDE DEF T
<1>5. \A k \in Nat : k \in T
  BY <1>3, <1>4, FlatAssumption, Flat!Induction
<1>6. ASSUME NEW n \in 0..Len(r) PROVE SubSeq(r, 1, n) \in DOMAIN doc
  <2>1. Len(r) - n \in Nat /\ Len(r) - n \in 0..Len(r) /\ Len(r) - (Len(r) - n) = n
    BY <1>2
  <2>. QED
    BY <1>5, <2>1 DEF T
<1>. QED
  BY <1>6

\* A string has nothing below it.
LEMMA StringIsLeaf ==
  ASSUME NEW doc, Tree(doc), NEW q \in DOMAIN doc, doc[q].kind = "string",
         NEW r \in DOMAIN doc, IsPrefix(q, r)
  PROVE  r = q
<1>1. PICK C : C = Seq(STRING)
  OBVIOUS
<1>2. q \in Seq(C) /\ r \in Seq(C) /\ Len(q) \in Nat /\ Len(r) \in Nat
  BY <1>1 DEF Tree, Positions
<1>3. Len(q) <= Len(r) /\ SubSeq(r, 1, Len(q)) = q
  <2>1. SubSeq(q, 1, Len(q)) = q
    BY <1>2, SubSeqFull
  <2>. QED
    BY <2>1 DEF IsPrefix
<1>4. CASE Len(q) = Len(r)
  <2>1. SubSeq(r, 1, Len(r)) = r
    BY <1>2, SubSeqFull
  <2>. QED
    BY <1>3, <1>4, <2>1
<1>5. CASE Len(q) # Len(r)
  <2>1. PICK n \in Nat : n = Len(q) + 1 /\ n \in 0..Len(r) /\ Len(q) \in 0..Len(r)
    BY <1>2, <1>3, <1>5
  <2>2. SubSeq(r, 1, n) \in DOMAIN doc
    BY <2>1, OnTheWay
  <2>3. PICK p \in Seq(C) : p = SubSeq(r, 1, n) /\ Len(p) = n /\ \A j \in 1..n : p[j] = r[j]
    <3>1. /\ SubSeq(r, 1, n) \in Seq(C) /\ Len(SubSeq(r, 1, n)) = n
          /\ \A j \in 1..n : SubSeq(r, 1, n)[j] = r[j]
      BY <1>2, <2>1, FirstOf
    <3>. QED
      BY <3>1
  <2>4. p # <<>>
    BY <2>1, <2>3
  <2>5. Front(p) = q
    <3>1. /\ Front(p) \in Seq(C) /\ Len(Front(p)) = n - 1
          /\ \A j \in 1..(n - 1) : Front(p)[j] = p[j]
      BY <2>3, <2>4, FrontOf
    <3>2. \A j \in 1..Len(q) : q[j] = r[j]
      <4>1. \A j \in 1..Len(q) : SubSeq(r, 1, Len(q))[j] = r[j]
        BY <1>2, <1>3
      <4>. QED
        BY <1>3, <4>1
    <3>3. Len(Front(p)) = Len(q) /\ \A j \in 1..Len(q) : Front(p)[j] = q[j]
      BY <1>2, <2>1, <2>3, <3>1, <3>2
    <3>. QED
      BY <1>2, <3>1, <3>3, SeqEqual
  <2>6. doc[q].kind = "object" \/ doc[q].kind = "array"
    BY <2>2, <2>3, <2>4, <2>5 DEF Tree
  <2>. QED
    BY <2>6
<1>. QED
  BY <1>4, <1>5

\* What the assumption says of the bodies, before and after they are decoded.
LEMMA DocumentsAreTrees ==
  ASSUME NEW doc \in Documents
  PROVE  /\ Tree(doc) /\ Tree(Decoded(doc)) /\ DOMAIN Decoded(doc) = DOMAIN doc
         /\ \A q \in DOMAIN doc :
              /\ Decoded(doc)[q] = Node(doc[q].kind, Decoded(doc)[q].value)
              /\ doc[q].kind # "number" => Decoded(doc)[q] = doc[q]
<1>1. Tree(doc)
  BY RequestBodyAssumption DEF Tree
<1>2. DOMAIN Decoded(doc) = DOMAIN doc
  BY DEF Decoded
<1>3. ASSUME NEW q \in DOMAIN doc
      PROVE  /\ Decoded(doc)[q] = Node(doc[q].kind, Decoded(doc)[q].value)
             /\ Decoded(doc)[q].kind = doc[q].kind
             /\ doc[q].kind # "number" => Decoded(doc)[q] = doc[q]
  <2>1. doc[q] = Node(doc[q].kind, doc[q].value)
    BY RequestBodyAssumption
  <2>. QED
    BY <2>1 DEF Decoded, Node
<1>4. Tree(Decoded(doc))
  BY <1>1, <1>2, <1>3 DEF Tree
<1>. QED
  BY <1>1, <1>2, <1>3, <1>4

-----------------------------------------------------------------------------
(***************************************************************************)
(* What ExtractUserTexts returns.                                          *)
(***************************************************************************)
LEMMA AppendFacts ==
  ASSUME NEW q \in Positions, NEW key
  PROVE  /\ Append(q, key) # <<>> /\ Front(Append(q, key)) = q /\ Last(Append(q, key)) = key
         /\ Len(Append(q, key)) = Len(q) + 1 /\ Append(q, key)[Len(q) + 1] = key
         /\ \A k \in 1..Len(q) : Append(q, key)[k] = q[k]
<1>1. PICK C : C = Seq(STRING) \cup {key}
  OBVIOUS
<1>2. q \in Seq(C) /\ key \in C /\ Len(q) \in Nat
  <2>1. q \in Seq(Seq(STRING)) /\ Len(q) \in Nat
    BY DEF Positions
  <2>2. Seq(STRING) \subseteq C /\ key \in C
    BY <1>1
  <2>3. \A k \in 1..Len(q) : q[k] \in Seq(STRING)
    BY <2>1, ElementOfSeq
  <2>4. q \in [1..Len(q) -> C]
    BY <2>1, <2>2, <2>3
  <2>. QED
    BY <2>1, <2>2, <2>4
<1>3. /\ Append(q, key) \in Seq(C) /\ Append(q, key) # <<>> /\ Len(Append(q, key)) = Len(q) + 1
      /\ \A k \in 1..Len(q) : Append(q, key)[k] = q[k]
      /\ Append(q, key)[Len(q) + 1] = key
  BY <1>2, AppendProperties
<1>4. PICK r \in Seq(C) : /\ r = Append(q, key) /\ r # <<>> /\ Len(r) = Len(q) + 1
                          /\ \A k \in 1..Len(q) : r[k] = q[k]
  BY <1>3
<1>5. /\ Front(r) \in Seq(C) /\ Len(Front(r)) = Len(r) - 1
      /\ \A k \in 1..(Len(r) - 1) : Front(r)[k] = r[k]
  BY <1>4, FrontOf
<1>6. Front(r) = q
  <2>1. Len(Front(r)) = Len(q) /\ \A k \in 1..Len(q) : Front(r)[k] = q[k]
    BY <1>2, <1>4, <1>5
  <2>. QED
    BY <1>2, <1>5, <2>1, SeqEqual
<1>. QED
  BY <1>2, <1>3, <1>4, <1>6 DEF Last

\* Every location is a string of the document, and not its root.
LEMMA TextsAreStrings ==
  ASSUME NEW doc, Tree(doc)
  PROVE  \A q \in TextsOf(doc) : q \in DOMAIN doc /\ q # <<>> /\ doc[q].kind = "string"
<1>1. ASSUME NEW c, NEW q \in ContentTexts(doc, c), c # <<>>
      PROVE  q \in DOMAIN doc /\ q # <<>> /\ doc[q].kind = "string"
  <2>1. CASE q = c
    <3>1. Is(doc, c, "string") \/ \E p \in DOMAIN doc : q = Append(p, <<"text">>) /\ Is(doc, q, "string")
      BY <1>1 DEF ContentTexts, Children
    <3>. QED
      BY <1>1, <2>1, <3>1 DEF Is
  <2>2. CASE q # c
    <3>1. PICK p \in DOMAIN doc : q = Append(p, <<"text">>) /\ Is(doc, q, "string")
      BY <1>1, <2>2 DEF ContentTexts, Children
    <3>. QED
      BY <3>1, AppendFacts DEF Is, Tree
  <2>. QED
    BY <2>1, <2>2
<1>2. ASSUME NEW c, NEW q \in InputTexts(doc, c), c # <<>>
      PROVE  q \in DOMAIN doc /\ q # <<>> /\ doc[q].kind = "string"
  <2>1. \/ q = c /\ Is(doc, c, "string")
        \/ q \in Children(doc, c) /\ doc[q].kind = "string"
        \/ \E r \in Children(doc, c) : q \in ContentTexts(doc, Append(r, <<"content">>))
    BY <1>2 DEF InputTexts
  <2>2. ASSUME NEW r \in Children(doc, c) PROVE Append(r, <<"content">>) # <<>>
    BY AppendFacts DEF Children, Tree
  <2>. QED
    BY <1>1, <1>2, <2>1, <2>2 DEF Children, Is
<1>3. TAKE q \in TextsOf(doc)
<1>4. PICK o \in Visited(doc) :
        \/ q \in ContentTexts(doc, Append(o, <<"content">>))
        \/ q \in InputTexts(doc, Append(o, <<"input">>))
        \/ q = Append(o, <<"prompt">>) /\ Is(doc, q, "string")
  BY DEF TextsOf
<1>5. o \in Positions
  BY DEF Visited, Tree
<1>. QED
  BY <1>1, <1>2, <1>4, <1>5, AppendFacts DEF Is

\* Decoding a body, which changes numbers only, does not change its texts.
LEMMA SameTexts ==
  ASSUME NEW c, NEW d, DOMAIN c = DOMAIN d,
         \A q \in DOMAIN c : c[q].kind = d[q].kind,
         \A q \in DOMAIN c : c[q].kind = "string" => c[q].value = d[q].value
  PROVE  TextsOf(c) = TextsOf(d)
<1>1. \A q, kind : Is(c, q, kind) <=> Is(d, q, kind)
  BY DEF Is
<1>2. \A q : Children(c, q) = Children(d, q)
  BY DEF Children
<1>3. ASSUME NEW q PROVE ContentTexts(c, q) = ContentTexts(d, q)
  <2>1. \A p : /\ Is(c, Append(p, <<"type">>), "string")
               /\ c[Append(p, <<"type">>)].value = "text"
           <=> /\ Is(d, Append(p, <<"type">>), "string")
               /\ d[Append(p, <<"type">>)].value = "text"
    BY DEF Is
  <2>2. {p \in Children(c, q) : /\ Is(c, Append(p, <<"type">>), "string")
                                /\ c[Append(p, <<"type">>)].value = "text"
                                /\ Is(c, Append(p, <<"text">>), "string")}
      = {p \in Children(d, q) : /\ Is(d, Append(p, <<"type">>), "string")
                                /\ d[Append(p, <<"type">>)].value = "text"
                                /\ Is(d, Append(p, <<"text">>), "string")}
    BY <1>1, <1>2, <2>1
  <2>. QED
    BY <1>1, <2>2 DEF ContentTexts
<1>4. ASSUME NEW q PROVE InputTexts(c, q) = InputTexts(d, q)
  <2>1. {r \in Children(c, q) : c[r].kind = "string"} = {r \in Children(d, q) : d[r].kind = "string"}
    BY <1>2 DEF Children
  <2>2. UNION {ContentTexts(c, Append(r, <<"content">>)) : r \in Children(c, q)}
      = UNION {ContentTexts(d, Append(r, <<"content">>)) : r \in Children(d, q)}
    BY <1>2, <1>3
  <2>. QED
    BY <1>1, <2>1, <2>2 DEF InputTexts
<1>5. Visited(c) = Visited(d)
  BY DEF Visited
<1>6. ASSUME NEW q
      PROVE  {r \in {Append(q, <<"prompt">>)} : Is(c, r, "string")}
           = {r \in {Append(q, <<"prompt">>)} : Is(d, r, "string")}
  BY <1>1
<1>7. ASSUME NEW q
      PROVE  (IF Path(q) = <<>> \/ IsMessagesArray(Path(q))
              THEN ContentTexts(c, Append(q, <<"content">>)) ELSE {})
               \cup InputTexts(c, Append(q, <<"input">>))
               \cup {r \in {Append(q, <<"prompt">>)} : Is(c, r, "string")}
           = (IF Path(q) = <<>> \/ IsMessagesArray(Path(q))
              THEN ContentTexts(d, Append(q, <<"content">>)) ELSE {})
               \cup InputTexts(d, Append(q, <<"input">>))
               \cup {r \in {Append(q, <<"prompt">>)} : Is(d, r, "string")}
  BY <1>3, <1>4, <1>6
<1>. QED
  BY <1>5, <1>7 DEF TextsOf

-----------------------------------------------------------------------------
(***************************************************************************)
(* The user's texts are among them.                                        *)
(***************************************************************************)
LEMMA RootMember ==
  ASSUME NEW name
  PROVE  /\ At(<<name>>) = Append(<<>>, <<name>>) /\ Front(At(<<name>>)) = <<>>
         /\ At(<<name>>) # <<>> /\ Last(At(<<name>>)) = <<name>>
         /\ Len(At(<<name>>)) = 1 /\ At(<<name>>)[1] = <<name>>
<1>1. At(<<name>>) = <<<<name>>>>
  BY DEF At
<1>2. Append(<<>>, <<name>>) = <<<<name>>>>
  OBVIOUS
<1>3. <<>> \in Positions /\ Len(<<>>) = 0
  BY DEF Positions
<1>4. PICK r : r = Append(<<>>, <<name>>)
  OBVIOUS
<1>5. r # <<>> /\ Front(r) = <<>> /\ Last(r) = <<name>>
  BY <1>3, <1>4, AppendFacts
<1>6. Len(r) = 1 /\ r[1] = <<name>>
  BY <1>2, <1>4
<1>. QED
  BY <1>1, <1>2, <1>4, <1>5, <1>6

\* What has a member of that name is an object.
LEMMA NamedMember ==
  ASSUME NEW doc, Tree(doc), NEW q \in DOMAIN doc, q # <<>>, NEW name, Last(q) = <<name>>,
         name \notin Indices
  PROVE  Front(q) \in DOMAIN doc /\ doc[Front(q)].kind = "object"
<1>1. ASSUME NEW d \in Indices, <<name>> = <<d>> PROVE FALSE
  <2>1. <<name>>[1] = name /\ <<d>>[1] = d
    OBVIOUS
  <2>. QED
    BY <1>1, <2>1
<1>. QED
  BY <1>1 DEF Tree

\* What ends with a key is what lies before it, and the key.
LEMMA LastAppended ==
  ASSUME NEW q \in Positions, q # <<>>
  PROVE  q = Append(Front(q), Last(q))
<1>1. PICK C : C = Seq(STRING)
  OBVIOUS
<1>2. q \in Seq(C) /\ Len(q) \in Nat \ {0}
  BY <1>1 DEF Positions
<1>3. q[Len(q)] \in C
  BY <1>2
<1>4. PICK f \in Seq(C) : /\ f = Front(q) /\ Len(f) = Len(q) - 1
                          /\ \A k \in 1..(Len(q) - 1) : f[k] = q[k]
  BY <1>2, FrontOf
<1>5. PICK r \in Seq(C) : /\ r = Append(f, q[Len(q)]) /\ Len(r) = Len(f) + 1
                          /\ \A k \in 1..Len(f) : r[k] = f[k]
                          /\ r[Len(f) + 1] = q[Len(q)]
  <2>1. PICK x \in C : x = q[Len(q)]
    BY <1>3
  <2>2. /\ Append(f, x) \in Seq(C) /\ Len(Append(f, x)) = Len(f) + 1
        /\ \A k \in 1..Len(f) : Append(f, x)[k] = f[k]
        /\ Append(f, x)[Len(f) + 1] = x
    BY AppendProperties
  <2>. QED
    BY <2>1, <2>2
<1>6. Len(r) = Len(q) /\ \A k \in 1..Len(q) : r[k] = q[k]
  <2>1. Len(r) = Len(q)
    BY <1>2, <1>4, <1>5
  <2>2. ASSUME NEW k \in 1..Len(q) PROVE r[k] = q[k]
    <3>1. CASE k = Len(q)
      BY <1>2, <1>4, <1>5, <3>1
    <3>2. CASE k # Len(q)
      <4>1. k \in 1..Len(f) /\ k \in 1..(Len(q) - 1)
        BY <1>2, <1>4, <3>2
      <4>. QED
        BY <1>4, <1>5, <4>1
    <3>. QED
      BY <3>1, <3>2
  <2>. QED
    BY <2>1, <2>2
<1>. QED
  BY <1>2, <1>4, <1>5, <1>6, SeqEqual DEF Last

\* The content of a message m: its string, or the text of one of its parts.
UserContent(doc, m) ==
  {q \in DOMAIN doc :
     \/ q = Append(m, <<"content">>)
     \/ /\ Len(q) = Len(m) + 3 /\ SubSeq(q, 1, Len(m) + 1) = Append(m, <<"content">>)
        /\ Last(q) = <<"text">>
        /\ doc[Front(Front(q))].kind = "array"
        /\ Is(doc, Append(Front(q), <<"type">>), "string")
        /\ doc[Append(Front(q), <<"type">>)].value = "text"}

\* extractContent finds it.
LEMMA UserContentFound ==
  ASSUME NEW doc, Tree(doc), "content" \notin Indices,
         NEW m \in DOMAIN doc, NEW q \in UserContent(doc, m), Is(doc, q, "string")
  PROVE  doc[m].kind = "object" /\ q \in ContentTexts(doc, Append(m, <<"content">>))
<1>1. m \in Positions /\ q \in Positions /\ Len(m) \in Nat
  BY DEF Tree, UserContent, Positions
<1>2. PICK c : c = Append(m, <<"content">>)
  OBVIOUS
<1>3. c # <<>> /\ Front(c) = m /\ Last(c) = <<"content">> /\ Len(c) = Len(m) + 1
  BY <1>1, <1>2, AppendFacts
<1>4. ASSUME c \in DOMAIN doc PROVE doc[m].kind = "object"
  BY <1>3, <1>4, NamedMember
<1>5. CASE q = c
  BY <1>2, <1>4, <1>5 DEF ContentTexts, Is
<1>6. CASE q # c
  <2>1. /\ Len(q) = Len(m) + 3 /\ SubSeq(q, 1, Len(m) + 1) = c
        /\ Last(q) = <<"text">> /\ doc[Front(Front(q))].kind = "array"
        /\ Is(doc, Append(Front(q), <<"type">>), "string")
        /\ doc[Append(Front(q), <<"type">>)].value = "text"
    BY <1>2, <1>6 DEF UserContent
  <2>2. q # <<>>
    BY <1>1, <2>1
  <2>3. PICK p \in Positions : /\ p = Front(q) /\ p \in DOMAIN doc /\ Len(p) = Len(m) + 2
                               /\ \A k \in 1..(Len(m) + 2) : p[k] = q[k]
    <3>1. /\ Front(q) \in Positions /\ Len(Front(q)) = Len(q) - 1
          /\ \A k \in 1..(Len(q) - 1) : Front(q)[k] = q[k]
      BY <1>1, <2>2, FrontFacts
    <3>2. Len(q) - 1 = Len(m) + 2
      BY <1>1, <2>1
    <3>3. Front(q) \in DOMAIN doc
      BY <2>2 DEF UserContent, Tree
    <3>. QED
      BY <3>1, <3>2, <3>3
  <2>4. p # <<>>
    BY <1>1, <2>3
  <2>5. PICK r \in Positions : /\ r = Front(p) /\ r \in DOMAIN doc /\ Len(r) = Len(m) + 1
                               /\ \A k \in 1..(Len(m) + 1) : r[k] = p[k]
    <3>1. /\ Front(p) \in Positions /\ Len(Front(p)) = Len(p) - 1
          /\ \A k \in 1..(Len(p) - 1) : Front(p)[k] = p[k]
      BY <2>3, <2>4, FrontFacts
    <3>2. Len(p) - 1 = Len(m) + 1
      BY <1>1, <2>3
    <3>3. Front(p) \in DOMAIN doc
      BY <2>3, <2>4 DEF Tree
    <3>. QED
      BY <3>1, <3>2, <3>3
  <2>6. r = c
    <3>1. PICK C : C = Seq(STRING)
      OBVIOUS
    <3>2. q \in Seq(C) /\ r \in Seq(C) /\ Len(m) + 1 \in 0..Len(q)
      BY <1>1, <2>1, <2>5, <3>1 DEF Positions
    <3>3. PICK u \in Seq(C) : /\ u = SubSeq(q, 1, Len(m) + 1) /\ Len(u) = Len(m) + 1
                              /\ \A k \in 1..(Len(m) + 1) : u[k] = q[k]
      <4>1. /\ SubSeq(q, 1, Len(m) + 1) \in Seq(C) /\ Len(SubSeq(q, 1, Len(m) + 1)) = Len(m) + 1
            /\ \A k \in 1..(Len(m) + 1) : SubSeq(q, 1, Len(m) + 1)[k] = q[k]
        BY <3>2, FirstOf
      <4>. QED
        BY <4>1
    <3>4. \A k \in 1..(Len(m) + 1) : r[k] = u[k]
      <4>1. \A k \in 1..(Len(m) + 1) : k \in 1..(Len(m) + 2)
        BY <1>1
      <4>. QED
        BY <2>3, <2>5, <3>3, <4>1
    <3>. QED
      BY <2>1, <2>5, <3>2, <3>3, <3>4, SeqEqual
  <2>7. p \in Children(doc, c) /\ doc[c].kind = "array" /\ c \in DOMAIN doc
    BY <2>1, <2>3, <2>4, <2>5, <2>6 DEF Children
  <2>8. q = Append(p, <<"text">>)
    BY <1>1, <2>1, <2>2, <2>3, LastAppended
  <2>. QED
    BY <1>2, <1>4, <2>1, <2>3, <2>7, <2>8 DEF ContentTexts, Is
<1>. QED
  BY <1>5, <1>6

\* A request's input and messages, if they are arrays.
Items(doc, name) ==
  IF Is(doc, At(<<name>>), "array") THEN Children(doc, At(<<name>>)) ELSE {}

\* The user texts, said of one request.
LEMMA UserTextsAre ==
  ASSUME NEW q \in UserTexts
  PROVE  /\ Is(request, q, "string")
         /\ \/ q = At(<<"prompt">>)
            \/ q = At(<<"input">>)
            \/ q \in Items(request, "input")
            \/ \E m \in Items(request, "messages") : q \in UserContent(request, m)
            \/ \E m \in Items(request, "input") : q \in UserContent(request, m)
<1>1. Is(request, q, "string") /\ q \in DOMAIN request
  BY DEF UserTexts, Is
<1>2. \/ q = At(<<"prompt">>)
      \/ q = At(<<"input">>)
      \/ q \in Items(request, "input")
      \/ \E m \in Items(request, "messages") \cup Items(request, "input") : q \in UserContent(request, m)
  BY DEF UserTexts, Items, UserContent
<1>. QED
  BY <1>1, <1>2

\* The objects to which the search of extract comes.
LEMMA RootVisited ==
  ASSUME NEW doc, Tree(doc), NEW name, name \notin Indices, At(<<name>>) \in DOMAIN doc
  PROVE  <<>> \in Visited(doc)
<1>1. doc[<<>>].kind = "object"
  BY RootMember, NamedMember
<1>. QED
  BY <1>1 DEF Tree, Visited

\* So is every message.
LEMMA MessageVisited ==
  ASSUME NEW doc, Tree(doc), Indices \subseteq STRING \ {"messages", "content", "input", "prompt"},
         NEW m \in Items(doc, "messages"), doc[m].kind = "object"
  PROVE  m \in Visited(doc) /\ IsMessagesArray(Path(m))
<1>1. PICK a : a = At(<<"messages">>)
  OBVIOUS
<1>2. /\ a \in DOMAIN doc /\ doc[a].kind = "array" /\ Len(a) = 1 /\ a[1] = <<"messages">>
      /\ m \in DOMAIN doc /\ m # <<>> /\ Front(m) = a
  BY <1>1, RootMember DEF Items, Is, Children
<1>3. PICK d \in Indices : Last(m) = <<d>>
  BY <1>2 DEF Tree
<1>4. m \in Positions /\ a \in Positions
  BY <1>2 DEF Tree
<1>5. /\ Len(m) = 2 /\ DOMAIN m = {1, 2} /\ m[1] = <<"messages">> /\ m[2] = <<d>>
  <2>1. /\ Len(Front(m)) = Len(m) - 1 /\ Len(m) \in Nat \ {0}
        /\ \A k \in 1..(Len(m) - 1) : Front(m)[k] = m[k]
    BY <1>2, <1>4, FrontFacts
  <2>2. Len(m) = 2 /\ 1 \in 1..(Len(m) - 1)
    <3>1. PICK n \in Nat : n = Len(m)
      BY <2>1
    <3>2. n - 1 = 1
      BY <1>2, <2>1, <3>1
    <3>3. n = 2
      BY <3>2
    <3>4. 1 \in 1..(n - 1)
      BY <3>3
    <3>. QED
      BY <3>1, <3>3, <3>4
  <2>3. DOMAIN m = 1..2
    BY <1>4, <2>2 DEF Positions
  <2>. QED
    BY <1>2, <1>3, <2>1, <2>2, <2>3 DEF Last
<1>6. Plain(m)
  BY <1>5 DEF Plain
<1>7. Len(Path(m)) = 2 /\ Path(m)[1] = "messages" /\ Path(m)[2] = d
  <2>1. Len(Path(m)) = Len(m) /\ \A k \in 1..Len(m) : Path(m)[k] = m[k][1]
    BY <1>4, <1>6, PlainPath
  <2>2. 1 \in 1..Len(m) /\ 2 \in 1..Len(m) /\ m[1][1] = "messages" /\ m[2][1] = d
    BY <1>5
  <2>. QED
    BY <1>5, <2>1, <2>2
<1>8. IsMessagesArray(Path(m))
  BY <1>7, RequestBodyAssumption DEF IsMessagesArray
<1>9. ASSUME NEW k \in DOMAIN m PROVE m[k] \notin TextKeys
  <2>1. d \notin {"messages", "content", "input", "prompt"}
    OBVIOUS
  <2>. QED
    BY <1>5, <2>1 DEF TextKeys
<1>. QED
  BY <1>2, <1>8, <1>9 DEF Visited

\* Texts at one object that the search comes to.
LEMMA VisitedTexts ==
  ASSUME NEW doc, NEW o \in Visited(doc), NEW q
  PROVE  /\ IsMessagesArray(Path(o)) /\ q \in ContentTexts(doc, Append(o, <<"content">>))
              => q \in TextsOf(doc)
         /\ q \in InputTexts(doc, Append(o, <<"input">>)) => q \in TextsOf(doc)
         /\ q = Append(o, <<"prompt">>) /\ Is(doc, q, "string") => q \in TextsOf(doc)
BY DEF TextsOf

\* What the README calls user textual input is among what is extracted.
LEMMA UserTextsFound ==
  ASSUME request \in Documents
  PROVE  UserTexts \subseteq TextsOf(request)
<1>1. Tree(request) /\ Indices \subseteq STRING \ {"messages", "content", "input", "prompt"}
  BY RequestBodyAssumption, DocumentsAreTrees
<1>2. SUFFICES ASSUME NEW q \in UserTexts PROVE q \in TextsOf(request)
  OBVIOUS
<1>3. Is(request, q, "string")
  BY UserTextsAre
<1>4. CASE q = At(<<"prompt">>)
  <2>1. <<>> \in Visited(request)
    BY <1>1, <1>3, <1>4, RootVisited DEF Is
  <2>2. q = Append(<<>>, <<"prompt">>)
    BY <1>4, RootMember
  <2>. QED
    BY <1>3, <2>1, <2>2, VisitedTexts
<1>5. ASSUME q \in InputTexts(request, At(<<"input">>)), At(<<"input">>) \in DOMAIN request
      PROVE  q \in TextsOf(request)
  <2>1. <<>> \in Visited(request)
    BY <1>1, <1>5, RootVisited
  <2>2. q \in InputTexts(request, Append(<<>>, <<"input">>))
    BY <1>5, RootMember
  <2>. QED
    BY <2>1, <2>2, VisitedTexts
<1>6. CASE q = At(<<"input">>)
  BY <1>3, <1>5, <1>6 DEF InputTexts, Is
<1>7. CASE q \in Items(request, "input")
  BY <1>3, <1>5, <1>7 DEF InputTexts, Items, Is
<1>8. ASSUME NEW m \in Items(request, "messages"), q \in UserContent(request, m)
      PROVE  q \in TextsOf(request)
  <2>1. m \in DOMAIN request
    BY DEF Items, Children
  <2>2. request[m].kind = "object" /\ q \in ContentTexts(request, Append(m, <<"content">>))
    BY <1>1, <1>3, <1>8, <2>1, UserContentFound
  <2>3. m \in Visited(request) /\ IsMessagesArray(Path(m))
    BY <1>1, <2>2, MessageVisited
  <2>. QED
    BY <2>2, <2>3, VisitedTexts
<1>9. ASSUME NEW m \in Items(request, "input"), q \in UserContent(request, m)
      PROVE  q \in TextsOf(request)
  <2>1. /\ m \in DOMAIN request /\ Is(request, At(<<"input">>), "array")
        /\ m \in Children(request, At(<<"input">>))
    BY DEF Items, Children
  <2>2. q \in ContentTexts(request, Append(m, <<"content">>))
    BY <1>1, <1>3, <1>9, <2>1, UserContentFound
  <2>3. q \in InputTexts(request, At(<<"input">>))
    BY <2>1, <2>2 DEF InputTexts, Is
  <2>. QED
    BY <1>5, <2>1, <2>3 DEF Is
<1>. QED
  BY <1>4, <1>6, <1>7, <1>8, <1>9, UserTextsAre

-----------------------------------------------------------------------------
(***************************************************************************)
(* SetTextAtPath leaves a tree behind, wherever it writes.                 *)
(***************************************************************************)
Rooted(doc) ==
  /\ <<>> \in DOMAIN doc /\ DOMAIN doc \subseteq Positions
  /\ \A q \in DOMAIN doc : q # <<>> => Front(q) \in DOMAIN doc

\* What lies above the parent of a position lies above the position.
LEMMA PrefixOfFront ==
  ASSUME NEW t \in Positions, NEW q \in Positions, q # <<>>, IsPrefix(t, Front(q))
  PROVE  IsPrefix(t, q)
<1>1. PICK C : C = Seq(STRING)
  OBVIOUS
<1>2. t \in Seq(C) /\ q \in Seq(C) /\ Len(t) \in Nat
  BY <1>1 DEF Positions
<1>3. PICK f \in Seq(C) : /\ f = Front(q) /\ Len(f) = Len(q) - 1 /\ Len(q) \in Nat \ {0}
                          /\ \A k \in 1..(Len(q) - 1) : f[k] = q[k]
  BY <1>2, FrontOf
<1>4. Len(t) <= Len(f) /\ Len(t) \in 0..Len(f) /\ Len(t) \in 0..Len(q)
  BY <1>2, <1>3 DEF IsPrefix
<1>5. SubSeq(f, 1, Len(t)) = SubSeq(q, 1, Len(t))
  <2>1. /\ SubSeq(f, 1, Len(t)) \in Seq(C) /\ Len(SubSeq(f, 1, Len(t))) = Len(t)
        /\ \A k \in 1..Len(t) : SubSeq(f, 1, Len(t))[k] = f[k]
    BY <1>4, FirstOf
  <2>2. /\ SubSeq(q, 1, Len(t)) \in Seq(C) /\ Len(SubSeq(q, 1, Len(t))) = Len(t)
        /\ \A k \in 1..Len(t) : SubSeq(q, 1, Len(t))[k] = q[k]
    BY <1>2, <1>4, FirstOf
  <2>3. \A k \in 1..Len(t) : f[k] = q[k]
    BY <1>2, <1>3, <1>4
  <2>. QED
    BY <2>1, <2>2, <2>3, SeqEqual
<1>. QED
  BY <1>3, <1>4, <1>5 DEF IsPrefix

\* The text is put below a parent that is there; what stood there goes as a
\* whole, with everything below it.
LEMMA SetStaysRooted ==
  ASSUME NEW doc, Rooted(doc), NEW path \in Seq(STRING), Settable(doc, path), NEW node
  PROVE  Rooted(SetTextAtPath(doc, path, node))
<1>1. PICK t \in Positions : t = At(path) /\ Len(t) = Len(path) /\ Len(t) \in Nat \ {0} /\ t # <<>>
  <2>1. path # <<>>
    BY DEF Settable
  <2>2. At(path) \in Positions /\ Len(At(path)) = Len(path) /\ Len(path) \in Nat \ {0}
    BY <2>1, AtType
  <2>. QED
    BY <2>2
<1>2. Front(t) \in DOMAIN doc
  <2>1. At(Front(path)) \in DOMAIN doc /\ path # <<>>
    BY DEF Settable, Is
  <2>. QED
    BY <1>1, <2>1, AtFront
<1>3. PICK new : new = SetTextAtPath(doc, path, node)
  OBVIOUS
<1>4. DOMAIN new = {q \in DOMAIN doc : ~IsPrefix(t, q)} \cup {t}
  BY <1>1, <1>3 DEF SetTextAtPath
<1>5. ~IsPrefix(t, <<>>)
  BY <1>1 DEF IsPrefix
<1>6. ~IsPrefix(t, Front(t))
  <2>1. Len(Front(t)) = Len(t) - 1
    BY <1>1, FrontFacts
  <2>. QED
    BY <1>1, <2>1 DEF IsPrefix
<1>7. ASSUME NEW q \in DOMAIN new, q # <<>> PROVE Front(q) \in DOMAIN new
  <2>1. CASE q = t
    BY <1>2, <1>4, <1>6, <2>1
  <2>2. CASE q # t
    <3>1. q \in DOMAIN doc /\ ~IsPrefix(t, q) /\ q \in Positions
      BY <1>4, <2>2 DEF Rooted
    <3>2. Front(q) \in DOMAIN doc /\ ~IsPrefix(t, Front(q))
      BY <1>7, <3>1, PrefixOfFront DEF Rooted
    <3>. QED
      BY <1>4, <3>2
  <2>. QED
    BY <2>1, <2>2
<1>8. <<>> \in DOMAIN new /\ DOMAIN new \subseteq Positions
  BY <1>4, <1>5 DEF Rooted
<1>. QED
  BY <1>3, <1>7, <1>8 DEF Rooted

(***************************************************************************)
(* The decoded request with the texts of S scrubbed, each in its place.    *)
(***************************************************************************)
Marked(doc, S) ==
  [q \in DOMAIN doc |-> IF q \in S THEN ScrubbedNode(Decoded(doc)[q])
                        ELSE Decoded(doc)[q]]

\* One turn of the loop scrubs the text that was found, and nothing else.
LEMMA SetMarked ==
  ASSUME NEW doc \in Documents, NEW S, NEW q \in TextsOf(doc), Plain(q)
  PROVE  SetTextAtPath(Marked(doc, S), Path(q), ScrubbedNode(Decoded(doc)[q]))
           = Marked(doc, S \cup {q})
<1>1. Tree(doc) /\ q \in DOMAIN doc /\ doc[q].kind = "string" /\ q \in Positions
  BY DocumentsAreTrees, TextsAreStrings DEF Tree
<1>2. At(Path(q)) = q
  BY <1>1, PlainPath
<1>3. {r \in DOMAIN doc : ~IsPrefix(q, r)} \cup {q} = DOMAIN doc
  BY <1>1, StringIsLeaf
<1>4. DOMAIN Marked(doc, S) = DOMAIN doc
  BY DEF Marked
<1>5. SetTextAtPath(Marked(doc, S), Path(q), ScrubbedNode(Decoded(doc)[q]))
        = [r \in DOMAIN doc |-> IF r = q THEN ScrubbedNode(Decoded(doc)[q])
                                ELSE Marked(doc, S)[r]]
  BY <1>2, <1>3, <1>4 DEF SetTextAtPath
<1>. QED
  BY <1>5 DEF Marked

\* Before the first turn nothing is scrubbed.
LEMMA NothingMarked ==
  ASSUME NEW doc
  PROVE  Decoded(doc) = Marked(doc, {})
BY DEF Marked, Decoded

\* A node with other marks.
LEMMA MarkOf ==
  ASSUME NEW kind, NEW value, NEW b, NEW c,
         NEW n, n = [kind |-> kind, value |-> value, scrubbed |-> c]
  PROVE  [n EXCEPT !.scrubbed = b] = [kind |-> kind, value |-> value, scrubbed |-> b]
<1>1. PICK K, V, M : K = {kind} /\ V = {value} /\ M = {b, c}
  OBVIOUS
<1>2. n \in [kind : K, value : V, scrubbed : M] /\ n.kind = kind /\ n.value = value /\ b \in M
  BY <1>1
<1>3. ASSUME NEW m \in [kind : K, value : V, scrubbed : M]
      PROVE  [m EXCEPT !.scrubbed = b] = [kind |-> m.kind, value |-> m.value, scrubbed |-> b]
  BY <1>2
<1>. QED
  BY <1>2, <1>3

\* What Redact leaves for good of a node.
Redacted(n) == IF n.value \in SecretTexts THEN [n EXCEPT !.scrubbed = {"redacted"}] ELSE n

\* A node of the decoded request, scrubbed and restored.
LEMMA NodeFacts ==
  ASSUME NEW kind, NEW n, n = Node(kind, n.value)
  PROVE  /\ n.kind = kind /\ n.scrubbed = {}
         /\ ScrubbedNode(n).kind = kind
         /\ RestoredNode(n) = n
         /\ RestoredNode(ScrubbedNode(n)) = Redacted(n)
<1>1. PICK value : value = n.value
  OBVIOUS
<1>2. PICK marks : marks = {"anonymized"} \cup (IF value \in SecretTexts THEN {"redacted"} ELSE {})
  OBVIOUS
<1>3. PICK left : left = marks \ {"anonymized"}
  OBVIOUS
<1>4. left = IF value \in SecretTexts THEN {"redacted"} ELSE {}
  BY <1>2, <1>3
<1>5. n = [kind |-> kind, value |-> value, scrubbed |-> {}]
  BY <1>1 DEF Node
<1>6. n.kind = kind /\ n.scrubbed = {}
  BY <1>5
<1>7. PICK m : m = ScrubbedNode(n)
  OBVIOUS
<1>8. m = [kind |-> kind, value |-> value, scrubbed |-> marks]
  <2>1. m = [n EXCEPT !.scrubbed = marks]
    BY <1>1, <1>2, <1>7 DEF ScrubbedNode
  <2>. QED
    BY <1>5, <2>1, MarkOf
<1>9. m.kind = kind /\ m.scrubbed = marks
  BY <1>8
<1>10. RestoredNode(n) = n
  <2>1. RestoredNode(n) = [n EXCEPT !.scrubbed = {} \ {"anonymized"}]
    BY <1>6 DEF RestoredNode
  <2>2. {} \ {"anonymized"} = {}
    OBVIOUS
  <2>. QED
    BY <1>5, <2>1, <2>2, MarkOf
<1>11. RestoredNode(m) = Redacted(n)
  <2>1. RestoredNode(m) = [m EXCEPT !.scrubbed = left]
    BY <1>3, <1>9 DEF RestoredNode
  <2>2. RestoredNode(m) = [kind |-> kind, value |-> value, scrubbed |-> left]
    BY <1>8, <2>1, MarkOf
  <2>3. CASE value \in SecretTexts
    <3>1. Redacted(n) = [n EXCEPT !.scrubbed = {"redacted"}]
      BY <1>1, <2>3 DEF Redacted
    <3>2. Redacted(n) = [kind |-> kind, value |-> value, scrubbed |-> {"redacted"}]
      BY <1>5, <3>1, MarkOf
    <3>. QED
      BY <1>4, <2>2, <2>3, <3>2
  <2>4. CASE value \notin SecretTexts
    BY <1>1, <1>4, <1>5, <2>2, <2>4 DEF Redacted
  <2>. QED
    BY <2>3, <2>4
<1>. QED
  BY <1>6, <1>7, <1>9, <1>10, <1>11

\* Restoring gives the texts back, but for their secrets.
LEMMA MarkedRestored ==
  ASSUME NEW doc \in Documents, NEW S \in SUBSET TextsOf(doc)
  PROVE  RestoreJSON(Marked(doc, S)) =
           [q \in DOMAIN doc |-> IF q \in S THEN Redacted(Decoded(doc)[q]) ELSE Decoded(doc)[q]]
<1>1. Tree(doc) /\ DOMAIN Decoded(doc) = DOMAIN doc /\ DOMAIN Marked(doc, S) = DOMAIN doc
  BY DocumentsAreTrees DEF Marked
<1>2. ASSUME NEW q \in DOMAIN doc
      PROVE  (IF Marked(doc, S)[q].kind = "string"
              THEN RestoredNode(Marked(doc, S)[q]) ELSE Marked(doc, S)[q])
             = IF q \in S THEN Redacted(Decoded(doc)[q]) ELSE Decoded(doc)[q]
  <2>1. PICK n : n = Decoded(doc)[q]
    OBVIOUS
  <2>2. n = Node(doc[q].kind, n.value)
    BY <2>1, DocumentsAreTrees
  <2>3. /\ n.kind = doc[q].kind /\ RestoredNode(n) = n
        /\ ScrubbedNode(n).kind = doc[q].kind /\ RestoredNode(ScrubbedNode(n)) = Redacted(n)
    BY ZenonT(60), <2>2, NodeFacts
  <2>4. CASE q \in S
    <3>1. Marked(doc, S)[q] = ScrubbedNode(n) /\ doc[q].kind = "string"
      BY <1>1, <2>1, <2>4, TextsAreStrings DEF Marked
    <3>. QED
      BY <2>1, <2>3, <2>4, <3>1
  <2>5. CASE q \notin S
    <3>1. Marked(doc, S)[q] = n
      BY <2>1, <2>5 DEF Marked
    <3>. QED
      BY <2>1, <2>3, <2>5, <3>1
  <2>. QED
    BY <2>4, <2>5
<1>. QED
  BY <1>1, <1>2 DEF RestoreJSON

-----------------------------------------------------------------------------
(***************************************************************************)
(* The inductive invariant.  The body is a tree, whatever has been written *)
(* where; and as long as the paths of the texts are plain it is the decoded*)
(* request with exactly the texts that the loop has seen scrubbed.         *)
(***************************************************************************)
Types ==
  /\ request \in Documents
  /\ pc \in {"extract", "scrub", "sent", "refused", "answered"}
  /\ todo \subseteq TextsOf(request)
  /\ Rooted(body)

\* What the upstream and the client have got.
Delivered ==
  /\ sent = IF pc \in {"sent", "answered"} THEN body ELSE Nothing
  /\ answer = IF pc = "answered" THEN RestoreJSON(body) ELSE Nothing
  /\ pc \in {"sent", "answered"} => todo = {}

\* The texts that have been scrubbed are those that the loop has seen.
ScrubbedSoFar ==
  /\ pc = "extract" => body = Decoded(request)
  /\ pc # "extract" /\ PlainTexts => body = Marked(request, TextsOf(request) \ todo)

IInv == Types /\ Delivered /\ ScrubbedSoFar

\* The invariant holds at the start.
LEMMA InitInv == Init => IInv
<1>. SUFFICES ASSUME Init PROVE IInv
  OBVIOUS
<1>1. request \in Documents /\ body = Decoded(request) /\ todo = {} /\ pc = "extract"
      /\ sent = Nothing /\ answer = Nothing
  BY DEF Init
<1>2. Rooted(body)
  BY <1>1, DocumentsAreTrees DEF Rooted, Tree
<1>. QED
  BY <1>1, <1>2 DEF IInv, Types, Delivered, ScrubbedSoFar

\* One turn of the loop.
LEMMA ScrubStep ==
  ASSUME IInv, NEW q \in todo, Scrub(q)
  PROVE  IInv'
<1>1. /\ pc = "scrub" /\ Settable(body, Path(q)) /\ todo' = todo \ {q}
      /\ body' = SetTextAtPath(body, Path(q), ScrubbedNode(Decoded(request)[q]))
      /\ UNCHANGED <<request, pc, sent, answer>>
  BY DEF Scrub
<1>2. q \in TextsOf(request) /\ q \in Positions
  <2>1. q \in TextsOf(request)
    BY DEF IInv, Types
  <2>. QED
    BY <2>1, TextsAreStrings, DocumentsAreTrees DEF IInv, Types, Tree
<1>3. Path(q) \in Seq(STRING)
  BY <1>2, PathType
<1>4. Rooted(body')
  BY <1>1, <1>3, SetStaysRooted DEF IInv, Types
<1>5. Types'
  <2>1. todo' \subseteq TextsOf(request)
    BY <1>1 DEF IInv, Types
  <2>2. request' = request /\ TextsOf(request)' = TextsOf(request)
    BY <1>1 DEF TextsOf
  <2>3. todo' \subseteq TextsOf(request)'
    BY <2>1, <2>2
  <2>4. request' \in Documents /\ pc' = pc
    BY <1>1 DEF IInv, Types
  <2>5. Rooted(body)' = Rooted(body')
    BY DEF Rooted
  <2>. QED
    BY <1>1, <1>4, <2>3, <2>4, <2>5 DEF Types
<1>6. Delivered'
  BY <1>1 DEF IInv, Delivered
<1>7. ASSUME PlainTexts PROVE body' = Marked(request, TextsOf(request) \ todo')
  <2>1. body = Marked(request, TextsOf(request) \ todo) /\ Plain(q) /\ request \in Documents
    BY <1>1, <1>2, <1>7 DEF IInv, Types, ScrubbedSoFar, PlainTexts, Plain
  <2>2. (TextsOf(request) \ todo) \cup {q} = TextsOf(request) \ todo'
    BY <1>1, <1>2
  <2>. QED
    BY <1>1, <1>2, <2>1, <2>2, SetMarked
<1>8. ScrubbedSoFar'
  <2>1. PlainTexts' <=> PlainTexts
    BY <1>1 DEF PlainTexts, TextsOf
  <2>2. Marked(request, TextsOf(request) \ todo)' = Marked(request, TextsOf(request) \ todo')
    BY <1>1 DEF Marked, Decoded, TextsOf
  <2>. QED
    BY <1>1, <1>7, <2>1, <2>2 DEF ScrubbedSoFar
<1>. QED
  BY <1>5, <1>6, <1>8 DEF IInv

\* Every step keeps it.
LEMMA NextInv == IInv /\ [Next]_vars => IInv'
<1>. SUFFICES ASSUME IInv, [Next]_vars PROVE IInv'
  OBVIOUS
<1>1. CASE Extract
  <2>1. /\ pc = "extract" /\ pc' = "scrub" /\ todo' = TextsOf(body) /\ body = Decoded(request)
        /\ UNCHANGED <<request, body, sent, answer>> /\ request \in Documents
    BY <1>1 DEF Extract, IInv, Types, ScrubbedSoFar
  <2>2. TextsOf(body) = TextsOf(request)
    <3>1. Tree(request) /\ DOMAIN body = DOMAIN request
      BY <2>1, DocumentsAreTrees
    <3>2. ASSUME NEW q \in DOMAIN request
          PROVE  /\ body[q].kind = request[q].kind
                 /\ request[q].kind = "string" => body[q].value = request[q].value
      <4>1. /\ body[q] = Node(request[q].kind, body[q].value)
            /\ request[q].kind # "number" => body[q] = request[q]
        BY <2>1, DocumentsAreTrees
      <4>2. body[q].kind = request[q].kind
        <5>1. PICK kind, n : kind = request[q].kind /\ n = body[q]
          OBVIOUS
        <5>2. n = Node(kind, n.value)
          BY <4>1, <5>1
        <5>3. n.kind = kind
          BY <5>2, NodeFacts
        <5>. QED
          BY <5>1, <5>3
      <4>. QED
        BY <4>1, <4>2
    <3>. QED
      BY <3>1, <3>2, SameTexts
  <2>3. body = Marked(request, TextsOf(request) \ todo')
    <3>1. TextsOf(request) \ todo' = {}
      BY <2>1, <2>2
    <3>. QED
      BY <2>1, <3>1, NothingMarked
  <2>4. Types'
    BY <2>1, <2>2 DEF IInv, Types, Rooted
  <2>5. Delivered'
    BY <2>1 DEF IInv, Delivered
  <2>6. ScrubbedSoFar'
    BY <2>1, <2>3 DEF ScrubbedSoFar
  <2>. QED
    BY <2>4, <2>5, <2>6 DEF IInv
<1>2. ASSUME NEW q \in todo, Scrub(q) PROVE IInv'
  BY <1>2, ScrubStep
<1>3. CASE Refuse
  BY <1>3 DEF Refuse, IInv, Types, Delivered, ScrubbedSoFar, Rooted, PlainTexts
<1>4. CASE Forward
  BY <1>4 DEF Forward, IInv, Types, Delivered, ScrubbedSoFar, Rooted, PlainTexts
<1>5. CASE Answer
  BY <1>5 DEF Answer, IInv, Types, Delivered, ScrubbedSoFar, Rooted, PlainTexts
<1>6. CASE UNCHANGED vars
  BY <1>6 DEF vars, IInv, Types, Delivered, ScrubbedSoFar, Rooted, PlainTexts
<1>. QED
  BY <1>1, <1>2, <1>3, <1>4, <1>5, <1>6 DEF Next

\* The handler always keeps the invariant: src/proxy/proxy_handler.go:108-150.
THEOREM Invariance == Spec => []IInv
BY InitInv, NextInv, PTL DEF Spec

\* The body stays a tree, the loop never comes to a position that the request
\* did not have, and a body is sent exactly when the handler says so.
THEOREM TypeCorrect == Spec => []TypeOK
<1>1. IInv => TypeOK
  <2>. SUFFICES ASSUME IInv PROVE TypeOK
    OBVIOUS
  <2>1. request \in Documents /\ Tree(request)
    BY DocumentsAreTrees DEF IInv, Types
  <2>2. todo \subseteq DOMAIN request
    BY <2>1, TextsAreStrings DEF IInv, Types
  <2>3. body # Nothing
    <3>1. <<>> \in DOMAIN body /\ DOMAIN Nothing = {}
      BY DEF IInv, Types, Rooted, Nothing
    <3>. QED
      BY <3>1
  <2>. QED
    BY <2>1, <2>2, <2>3 DEF IInv, Types, Delivered, Rooted, TypeOK
<1>. QED
  BY <1>1, Invariance, PTL

\* What the upstream gets: the decoded request, all of its texts scrubbed.
LEMMA SentIsMarked ==
  ASSUME IInv, sent # Nothing, PlainTexts
  PROVE  sent = Marked(request, TextsOf(request)) /\ sent = body
<1>1. pc \in {"sent", "answered"} /\ sent = body /\ todo = {}
  BY DEF IInv, Delivered
<1>2. body = Marked(request, TextsOf(request) \ todo)
  BY <1>1 DEF IInv, ScrubbedSoFar
<1>3. TextsOf(request) \ todo = TextsOf(request)
  BY <1>1
<1>. QED
  BY <1>1, <1>2, <1>3

\* For every set of bodies: every user text reaches the upstream scrubbed, in
\* its place, in whatever order the Go maps are ranged over.
THEOREM UserTextsAreScrubbed == Spec => []UserTextsScrubbed
<1>1. IInv => UserTextsScrubbed
  <2>. SUFFICES ASSUME IInv, sent # Nothing, PlainTexts, NEW q \in UserTexts
                PROVE  Scrubbed(sent, q)
    BY DEF UserTextsScrubbed
  <2>1. request \in Documents /\ Tree(request)
    BY DocumentsAreTrees DEF IInv, Types
  <2>2. q \in TextsOf(request)
    BY <2>1, UserTextsFound
  <2>3. q \in DOMAIN request /\ request[q].kind = "string"
    BY <2>1, <2>2, TextsAreStrings
  <2>4. Decoded(request)[q] = request[q]
    BY <2>1, <2>3, DocumentsAreTrees
  <2>. QED
    BY <2>2, <2>3, <2>4, SentIsMarked DEF Marked, Scrubbed
<1>. QED
  BY <1>1, Invariance, PTL

\* For every set of bodies: nothing but the extracted texts is changed, and an
\* answer that repeats the request gives the client its own texts back, but for
\* the secrets in them.
THEOREM EchoesAreRestored == Spec => []EchoRestored
<1>1. IInv => EchoRestored
  <2>. SUFFICES ASSUME IInv, answer # Nothing, PlainTexts PROVE EchoRestored
    BY DEF EchoRestored
  <2>1. pc = "answered" /\ sent = body /\ answer = RestoreJSON(body) /\ todo = {} /\ request \in Documents
    BY DEF IInv, Types, Delivered
  <2>2. body = Marked(request, TextsOf(request))
    <3>1. TextsOf(request) \ todo = TextsOf(request)
      BY <2>1
    <3>. QED
      BY <2>1, <3>1 DEF IInv, ScrubbedSoFar
  <2>3. answer = [q \in DOMAIN request |->
                    IF q \in TextsOf(request) /\ request[q].value \in SecretTexts
                    THEN [Decoded(request)[q] EXCEPT !.scrubbed = {"redacted"}]
                    ELSE Decoded(request)[q]]
    <3>1. answer = [q \in DOMAIN request |-> IF q \in TextsOf(request)
                                             THEN Redacted(Decoded(request)[q])
                                             ELSE Decoded(request)[q]]
      BY <2>1, <2>2, MarkedRestored
    <3>2. ASSUME NEW q \in TextsOf(request)
          PROVE  Redacted(Decoded(request)[q]) =
                   IF request[q].value \in SecretTexts
                   THEN [Decoded(request)[q] EXCEPT !.scrubbed = {"redacted"}]
                   ELSE Decoded(request)[q]
      <4>1. Decoded(request)[q] = request[q]
        BY <2>1, TextsAreStrings, DocumentsAreTrees
      <4>. QED
        BY <4>1 DEF Redacted
    <3>. QED
      BY <3>1, <3>2
  <2>4. ASSUME NEW q \in DOMAIN sent, sent[q].scrubbed # {}, q \notin TextsOf(request) PROVE FALSE
    <3>1. q \in DOMAIN request /\ sent[q] = Decoded(request)[q]
      BY <2>1, <2>2, <2>4 DEF Marked
    <3>2. sent[q].scrubbed = {}
      <4>1. sent[q] = Node(request[q].kind, sent[q].value)
        BY <2>1, <3>1, DocumentsAreTrees
      <4>. QED
        BY <4>1, NodeFacts
    <3>. QED
      BY <2>4, <3>2
  <2>. QED
    BY <2>3, <2>4 DEF EchoRestored
<1>. QED
  BY <1>1, Invariance, PTL
=============================================================================
