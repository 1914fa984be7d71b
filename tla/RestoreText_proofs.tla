------------------------- MODULE RestoreText_proofs -------------------------
(***************************************************************************)
(* What the text functions of RestoreText compute, for every text: the     *)
(* scan of RestoreString replaces exactly the known placeholders when no   *)
(* "<" stands open in front of one (ScanRestoresEach), and restoring two   *)
(* halves of a text is restoring the text when no known placeholder lies   *)
(* across the cut (RestoredInParts).  A text whose plaintexts were         *)
(* replaced by placeholders of the mapping, in whatever order, restores to *)
(* the text it was made from (RestoringUndoesScrubbing).  The first lemmas *)
(* state induction over numbers as a fact about sets; the last ones are    *)
(* about FlattenSeq.                                                       *)
(***************************************************************************)
EXTENDS RestoreText, SequenceTheorems, WellFoundedInduction, TLAPS

(***************************************************************************)
(* Every nonempty set of numbers has a least element.                      *)
(***************************************************************************)
LEMMA LeastNumber ==
  ASSUME NEW T \in SUBSET Nat, T # {}
  PROVE  \E m \in T : \A k \in T : m <= k
<1>. DEFINE R == OpToRel(<, Nat)
<1>1. \A m, k \in Nat : k < m => <<k, m>> \in R
  BY DEF OpToRel
<1>2. IsWellFoundedOn(R, Nat)
  BY NatLessThanWellFounded
<1>. HIDE DEF R
<1>3. PICK m \in T : \A k \in T : <<k, m>> \notin R
  BY <1>2, WFMin
<1>4. ASSUME NEW k \in T
      PROVE  m <= k
  <2>1. m \in Nat /\ k \in Nat
    OBVIOUS
  <2>2. ~(k < m)
    BY <1>1, <1>3, <2>1
  <2>. QED
    BY <2>1, <2>2
<1>. QED
  BY <1>4

(***************************************************************************)
(* Induction: a set that holds 0 and with n also n + 1 holds every number. *)
(***************************************************************************)
LEMMA Induction ==
  ASSUME NEW T, 0 \in T, \A n \in Nat : n \in T => n + 1 \in T
  PROVE  \A n \in Nat : n \in T
<1>. DEFINE C == {n \in Nat : n \notin T}
<1>. SUFFICES ASSUME C # {} PROVE FALSE
  OBVIOUS
<1>1. PICK m \in C : \A k \in C : m <= k
  BY LeastNumber
<1>2. m - 1 \in Nat /\ m - 1 \notin C
  BY <1>1
<1>. QED
  BY <1>1, <1>2

\* Concatenation is associative.
LEMMA Assoc ==
  \A C : \A x, y, z \in Seq(C) : (x \o y) \o z = x \o (y \o z)
BY ConcatAssociative

LEMMA TextConcat ==
  ASSUME NEW x \in Text, NEW y \in Text
  PROVE  x \o y \in Text
BY ConcatProperties DEF Text

LEMMA TextAssoc ==
  ASSUME NEW x \in Text, NEW y \in Text, NEW z \in Text
  PROVE  (x \o y) \o z = x \o (y \o z)
BY ConcatAssociative DEF Text

LEMMA InTwoParts ==
  ASSUME NEW C, NEW u \in Seq(C), NEW a \in Seq(C), NEW b \in Seq(C),
         Len(u) = Len(a) + Len(b),
         \A k \in 1..Len(a) : u[k] = a[k], \A k \in 1..Len(b) : u[Len(a) + k] = b[k]
  PROVE  u = a \o b
<1>1. Len(a) \in Nat /\ Len(b) \in Nat /\ a \o b \in Seq(C) /\ Len(a \o b) = Len(u)
  OBVIOUS
<1>2. ASSUME NEW k \in 1..Len(u) PROVE u[k] = (a \o b)[k]
  <2>1. CASE k <= Len(a)
    BY <1>1, <2>1
  <2>2. CASE k > Len(a)
    <3>1. PICK l \in 1..Len(b) : k = Len(a) + l
      <4>1. k - Len(a) \in 1..Len(b) /\ k = Len(a) + (k - Len(a))
        BY <1>1, <2>2
      <4>. QED
        BY <4>1
    <3>. QED
      BY <1>1, <3>1
  <2>. QED
    BY <1>1, <2>1, <2>2
<1>. QED
  BY <1>1, <1>2, SeqEqual

-----------------------------------------------------------------------------
(***************************************************************************)
(* FlattenSeq.  F is the function of the concatenations of the first       *)
(* elements of s, up to the first n.                                       *)
(***************************************************************************)
IsJoin(F, s, n) ==
  F = [k \in 1..n |-> IF k = 1 THEN s[k] ELSE F[k - 1] \o s[k]]

LEMMA JoinEquation ==
  ASSUME NEW F, NEW s, NEW n \in Nat, IsJoin(F, s, n), NEW k \in 1..n
  PROVE  F[k] = IF k = 1 THEN s[k] ELSE F[k - 1] \o s[k]
<1>1. \A j \in 1..n : F[j] = IF j = 1 THEN s[j] ELSE F[j - 1] \o s[j]
  BY DEF IsJoin
<1>. QED
  BY <1>1

\* The function that FlattenSeq defines recursively exists.
LEMMA JoinExists ==
  ASSUME NEW s
  PROVE  \A n \in Nat : \E F : IsJoin(F, s, n)
<1>. DEFINE T == {n \in Nat : \E F : IsJoin(F, s, n)}
<1>1. 0 \in T
  <2>1. IsJoin([k \in {} |-> 0], s, 0)
    BY DEF IsJoin
  <2>. QED
    BY <2>1
<1>2. ASSUME NEW n \in Nat, n \in T
      PROVE  n + 1 \in T
  <2>1. PICK F : IsJoin(F, s, n)
    BY <1>2
  <2>. DEFINE G == [k \in 1..(n + 1) |->
                      IF k = 1 THEN s[k]
                      ELSE IF k = n + 1 THEN F[n] \o s[k] ELSE F[k]]
  <2>2. \A k \in 1..n : F[k] = IF k = 1 THEN s[k] ELSE F[k - 1] \o s[k]
    BY <2>1 DEF IsJoin
  <2>3. ASSUME NEW k \in 1..(n + 1)
        PROVE  G[k] = IF k = 1 THEN s[k] ELSE G[k - 1] \o s[k]
    <3>1. CASE k = 1
      BY <3>1
    <3>2. CASE k # 1 /\ k = n + 1
      <4>1. k - 1 = n /\ n \in 1..n /\ n # n + 1 /\ n \in 1..(n + 1)
        BY <3>2
      <4>2. G[n] = F[n]
        BY <4>1, <2>2
      <4>. QED
        BY <3>2, <4>1, <4>2
    <3>3. CASE k # 1 /\ k # n + 1
      <4>1. k \in 1..n /\ k - 1 \in 1..n /\ k - 1 # n + 1 /\ k - 1 \in 1..(n + 1)
        BY <3>3
      <4>2. G[k - 1] = F[k - 1] /\ G[k] = F[k]
        BY <4>1, <3>3, <2>2
      <4>. QED
        BY <3>3, <4>1, <4>2, <2>2
    <3>. QED
      BY <3>1, <3>2, <3>3
  <2>4. G = [k \in 1..(n + 1) |-> G[k]]
    OBVIOUS
  <2>. HIDE DEF G
  <2>5. IsJoin(G, s, n + 1)
    BY <2>3, <2>4 DEF IsJoin
  <2>. QED
    BY <2>5
<1>. HIDE DEF T
<1>3. \A n \in Nat : n \in T
  BY <1>1, <1>2, Induction
<1>. QED
  BY <1>3 DEF T

LEMMA FlattenIsJoin ==
  ASSUME NEW s, Len(s) \in Nat, Len(s) # 0
  PROVE  \E F : IsJoin(F, s, Len(s)) /\ FlattenSeq(s) = F[Len(s)]
<1>. DEFINE F == CHOOSE f : IsJoin(f, s, Len(s))
<1>1. FlattenSeq(s) = F[Len(s)]
  BY DEF FlattenSeq, IsJoin
<1>2. IsJoin(F, s, Len(s))
  BY JoinExists
<1>. HIDE DEF F
<1>. QED
  BY <1>1, <1>2

\* Two of these functions agree as long as their sequences do.
LEMMA JoinsAgree ==
  ASSUME NEW s, NEW t, NEW m \in Nat, NEW n \in 0..m, NEW F, NEW G,
         IsJoin(F, s, m), IsJoin(G, t, n), \A k \in 1..n : s[k] = t[k]
  PROVE  \A k \in 1..n : F[k] = G[k]
<1>. DEFINE T == {k \in Nat : k \in 1..n => F[k] = G[k]}
<1>1. 0 \in T
  OBVIOUS
<1>2. ASSUME NEW k \in Nat, k \in T
      PROVE  k + 1 \in T
  <2>. SUFFICES ASSUME k + 1 \in 1..n PROVE F[k + 1] = G[k + 1]
    OBVIOUS
  <2>1. (k + 1) - 1 = k /\ (k + 1 = 1 \/ k \in 1..n) /\ k + 1 \in 1..m /\ n \in Nat
    OBVIOUS
  <2>2. F[k + 1] = IF k + 1 = 1 THEN s[k + 1] ELSE F[(k + 1) - 1] \o s[k + 1]
    BY <2>1, JoinEquation
  <2>3. G[k + 1] = IF k + 1 = 1 THEN t[k + 1] ELSE G[(k + 1) - 1] \o t[k + 1]
    BY <2>1, JoinEquation
  <2>. QED
    BY <1>2, <2>1, <2>2, <2>3
<1>. HIDE DEF T
<1>3. \A k \in Nat : k \in T
  BY <1>1, <1>2, Induction
<1>. QED
  BY <1>3 DEF T

\* Flattening a sequence of two elements or more, one element at a time.
LEMMA FlattenLast ==
  ASSUME NEW m \in Nat, m # 0, NEW a, Len(a) = m + 1, NEW b, Len(b) = m,
         \A k \in 1..m : a[k] = b[k]
  PROVE  FlattenSeq(a) = FlattenSeq(b) \o a[m + 1]
<1>1. PICK n \in Nat : n = m + 1
  OBVIOUS
<1>2. n # 0 /\ n # 1 /\ m \in 0..n /\ n \in 1..n /\ n - 1 = m /\ Len(a) = n
  BY <1>1
<1>3. PICK F : IsJoin(F, a, n) /\ FlattenSeq(a) = F[n]
  BY <1>2, FlattenIsJoin
<1>4. PICK G : IsJoin(G, b, m) /\ FlattenSeq(b) = G[m]
  BY FlattenIsJoin
<1>5. \A k \in 1..m : F[k] = G[k]
  BY <1>2, <1>3, <1>4, JoinsAgree
<1>6. F[n] = F[m] \o a[n]
  <2>1. \A k \in 1..n : F[k] = IF k = 1 THEN a[k] ELSE F[k - 1] \o a[k]
    BY <1>3 DEF IsJoin
  <2>. QED
    BY <1>2, <2>1
<1>7. F[m] = G[m]
  BY <1>5
<1>. QED
  BY <1>1, <1>3, <1>4, <1>6, <1>7

\* Flattening a sequence of one element.
LEMMA FlattenOne ==
  ASSUME NEW a, Len(a) = 1
  PROVE  FlattenSeq(a) = a[1]
<1>1. 1 \in Nat /\ 1 # 0 /\ 1 \in 1..1
  OBVIOUS
<1>2. PICK F : IsJoin(F, a, 1) /\ FlattenSeq(a) = F[1]
  BY <1>1, FlattenIsJoin
<1>3. F[1] = IF 1 = 1 THEN a[1] ELSE F[1 - 1] \o a[1]
  BY <1>1, <1>2, JoinEquation
<1>. QED
  BY <1>2, <1>3

(***************************************************************************)
(* The concatenation of the first n elements of s.                         *)
(***************************************************************************)
Joined(s, n) == FlattenSeq(SubSeq(s, 1, n))

LEMMA JoinedFacts ==
  ASSUME NEW C, NEW s \in Seq(Seq(C))
  PROVE  /\ Joined(s, 0) = <<>>
         /\ \A n \in 1..Len(s) : Joined(s, n) = Joined(s, n - 1) \o s[n]
         /\ Joined(s, Len(s)) = FlattenSeq(s)
<1>1. Joined(s, 0) = <<>>
  <2>1. SubSeq(s, 1, 0) = <<>>
    BY SubSeqEmpty
  <2>. QED
    BY <2>1 DEF Joined, FlattenSeq
<1>2. ASSUME NEW n \in 1..Len(s)
      PROVE  Joined(s, n) = Joined(s, n - 1) \o s[n]
  <2>1. PICK m \in Nat : n = m + 1 /\ n - 1 = m
    <3>1. n - 1 \in Nat /\ n = (n - 1) + 1
      OBVIOUS
    <3>. QED
      BY <3>1
  <2>2. PICK a : a = SubSeq(s, 1, m + 1)
    OBVIOUS
  <2>3. PICK b : b = SubSeq(s, 1, m)
    OBVIOUS
  <2>4. /\ Len(a) = m + 1 /\ Len(b) = m
        /\ a[m + 1] = s[m + 1]
        /\ \A k \in 1..m : a[k] = b[k]
    BY <2>1, <2>2, <2>3
  <2>5. CASE m = 0
    <3>1. FlattenSeq(a) = s[n]
      BY <2>1, <2>4, <2>5, FlattenOne
    <3>2. <<>> \o s[n] = s[n]
      BY ConcatEmptySeq
    <3>3. Joined(s, n) = s[n]
      BY <2>1, <2>2, <3>1 DEF Joined
    <3>4. Joined(s, n - 1) = <<>>
      BY <1>1, <2>1, <2>5
    <3>. QED
      BY <3>2, <3>3, <3>4
  <2>6. CASE m # 0
    <3>1. FlattenSeq(a) = FlattenSeq(b) \o a[m + 1]
      BY <2>4, <2>6, FlattenLast
    <3>. QED
      BY <2>1, <2>2, <2>3, <2>4, <3>1 DEF Joined
  <2>. QED
    BY <2>5, <2>6
<1>3. Joined(s, Len(s)) = FlattenSeq(s)
  BY SubSeqFull DEF Joined
<1>. QED
  BY <1>1, <1>2, <1>3

LEMMA JoinedType ==
  ASSUME NEW C, NEW s \in Seq(Seq(C))
  PROVE  \A n \in 0..Len(s) : Joined(s, n) \in Seq(C)
<1>. DEFINE T == {n \in Nat : n \in 0..Len(s) => Joined(s, n) \in Seq(C)}
<1>1. 0 \in T
  <2>1. Joined(s, 0) = <<>>
    BY JoinedFacts
  <2>2. <<>> \in Seq(C)
    BY EmptySeq
  <2>. QED
    BY <2>1, <2>2
<1>2. ASSUME NEW n \in Nat, n \in T
      PROVE  n + 1 \in T
  <2>. SUFFICES ASSUME n + 1 \in 0..Len(s) PROVE Joined(s, n + 1) \in Seq(C)
    OBVIOUS
  <2>1. n + 1 \in 1..Len(s) /\ (n + 1) - 1 = n
    OBVIOUS
  <2>2. Joined(s, n + 1) = Joined(s, n) \o s[n + 1]
    BY <2>1, JoinedFacts
  <2>3. Joined(s, n) \in Seq(C) /\ s[n + 1] \in Seq(C)
    BY <1>2, <2>1
  <2>. QED
    BY <2>2, <2>3, ConcatProperties
<1>. HIDE DEF T
<1>3. \A n \in Nat : n \in T
  BY <1>1, <1>2, Induction
<1>. QED
  BY <1>3 DEF T

\* The first elements decide the concatenation of the first elements.
LEMMA JoinedAgree ==
  ASSUME NEW C, NEW s \in Seq(Seq(C)), NEW t \in Seq(Seq(C)), Len(s) = Len(t),
         NEW a \in 0..Len(s), \A k \in 1..a : s[k] = t[k]
  PROVE  Joined(s, a) = Joined(t, a)
<1>1. a \in Nat /\ Len(s) \in Nat /\ a <= Len(s)
  OBVIOUS
<1>. DEFINE T == {n \in Nat : n \in 0..a => Joined(s, n) = Joined(t, n)}
<1>2. 0 \in T
  BY JoinedFacts
<1>3. ASSUME NEW n \in Nat, n \in T PROVE n + 1 \in T
  <2>. SUFFICES ASSUME n + 1 \in 0..a PROVE Joined(s, n + 1) = Joined(t, n + 1)
    OBVIOUS
  <2>1. n + 1 \in 1..Len(s) /\ n + 1 \in 1..Len(t) /\ (n + 1) - 1 = n /\ n + 1 \in 1..a /\ n \in 0..a
    BY <1>1
  <2>2. Joined(s, n + 1) = Joined(s, n) \o s[n + 1]
    BY <2>1, JoinedFacts
  <2>3. Joined(t, n + 1) = Joined(t, n) \o t[n + 1]
    BY <2>1, JoinedFacts
  <2>. QED
    BY <1>3, <2>1, <2>2, <2>3
<1>. HIDE DEF T
<1>4. \A n \in Nat : n \in T
  BY <1>2, <1>3, Induction
<1>. QED
  BY <1>1, <1>4 DEF T

\* More elements make the concatenation no shorter.
LEMMA JoinedGrows ==
  ASSUME NEW C, NEW s \in Seq(Seq(C)), NEW a \in 0..Len(s), NEW b \in a..Len(s)
  PROVE  Len(Joined(s, a)) <= Len(Joined(s, b))
<1>1. a \in Nat /\ b \in Nat /\ a <= b /\ b <= Len(s) /\ Len(s) \in Nat
  OBVIOUS
<1>. DEFINE T == {n \in Nat : n \in a..Len(s) => Len(Joined(s, a)) <= Len(Joined(s, n))}
<1>2. 0 \in T
  <2>1. Joined(s, a) \in Seq(C)
    BY JoinedType
  <2>2. Len(Joined(s, a)) \in Nat
    BY <2>1, LenProperties
  <2>3. 0 \in a..Len(s) => a = 0
    BY <1>1
  <2>. QED
    BY <2>2, <2>3
<1>3. ASSUME NEW n \in Nat, n \in T PROVE n + 1 \in T
  <2>. SUFFICES ASSUME n + 1 \in a..Len(s) PROVE Len(Joined(s, a)) <= Len(Joined(s, n + 1))
    OBVIOUS
  <2>1. n + 1 \in 1..Len(s) /\ (n + 1) - 1 = n /\ n \in 0..Len(s) /\ a \in 0..Len(s)
    BY <1>1
  <2>2. PICK x \in Seq(C), y \in Seq(C), z \in Seq(C) :
          x = Joined(s, n) /\ y = s[n + 1] /\ z = Joined(s, a)
    <3>1. Joined(s, n) \in Seq(C) /\ Joined(s, a) \in Seq(C)
      BY <2>1, JoinedType
    <3>2. s[n + 1] \in Seq(C)
      BY <2>1
    <3>. QED
      BY <3>1, <3>2
  <2>3. Joined(s, n + 1) = x \o y
    BY <2>1, <2>2, JoinedFacts
  <2>4. Len(x \o y) = Len(x) + Len(y) /\ Len(x) \in Nat /\ Len(y) \in Nat /\ Len(z) \in Nat
    OBVIOUS
  <2>5. CASE n + 1 = a
    BY <2>2, <2>4, <2>5
  <2>6. CASE n + 1 # a
    <3>1. n \in a..Len(s)
      BY <1>1, <2>1, <2>6
    <3>2. Len(z) <= Len(x)
      BY <1>3, <2>2, <3>1
    <3>. QED
      BY <2>2, <2>3, <2>4, <3>2
  <2>. QED
    BY <2>5, <2>6
<1>. HIDE DEF T
<1>4. \A n \in Nat : n \in T
  BY <1>2, <1>3, Induction
<1>. QED
  BY <1>1, <1>4 DEF T

LEMMA FlattenType ==
  ASSUME NEW C, NEW s \in Seq(Seq(C))
  PROVE  FlattenSeq(s) \in Seq(C)
<1>1. Len(s) \in 0..Len(s)
  OBVIOUS
<1>. QED
  BY <1>1, JoinedFacts, JoinedType

(***************************************************************************)
(* Flattening a concatenation is concatenating what the parts flatten to.  *)
(***************************************************************************)
LEMMA FlattenConcat ==
  ASSUME NEW C, NEW s \in Seq(Seq(C)), NEW t \in Seq(Seq(C))
  PROVE  FlattenSeq(s \o t) = FlattenSeq(s) \o FlattenSeq(t)
<1>. DEFINE u == s \o t
<1>0. /\ u \in Seq(Seq(C)) /\ Len(u) = Len(s) + Len(t)
      /\ Len(s) \in Nat /\ Len(t) \in Nat
      /\ \A k \in 1..Len(t) : u[Len(s) + k] = t[k]
  OBVIOUS
<1>7. SubSeq(u, 1, Len(s)) = s
  <2>1. CASE Len(s) = 0
    <3>1. s = <<>> /\ SubSeq(u, 1, 0) = <<>>
      BY <2>1, SubSeqEmpty
    <3>. QED
      BY <2>1, <3>1
  <2>2. CASE Len(s) # 0
    <3>1. 1 \in 1..Len(s) /\ Len(s) \in 1..Len(s)
      BY <1>0, <2>2
    <3>2. SubSeq(s \o t, 1, Len(s)) = SubSeq(s, 1, Len(s))
      BY <3>1, SubSeqOfConcat1
    <3>. QED
      BY <3>2, SubSeqFull
  <2>. QED
    BY <2>1, <2>2
<1>. DEFINE T == {n \in Nat : n \in 0..Len(t) =>
                    Joined(u, Len(s) + n) = FlattenSeq(s) \o Joined(t, n)}
<1>. HIDE DEF u
<1>1. 0 \in T
  <2>1. Joined(u, Len(s) + 0) = FlattenSeq(s)
    <3>1. Len(s) + 0 = Len(s)
      BY <1>0
    <3>. QED
      BY <1>7, <3>1 DEF Joined
  <2>2. FlattenSeq(s) \o <<>> = FlattenSeq(s)
    BY FlattenType, ConcatEmptySeq
  <2>. QED
    BY <2>1, <2>2, JoinedFacts
<1>2. ASSUME NEW n \in Nat, n \in T
      PROVE  n + 1 \in T
  <2>. SUFFICES ASSUME n + 1 \in 0..Len(t)
                PROVE  Joined(u, Len(s) + (n + 1)) = FlattenSeq(s) \o Joined(t, n + 1)
    OBVIOUS
  <2>1. /\ n + 1 \in 1..Len(t) /\ (n + 1) - 1 = n /\ n \in 0..Len(t)
        /\ Len(s) + (n + 1) \in 1..Len(u) /\ (Len(s) + (n + 1)) - 1 = Len(s) + n
    BY <1>0
  <2>2. Joined(u, Len(s) + (n + 1)) = Joined(u, Len(s) + n) \o u[Len(s) + (n + 1)]
    BY <1>0, <2>1, JoinedFacts
  <2>3. Joined(t, n + 1) = Joined(t, n) \o t[n + 1]
    BY <2>1, JoinedFacts
  <2>4. /\ FlattenSeq(s) \in Seq(C) /\ Joined(t, n) \in Seq(C) /\ t[n + 1] \in Seq(C)
        /\ u[Len(s) + (n + 1)] = t[n + 1]
    BY <1>0, <2>1, FlattenType, JoinedType
  <2>5. Joined(u, Len(s) + n) = FlattenSeq(s) \o Joined(t, n)
    BY <1>2, <2>1
  <2>6. (FlattenSeq(s) \o Joined(t, n)) \o t[n + 1]
          = FlattenSeq(s) \o (Joined(t, n) \o t[n + 1])
    <3>1. \A x, y, z \in Seq(C) : (x \o y) \o z = x \o (y \o z)
      BY SMTT(30), Assoc
    <3>. QED
      BY <2>4, <3>1, Zenon
  <2>. QED
    BY <2>1, <2>2, <2>3, <2>4, <2>5, <2>6
<1>. HIDE DEF T
<1>3. \A n \in Nat : n \in T
  BY <1>1, <1>2, Induction
<1>4. Len(t) \in 0..Len(t) /\ Len(t) \in Nat
  BY <1>0
<1>5. Joined(u, Len(s) + Len(t)) = FlattenSeq(s) \o Joined(t, Len(t))
  BY <1>3, <1>4 DEF T
<1>6. Joined(u, Len(u)) = FlattenSeq(u) /\ Joined(t, Len(t)) = FlattenSeq(t)
  BY <1>0, JoinedFacts
<1>. QED
  BY <1>0, <1>5, <1>6 DEF u

-----------------------------------------------------------------------------
(***************************************************************************)
(* The three characters of the format are different ones.                  *)
(***************************************************************************)
LEMMA CharactersDiffer ==
  Open # Close /\ Open # Underscore /\ Close # Underscore
BY DEF Open, Close, Underscore

(***************************************************************************)
(* An opening bracket occurs nowhere behind the first character.           *)
(***************************************************************************)
LEMMA BracketOnlyFirst ==
  ASSUME NEW s \in Text, CompletePlaceholder(s) \/ ViablePrefix(s),
         NEW i \in 2..Len(s)
  PROVE  s[i] # Open
<1>0. Open # Close /\ Open # Underscore /\ Open \notin Letter /\ Open \notin Digit
  BY CharactersDiffer, FormatAssumption
<1>1. CASE CompletePlaceholder(s)
  BY <1>0, <1>1, FormatAssumption DEF CompletePlaceholder, Word, Text
<1>2. CASE ViablePrefix(s)
  <2>1. PICK m \in 0..MaxLabelLen, n \in 0..(MaxIndexLen + 1), c \in 0..1 :
          /\ Len(s) = 1 + m + n + c
          /\ \A k \in 2..(m + 1) : s[k] \in Word
          /\ n > 0 => s[m + 2] = Underscore
          /\ \A k \in (m + 3)..(m + n + 1) : s[k] \in Digit
          /\ c = 1 => s[1 + m + n + 1] = Close
    BY <1>2 DEF ViablePrefix
  <2>2. CASE i \in 2..(m + 1)
    BY <1>0, <2>1, <2>2 DEF Word
  <2>3. CASE i = m + 2
    BY <1>0, <2>1, <2>3, FormatAssumption DEF Word
  <2>4. CASE i \in (m + 3)..(m + n + 1)
    BY <1>0, <2>1, <2>4
  <2>5. CASE i = m + n + 2
    BY <1>0, <2>1, <2>5, FormatAssumption
  <2>. QED
    BY <2>1, <2>2, <2>3, <2>4, <2>5, FormatAssumption
<1>. QED
  BY <1>1, <1>2

(***************************************************************************)
(* A closing bracket occurs only at the end.                               *)
(***************************************************************************)
LEMMA BracketOnlyLast ==
  ASSUME NEW s \in Text, CompletePlaceholder(s) \/ ViablePrefix(s),
         NEW i \in 1..(Len(s) - 1)
  PROVE  s[i] # Close
<1>0. Open # Close /\ Close # Underscore /\ Close \notin Letter /\ Close \notin Digit
  BY CharactersDiffer, FormatAssumption
<1>1. CASE CompletePlaceholder(s)
  BY <1>0, <1>1, FormatAssumption DEF CompletePlaceholder, Word, Text
<1>2. CASE ViablePrefix(s)
  <2>1. PICK m \in 0..MaxLabelLen, n \in 0..(MaxIndexLen + 1), c \in 0..1 :
          /\ Len(s) = 1 + m + n + c
          /\ s[1] = Open
          /\ \A k \in 2..(m + 1) : s[k] \in Word
          /\ n > 0 => s[m + 2] = Underscore
          /\ \A k \in (m + 3)..(m + n + 1) : s[k] \in Digit
    BY <1>2 DEF ViablePrefix
  <2>2. CASE i \in 2..(m + 1)
    BY <1>0, <2>1, <2>2 DEF Word
  <2>3. CASE i = m + 2
    BY <1>0, <2>1, <2>3, FormatAssumption DEF Word
  <2>4. CASE i \in (m + 3)..(m + n + 1)
    BY <1>0, <2>1, <2>4
  <2>5. CASE i = 1
    BY <1>0, <2>1, <2>5
  <2>. QED
    BY <2>1, <2>2, <2>3, <2>4, <2>5, FormatAssumption
<1>. QED
  BY <1>1, <1>2

(***************************************************************************)
(* The first k characters of a text.                                       *)
(***************************************************************************)
LEMMA PrefixFacts ==
  ASSUME NEW s \in Text, NEW k \in 1..Len(s)
  PROVE  /\ SubSeq(s, 1, k) \in Text
         /\ Len(SubSeq(s, 1, k)) = k
         /\ \A i \in 1..k : SubSeq(s, 1, k)[i] = s[i]
BY DEF Text

(***************************************************************************)
(* A segment of a text: its type, its length and its characters.           *)
(***************************************************************************)
LEMMA SegmentFacts ==
  ASSUME NEW s \in Text, NEW i \in 1..(Len(s) + 1), NEW j \in (i - 1)..Len(s)
  PROVE  /\ SubSeq(s, i, j) \in Text
         /\ Len(SubSeq(s, i, j)) = j - i + 1
         /\ \A k \in 1..(j - i + 1) : SubSeq(s, i, j)[k] = s[i + k - 1]
<1>. s \in Seq(Char)
  BY DEF Text
<1>. \A k \in i..j : s[k] \in Char
  OBVIOUS
<1>. QED
  BY DEF Text

(***************************************************************************)
(* Two texts of one length with the same characters are the same.          *)
(***************************************************************************)
LEMMA SameText ==
  ASSUME NEW s \in Text, NEW t \in Text, Len(s) = Len(t),
         \A k \in 1..Len(s) : s[k] = t[k]
  PROVE  s = t
BY DEF Text

-----------------------------------------------------------------------------
(***************************************************************************)
(* A known placeholder of s, by its first and last position: its brackets  *)
(* are at its two ends and nowhere else.                                   *)
(***************************************************************************)
LEMMA KnownFacts ==
  ASSUME WellFormedLookup, NEW s \in Text, NEW p \in KnownAt(s)
  PROVE  /\ p = <<p[1], p[2]>> /\ p[1] \in 1..Len(s) /\ p[2] \in 1..Len(s) /\ p[1] < p[2]
         /\ s[p[1]] = Open /\ s[p[2]] = Close
         /\ \A k \in (p[1] + 1)..p[2] : s[k] # Open
         /\ \A k \in p[1]..(p[2] - 1) : s[k] # Close
         /\ SubSeq(s, p[1], p[2]) \in DOMAIN Lookup
<1>1. /\ p = <<p[1], p[2]>> /\ p[1] \in 1..Len(s) /\ p[2] \in 1..Len(s)
      /\ SubSeq(s, p[1], p[2]) \in DOMAIN Lookup
  BY DEF KnownAt
<1>2. PICK a \in 1..Len(s), b \in 1..Len(s) : a = p[1] /\ b = p[2]
  BY <1>1
<1>3. PICK t : t = SubSeq(s, a, b)
  OBVIOUS
<1>4. t \in Text /\ CompletePlaceholder(t)
  BY <1>1, <1>2, <1>3 DEF WellFormedLookup
<1>5. Len(t) > 1 /\ Len(t) \in Nat /\ t[1] = Open /\ t[Len(t)] = Close
  BY <1>4, FormatAssumption DEF CompletePlaceholder
<1>6. Len(s) \in Nat /\ s \in Seq(Char)
  BY DEF Text
<1>7. a < b
  <2>1. a > b => Len(t) = 0
    BY <1>3, <1>6
  <2>2. a = b => Len(t) = 1
    BY <1>3, <1>6
  <2>. QED
    BY <1>2, <1>5, <2>1, <2>2
<1>8. Len(t) = b - a + 1 /\ \A k \in 1..(b - a + 1) : t[k] = s[a + k - 1]
  <2>1. a \in 1..(Len(s) + 1) /\ b \in (a - 1)..Len(s)
    BY <1>6, <1>7
  <2>. QED
    BY <1>3, <2>1, SegmentFacts
<1>9. \A k \in a..b : s[k] = t[k - a + 1]
  <2>1. TAKE k \in a..b
  <2>2. k - a + 1 \in 1..(b - a + 1) /\ a + (k - a + 1) - 1 = k
    BY <1>7
  <2>. QED
    BY <1>8, <2>2
<1>10. s[a] = Open /\ s[b] = Close
  <2>1. a \in a..b /\ b \in a..b /\ a - a + 1 = 1 /\ b - a + 1 = Len(t)
    BY <1>7, <1>8
  <2>. QED
    BY <1>5, <1>9, <2>1
<1>11. ASSUME NEW k \in (a + 1)..b PROVE s[k] # Open
  <2>1. k \in a..b /\ k - a + 1 \in 2..Len(t)
    BY <1>7, <1>8
  <2>. QED
    BY <1>4, <1>9, <2>1, BracketOnlyFirst
<1>12. ASSUME NEW k \in a..(b - 1) PROVE s[k] # Close
  <2>1. k \in a..b /\ k - a + 1 \in 1..(Len(t) - 1)
    BY <1>7, <1>8
  <2>. QED
    BY <1>4, <1>9, <2>1, BracketOnlyLast
<1>. QED
  BY <1>1, <1>2, <1>7, <1>10, <1>11, <1>12

\* At one position starts at most one known placeholder.
LEMMA KnownUnique ==
  ASSUME WellFormedLookup, NEW s \in Text,
         NEW p \in KnownAt(s), NEW q \in KnownAt(s), p[1] = q[1]
  PROVE  p = q
<1>1. ~(p[2] < q[2])
  <2>. SUFFICES ASSUME p[2] < q[2] PROVE FALSE
    OBVIOUS
  <2>1. p[2] \in q[1]..(q[2] - 1) /\ s[p[2]] = Close
    BY KnownFacts
  <2>. QED
    BY <2>1, KnownFacts
<1>2. ~(q[2] < p[2])
  <2>. SUFFICES ASSUME q[2] < p[2] PROVE FALSE
    OBVIOUS
  <2>1. q[2] \in p[1]..(p[2] - 1) /\ s[q[2]] = Close
    BY KnownFacts
  <2>. QED
    BY <2>1, KnownFacts
<1>. QED
  BY <1>1, <1>2, KnownFacts

(***************************************************************************)
(* The pieces that RestoreEach puts together.                              *)
(***************************************************************************)
LEMMA PieceAtStart ==
  ASSUME WellFormedLookup, NEW s \in Text, NEW p \in KnownAt(s)
  PROVE  Piece(s, p[1]) = Lookup[SubSeq(s, p[1], p[2])]
<1>. DEFINE q == CHOOSE r \in KnownAt(s) : r[1] = p[1]
<1>1. q \in KnownAt(s) /\ q[1] = p[1]
  OBVIOUS
<1>2. Piece(s, p[1]) = Lookup[SubSeq(s, q[1], q[2])]
  BY DEF Piece
<1>. HIDE DEF q
<1>3. q = p
  BY <1>1, KnownUnique
<1>. QED
  BY <1>2, <1>3

LEMMA PieceInside ==
  ASSUME WellFormedLookup, NEW s \in Text, NEW p \in KnownAt(s), NEW k \in (p[1] + 1)..p[2]
  PROVE  Piece(s, k) = <<>>
<1>1. p[1] < k /\ k <= p[2] /\ k \in Nat /\ k \in 1..Len(s)
  BY KnownFacts DEF Text
<1>2. ~\E q \in KnownAt(s) : q[1] = k
  BY <1>1, KnownFacts
<1>. QED
  BY <1>1, <1>2 DEF Piece

LEMMA PieceOutside ==
  ASSUME WellFormedLookup, NEW s \in Text, NEW k \in 1..Len(s),
         \A p \in KnownAt(s) : ~(p[1] <= k /\ k <= p[2])
  PROVE  Piece(s, k) = <<s[k]>>
<1>1. k \in Nat
  OBVIOUS
<1>2. ~\E p \in KnownAt(s) : p[1] = k
  <2>. SUFFICES ASSUME NEW p \in KnownAt(s), p[1] = k PROVE FALSE
    OBVIOUS
  <2>1. p[1] <= k /\ k <= p[2]
    BY <1>1, KnownFacts
  <2>. QED
    BY <2>1
<1>3. ~\E p \in KnownAt(s) : p[1] < k /\ k <= p[2]
  <2>. SUFFICES ASSUME NEW p \in KnownAt(s), p[1] < k, k <= p[2] PROVE FALSE
    OBVIOUS
  <2>1. p[1] <= k
    BY <1>1, KnownFacts
  <2>. QED
    BY <2>1
<1>. QED
  BY <1>2, <1>3 DEF Piece

LEMMA PieceType ==
  ASSUME WellFormedLookup, NEW s \in Text, NEW k \in 1..Len(s)
  PROVE  Piece(s, k) \in Text
<1>1. CASE \E p \in KnownAt(s) : p[1] = k
  <2>1. PICK p \in KnownAt(s) : p[1] = k
    BY <1>1
  <2>2. SubSeq(s, p[1], p[2]) \in DOMAIN Lookup
    BY KnownFacts
  <2>3. Piece(s, k) = Lookup[SubSeq(s, p[1], p[2])]
    BY <2>1, PieceAtStart
  <2>. QED
    BY <2>2, <2>3 DEF WellFormedLookup
<1>2. CASE ~\E p \in KnownAt(s) : p[1] = k
  <2>1. Piece(s, k) = <<>> \/ Piece(s, k) = <<s[k]>>
    BY <1>2 DEF Piece
  <2>2. s[k] \in Char
    BY DEF Text
  <2>3. <<>> \in Seq(Char) /\ <<s[k]>> \in Seq(Char)
    BY <2>2
  <2>. QED
    BY <2>1, <2>3 DEF Text
<1>. QED
  BY <1>1, <1>2

Pieces(s) == [k \in 1..Len(s) |-> Piece(s, k)]

LEMMA PiecesFacts ==
  ASSUME WellFormedLookup, NEW s \in Text
  PROVE  /\ Pieces(s) \in Seq(Seq(Char)) /\ Len(Pieces(s)) = Len(s)
         /\ \A k \in 1..Len(s) : Pieces(s)[k] = Piece(s, k)
         /\ RestoreEach(s) = FlattenSeq(Pieces(s))
<1>1. Len(s) \in Nat
  BY DEF Text
<1>2. \A k \in 1..Len(s) : Piece(s, k) \in Seq(Char)
  BY PieceType DEF Text
<1>3. Pieces(s) \in [1..Len(s) -> Seq(Char)]
  BY <1>2 DEF Pieces
<1>4. Pieces(s) \in Seq(Seq(Char)) /\ Len(Pieces(s)) = Len(s)
  BY <1>1, <1>3
<1>. QED
  BY <1>4 DEF Pieces, RestoreEach

(***************************************************************************)
(* Elements that are single characters of t, and elements that are empty.  *)
(***************************************************************************)
LEMMA LiteralRun ==
  ASSUME NEW C, NEW s \in Seq(Seq(C)), NEW t \in Seq(C), Len(t) = Len(s),
         NEW a \in 0..Len(s), NEW b \in a..Len(s),
         \A k \in (a + 1)..b : s[k] = SubSeq(t, k, k)
  PROVE  Joined(s, b) = Joined(s, a) \o SubSeq(t, a + 1, b)
<1>4. \A x, y, z \in Seq(C) : (x \o y) \o z = x \o (y \o z)
  BY SMTT(30), Assoc
<1>. DEFINE P(n) == Joined(s, a + n) = Joined(s, a) \o SubSeq(t, a + 1, a + n)
            T == {n \in Nat : n \in 0..(b - a) => P(n)}
<1>0. a \in Nat /\ b \in Nat /\ Len(s) \in Nat /\ Joined(s, a) \in Seq(C)
  BY JoinedType
<1>1. 0 \in T
  <2>1. a + 0 = a /\ SubSeq(t, a + 1, a) = <<>>
    BY <1>0, SubSeqEmpty
  <2>2. Joined(s, a) \o <<>> = Joined(s, a)
    BY <1>0, ConcatEmptySeq
  <2>. QED
    BY <2>1, <2>2
<1>2. ASSUME NEW n \in Nat, n \in T
      PROVE  n + 1 \in T
  <2>0. n + 1 \in Nat
    OBVIOUS
  <2>. SUFFICES ASSUME n + 1 \in 0..(b - a) PROVE P(n + 1)
    BY <2>0, Zenon
  <2>1. PICK k \in 1..Len(s) : k = a + (n + 1)
    BY <1>0
  <2>2. k \in (a + 1)..b /\ k - 1 = a + n /\ n \in 0..(b - a)
    BY <1>0, <2>1
  <2>3. Joined(s, k) = Joined(s, k - 1) \o s[k]
    BY JoinedFacts
  <2>4. s[k] = SubSeq(t, k, k)
    BY <2>2
  <2>5. SubSeq(t, a + 1, k) = SubSeq(t, a + 1, k - 1) \o SubSeq(t, k, k)
    <3>1. /\ a + 1 \in 1..(Len(t) + 1) /\ k - 1 \in ((a + 1) - 1)..Len(t)
          /\ k \in (k - 1)..Len(t) /\ (k - 1) + 1 = k
      BY <1>0, <2>1
    <3>. QED
      BY <3>1, ConcatAdjacentSubSeq
  <2>6. Joined(s, k - 1) = Joined(s, a) \o SubSeq(t, a + 1, k - 1)
    BY <1>2, <2>2
  <2>7. SubSeq(t, a + 1, k - 1) \in Seq(C) /\ SubSeq(t, k, k) \in Seq(C)
    BY <1>0, <2>1, <2>2
  <2>8. (Joined(s, a) \o SubSeq(t, a + 1, k - 1)) \o SubSeq(t, k, k)
          = Joined(s, a) \o (SubSeq(t, a + 1, k - 1) \o SubSeq(t, k, k))
    BY <1>0, <1>4, <2>7, Zenon
  <2>. QED
    BY <2>1, <2>3, <2>4, <2>5, <2>6, <2>8
<1>. HIDE DEF T
<1>3. \A n \in Nat : n \in T
  BY <1>1, <1>2, Induction
<1>5. b - a \in Nat /\ b - a \in 0..(b - a) /\ a + (b - a) = b
  BY <1>0
<1>. QED
  BY <1>3, <1>5 DEF T

LEMMA EmptyRun ==
  ASSUME NEW C, NEW s \in Seq(Seq(C)), NEW a \in 0..Len(s), NEW b \in a..Len(s),
         \A k \in (a + 1)..b : s[k] = <<>>
  PROVE  Joined(s, b) = Joined(s, a)
<1>. DEFINE T == {n \in Nat : n \in 0..(b - a) => Joined(s, a + n) = Joined(s, a)}
<1>0. a \in Nat /\ b \in Nat /\ Len(s) \in Nat /\ Joined(s, a) \in Seq(C)
  BY JoinedType
<1>1. 0 \in T
  BY <1>0
<1>2. ASSUME NEW n \in Nat, n \in T
      PROVE  n + 1 \in T
  <2>. SUFFICES ASSUME n + 1 \in 0..(b - a) PROVE Joined(s, a + (n + 1)) = Joined(s, a)
    OBVIOUS
  <2>1. PICK k \in 1..Len(s) : k = a + (n + 1)
    BY <1>0
  <2>2. k \in (a + 1)..b /\ k - 1 = a + n /\ n \in 0..(b - a)
    BY <1>0, <2>1
  <2>3. Joined(s, k) = Joined(s, k - 1) \o s[k]
    BY JoinedFacts
  <2>4. s[k] = <<>> /\ Joined(s, k - 1) = Joined(s, a)
    BY <1>2, <2>2
  <2>5. Joined(s, a) \o <<>> = Joined(s, a)
    BY <1>0, ConcatEmptySeq
  <2>. QED
    BY <2>1, <2>3, <2>4, <2>5
<1>. HIDE DEF T
<1>3. \A n \in Nat : n \in T
  BY <1>1, <1>2, Induction
<1>4. b - a \in Nat /\ b - a \in 0..(b - a) /\ a + (b - a) = b
  BY <1>0
<1>5. Joined(s, a + (b - a)) = Joined(s, a)
  BY <1>3, <1>4 DEF T
<1>. QED
  BY <1>4, <1>5

-----------------------------------------------------------------------------
(***************************************************************************)
(* RestoreString scans from one bracket to the next.                       *)
(***************************************************************************)
LEMMA FirstOccurrence ==
  ASSUME NEW s \in Text, NEW c, NEW k \in Nat, Occurrences(s, c, k) # {}
  PROVE  /\ Min(Occurrences(s, c, k)) \in k..Len(s)
         /\ s[Min(Occurrences(s, c, k))] = c
         /\ \A j \in k..(Min(Occurrences(s, c, k)) - 1) : s[j] # c
<1>1. Len(s) \in Nat
  BY DEF Text
<1>2. Occurrences(s, c, k) \in SUBSET Nat
  BY DEF Occurrences
<1>3. PICK m \in Occurrences(s, c, k) : \A j \in Occurrences(s, c, k) : m <= j
  BY <1>2, LeastNumber
<1>4. PICK n : n = Min(Occurrences(s, c, k))
  OBVIOUS
<1>5. n \in Occurrences(s, c, k) /\ \A j \in Occurrences(s, c, k) : n <= j
  BY <1>3, <1>4 DEF Min
<1>6. n \in k..Len(s) /\ s[n] = c
  BY <1>5 DEF Occurrences
<1>7. ASSUME NEW j \in k..(n - 1) PROVE s[j] # c
  <2>1. j \in k..Len(s) /\ ~(n <= j)
    BY <1>1, <1>6
  <2>. QED
    BY <1>5, <2>1 DEF Occurrences
<1>. QED
  BY <1>4, <1>6, <1>7

\* One step of the scan: what is restored of s from position k on, when f says
\* so for the positions behind it.
ScanStep(f, s, k) ==
  IF Occurrences(s, Open, k) = {} THEN SubSeq(s, k, Len(s))
  ELSE LET start == Min(Occurrences(s, Open, k))
       IN  IF Occurrences(s, Close, start) = {} THEN SubSeq(s, k, Len(s))
           ELSE LET end == Min(Occurrences(s, Close, start))
                IN  SubSeq(s, k, start - 1)
                      \o Resolve(SubSeq(s, start, end))
                      \o f[end + 1]

LEMMA ScanStepLocal ==
  ASSUME NEW s \in Text, NEW k \in 1..(Len(s) + 1), NEW f, NEW g,
         \A j \in (k + 1)..(Len(s) + 1) : f[j] = g[j]
  PROVE  ScanStep(f, s, k) = ScanStep(g, s, k)
<1>1. k \in Nat /\ Len(s) \in Nat
  BY DEF Text
<1>2. CASE Occurrences(s, Open, k) = {}
  BY <1>2 DEF ScanStep
<1>3. CASE Occurrences(s, Open, k) # {}
  <2>1. PICK start : start = Min(Occurrences(s, Open, k))
    OBVIOUS
  <2>2. start \in k..Len(s) /\ start \in Nat
    BY <1>1, <1>3, <2>1, FirstOccurrence
  <2>3. CASE Occurrences(s, Close, start) = {}
    BY <1>3, <2>1, <2>3 DEF ScanStep
  <2>4. CASE Occurrences(s, Close, start) # {}
    <3>1. PICK end : end = Min(Occurrences(s, Close, start))
      OBVIOUS
    <3>2. end \in start..Len(s)
      BY <2>2, <2>4, <3>1, FirstOccurrence
    <3>3. end + 1 \in (k + 1)..(Len(s) + 1)
      BY <1>1, <2>2, <3>2
    <3>4. f[end + 1] = g[end + 1]
      BY <3>3
    <3>. QED
      BY <1>3, <2>1, <2>4, <3>1, <3>4 DEF ScanStep
  <2>. QED
    BY <2>3, <2>4
<1>. QED
  BY <1>2, <1>3

IsScan(f, s, l) == f = [k \in l..(Len(s) + 1) |-> ScanStep(f, s, k)]

\* The function that RestoreString defines recursively exists.
LEMMA ScanExists ==
  ASSUME NEW s \in Text
  PROVE  \E f : IsScan(f, s, 1)
<1>0. Len(s) \in Nat
  BY DEF Text
<1>. DEFINE T == {n \in Nat : n <= Len(s) => \E f : IsScan(f, s, Len(s) + 1 - n)}
<1>1. 0 \in T
  <2>. DEFINE l == Len(s) + 1
  <2>1. l \in Nat /\ l - 0 = l /\ l..l = {l} /\ l > Len(s)
    BY <1>0
  <2>2. Occurrences(s, Open, l) = {}
    BY <1>0 DEF Occurrences
  <2>. DEFINE f == [k \in l..l |-> SubSeq(s, k, Len(s))]
  <2>3. \A g : ScanStep(g, s, l) = SubSeq(s, l, Len(s))
    BY <2>2 DEF ScanStep
  <2>4. f = [k \in l..l |-> ScanStep(f, s, k)]
    <3>1. \A k \in l..l : SubSeq(s, k, Len(s)) = ScanStep(f, s, k)
      BY <2>1, <2>3
    <3>. QED
      BY <3>1
  <2>. HIDE DEF f
  <2>5. IsScan(f, s, l)
    BY <2>4 DEF IsScan
  <2>. HIDE DEF l
  <2>6. IsScan(f, s, l - 0)
    BY <2>1, <2>5
  <2>. QED
    BY <2>6 DEF l
<1>2. ASSUME NEW n \in Nat, n \in T
      PROVE  n + 1 \in T
  <2>0. n + 1 \in Nat
    OBVIOUS
  <2>. SUFFICES ASSUME n + 1 <= Len(s) PROVE \E f : IsScan(f, s, Len(s) + 1 - (n + 1))
    BY <2>0, Zenon
  <2>1. PICK l \in Nat : l = Len(s) + 1 - n
    BY <1>0
  <2>2. /\ l - 1 = Len(s) + 1 - (n + 1) /\ l - 1 \in 1..Len(s) /\ n <= Len(s)
        /\ \A k \in (l - 1)..(Len(s) + 1) : k = l - 1 \/ k \in l..(Len(s) + 1)
        /\ \A k \in (l - 1)..(Len(s) + 1) : k \in 1..(Len(s) + 1)
        /\ \A k \in (l - 1)..(Len(s) + 1) : \A j \in (k + 1)..(Len(s) + 1) :
             j \in l..(Len(s) + 1) /\ j # l - 1 /\ j \in (l - 1)..(Len(s) + 1)
        /\ \A k \in l..(Len(s) + 1) : k # l - 1
    BY <1>0, <2>1
  <2>3. PICK f : IsScan(f, s, l)
    BY <1>2, <2>1, <2>2
  <2>4. \A k \in l..(Len(s) + 1) : f[k] = ScanStep(f, s, k)
    BY <2>3 DEF IsScan
  <2>. DEFINE g == [k \in (l - 1)..(Len(s) + 1) |->
                      IF k = l - 1 THEN ScanStep(f, s, k) ELSE f[k]]
  <2>5. ASSUME NEW k \in (l - 1)..(Len(s) + 1)
        PROVE  g[k] = ScanStep(g, s, k)
    <3>1. \A j \in (k + 1)..(Len(s) + 1) : f[j] = g[j]
      BY <2>2
    <3>2. g[k] = ScanStep(f, s, k)
      BY <2>2, <2>4
    <3>. HIDE DEF g
    <3>3. k \in 1..(Len(s) + 1)
      BY <2>2
    <3>4. ScanStep(f, s, k) = ScanStep(g, s, k)
      BY <3>1, <3>3, ScanStepLocal
    <3>. QED
      BY <3>2, <3>4
  <2>6. g = [k \in (l - 1)..(Len(s) + 1) |-> g[k]]
    OBVIOUS
  <2>. HIDE DEF g
  <2>7. IsScan(g, s, l - 1)
    BY <2>5, <2>6 DEF IsScan
  <2>. QED
    BY <2>2, <2>7
<1>. HIDE DEF T
<1>3. \A n \in Nat : n \in T
  BY <1>1, <1>2, Induction
<1>4. Len(s) <= Len(s) /\ Len(s) + 1 - Len(s) = 1
  BY <1>0
<1>5. \E f : IsScan(f, s, Len(s) + 1 - Len(s))
  BY <1>0, <1>3, <1>4 DEF T
<1>. QED
  BY <1>4, <1>5

LEMMA RestoreStringScans ==
  ASSUME NEW s \in Text
  PROVE  \E f : /\ RestoreString(s) = f[1]
                /\ \A k \in 1..(Len(s) + 1) : f[k] = ScanStep(f, s, k)
<1>. DEFINE f == CHOOSE g : IsScan(g, s, 1)
<1>1. RestoreString(s) = f[1]
  BY DEF RestoreString, IsScan, ScanStep
<1>2. IsScan(f, s, 1)
  BY ScanExists
<1>. HIDE DEF f
<1>3. \A k \in 1..(Len(s) + 1) : f[k] = ScanStep(f, s, k)
  BY <1>2 DEF IsScan
<1>. QED
  BY <1>1, <1>3

LEMMA OneCharacter ==
  ASSUME NEW s \in Text, NEW k \in 1..Len(s)
  PROVE  SubSeq(s, k, k) = <<s[k]>>
<1>1. s[k] \in Char /\ k \in 1..(Len(s) + 1) /\ k \in (k - 1)..Len(s) /\ k - k + 1 = 1
  BY DEF Text
<1>2. /\ SubSeq(s, k, k) \in Text /\ Len(SubSeq(s, k, k)) = 1
      /\ \A j \in 1..1 : SubSeq(s, k, k)[j] = s[k + j - 1]
  BY <1>1, SegmentFacts
<1>3. SubSeq(s, k, k)[1] = s[k]
  BY <1>1, <1>2
<1>4. <<s[k]>> \in Seq(Char) /\ Len(<<s[k]>>) = 1 /\ <<s[k]>>[1] = s[k]
  BY <1>1
<1>5. PICK t \in Text : t = SubSeq(s, k, k)
  BY <1>2
<1>6. PICK u \in Text : u = <<s[k]>>
  BY <1>4 DEF Text
<1>7. Len(t) = Len(u) /\ \A j \in 1..Len(t) : t[j] = u[j]
  BY <1>2, <1>3, <1>4, <1>5, <1>6
<1>. QED
  BY <1>5, <1>6, <1>7, SameText

(***************************************************************************)
(* Where no known placeholder lies, restoring keeps the text.              *)
(***************************************************************************)
LEMMA LiteralPieces ==
  ASSUME WellFormedLookup, NEW s \in Text, NEW a \in 0..Len(s), NEW b \in a..Len(s),
         \A k \in (a + 1)..b : \A p \in KnownAt(s) : ~(p[1] <= k /\ k <= p[2])
  PROVE  Joined(Pieces(s), b) = Joined(Pieces(s), a) \o SubSeq(s, a + 1, b)
<1>1. /\ Pieces(s) \in Seq(Seq(Char)) /\ Len(Pieces(s)) = Len(s)
      /\ \A k \in 1..Len(s) : Pieces(s)[k] = Piece(s, k)
  BY PiecesFacts
<1>2. s \in Seq(Char) /\ Len(s) \in Nat
  BY DEF Text
<1>3. \A k \in (a + 1)..b : Pieces(s)[k] = SubSeq(s, k, k)
  <2>1. TAKE k \in (a + 1)..b
  <2>2. k \in 1..Len(s)
    BY <1>2
  <2>3. Piece(s, k) = <<s[k]>>
    BY <2>2, PieceOutside
  <2>4. SubSeq(s, k, k) = <<s[k]>>
    BY <2>2, OneCharacter
  <2>. QED
    BY <1>1, <2>2, <2>3, <2>4
<1>4. PICK ps \in Seq(Seq(Char)) : ps = Pieces(s)
  BY <1>1
<1>5. Joined(ps, b) = Joined(ps, a) \o SubSeq(s, a + 1, b)
  <2>1. /\ Len(s) = Len(ps) /\ a \in 0..Len(ps) /\ b \in a..Len(ps)
        /\ \A k \in (a + 1)..b : ps[k] = SubSeq(s, k, k)
    BY <1>1, <1>3, <1>4
  <2>. QED
    BY <1>2, <2>1, LiteralRun
<1>. QED
  BY <1>4, <1>5

\* What RestoreEach makes of the first n characters of s.
Restored(s, n) == Joined(Pieces(s), n)

\* Position k is not inside a known placeholder.
Outside(s, k) == \A p \in KnownAt(s) : ~(p[1] < k /\ k <= p[2])

(***************************************************************************)
(* One step of the scan that begins outside the known placeholders: what   *)
(* it returns completes what RestoreEach makes of the text before it, if   *)
(* the scan of every later such position does.                             *)
(***************************************************************************)
LEMMA ScanStepRestores ==
  ASSUME WellFormedLookup, NEW s \in Text, NoStrayOpen(s), NEW f,
         NEW k \in 1..(Len(s) + 1), Outside(s, k),
         \A j \in (k + 1)..(Len(s) + 1) :
           Outside(s, j) => f[j] \in Seq(Char) /\ Restored(s, j - 1) \o f[j] = Restored(s, Len(s))
  PROVE  ScanStep(f, s, k) \in Seq(Char) /\ Restored(s, k - 1) \o ScanStep(f, s, k) = Restored(s, Len(s))
<1>0. s \in Seq(Char) /\ Len(s) \in Nat /\ k \in Nat
  BY DEF Text
<1>1. \A n \in 0..Len(s) : Restored(s, n) = Joined(Pieces(s), n) /\ Restored(s, n) \in Seq(Char)
  BY PiecesFacts, JoinedType DEF Restored
<1>2. \A p \in KnownAt(s) : p[1] \in Nat /\ p[2] \in Nat /\ (p[1] < k => p[2] < k)
  <2>1. TAKE p \in KnownAt(s)
  <2>2. p[1] \in 1..Len(s) /\ p[2] \in 1..Len(s)
    BY KnownFacts
  <2>. QED
    BY <1>0, <2>2 DEF Outside
<1>3. ASSUME NEW a \in 0..Len(s), NEW b \in a..Len(s),
             \A j \in (a + 1)..b : \A p \in KnownAt(s) : ~(p[1] <= j /\ j <= p[2])
      PROVE  Restored(s, b) = Restored(s, a) \o SubSeq(s, a + 1, b)
  <2>1. Joined(Pieces(s), b) = Joined(Pieces(s), a) \o SubSeq(s, a + 1, b)
    BY <1>3, LiteralPieces
  <2>2. a \in 0..Len(s) /\ b \in 0..Len(s)
    BY <1>0
  <2>. QED
    BY <1>1, <2>1, <2>2
\* The rest of the text holds no known placeholder.
<1>4. ASSUME \A p \in KnownAt(s) : ~(p[1] >= k), ScanStep(f, s, k) = SubSeq(s, k, Len(s))
      PROVE  ScanStep(f, s, k) \in Seq(Char) /\ Restored(s, k - 1) \o ScanStep(f, s, k) = Restored(s, Len(s))
  <2>1. k - 1 \in 0..Len(s) /\ Len(s) \in (k - 1)..Len(s) /\ (k - 1) + 1 = k
    BY <1>0
  <2>2. \A j \in ((k - 1) + 1)..Len(s) : \A p \in KnownAt(s) : ~(p[1] <= j /\ j <= p[2])
    <3>1. TAKE j \in ((k - 1) + 1)..Len(s)
    <3>2. TAKE p \in KnownAt(s)
    <3>3. p[1] < k /\ p[2] < k /\ p[2] \in Nat
      BY <1>0, <1>2, <1>4
    <3>. QED
      BY <1>0, <3>3
  <2>3. Restored(s, Len(s)) = Restored(s, k - 1) \o SubSeq(s, (k - 1) + 1, Len(s))
    BY <1>3, <2>1, <2>2
  <2>4. SubSeq(s, k, Len(s)) \in Seq(Char)
    BY <1>0
  <2>. QED
    BY <1>4, <2>1, <2>3, <2>4
<1>5. CASE Occurrences(s, Open, k) = {}
  <2>1. \A p \in KnownAt(s) : ~(p[1] >= k)
    <3>1. TAKE p \in KnownAt(s)
    <3>2. p[1] \in 1..Len(s) /\ s[p[1]] = Open
      BY KnownFacts
    <3>. QED
      BY <1>0, <1>5, <3>2 DEF Occurrences
  <2>2. ScanStep(f, s, k) = SubSeq(s, k, Len(s))
    BY <1>5 DEF ScanStep
  <2>. QED
    BY <1>4, <2>1, <2>2
<1>6. CASE Occurrences(s, Open, k) # {}
  <2>1. PICK start : start = Min(Occurrences(s, Open, k))
    OBVIOUS
  <2>2. /\ start \in k..Len(s) /\ start \in Nat /\ s[start] = Open
        /\ \A j \in k..(start - 1) : s[j] # Open
    BY <1>0, <1>6, <2>1, FirstOccurrence
  <2>3. \A p \in KnownAt(s) : p[1] >= k => p[1] >= start
    <3>1. TAKE p \in KnownAt(s)
    <3>2. p[1] \in 1..Len(s) /\ s[p[1]] = Open
      BY KnownFacts
    <3>. QED
      BY <1>0, <2>2, <3>2
  <2>4. CASE Occurrences(s, Close, start) = {}
    <3>1. \A p \in KnownAt(s) : ~(p[1] >= k)
      <4>1. TAKE p \in KnownAt(s)
      <4>2. p[1] \in 1..Len(s) /\ p[2] \in 1..Len(s) /\ p[1] < p[2] /\ s[p[2]] = Close
        BY KnownFacts
      <4>3. p[1] >= k => p[2] \in start..Len(s)
        BY <1>0, <2>2, <2>3, <4>2
      <4>. QED
        BY <2>4, <4>2, <4>3 DEF Occurrences
    <3>2. ScanStep(f, s, k) = SubSeq(s, k, Len(s))
      BY <1>6, <2>1, <2>4 DEF ScanStep
    <3>. QED
      BY <1>4, <3>1, <3>2
  <2>5. CASE Occurrences(s, Close, start) # {}
    <3>1. PICK end : end = Min(Occurrences(s, Close, start))
      OBVIOUS
    <3>2. /\ end \in start..Len(s) /\ end \in Nat /\ s[end] = Close
          /\ \A j \in start..(end - 1) : s[j] # Close
      BY <2>2, <2>5, <3>1, FirstOccurrence
    <3>3. start < end
      <4>1. Open # Close
        BY CharactersDiffer
      <4>. QED
        BY <2>2, <3>2, <4>1
    <3>4. PICK token : token = SubSeq(s, start, end)
      OBVIOUS
    \* The text in front of the token.
    <3>5. Restored(s, start - 1) = Restored(s, k - 1) \o SubSeq(s, k, start - 1)
      <4>1. k - 1 \in 0..Len(s) /\ start - 1 \in (k - 1)..Len(s) /\ (k - 1) + 1 = k
        BY <1>0, <2>2
      <4>2. \A j \in ((k - 1) + 1)..(start - 1) : \A p \in KnownAt(s) : ~(p[1] <= j /\ j <= p[2])
        <5>1. TAKE j \in ((k - 1) + 1)..(start - 1)
        <5>2. TAKE p \in KnownAt(s)
        <5>. QED
          BY <1>0, <1>2, <2>2, <2>3
      <4>3. Restored(s, start - 1) = Restored(s, k - 1) \o SubSeq(s, (k - 1) + 1, start - 1)
        BY <1>3, <4>1, <4>2
      <4>. QED
        BY <4>1, <4>3
    \* A known placeholder that begins in start..end is the token.
    <3>6. \A p \in KnownAt(s) : p[1] >= k /\ p[1] <= end => p[1] = start /\ p[2] = end
      <4>1. SUFFICES ASSUME NEW p \in KnownAt(s), p[1] >= k, p[1] <= end
                     PROVE  p[1] = start /\ p[2] = end
        OBVIOUS
      <4>2. /\ p[1] \in 1..Len(s) /\ p[2] \in 1..Len(s) /\ p[1] < p[2]
            /\ s[p[1]] = Open /\ s[p[2]] = Close
            /\ \A j \in p[1]..(p[2] - 1) : s[j] # Close
        BY KnownFacts
      <4>3. p[1] >= start
        BY <2>3, <4>1
      <4>4. ~(p[1] > start)
        <5>1. SUFFICES ASSUME p[1] > start PROVE FALSE
          OBVIOUS
        <5>2. start \in 1..(p[1] - 1)
          BY <1>0, <2>2, <4>2, <5>1
        <5>3. PICK j \in start..(p[1] - 1) : s[j] = Close
          BY <2>2, <5>2 DEF NoStrayOpen
        <5>4. j \in start..(end - 1)
          BY <2>2, <3>2, <4>1, <4>2
        <5>. QED
          BY <3>2, <5>3, <5>4
      <4>5. p[1] = start
        BY <2>2, <4>2, <4>3, <4>4
      <4>6. ~(p[2] < end)
        <5>1. p[2] < end => p[2] \in start..(end - 1)
          BY <2>2, <3>2, <4>2, <4>5
        <5>. QED
          BY <3>2, <4>2, <5>1
      <4>7. ~(end < p[2])
        <5>1. end < p[2] => end \in p[1]..(p[2] - 1)
          BY <2>2, <3>2, <4>2, <4>5
        <5>. QED
          BY <3>2, <4>2, <5>1
      <4>. QED
        BY <3>2, <4>2, <4>5, <4>6, <4>7
    <3>7. Outside(s, end + 1)
      <4>1. SUFFICES ASSUME NEW p \in KnownAt(s), p[1] < end + 1, end + 1 <= p[2]
                     PROVE  FALSE
        BY DEF Outside
      <4>. QED
        BY <1>0, <1>2, <2>2, <3>2, <3>6, <4>1
    <3>8. Resolve(token) \in Seq(Char) /\ Restored(s, end) = Restored(s, start - 1) \o Resolve(token)
      <4>0. start - 1 \in 0..Len(s) /\ end \in (start - 1)..Len(s) /\ (start - 1) + 1 = start
            /\ start \in 1..Len(s) /\ end \in 1..Len(s)
        BY <1>0, <2>2, <3>2
      <4>1. CASE token \in DOMAIN Lookup
        <5>1. PICK p \in KnownAt(s) : p[1] = start /\ p[2] = end
          <6>1. <<start, end>> \in KnownAt(s)
            BY <3>4, <4>0, <4>1 DEF KnownAt
          <6>. QED
            BY <6>1
        <5>2. Resolve(token) = Lookup[token] /\ Lookup[token] \in Seq(Char)
          BY <4>1 DEF Resolve, WellFormedLookup, Text
        <5>3. Piece(s, start) = Lookup[token]
          BY <3>4, <5>1, PieceAtStart
        <5>4. PICK ps : ps = Pieces(s)
          OBVIOUS
        <5>5. /\ ps \in Seq(Seq(Char)) /\ Len(ps) = Len(s)
              /\ \A j \in 1..Len(s) : ps[j] = Piece(s, j)
          BY <5>4, PiecesFacts
        <5>6. Joined(ps, start) = Joined(ps, start - 1) \o ps[start]
          BY <4>0, <5>5, JoinedFacts
        <5>7. \A j \in (start + 1)..end : ps[j] = <<>>
          <6>1. TAKE j \in (start + 1)..end
          <6>2. j \in (p[1] + 1)..p[2] /\ j \in 1..Len(s)
            BY <4>0, <5>1
          <6>. QED
            BY <5>5, <6>2, PieceInside
        <5>8. start \in 0..Len(ps) /\ end \in start..Len(ps)
          BY <3>2, <4>0, <5>5
        <5>9. Joined(ps, end) = Joined(ps, start)
          BY <5>5, <5>7, <5>8, EmptyRun
        <5>10. start - 1 \in 0..Len(s) /\ end \in 0..Len(s)
          BY <4>0
        <5>. QED
          BY <1>1, <4>0, <5>2, <5>3, <5>4, <5>5, <5>6, <5>9, <5>10
      <4>2. CASE token \notin DOMAIN Lookup
        <5>1. Resolve(token) = SubSeq(s, start, end) /\ SubSeq(s, start, end) \in Seq(Char)
          BY <1>0, <3>4, <4>0, <4>2 DEF Resolve
        <5>2. \A j \in ((start - 1) + 1)..end : \A p \in KnownAt(s) : ~(p[1] <= j /\ j <= p[2])
          <6>1. SUFFICES ASSUME NEW j \in ((start - 1) + 1)..end, NEW p \in KnownAt(s),
                                p[1] <= j, j <= p[2]
                         PROVE  FALSE
            OBVIOUS
          <6>2. p[1] >= k /\ p[1] <= end
            BY <1>0, <1>2, <2>2, <3>2, <6>1
          <6>3. SubSeq(s, start, end) \in DOMAIN Lookup
            BY <3>6, <6>2, KnownFacts
          <6>. QED
            BY <3>4, <4>2, <6>3
        <5>3. Restored(s, end) = Restored(s, start - 1) \o SubSeq(s, (start - 1) + 1, end)
          BY <1>3, <4>0, <5>2
        <5>. QED
          BY <4>0, <5>1, <5>3
      <4>. QED
        BY <4>1, <4>2
    <3>9. f[end + 1] \in Seq(Char) /\ Restored(s, end) \o f[end + 1] = Restored(s, Len(s))
      <4>1. end + 1 \in (k + 1)..(Len(s) + 1) /\ (end + 1) - 1 = end
        BY <1>0, <2>2, <3>2
      <4>. QED
        BY <3>7, <4>1
    <3>10. ScanStep(f, s, k) = (SubSeq(s, k, start - 1) \o Resolve(token)) \o f[end + 1]
      BY <1>6, <2>1, <2>5, <3>1, <3>4 DEF ScanStep
    <3>11. Restored(s, k - 1) \in Seq(Char) /\ SubSeq(s, k, start - 1) \in Seq(Char)
      <4>1. k - 1 \in 0..Len(s)
        BY <1>0
      <4>2. SubSeq(s, k, start - 1) \in Seq(Char)
        BY <1>0, <2>2
      <4>. QED
        BY <1>1, <4>1, <4>2
    <3>12. PICK u \in Seq(Char), x \in Seq(Char), y \in Seq(Char), z \in Seq(Char) :
             /\ u = Restored(s, k - 1) /\ x = SubSeq(s, k, start - 1)
             /\ y = Resolve(token) /\ z = f[end + 1]
      BY <3>8, <3>9, <3>11
    <3>13. (x \o y) \o z \in Text /\ u \o ((x \o y) \o z) = ((u \o x) \o y) \o z
      <4>1. u \in Text /\ x \in Text /\ y \in Text /\ z \in Text
        BY DEF Text
      <4>2. x \o y \in Text
        BY <4>1, TextConcat
      <4>3. \A a \in Text : (a \o x) \o y = a \o (x \o y)
        BY SMTT(30), <4>1, TextAssoc
      <4>4. (u \o x) \o y = u \o (x \o y)
        BY <4>1, <4>3
      <4>5. ((x \o y) \o z \in Text)
        BY <4>1, <4>2, TextConcat
      <4>6. u \o ((x \o y) \o z) = (u \o (x \o y)) \o z
        BY ZenonT(60), <4>1, <4>2, TextAssoc
      <4>. QED
        BY <4>5, <4>6, <4>4
    <3>. QED
      BY <3>5, <3>8, <3>9, <3>10, <3>12, <3>13 DEF Text
  <2>. QED
    BY <2>4, <2>5
<1>. QED
  BY <1>5, <1>6

(***************************************************************************)
(* RestoreString replaces exactly the known placeholders, and keeps every  *)
(* other character, of every text in which no "<" stands open in front of  *)
(* a known placeholder.                                                    *)
(***************************************************************************)
THEOREM ScanRestoresEach ==
  ASSUME WellFormedLookup, NEW s \in Text, NoStrayOpen(s)
  PROVE  RestoreString(s) = RestoreEach(s)
<1>0. Len(s) \in Nat
  BY DEF Text
<1>1. PICK f : /\ RestoreString(s) = f[1]
               /\ \A k \in 1..(Len(s) + 1) : f[k] = ScanStep(f, s, k)
  BY RestoreStringScans
<1>. DEFINE Good(j) == Outside(s, j) => f[j] \in Seq(Char) /\ Restored(s, j - 1) \o f[j] = Restored(s, Len(s))
            T == {n \in Nat : \A j \in 1..(Len(s) + 1) : Len(s) + 1 - j < n => Good(j)}
<1>3. 0 \in T
  <2>1. \A j \in 1..(Len(s) + 1) : ~(Len(s) + 1 - j < 0)
    BY <1>0
  <2>. HIDE DEF Good
  <2>. QED
    BY <2>1
<1>4. ASSUME NEW n \in Nat, n \in T
      PROVE  n + 1 \in T
  <2>0. n + 1 \in Nat
    OBVIOUS
  <2>. SUFFICES ASSUME NEW j \in 1..(Len(s) + 1), Len(s) + 1 - j < n + 1 PROVE Good(j)
    BY <2>0, Zenon
  <2>1. \A i \in (j + 1)..(Len(s) + 1) : i \in 1..(Len(s) + 1) /\ Len(s) + 1 - i < n
    BY <1>0
  <2>2. \A i \in (j + 1)..(Len(s) + 1) :
          Outside(s, i) => f[i] \in Seq(Char) /\ Restored(s, i - 1) \o f[i] = Restored(s, Len(s))
    BY <1>4, <2>1
  <2>. SUFFICES ASSUME Outside(s, j)
                PROVE  f[j] \in Seq(Char) /\ Restored(s, j - 1) \o f[j] = Restored(s, Len(s))
    OBVIOUS
  <2>3. ScanStep(f, s, j) \in Seq(Char) /\ Restored(s, j - 1) \o ScanStep(f, s, j) = Restored(s, Len(s))
    BY <2>2, ScanStepRestores
  <2>. QED
    BY <1>1, <2>3
<1>. HIDE DEF T
<1>5. \A n \in Nat : n \in T
  BY <1>3, <1>4, Induction
<1>6. Good(1)
  <2>1. Len(s) + 1 \in Nat /\ 1 \in 1..(Len(s) + 1) /\ Len(s) + 1 - 1 < Len(s) + 1
    BY <1>0
  <2>. HIDE DEF Good
  <2>. QED
    BY <1>5, <2>1 DEF T
<1>7. Outside(s, 1)
  <2>1. \A p \in KnownAt(s) : ~(p[1] < 1)
    BY <1>0 DEF KnownAt
  <2>. QED
    BY <2>1 DEF Outside
<1>8. Restored(s, 0) = <<>> /\ Restored(s, Len(s)) = RestoreEach(s)
  <2>1. /\ Pieces(s) \in Seq(Seq(Char)) /\ Len(Pieces(s)) = Len(s)
        /\ RestoreEach(s) = FlattenSeq(Pieces(s))
    BY PiecesFacts
  <2>2. Joined(Pieces(s), 0) = <<>> /\ Joined(Pieces(s), Len(s)) = FlattenSeq(Pieces(s))
    BY <2>1, JoinedFacts
  <2>. QED
    BY <2>1, <2>2 DEF Restored
<1>9. f[1] \in Seq(Char) /\ <<>> \o f[1] = RestoreEach(s)
  <2>1. 1 - 1 = 0
    OBVIOUS
  <2>. QED
    BY <1>6, <1>7, <1>8, <2>1
<1>. QED
  BY <1>1, <1>9, ConcatEmptySeq

-----------------------------------------------------------------------------
(***************************************************************************)
(* The known placeholders of a text in two parts: those of either part,    *)
(* and those that lie across the cut.                                      *)
(***************************************************************************)
LEMMA ConcatCharacters ==
  ASSUME NEW r \in Text, NEW x \in Text
  PROVE  /\ Len(r) \in Nat /\ Len(x) \in Nat
         /\ r \o x \in Text /\ Len(r \o x) = Len(r) + Len(x)
         /\ \A k \in 1..Len(r) : (r \o x)[k] = r[k]
         /\ \A k \in 1..Len(x) : (r \o x)[Len(r) + k] = x[k]
BY DEF Text

LEMMA SegmentOfConcat ==
  ASSUME NEW r \in Text, NEW x \in Text, NEW s, s = r \o x
  PROVE  /\ \A a, b \in 1..Len(r) : SubSeq(s, a, b) = SubSeq(r, a, b)
         /\ \A a, b \in 1..Len(x) : SubSeq(s, Len(r) + a, Len(r) + b) = SubSeq(x, a, b)
<1>0. Len(r) \in Nat /\ Len(x) \in Nat /\ r \in Seq(Char) /\ x \in Seq(Char)
  BY DEF Text
<1>1. ASSUME NEW a \in 1..Len(r), NEW b \in 1..Len(r)
      PROVE  SubSeq(s, a, b) = SubSeq(r, a, b)
  BY <1>0, SubSeqOfConcat1
<1>2. ASSUME NEW a \in 1..Len(x), NEW b \in 1..Len(x)
      PROVE  SubSeq(s, Len(r) + a, Len(r) + b) = SubSeq(x, a, b)
  <2>1. PICK c \in (Len(r) + 1)..(Len(r) + Len(x)) : c = Len(r) + a /\ c - Len(r) = a
    BY <1>0
  <2>2. PICK d \in (Len(r) + 1)..(Len(r) + Len(x)) : d = Len(r) + b /\ d - Len(r) = b
    BY <1>0
  <2>3. SubSeq(r \o x, c, d) = SubSeq(x, c - Len(r), d - Len(r))
    BY <1>0, SubSeqOfConcat2
  <2>. QED
    BY <2>1, <2>2, <2>3
<1>. QED
  BY <1>1, <1>2

LEMMA KnownOfConcat ==
  ASSUME WellFormedLookup, NEW r \in Text, NEW x \in Text, NEW s, s = r \o x
  PROVE  /\ \A p \in KnownAt(r) : p \in KnownAt(s)
         /\ \A p \in KnownAt(x) : <<Len(r) + p[1], Len(r) + p[2]>> \in KnownAt(s)
         /\ \A p \in KnownAt(s) : p[2] <= Len(r) => p \in KnownAt(r)
         /\ \A p \in KnownAt(s) :
              p[1] > Len(r) => <<p[1] - Len(r), p[2] - Len(r)>> \in KnownAt(x)
<1>0. /\ s \in Text /\ Len(s) = Len(r) + Len(x) /\ Len(r) \in Nat /\ Len(x) \in Nat
      /\ r \in Seq(Char) /\ x \in Seq(Char)
  BY ConcatCharacters DEF Text
<1>1. \A a, b \in 1..Len(r) : SubSeq(s, a, b) = SubSeq(r, a, b)
  BY SegmentOfConcat
<1>2. \A a, b \in 1..Len(x) : SubSeq(s, Len(r) + a, Len(r) + b) = SubSeq(x, a, b)
  BY SegmentOfConcat
<1>3. ASSUME NEW p \in KnownAt(r) PROVE p \in KnownAt(s)
  <2>1. PICK a \in 1..Len(r), b \in 1..Len(r) :
          p = <<a, b>> /\ SubSeq(r, a, b) \in DOMAIN Lookup
    BY DEF KnownAt
  <2>2. SubSeq(s, a, b) \in DOMAIN Lookup
    BY <1>1, <2>1
  <2>3. a \in 1..Len(s) /\ b \in 1..Len(s)
    BY <1>0
  <2>. QED
    BY <2>1, <2>2, <2>3 DEF KnownAt
<1>4. ASSUME NEW p \in KnownAt(x) PROVE <<Len(r) + p[1], Len(r) + p[2]>> \in KnownAt(s)
  <2>1. PICK a \in 1..Len(x), b \in 1..Len(x) :
          p = <<a, b>> /\ SubSeq(x, a, b) \in DOMAIN Lookup
    BY DEF KnownAt
  <2>2. SubSeq(s, Len(r) + a, Len(r) + b) \in DOMAIN Lookup
    BY <1>2, <2>1
  <2>3. Len(r) + a \in 1..Len(s) /\ Len(r) + b \in 1..Len(s)
    BY <1>0
  <2>. QED
    BY <2>1, <2>2, <2>3 DEF KnownAt
<1>5. ASSUME NEW p \in KnownAt(s), p[2] <= Len(r) PROVE p \in KnownAt(r)
  <2>1. PICK a \in 1..Len(s), b \in 1..Len(s) : p = <<a, b>> /\ a < b
    BY ZenonT(60), <1>0, KnownFacts
  <2>2. a \in 1..Len(r) /\ b \in 1..Len(r)
    BY <1>0, <1>5, <2>1
  <2>3. SubSeq(r, a, b) \in DOMAIN Lookup
    BY <1>1, <2>1, <2>2 DEF KnownAt
  <2>. QED
    BY <2>1, <2>2, <2>3 DEF KnownAt
<1>6. ASSUME NEW p \in KnownAt(s), p[1] > Len(r)
      PROVE  <<p[1] - Len(r), p[2] - Len(r)>> \in KnownAt(x)
  <2>1. PICK a \in 1..Len(s), b \in 1..Len(s) : p = <<a, b>> /\ a < b
    BY ZenonT(60), <1>0, KnownFacts
  <2>2. PICK c \in 1..Len(x), d \in 1..Len(x) :
          c = a - Len(r) /\ d = b - Len(r) /\ a = Len(r) + c /\ b = Len(r) + d
    <3>1. /\ a - Len(r) \in 1..Len(x) /\ b - Len(r) \in 1..Len(x)
          /\ a = Len(r) + (a - Len(r)) /\ b = Len(r) + (b - Len(r))
      BY <1>0, <1>6, <2>1
    <3>. QED
      BY <3>1
  <2>3. SubSeq(x, c, d) \in DOMAIN Lookup
    BY <1>2, <2>1, <2>2 DEF KnownAt
  <2>. QED
    BY <2>1, <2>2, <2>3 DEF KnownAt
<1>. QED
  BY <1>3, <1>4, <1>5, <1>6

\* Neither part has an open "<" in front of a known placeholder if the whole
\* text has none.
LEMMA StrayOfConcat ==
  ASSUME WellFormedLookup, NEW r \in Text, NEW x \in Text, NEW s, s = r \o x, NoStrayOpen(s)
  PROVE  NoStrayOpen(r) /\ NoStrayOpen(x)
<1>0. /\ s \in Text /\ Len(s) = Len(r) + Len(x) /\ Len(r) \in Nat /\ Len(x) \in Nat
      /\ \A k \in 1..Len(r) : s[k] = r[k]
      /\ \A k \in 1..Len(x) : s[Len(r) + k] = x[k]
  BY ConcatCharacters
<1>1. ASSUME NEW p \in KnownAt(r), NEW i \in 1..(p[1] - 1), r[i] = Open
      PROVE  \E j \in i..(p[1] - 1) : r[j] = Close
  <2>1. p \in KnownAt(s) /\ p[1] \in 1..Len(r)
    BY KnownOfConcat, KnownFacts
  <2>2. \A j \in 1..(p[1] - 1) : s[j] = r[j]
    BY <1>0, <2>1
  <2>3. PICK j \in i..(p[1] - 1) : s[j] = Close
    BY <1>1, <2>1, <2>2 DEF NoStrayOpen
  <2>4. j \in 1..(p[1] - 1)
    OBVIOUS
  <2>. QED
    BY <2>2, <2>3, <2>4
<1>2. ASSUME NEW p \in KnownAt(x), NEW i \in 1..(p[1] - 1), x[i] = Open
      PROVE  \E j \in i..(p[1] - 1) : x[j] = Close
  <2>1. <<Len(r) + p[1], Len(r) + p[2]>> \in KnownAt(s) /\ p[1] \in 1..Len(x)
    BY KnownOfConcat, KnownFacts
  <2>2. PICK q \in KnownAt(s) : q[1] = Len(r) + p[1]
    BY <2>1
  <2>3. Len(r) + i \in 1..(q[1] - 1) /\ s[Len(r) + i] = Open
    BY <1>0, <1>2, <2>1, <2>2
  <2>4. PICK j \in (Len(r) + i)..(q[1] - 1) : s[j] = Close
    BY <2>3 DEF NoStrayOpen
  <2>5. PICK l \in i..(p[1] - 1) : j = Len(r) + l /\ l \in 1..Len(x)
    <3>1. j - Len(r) \in i..(p[1] - 1) /\ j = Len(r) + (j - Len(r)) /\ j - Len(r) \in 1..Len(x)
      BY <1>0, <2>1, <2>2
    <3>. QED
      BY <3>1
  <2>6. x[l] = Close
    BY <1>0, <2>4, <2>5
  <2>. QED
    BY <2>6
<1>. QED
  BY <1>1, <1>2 DEF NoStrayOpen

(***************************************************************************)
(* Restoring a text in two parts: nothing is lost if no known placeholder  *)
(* lies across the cut.                                                    *)
(***************************************************************************)
THEOREM RestoredInParts ==
  ASSUME WellFormedLookup, NEW r \in Text, NEW x \in Text, NEW s, s = r \o x,
         \A i \in 1..Len(r), j \in (Len(r) + 1)..Len(s) : SubSeq(s, i, j) \notin DOMAIN Lookup
  PROVE  RestoreEach(s) = RestoreEach(r) \o RestoreEach(x)
<1>0. /\ s \in Text /\ Len(s) = Len(r) + Len(x) /\ Len(r) \in Nat /\ Len(x) \in Nat
      /\ \A k \in 1..Len(r) : s[k] = r[k]
      /\ \A k \in 1..Len(x) : s[Len(r) + k] = x[k]
  BY ConcatCharacters
<1>1. ASSUME NEW p \in KnownAt(s) PROVE p[2] <= Len(r) \/ p[1] > Len(r)
  <2>1. PICK a \in 1..Len(s), b \in 1..Len(s) :
          a = p[1] /\ b = p[2] /\ SubSeq(s, a, b) \in DOMAIN Lookup
    BY DEF KnownAt
  <2>2. ~(a \in 1..Len(r) /\ b \in (Len(r) + 1)..Len(s))
    BY <2>1
  <2>. QED
    BY <1>0, <2>1, <2>2
<1>2. \A a, b \in 1..Len(r) : SubSeq(s, a, b) = SubSeq(r, a, b)
  BY SegmentOfConcat
<1>3. \A a, b \in 1..Len(x) : SubSeq(s, Len(r) + a, Len(r) + b) = SubSeq(x, a, b)
  BY SegmentOfConcat
<1>4. ASSUME NEW k \in 1..Len(r) PROVE Piece(s, k) = Piece(r, k)
  <2>1. CASE \E p \in KnownAt(r) : p[1] <= k /\ k <= p[2]
    <3>1. PICK p \in KnownAt(r) : p[1] <= k /\ k <= p[2]
      BY <2>1
    <3>2. p \in KnownAt(s) /\ p[1] \in 1..Len(r) /\ p[2] \in 1..Len(r)
      BY KnownOfConcat, KnownFacts
    <3>3. CASE p[1] = k
      <4>1. SubSeq(s, p[1], p[2]) = SubSeq(r, p[1], p[2])
        BY <1>2, <3>2
      <4>2. Piece(s, p[1]) = Lookup[SubSeq(s, p[1], p[2])]
        BY <1>0, <3>2, PieceAtStart
      <4>3. Piece(r, p[1]) = Lookup[SubSeq(r, p[1], p[2])]
        BY PieceAtStart
      <4>. QED
        BY <3>3, <4>1, <4>2, <4>3
    <3>4. CASE p[1] # k
      <4>1. k \in (p[1] + 1)..p[2]
        BY <1>0, <3>1, <3>2, <3>4
      <4>. QED
        BY <1>0, <3>2, <4>1, PieceInside
    <3>. QED
      BY <3>3, <3>4
  <2>2. CASE \A p \in KnownAt(r) : ~(p[1] <= k /\ k <= p[2])
    <3>1. \A p \in KnownAt(s) : ~(p[1] <= k /\ k <= p[2])
      <4>1. SUFFICES ASSUME NEW p \in KnownAt(s), p[1] <= k, k <= p[2] PROVE FALSE
        OBVIOUS
      <4>2. p[1] \in Nat /\ ~(p[1] > Len(r))
        BY <1>0, <4>1, KnownFacts
      <4>3. p \in KnownAt(r)
        BY <1>1, <4>2, KnownOfConcat
      <4>. QED
        BY <2>2, <4>1, <4>3
    <3>2. k \in 1..Len(s) /\ s[k] = r[k]
      BY <1>0
    <3>3. Piece(s, k) = <<s[k]>>
      BY <1>0, <3>1, <3>2, PieceOutside
    <3>4. Piece(r, k) = <<r[k]>>
      BY <2>2, PieceOutside
    <3>. QED
      BY <3>2, <3>3, <3>4
  <2>. QED
    BY <2>1, <2>2
<1>5. ASSUME NEW k \in 1..Len(x) PROVE Piece(s, Len(r) + k) = Piece(x, k)
  <2>1. CASE \E p \in KnownAt(x) : p[1] <= k /\ k <= p[2]
    <3>1. PICK p \in KnownAt(x) : p[1] <= k /\ k <= p[2]
      BY <2>1
    <3>2. p[1] \in 1..Len(x) /\ p[2] \in 1..Len(x)
      BY KnownFacts
    <3>3. PICK q \in KnownAt(s) : q[1] = Len(r) + p[1] /\ q[2] = Len(r) + p[2]
      <4>1. <<Len(r) + p[1], Len(r) + p[2]>> \in KnownAt(s)
        BY KnownOfConcat
      <4>. QED
        BY <4>1
    <3>4. CASE p[1] = k
      <4>1. SubSeq(s, q[1], q[2]) = SubSeq(x, p[1], p[2])
        BY <1>3, <3>2, <3>3
      <4>2. Piece(s, q[1]) = Lookup[SubSeq(s, q[1], q[2])]
        BY <1>0, PieceAtStart
      <4>3. Piece(x, p[1]) = Lookup[SubSeq(x, p[1], p[2])]
        BY PieceAtStart
      <4>. QED
        BY <3>3, <3>4, <4>1, <4>2, <4>3
    <3>5. CASE p[1] # k
      <4>1. k \in (p[1] + 1)..p[2]
        BY <1>0, <3>1, <3>2, <3>5
      <4>2. Len(r) + k \in (q[1] + 1)..q[2]
        BY <1>0, <3>2, <3>3, <4>1
      <4>. QED
        BY <1>0, <4>1, <4>2, PieceInside
    <3>. QED
      BY <3>4, <3>5
  <2>2. CASE \A p \in KnownAt(x) : ~(p[1] <= k /\ k <= p[2])
    <3>1. \A p \in KnownAt(s) : ~(p[1] <= Len(r) + k /\ Len(r) + k <= p[2])
      <4>1. SUFFICES ASSUME NEW p \in KnownAt(s), p[1] <= Len(r) + k, Len(r) + k <= p[2]
                     PROVE  FALSE
        OBVIOUS
      <4>2. p[1] \in Nat /\ p[2] \in Nat /\ ~(p[2] <= Len(r))
        BY <1>0, <4>1, KnownFacts
      <4>3. <<p[1] - Len(r), p[2] - Len(r)>> \in KnownAt(x)
        BY <1>1, <4>2, KnownOfConcat
      <4>4. PICK q \in KnownAt(x) : q[1] = p[1] - Len(r) /\ q[2] = p[2] - Len(r)
        BY <4>3
      <4>5. q[1] <= k /\ k <= q[2]
        BY <1>0, <4>1, <4>2, <4>4
      <4>. QED
        BY <2>2, <4>5
    <3>2. Len(r) + k \in 1..Len(s) /\ s[Len(r) + k] = x[k]
      BY <1>0
    <3>3. Piece(s, Len(r) + k) = <<s[Len(r) + k]>>
      BY <1>0, <3>1, <3>2, PieceOutside
    <3>4. Piece(x, k) = <<x[k]>>
      BY <2>2, PieceOutside
    <3>. QED
      BY <3>2, <3>3, <3>4
  <2>. QED
    BY <2>1, <2>2
<1>6. PICK ps \in Seq(Seq(Char)), pr \in Seq(Seq(Char)), px \in Seq(Seq(Char)) :
        ps = Pieces(s) /\ pr = Pieces(r) /\ px = Pieces(x)
  BY <1>0, PiecesFacts
<1>7. /\ Len(ps) = Len(s) /\ \A k \in 1..Len(s) : ps[k] = Piece(s, k)
      /\ Len(pr) = Len(r) /\ \A k \in 1..Len(r) : pr[k] = Piece(r, k)
      /\ Len(px) = Len(x) /\ \A k \in 1..Len(x) : px[k] = Piece(x, k)
  BY <1>0, <1>6, PiecesFacts
<1>8. ps = pr \o px
  <2>1. Len(ps) = Len(pr) + Len(px)
    BY <1>0, <1>7
  <2>2. \A k \in 1..Len(pr) : ps[k] = pr[k]
    <3>1. TAKE k \in 1..Len(pr)
    <3>2. k \in 1..Len(r) /\ k \in 1..Len(s)
      BY <1>0, <1>7
    <3>. QED
      BY <1>4, <1>7, <3>2
  <2>3. \A k \in 1..Len(px) : ps[Len(pr) + k] = px[k]
    <3>1. TAKE k \in 1..Len(px)
    <3>2. k \in 1..Len(x) /\ Len(r) + k \in 1..Len(s) /\ Len(pr) + k = Len(r) + k
      BY <1>0, <1>7
    <3>. QED
      BY <1>5, <1>7, <3>2
  <2>. QED
    BY ZenonT(60), <2>1, <2>2, <2>3, InTwoParts
<1>9. FlattenSeq(pr \o px) = FlattenSeq(pr) \o FlattenSeq(px)
  BY FlattenConcat
<1>. QED
  BY <1>0, <1>6, <1>8, <1>9, PiecesFacts

\* The empty text.
LEMMA RestoreNothing ==
  ASSUME WellFormedLookup
  PROVE  RestoreEach(<<>>) = <<>>
<1>1. <<>> \in Text /\ Len(<<>>) = 0
  BY DEF Text
<1>2. PICK ps \in Seq(Seq(Char)) : Len(ps) = 0 /\ RestoreEach(<<>>) = FlattenSeq(ps)
  BY <1>1, PiecesFacts
<1>. QED
  BY <1>2 DEF FlattenSeq

(***************************************************************************)
(* A scan that goes on where an earlier one stopped: up to c the text has  *)
(* been restored, c..d is scanned on its own, and no placeholder lies      *)
(* across c.                                                               *)
(***************************************************************************)
THEOREM ScanGoesOn ==
  ASSUME WellFormedLookup, NEW t \in Text, NoStrayOpen(t),
         NEW c \in 0..Len(t), NEW d \in c..Len(t),
         \A i \in 1..c, j \in (c + 1)..Len(t) : ~CompletePlaceholder(SubSeq(t, i, j))
  PROVE  RestoreEach(SubSeq(t, 1, d))
           = RestoreEach(SubSeq(t, 1, c)) \o RestoreString(SubSeq(t, c + 1, d))
<1>0. t \in Seq(Char) /\ Len(t) \in Nat /\ c \in Nat /\ d \in Nat /\ d <= Len(t)
  BY DEF Text
<1>1. PICK s \in Text, a \in Text, x \in Text, z \in Text :
        /\ s = SubSeq(t, 1, d) /\ a = SubSeq(t, 1, c)
        /\ x = SubSeq(t, c + 1, d) /\ z = SubSeq(t, d + 1, Len(t))
  <2>1. /\ 1 \in 1..(Len(t) + 1) /\ d \in (1 - 1)..Len(t) /\ c \in (1 - 1)..Len(t)
        /\ c + 1 \in 1..(Len(t) + 1) /\ d \in ((c + 1) - 1)..Len(t)
        /\ d + 1 \in 1..(Len(t) + 1) /\ Len(t) \in ((d + 1) - 1)..Len(t)
    BY <1>0
  <2>2. SubSeq(t, 1, d) \in Text /\ SubSeq(t, 1, c) \in Text
    BY <2>1, SegmentFacts
  <2>3. SubSeq(t, c + 1, d) \in Text /\ SubSeq(t, d + 1, Len(t)) \in Text
    BY <2>1, SegmentFacts
  <2>. QED
    BY <2>2, <2>3
<1>2. t = s \o z
  <2>1. SubSeq(t, 1, d) \o SubSeq(t, d + 1, Len(t)) = SubSeq(t, 1, Len(t))
    <3>1. 1 \in 1..(Len(t) + 1) /\ d \in (1 - 1)..Len(t) /\ Len(t) \in d..Len(t)
      BY <1>0
    <3>. QED
      BY <1>0, <3>1, ConcatAdjacentSubSeq
  <2>2. SubSeq(t, 1, Len(t)) = t
    BY <1>0, SubSeqFull
  <2>. QED
    BY <1>1, <2>1, <2>2
<1>3. s = a \o x
  <2>1. 1 \in 1..(Len(t) + 1) /\ c \in (1 - 1)..Len(t) /\ d \in c..Len(t)
    BY <1>0
  <2>2. SubSeq(t, 1, c) \o SubSeq(t, c + 1, d) = SubSeq(t, 1, d)
    BY <1>0, <2>1, ConcatAdjacentSubSeq
  <2>. QED
    BY <1>1, <2>2
<1>4. NoStrayOpen(s) /\ NoStrayOpen(x)
  BY <1>2, <1>3, StrayOfConcat
<1>5. Len(a) = c /\ Len(s) = d
  BY <1>0, <1>1
<1>6. \A i, j \in 1..Len(s) : SubSeq(t, i, j) = SubSeq(s, i, j)
  BY <1>2, SegmentOfConcat
<1>7. \A i \in 1..Len(a), j \in (Len(a) + 1)..Len(s) : SubSeq(s, i, j) \notin DOMAIN Lookup
  <2>1. TAKE i \in 1..Len(a), j \in (Len(a) + 1)..Len(s)
  <2>2. i \in 1..Len(s) /\ j \in 1..Len(s) /\ i \in 1..c /\ j \in (c + 1)..Len(t)
    BY <1>0, <1>5
  <2>3. ~CompletePlaceholder(SubSeq(s, i, j))
    BY <1>6, <2>2
  <2>. QED
    BY <2>3 DEF WellFormedLookup
<1>8. RestoreEach(s) = RestoreEach(a) \o RestoreEach(x)
  BY <1>3, <1>7, RestoredInParts
<1>9. RestoreString(x) = RestoreEach(x)
  BY <1>4, ScanRestoresEach
<1>. QED
  BY <1>1, <1>8, <1>9
-----------------------------------------------------------------------------
(***************************************************************************)
(* Texts and their scrubbed forms.                                         *)
(***************************************************************************)
\* A text without known placeholders is restored to itself.
LEMMA RestoreLiteral ==
  ASSUME WellFormedLookup, NEW x \in Text, KnownAt(x) = {}
  PROVE  RestoreEach(x) = x
<1>1. x \in Seq(Char) /\ Len(x) \in Nat /\ 0 \in 0..Len(x) /\ Len(x) \in 0..Len(x)
  BY DEF Text
<1>2. PICK ps \in Seq(Seq(Char)) :
        ps = Pieces(x) /\ Len(ps) = Len(x) /\ RestoreEach(x) = FlattenSeq(ps)
  BY PiecesFacts
<1>3. Joined(Pieces(x), Len(x)) = Joined(Pieces(x), 0) \o SubSeq(x, 0 + 1, Len(x))
  BY <1>1, LiteralPieces
<1>4. Joined(ps, 0) = <<>> /\ Joined(ps, Len(ps)) = FlattenSeq(ps)
  BY JoinedFacts
<1>5. SubSeq(x, 0 + 1, Len(x)) = x
  BY <1>1, SubSeqFull
<1>6. <<>> \o x = x
  BY <1>1, ConcatEmptySeq
<1>. QED
  BY <1>2, <1>3, <1>4, <1>5, <1>6

\* A segment of s that is a known placeholder.
LEMMA KnownSegment ==
  ASSUME NEW s \in Text, NEW a \in 1..Len(s), NEW b \in 1..Len(s), SubSeq(s, a, b) \in DOMAIN Lookup
  PROVE  \E p \in KnownAt(s) : p[1] = a /\ p[2] = b
<1>1. <<a, b>> \in (1..Len(s)) \X (1..Len(s)) /\ <<a, b>>[1] = a /\ <<a, b>>[2] = b
  OBVIOUS
<1>2. <<a, b>> \in KnownAt(s)
  BY <1>1 DEF KnownAt
<1>. QED
  BY <1>1, <1>2

\* A known placeholder, alone, is restored to its plaintext.
LEMMA RestorePlaceholder ==
  ASSUME WellFormedLookup, NEW ph \in DOMAIN Lookup
  PROVE  /\ ph \in Text /\ Len(ph) \in Nat /\ Len(ph) > 0 /\ Lookup[ph] \in Text
         /\ ph[1] = Open /\ ph[Len(ph)] = Close
         /\ RestoreEach(ph) = Lookup[ph]
<1>1. /\ ph \in Text /\ CompletePlaceholder(ph) /\ Lookup[ph] \in Text
      /\ Len(ph) \in Nat /\ ph \in Seq(Char)
  BY DEF WellFormedLookup, Text
<1>2. Len(ph) > 1
  BY <1>1 DEF CompletePlaceholder
<1>3. SubSeq(ph, 1, Len(ph)) = ph
  BY <1>1, SubSeqFull
<1>4. PICK p \in KnownAt(ph) : p[1] = 1 /\ p[2] = Len(ph)
  <2>1. 1 \in 1..Len(ph) /\ Len(ph) \in 1..Len(ph)
    BY <1>1, <1>2
  <2>2. SubSeq(ph, 1, Len(ph)) \in DOMAIN Lookup
    BY <1>3
  <2>. QED
    BY <1>1, <2>1, <2>2, KnownSegment
<1>6. ph[1] = Open /\ ph[Len(ph)] = Close
  BY <1>1, <1>4, KnownFacts
<1>7. PICK ps \in Seq(Seq(Char)) :
        /\ ps = Pieces(ph) /\ Len(ps) = Len(ph) /\ RestoreEach(ph) = FlattenSeq(ps)
        /\ \A k \in 1..Len(ph) : ps[k] = Piece(ph, k)
  BY <1>1, PiecesFacts
<1>8. Piece(ph, p[1]) = Lookup[SubSeq(ph, p[1], p[2])]
  BY <1>1, PieceAtStart
<1>9. \A k \in (p[1] + 1)..p[2] : Piece(ph, k) = <<>>
  BY <1>1, PieceInside
<1>10. ps[1] = Lookup[ph] /\ \A k \in (1 + 1)..Len(ps) : ps[k] = <<>>
  <2>1. ps[1] = Lookup[ph]
    <3>1. Piece(ph, 1) = Lookup[ph]
      BY <1>3, <1>4, <1>8
    <3>2. 1 \in 1..Len(ph)
      BY <1>1, <1>2
    <3>. QED
      BY <1>7, <3>1, <3>2
  <2>. QED
    BY <1>1, <1>2, <1>4, <1>7, <1>9, <2>1
<1>11. /\ Joined(ps, 0) = <<>> /\ Joined(ps, Len(ps)) = FlattenSeq(ps)
       /\ Joined(ps, 1) = Joined(ps, 1 - 1) \o ps[1]
  <2>1. 1 \in 1..Len(ps)
    BY <1>1, <1>2, <1>7
  <2>. QED
    BY <2>1, JoinedFacts
<1>12. Joined(ps, Len(ps)) = Joined(ps, 1)
  <2>1. 1 \in 0..Len(ps) /\ Len(ps) \in 1..Len(ps)
    BY <1>1, <1>2, <1>7
  <2>. QED
    BY <1>10, <2>1, EmptyRun
<1>13. <<>> \o Lookup[ph] = Lookup[ph]
  BY <1>1, ConcatEmptySeq DEF Text
<1>14. RestoreEach(ph) = Lookup[ph]
  <2>1. 1 - 1 = 0
    OBVIOUS
  <2>. QED
    BY <1>7, <1>10, <1>11, <1>12, <1>13, <2>1
<1>. QED
  BY <1>1, <1>2, <1>6, <1>14

(***************************************************************************)
(* No placeholder lies across the front of another one, or across its end: *)
(* a text in front of a placeholder, the placeholder and the text behind it*)
(* are restored each on its own.                                           *)
(***************************************************************************)
LEMMA RestoreAround ==
  ASSUME WellFormedLookup, NEW l \in Text, NEW ph \in DOMAIN Lookup, NEW o \in Text
  PROVE  /\ ph \o o \in Text /\ l \o (ph \o o) \in Text
         /\ RestoreEach(l \o (ph \o o)) = RestoreEach(l) \o (Lookup[ph] \o RestoreEach(o))
<1>1. /\ ph \in Text /\ Len(ph) \in Nat /\ Len(ph) > 0
      /\ ph[1] = Open /\ ph[Len(ph)] = Close /\ RestoreEach(ph) = Lookup[ph]
  BY RestorePlaceholder
<1>2. PICK y \in Text : /\ y = ph \o o /\ Len(y) = Len(ph) + Len(o)
                        /\ Len(o) \in Nat /\ \A k \in 1..Len(ph) : y[k] = ph[k]
  BY <1>1, ConcatCharacters
<1>3. PICK s \in Text : /\ s = l \o y /\ Len(s) = Len(l) + Len(y)
                        /\ Len(l) \in Nat /\ \A k \in 1..Len(y) : s[Len(l) + k] = y[k]
  BY ConcatCharacters
<1>4. RestoreEach(y) = RestoreEach(ph) \o RestoreEach(o)
  <2>1. \A i \in 1..Len(ph), j \in (Len(ph) + 1)..Len(y) : SubSeq(y, i, j) \notin DOMAIN Lookup
    <3>1. TAKE i \in 1..Len(ph), j \in (Len(ph) + 1)..Len(y)
    <3>. SUFFICES ASSUME SubSeq(y, i, j) \in DOMAIN Lookup PROVE FALSE
      OBVIOUS
    <3>2. i \in 1..Len(y) /\ j \in 1..Len(y)
      BY <1>1, <1>2
    <3>3. PICK p \in KnownAt(y) : p[1] = i /\ p[2] = j
      BY <3>2, KnownSegment
    <3>4. \A k \in p[1]..(p[2] - 1) : y[k] # Close
      BY <3>3, KnownFacts
    <3>5. Len(ph) \in p[1]..(p[2] - 1) /\ y[Len(ph)] = Close
      BY <1>1, <1>2, <3>3
    <3>. QED
      BY <3>4, <3>5
  <2>. QED
    BY <1>1, <1>2, <2>1, RestoredInParts
<1>5. RestoreEach(s) = RestoreEach(l) \o RestoreEach(y)
  <2>1. \A i \in 1..Len(l), j \in (Len(l) + 1)..Len(s) : SubSeq(s, i, j) \notin DOMAIN Lookup
    <3>1. TAKE i \in 1..Len(l), j \in (Len(l) + 1)..Len(s)
    <3>. SUFFICES ASSUME SubSeq(s, i, j) \in DOMAIN Lookup PROVE FALSE
      OBVIOUS
    <3>2. i \in 1..Len(s) /\ j \in 1..Len(s)
      BY <1>2, <1>3
    <3>3. PICK p \in KnownAt(s) : p[1] = i /\ p[2] = j
      BY <3>2, KnownSegment
    <3>4. \A k \in (p[1] + 1)..p[2] : s[k] # Open
      BY <3>3, KnownFacts
    <3>5. Len(l) + 1 \in (p[1] + 1)..p[2] /\ s[Len(l) + 1] = y[1] /\ y[1] = Open
      BY <1>1, <1>2, <1>3, <3>3
    <3>. QED
      BY <3>4, <3>5
  <2>. QED
    BY <1>3, <2>1, RestoredInParts
<1>. QED
  BY <1>1, <1>2, <1>3, <1>4, <1>5

\* The parts of a text without known placeholders hold none.
LEMMA NothingInParts ==
  ASSUME WellFormedLookup, NEW r \in Text, NEW x \in Text, NEW s, s = r \o x, KnownAt(s) = {}
  PROVE  KnownAt(r) = {} /\ KnownAt(x) = {}
<1>1. \A p \in KnownAt(r) : p \in KnownAt(s)
  BY KnownOfConcat
<1>2. \A p \in KnownAt(x) : <<Len(r) + p[1], Len(r) + p[2]>> \in KnownAt(s)
  BY KnownOfConcat
<1>. QED
  BY <1>1, <1>2

(***************************************************************************)
(* What a text becomes when any of its parts are replaced by placeholders  *)
(* of f: the smallest relation that holds between a text and itself, and   *)
(* that goes on to hold when, in front of both, one puts a literal and     *)
(* behind it a placeholder on one side, its plaintext on the other.        *)
(***************************************************************************)
ScrubClosed(f, S) ==
  /\ \A x \in Text : <<x, x>> \in S
  /\ \A o, t, l \in Text : \A ph \in DOMAIN f :
       <<o, t>> \in S => <<l \o (ph \o o), l \o (f[ph] \o t)>> \in S

Scrubbed(f, o, t) == \A S \in SUBSET (Text \X Text) : ScrubClosed(f, S) => <<o, t>> \in S

LEMMA ScrubbedLiteral == \A f : \A x \in Text : Scrubbed(f, x, x)
BY DEF Scrubbed, ScrubClosed

LEMMA ScrubbedStep ==
  \A f : \A o, t, l \in Text : \A ph \in DOMAIN f :
    Scrubbed(f, o, t) => Scrubbed(f, l \o (ph \o o), l \o (f[ph] \o t))
BY ZenonT(60), SMTT(30) DEF Scrubbed, ScrubClosed

\* More entries in the mapping make nothing of this untrue.
LEMMA ScrubbedGrows ==
  \A f, g : (\A ph \in DOMAIN f : ph \in DOMAIN g /\ g[ph] = f[ph]) =>
    \A o, t : Scrubbed(f, o, t) => Scrubbed(g, o, t)
<1>1. ASSUME NEW f, NEW g, \A ph \in DOMAIN f : ph \in DOMAIN g /\ g[ph] = f[ph], NEW S,
             ScrubClosed(g, S)
      PROVE  ScrubClosed(f, S)
  BY <1>1 DEF ScrubClosed
<1>. QED
  BY <1>1 DEF Scrubbed

(***************************************************************************)
(* Restoring undoes scrubbing, if the text itself named no placeholder.    *)
(***************************************************************************)
THEOREM RestoringUndoesScrubbing ==
  ASSUME WellFormedLookup, NEW o \in Text, NEW t \in Text,
         Scrubbed(Lookup, o, t), KnownAt(t) = {}
  PROVE  RestoreEach(o) = t
<1>. DEFINE S == {p \in Text \X Text : KnownAt(p[2]) = {} => RestoreEach(p[1]) = p[2]}
<1>1. ASSUME NEW x \in Text
      PROVE  <<x, x>> \in S
  BY RestoreLiteral
<1>2. ASSUME NEW a \in Text, NEW b \in Text, NEW l \in Text, NEW ph \in DOMAIN Lookup,
             <<a, b>> \in S
      PROVE  <<l \o (ph \o a), l \o (Lookup[ph] \o b)>> \in S
  <2>1. ph \in Text /\ Lookup[ph] \in Text
    BY RestorePlaceholder
  <2>2. /\ l \o (ph \o a) \in Text
        /\ RestoreEach(l \o (ph \o a)) = RestoreEach(l) \o (Lookup[ph] \o RestoreEach(a))
    BY RestoreAround
  <2>3. PICK y \in Text : y = Lookup[ph] \o b
    BY <2>1, TextConcat
  <2>4. PICK z \in Text : z = l \o y
    BY TextConcat
  <2>5. ASSUME KnownAt(z) = {} PROVE KnownAt(l) = {} /\ KnownAt(b) = {}
    <3>1. KnownAt(l) = {} /\ KnownAt(y) = {}
      BY <2>4, <2>5, NothingInParts
    <3>2. KnownAt(b) = {}
      BY <2>1, <2>3, <3>1, NothingInParts
    <3>. QED
      BY <3>1, <3>2
  <2>6. KnownAt(z) = {} => RestoreEach(l) = l /\ RestoreEach(a) = b
    BY <1>2, <2>5, RestoreLiteral
  <2>. QED
    BY <2>2, <2>3, <2>4, <2>6
<1>3. S \in SUBSET (Text \X Text) /\ ScrubClosed(Lookup, S)
  BY <1>1, <1>2 DEF ScrubClosed
<1>4. <<o, t>> \in S
  BY <1>3 DEF Scrubbed
<1>. QED
  BY <1>4

(***************************************************************************)
(* Texts put together character by character.                              *)
(***************************************************************************)
LEMMA LiteralFront ==
  ASSUME NEW t \in Text, NEW ps \in Seq(Seq(Char)), Len(ps) = Len(t),
         NEW n \in 0..Len(t), \A k \in 1..n : ps[k] = <<t[k]>>
  PROVE  Joined(ps, n) = SubSeq(t, 1, n)
<1>1. t \in Seq(Char) /\ Len(t) \in Nat /\ n \in Nat /\ n <= Len(t)
  BY DEF Text
<1>2. \A k \in (0 + 1)..n : ps[k] = SubSeq(t, k, k)
  <2>1. TAKE k \in (0 + 1)..n
  <2>2. k \in 1..n /\ k \in 1..Len(t)
    BY <1>1
  <2>. QED
    BY <2>2, OneCharacter
<1>3. Joined(ps, n) = Joined(ps, 0) \o SubSeq(t, 0 + 1, n)
  <2>1. /\ Len(t) = Len(ps) /\ 0 \in 0..Len(ps) /\ n \in 0..Len(ps)
    BY <1>1
  <2>. QED
    BY <1>1, <1>2, <2>1, LiteralRun
<1>4. Joined(ps, 0) = <<>>
  BY JoinedFacts
<1>5. SubSeq(t, 0 + 1, n) \in Seq(Char) /\ 0 + 1 = 1
  BY <1>1
<1>6. <<>> \o SubSeq(t, 1, n) = SubSeq(t, 1, n)
  BY <1>5, ConcatEmptySeq
<1>. QED
  BY <1>3, <1>4, <1>5, <1>6

LEMMA FlattenLiteral ==
  ASSUME NEW t \in Text, NEW ps \in Seq(Text), Len(ps) = Len(t),
         \A k \in 1..Len(t) : ps[k] = <<t[k]>>
  PROVE  FlattenSeq(ps) = t
<1>1. t \in Seq(Char) /\ ps \in Seq(Seq(Char)) /\ Len(t) \in Nat /\ Len(t) \in 0..Len(t)
  BY DEF Text
<1>2. Joined(ps, Len(ps)) = SubSeq(t, 1, Len(t))
  BY <1>1, LiteralFront
<1>. QED
  BY <1>1, <1>2, JoinedFacts, SubSeqFull

\* What stands in front of a position, which may be nothing.
LEMMA FrontFacts ==
  ASSUME NEW s \in Text, NEW k \in 0..Len(s)
  PROVE  /\ SubSeq(s, 1, k) \in Text
         /\ Len(SubSeq(s, 1, k)) = k
         /\ \A i \in 1..k : SubSeq(s, 1, k)[i] = s[i]
BY DEF Text

(***************************************************************************)
(* One element x at place a + 1 and nothing up to b instead of the         *)
(* characters of t there: what is put together changes between a and b     *)
(* only.                                                                   *)
(***************************************************************************)
ElementsChanged(t, ps, qs, a, b, x) ==
  /\ \A k \in 1..b : ps[k] = <<t[k]>>
  /\ \A k \in 1..a : qs[k] = <<t[k]>>
  /\ qs[a + 1] = x
  /\ \A k \in (a + 2)..b : qs[k] = <<>>
  /\ \A k \in (b + 1)..Len(t) : qs[k] = ps[k]

WithInside(o, a, x, b) == SubSeq(o, 1, a) \o x \o SubSeq(o, b + 1, Len(o))

LEMMA FlattenReplaced ==
  ASSUME NEW t \in Text, NEW ps \in Seq(Text), NEW qs \in Seq(Text),
         Len(ps) = Len(t), Len(qs) = Len(t),
         NEW a \in 0..(Len(t) - 1), NEW b \in (a + 1)..Len(t), NEW x \in Text,
         ElementsChanged(t, ps, qs, a, b, x)
  PROVE  FlattenSeq(qs) = WithInside(FlattenSeq(ps), a, x, b)
<1>. USE DEF ElementsChanged
<1>0. PICK o : o = FlattenSeq(ps)
  OBVIOUS
<1>1. /\ t \in Seq(Char) /\ ps \in Seq(Seq(Char)) /\ qs \in Seq(Seq(Char)) /\ x \in Seq(Char)
      /\ Len(t) \in Nat /\ a \in Nat /\ b \in Nat /\ a < b /\ b <= Len(t)
  BY DEF Text
<1>2. PICK c \in Text, d \in Text :
        /\ c = SubSeq(t, 1, a) /\ d = SubSeq(t, 1, b)
        /\ Len(c) = a /\ Len(d) = b /\ \A k \in 1..a : c[k] = d[k]
  <2>1. a \in 0..Len(t) /\ b \in 0..Len(t)
    BY <1>1
  <2>2. /\ SubSeq(t, 1, a) \in Text /\ Len(SubSeq(t, 1, a)) = a
        /\ \A k \in 1..a : SubSeq(t, 1, a)[k] = t[k]
    BY <2>1, FrontFacts
  <2>3. /\ SubSeq(t, 1, b) \in Text /\ Len(SubSeq(t, 1, b)) = b
        /\ \A k \in 1..b : SubSeq(t, 1, b)[k] = t[k]
    BY <2>1, FrontFacts
  <2>4. \A k \in 1..a : k \in 1..b
    BY <1>1
  <2>. QED
    BY ZenonT(60), <2>2, <2>3, <2>4
\* The characters up to b, then what is behind them.
<1>4. Joined(ps, b) = d /\ Joined(qs, a) = c
  <2>1. b \in 0..Len(t) /\ a \in 0..Len(t)
    BY <1>1
  <2>. QED
    BY <1>1, <1>2, <2>1, LiteralFront
<1>5. Joined(qs, b) = c \o x
  <2>1. a + 1 \in 1..Len(qs) /\ (a + 1) - 1 = a /\ a + 1 \in 0..Len(qs) /\ b \in (a + 1)..Len(qs)
    BY <1>1
  <2>2. Joined(qs, a + 1) = Joined(qs, (a + 1) - 1) \o qs[a + 1]
    BY <1>1, <2>1, JoinedFacts
  <2>3. \A k \in ((a + 1) + 1)..b : qs[k] = <<>>
    BY <1>1
  <2>4. Joined(qs, b) = Joined(qs, a + 1)
    BY <1>1, <2>1, <2>3, EmptyRun
  <2>. QED
    BY <1>4, <2>1, <2>2, <2>4
<1>6. ASSUME NEW s \in Seq(Seq(Char)), Len(s) = Len(t)
      PROVE  /\ SubSeq(s, b + 1, Len(s)) \in Seq(Seq(Char))
             /\ FlattenSeq(s) = Joined(s, b) \o FlattenSeq(SubSeq(s, b + 1, Len(s)))
  <2>1. PICK u \in Seq(Seq(Char)), v \in Seq(Seq(Char)) :
          u = SubSeq(s, 1, b) /\ v = SubSeq(s, b + 1, Len(s))
    <3>1. PICK D : D = Seq(Char)
      OBVIOUS
    <3>2. s \in Seq(D) /\ b \in Nat /\ b <= Len(s)
      BY <1>1, <1>6, <3>1
    <3>3. SubSeq(s, 1, b) \in Seq(D) /\ SubSeq(s, b + 1, Len(s)) \in Seq(D)
      BY <3>2
    <3>. QED
      BY <3>1, <3>3
  <2>2. s = u \o v
    <3>1. 1 \in 1..(Len(s) + 1) /\ b \in (1 - 1)..Len(s) /\ Len(s) \in b..Len(s)
      BY <1>1, <1>6
    <3>2. SubSeq(s, 1, b) \o SubSeq(s, b + 1, Len(s)) = SubSeq(s, 1, Len(s))
      BY <1>6, <3>1, ConcatAdjacentSubSeq
    <3>3. SubSeq(s, 1, Len(s)) = s
      BY <1>6, SubSeqFull
    <3>. QED
      BY <2>1, <3>2, <3>3
  <2>3. FlattenSeq(u \o v) = FlattenSeq(u) \o FlattenSeq(v)
    BY FlattenConcat
  <2>. QED
    BY <2>1, <2>2, <2>3 DEF Joined
<1>7. PICK w \in Seq(Seq(Char)) : w = SubSeq(ps, b + 1, Len(ps)) /\ w = SubSeq(qs, b + 1, Len(qs))
  <2>1. SubSeq(ps, b + 1, Len(ps)) \in Seq(Seq(Char))
    BY <1>1, <1>6
  <2>2. SubSeq(ps, b + 1, Len(ps)) = SubSeq(qs, b + 1, Len(qs))
    <3>1. PICK n \in Nat : n = Len(t) /\ Len(ps) = n /\ Len(qs) = n
      BY <1>1
    <3>2. \A k \in (b + 1)..n : qs[k] = ps[k]
      BY <3>1
    <3>. QED
      BY <1>1, <3>1, <3>2
  <2>. QED
    BY <2>1, <2>2
<1>8. PICK r \in Text : r = FlattenSeq(w)
  <2>1. FlattenSeq(w) \in Seq(Char)
    BY FlattenType
  <2>. QED
    BY <2>1 DEF Text
<1>9. o = d \o r /\ FlattenSeq(qs) = (c \o x) \o r
  BY <1>0, <1>1, <1>4, <1>5, <1>6, <1>7, <1>8
<1>10. /\ o \in Text /\ Len(o) = b + Len(r) /\ Len(r) \in Nat
       /\ \A k \in 1..b : o[k] = d[k]
       /\ \A k \in 1..Len(r) : o[b + k] = r[k]
  <2>1. /\ Len(d) \in Nat /\ Len(r) \in Nat /\ d \o r \in Text /\ Len(d \o r) = Len(d) + Len(r)
        /\ \A k \in 1..Len(d) : (d \o r)[k] = d[k]
        /\ \A k \in 1..Len(r) : (d \o r)[Len(d) + k] = r[k]
    BY ConcatCharacters
  <2>. QED
    BY <1>2, <1>9, <2>1
<1>11. SubSeq(o, 1, a) = c
  <2>1. a \in 0..Len(o)
    BY <1>1, <1>10
  <2>3. PICK u \in Text : u = SubSeq(o, 1, a) /\ Len(u) = a /\ \A k \in 1..a : u[k] = o[k]
    BY <1>10, <2>1, FrontFacts
  <2>4. \A k \in 1..a : u[k] = c[k]
    BY <1>1, <1>2, <1>10, <2>3
  <2>. QED
    BY <1>2, <2>3, <2>4, SameText
<1>12. SubSeq(o, b + 1, Len(o)) = r
  <2>1. b + 1 \in 1..(Len(o) + 1) /\ Len(o) \in ((b + 1) - 1)..Len(o)
    BY <1>1, <1>10
  <2>2. PICK u \in Text : /\ u = SubSeq(o, b + 1, Len(o)) /\ Len(u) = Len(o) - (b + 1) + 1
        /\ \A k \in 1..(Len(o) - (b + 1) + 1) : u[k] = o[b + 1 + k - 1]
    BY <1>10, <2>1, SegmentFacts
  <2>3. Len(u) = Len(r) /\ \A k \in 1..Len(r) : u[k] = r[k]
    <3>1. Len(o) - (b + 1) + 1 = Len(r)
      BY <1>1, <1>10
    <3>2. ASSUME NEW k \in 1..Len(r) PROVE u[k] = r[k]
      <4>1. b + 1 + k - 1 = b + k /\ u[k] = o[b + 1 + k - 1]
        BY <1>1, <2>2, <3>1
      <4>. QED
        BY <1>10, <4>1
    <3>. QED
      BY <2>2, <3>1, <3>2
  <2>. QED
    BY <2>2, <2>3, SameText
<1>. QED
  BY <1>0, <1>9, <1>11, <1>12 DEF WithInside

(***************************************************************************)
(* Whatever is cut off a placeholder's end, the rest may grow.             *)
(***************************************************************************)
LEMMA PrefixOfComplete ==
  ASSUME NEW s \in Text, CompletePlaceholder(s), NEW k \in 1..(Len(s) - 1)
  PROVE  CanGrow(SubSeq(s, 1, k))
<1>. DEFINE t == SubSeq(s, 1, k)
<1>1. t \in Text /\ Len(t) = k /\ \A i \in 1..k : t[i] = s[i]
  BY PrefixFacts DEF Text
<1>. HIDE DEF t
<1>2. PICK m \in 1..MaxLabelLen, n \in 1..MaxIndexLen :
        /\ Len(s) = m + n + 3
        /\ s[1] = Open
        /\ \A j \in 2..(m + 1) : s[j] \in Word
        /\ s[m + 2] = Underscore
        /\ \A j \in (m + 3)..(m + n + 2) : s[j] \in Digit
  BY DEF CompletePlaceholder
<1>3. k \in Nat /\ k <= m + n + 2 /\ k >= 1
  BY <1>2, FormatAssumption
<1>4. Len(t) <= MaxPlaceholderLen
  BY <1>1, <1>2, <1>3, FormatAssumption DEF MaxPlaceholderLen
<1>5. ~CompletePlaceholder(t)
  <2>1. t[k] # Close
    BY <1>1, <1>3, BracketOnlyLast
  <2>. QED
    BY <1>1, <2>1, FormatAssumption DEF CompletePlaceholder
<1>6. ViablePrefix(t)
  <2>1. CASE k <= m + 1
    <3>1. k - 1 \in 0..MaxLabelLen
      BY <1>2, <1>3, <2>1, FormatAssumption
    <3>2. \A j \in 2..k : t[j] \in Word
      BY <1>1, <1>2, <1>3, <2>1
    <3>3. /\ Len(t) = 1 + (k - 1) + 0 + 0
          /\ t[1] = Open
          /\ \A j \in 2..((k - 1) + 1) : t[j] \in Word
          /\ 0 > 0 => t[(k - 1) + 2] = Underscore
          /\ \A j \in ((k - 1) + 3)..((k - 1) + 0 + 1) : t[j] \in Digit
          /\ 0 = 1 => t[1 + (k - 1) + 0 + 1] = Close
      BY <1>1, <1>2, <1>3, <3>2
    <3>4. 0 \in 0..(MaxIndexLen + 1) /\ 0 \in 0..1
      BY FormatAssumption
    <3>. QED
      BY <3>1, <3>3, <3>4 DEF ViablePrefix
  <2>2. CASE k >= m + 2
    <3>. DEFINE q == k - 1 - m
    <3>1. q \in 0..(MaxIndexLen + 1) /\ m \in 0..MaxLabelLen /\ q \in Nat
      BY <1>2, <1>3, <2>2, FormatAssumption
    <3>2. m + q + 1 = k
      BY <1>2, <1>3, <2>2
    <3>3. /\ Len(t) = 1 + m + q + 0
          /\ t[1] = Open
          /\ \A j \in 2..(m + 1) : t[j] \in Word
          /\ q > 0 => t[m + 2] = Underscore
          /\ \A j \in (m + 3)..(m + q + 1) : t[j] \in Digit
          /\ 0 = 1 => t[1 + m + q + 1] = Close
      BY <1>1, <1>2, <1>3, <2>2, <3>2
    <3>. HIDE DEF q
    <3>. QED
      BY <3>1, <3>3 DEF ViablePrefix
  <2>. QED
    BY <1>2, <1>3, <2>1, <2>2
<1>. QED
  BY <1>4, <1>5, <1>6 DEF CanGrow, t

(***************************************************************************)
(* Whatever is cut off the end of a text that may grow, the rest may grow. *)
(***************************************************************************)
LEMMA PrefixOfGrowing ==
  ASSUME NEW s \in Text, CanGrow(s), NEW k \in 1..Len(s)
  PROVE  CanGrow(SubSeq(s, 1, k))
<1>. DEFINE t == SubSeq(s, 1, k)
<1>1. t \in Text /\ Len(t) = k /\ \A i \in 1..k : t[i] = s[i]
  BY PrefixFacts
<1>2. CASE k = Len(s)
  <2>1. t = s
    BY <1>2 DEF Text
  <2>. QED
    BY <2>1
<1>3. CASE k < Len(s)
  <2>. HIDE DEF t
  <2>1. PICK m \in 0..MaxLabelLen, n \in 0..(MaxIndexLen + 1), c \in 0..1 :
          /\ Len(s) = 1 + m + n + c
          /\ s[1] = Open
          /\ \A j \in 2..(m + 1) : s[j] \in Word
          /\ n > 0 => s[m + 2] = Underscore
          /\ \A j \in (m + 3)..(m + n + 1) : s[j] \in Digit
    BY DEF CanGrow, ViablePrefix
  <2>2. k \in Nat /\ k <= m + n + 1 /\ k >= 1
    BY <1>3, <2>1, FormatAssumption
  <2>3. Len(t) <= MaxPlaceholderLen
    BY <1>1, <1>3, FormatAssumption DEF MaxPlaceholderLen, CanGrow, Text
  <2>4. ~CompletePlaceholder(t)
    <3>1. t[k] # Close
      BY <1>1, <1>3, <2>2, BracketOnlyLast DEF CanGrow, Text
    <3>. QED
      BY <1>1, <3>1, FormatAssumption DEF CompletePlaceholder
  <2>5. ViablePrefix(t)
    <3>1. CASE k <= m + 1
      <4>1. k - 1 \in 0..MaxLabelLen /\ 0 \in 0..(MaxIndexLen + 1) /\ 0 \in 0..1
        BY <2>1, <2>2, <3>1, FormatAssumption
      <4>2. \A j \in 2..k : t[j] \in Word
        BY <1>1, <2>1, <2>2, <3>1
      <4>3. /\ Len(t) = 1 + (k - 1) + 0 + 0
            /\ t[1] = Open
            /\ \A j \in 2..((k - 1) + 1) : t[j] \in Word
            /\ 0 > 0 => t[(k - 1) + 2] = Underscore
            /\ \A j \in ((k - 1) + 3)..((k - 1) + 0 + 1) : t[j] \in Digit
            /\ 0 = 1 => t[1 + (k - 1) + 0 + 1] = Close
        BY <1>1, <2>1, <2>2, <4>2
      <4>. QED
        BY <4>1, <4>3 DEF ViablePrefix
    <3>2. CASE k >= m + 2
      <4>. DEFINE q == k - 1 - m
      <4>1. q \in 0..(MaxIndexLen + 1) /\ q \in Nat /\ 0 \in 0..1
        BY <2>1, <2>2, <3>2, FormatAssumption
      <4>2. m + q + 1 = k
        BY <2>1, <2>2, <3>2
      <4>3. /\ Len(t) = 1 + m + q + 0
            /\ t[1] = Open
            /\ \A j \in 2..(m + 1) : t[j] \in Word
            /\ q > 0 => t[m + 2] = Underscore
            /\ \A j \in (m + 3)..(m + q + 1) : t[j] \in Digit
            /\ 0 = 1 => t[1 + m + q + 1] = Close
        BY <1>1, <2>1, <2>2, <3>2, <4>2
      <4>. HIDE DEF q
      <4>. QED
        BY <2>1, <4>1, <4>3 DEF ViablePrefix
    <3>. QED
      BY <2>1, <2>2, <3>1, <3>2
  <2>. QED
    BY <2>3, <2>4, <2>5 DEF CanGrow, t
<1>. QED
  BY <1>2, <1>3 DEF Text

(***************************************************************************)
(* A text that may grow starts with an opening bracket, its only one.      *)
(***************************************************************************)
LEMMA GrowingStartsOpen ==
  ASSUME NEW s \in Text, CanGrow(s)
  PROVE  Len(s) > 0 /\ s[1] = Open
BY FormatAssumption DEF CanGrow, ViablePrefix, Text

(***************************************************************************)
(* No segment that reaches over an opening bracket may grow.               *)
(***************************************************************************)
LEMMA NoGrowthOverBracket ==
  ASSUME NEW s \in Text, NEW i \in 1..Len(s), NEW p \in (i + 1)..Len(s),
         NEW j \in p..Len(s), s[p] = Open
  PROVE  ~CanGrow(SubSeq(s, i, j)) /\ ~CompletePlaceholder(SubSeq(s, i, j))
<1>. DEFINE t == SubSeq(s, i, j)
<1>1. t \in Text /\ Len(t) = j - i + 1 /\ t[p - i + 1] = s[p]
  BY SegmentFacts DEF Text
<1>. HIDE DEF t
<1>2. p - i + 1 \in 2..Len(t)
  BY <1>1 DEF Text
<1>. SUFFICES ~CanGrow(t) /\ ~CompletePlaceholder(t)
  BY DEF t
<1>. QED
  BY <1>1, <1>2, BracketOnlyFirst DEF CanGrow

(***************************************************************************)
(* FindHoldStart: a buffer has at most one position at which a tail that   *)
(* may grow begins, and FindHoldStart finds it.                            *)
(***************************************************************************)
LEMMA HoldStartFound ==
  ASSUME NEW b \in Text
  PROVE  \/ /\ FindHoldStart(b) = Len(b) + 1
            /\ Settled(b, Len(b))
         \/ /\ FindHoldStart(b) \in 1..Len(b)
            /\ b[FindHoldStart(b)] = Open
            /\ CanGrow(SubSeq(b, FindHoldStart(b), Len(b)))
<1>0. Len(b) \in Nat
  BY DEF Text
<1>1. CASE HoldPoints(b) = {}
  <2>1. FindHoldStart(b) = Len(b) + 1
    BY <1>1 DEF FindHoldStart
  <2>2. ASSUME NEW i \in 1..Len(b), CanGrow(SubSeq(b, i, Len(b)))
        PROVE  FALSE
    <3>1. SubSeq(b, i, Len(b)) \in Text /\ SubSeq(b, i, Len(b))[1] = b[i]
      BY <1>0, SegmentFacts
    <3>2. b[i] = Open
      BY <2>2, <3>1, GrowingStartsOpen
    <3>. QED
      BY <1>1, <2>2, <3>2 DEF HoldPoints
  <2>. QED
    BY <2>1, <2>2 DEF Settled
<1>2. CASE HoldPoints(b) # {}
  <2>1. PICK h : h \in HoldPoints(b)
    BY <1>2
  <2>2. h \in 1..Len(b) /\ b[h] = Open /\ CanGrow(SubSeq(b, h, Len(b)))
    BY <2>1 DEF HoldPoints
  <2>3. \A g \in HoldPoints(b) : g = h
    <3>1. TAKE g \in HoldPoints(b)
    <3>2. g \in 1..Len(b) /\ b[g] = Open /\ CanGrow(SubSeq(b, g, Len(b)))
      BY <3>1 DEF HoldPoints
    <3>3. ~(g < h)
      BY <1>0, <2>2, <3>2, NoGrowthOverBracket
    <3>4. ~(h < g)
      BY <1>0, <2>2, <3>2, NoGrowthOverBracket
    <3>. QED
      BY <1>0, <2>2, <3>2, <3>3, <3>4
  <2>4. HoldPoints(b) = {h}
    BY <2>1, <2>3
  <2>5. Max(HoldPoints(b)) = h
    <3>1. h \in {h} /\ \A y \in {h} : h >= y
      BY <1>0, <2>2
    <3>. QED
      BY <2>4, <3>1 DEF Max
  <2>. QED
    BY <1>2, <2>2, <2>5 DEF FindHoldStart
<1>. QED
  BY <1>1, <1>2

(***************************************************************************)
(* Nothing that ended where the text was settled can grow after it: if     *)
(* text has been settled up to c, no segment that starts at or before c    *)
(* and ends behind it may grow or be a placeholder.                        *)
(***************************************************************************)
LEMMA SettledStays ==
  ASSUME NEW s \in Text, NEW c \in 0..Len(s), Settled(s, c),
         NEW i \in 1..c, NEW j \in c..Len(s)
  PROVE  ~CanGrow(SubSeq(s, i, j)) /\ (c < j => ~CompletePlaceholder(SubSeq(s, i, j)))
<1>. DEFINE t == SubSeq(s, i, j)
            k == c - i + 1
<1>0. Len(s) \in Nat /\ s \in Seq(Char)
  BY DEF Text
<1>1. t \in Text /\ Len(t) = j - i + 1 /\ \A q \in 1..(j - i + 1) : t[q] = s[i + q - 1]
  BY <1>0, SegmentFacts
<1>2. k \in 1..Len(t) /\ (c < j => k \in 1..(Len(t) - 1))
  BY <1>0, <1>1
<1>3. SubSeq(t, 1, k) = SubSeq(s, i, c)
  <2>1. /\ Len(SubSeq(s, i, c)) = k /\ SubSeq(s, i, c) \in Seq(Char)
        /\ \A q \in 1..k : SubSeq(s, i, c)[q] = s[i + q - 1]
    BY <1>0, SegmentFacts DEF Text
  <2>. HIDE DEF t
  <2>2. /\ Len(SubSeq(t, 1, k)) = k /\ SubSeq(t, 1, k) \in Seq(Char)
        /\ \A q \in 1..k : SubSeq(t, 1, k)[q] = t[q]
    BY <1>1, <1>2, PrefixFacts DEF Text
  <2>3. \A q \in 1..k : SubSeq(t, 1, k)[q] = SubSeq(s, i, c)[q]
    BY <1>0, <1>1, <1>2, <2>1, <2>2
  <2>. QED
    BY <2>1, <2>2, <2>3
<1>4. ~CanGrow(SubSeq(t, 1, k))
  BY <1>3 DEF Settled
<1>. HIDE DEF t, k
<1>5. ~CanGrow(t)
  BY <1>1, <1>2, <1>4, PrefixOfGrowing
<1>6. c < j => ~CompletePlaceholder(t)
  BY <1>1, <1>2, <1>4, PrefixOfComplete
<1>. QED
  BY <1>5, <1>6 DEF t

(***************************************************************************)
(* Restoring a text gives a text, whatever stands open in it.              *)
(***************************************************************************)
LEMMA ScanStepType ==
  ASSUME WellFormedLookup, NEW s \in Text, NEW f, NEW k \in 1..(Len(s) + 1),
         \A j \in (k + 1)..(Len(s) + 1) : f[j] \in Text
  PROVE  ScanStep(f, s, k) \in Text
<1>0. Len(s) \in Nat
  BY DEF Text
<1>1. SubSeq(s, k, Len(s)) \in Text
  <2>1. Len(s) \in (k - 1)..Len(s)
    BY <1>0
  <2>. QED
    BY <2>1, SegmentFacts
<1>2. CASE Occurrences(s, Open, k) = {}
  BY <1>1, <1>2 DEF ScanStep
<1>3. CASE Occurrences(s, Open, k) # {}
  <2>. DEFINE a == Min(Occurrences(s, Open, k))
  <2>1. a \in k..Len(s)
    BY <1>3, FirstOccurrence
  <2>. HIDE DEF a
  <2>2. CASE Occurrences(s, Close, a) = {}
    BY <1>1, <1>3, <2>2 DEF ScanStep, a
  <2>3. CASE Occurrences(s, Close, a) # {}
    <3>. DEFINE e == Min(Occurrences(s, Close, a))
    <3>1. e \in a..Len(s)
      BY <1>0, <2>1, <2>3, FirstOccurrence
    <3>. HIDE DEF e
    <3>2. PICK x \in Text : x = SubSeq(s, k, a - 1)
      <4>1. a - 1 \in (k - 1)..Len(s)
        BY <1>0, <2>1
      <4>. QED
        BY <4>1, SegmentFacts
    <3>3. PICK y \in Text : y = Resolve(SubSeq(s, a, e))
      <4>1. a \in 1..(Len(s) + 1) /\ e \in (a - 1)..Len(s)
        BY <1>0, <2>1, <3>1
      <4>2. SubSeq(s, a, e) \in Text
        BY <4>1, SegmentFacts
      <4>. QED
        BY <4>2 DEF Resolve, WellFormedLookup
    <3>4. PICK z \in Text : z = f[e + 1]
      <4>1. e + 1 \in (k + 1)..(Len(s) + 1)
        BY <1>0, <2>1, <3>1
      <4>. QED
        BY <4>1
    <3>5. ScanStep(f, s, k) = x \o y \o z
      BY <1>3, <2>3, <3>2, <3>3, <3>4 DEF ScanStep, a, e
    <3>6. x \o y \in Text
      BY TextConcat
    <3>. QED
      BY <3>5, <3>6, TextConcat
  <2>. QED
    BY <2>2, <2>3
<1>. QED
  BY <1>2, <1>3

LEMMA RestoreStringType ==
  ASSUME WellFormedLookup, NEW s \in Text
  PROVE  RestoreString(s) \in Text
<1>0. Len(s) \in Nat
  BY DEF Text
<1>1. PICK f : /\ RestoreString(s) = f[1]
               /\ \A k \in 1..(Len(s) + 1) : f[k] = ScanStep(f, s, k)
  BY RestoreStringScans
<1>. DEFINE T == {n \in Nat : \A j \in 1..(Len(s) + 1) : Len(s) + 1 - j < n => f[j] \in Text}
<1>2. 0 \in T
  BY <1>0
<1>3. ASSUME NEW n \in Nat, n \in T
      PROVE  n + 1 \in T
  <2>. SUFFICES ASSUME NEW j \in 1..(Len(s) + 1), Len(s) + 1 - j < n + 1 PROVE f[j] \in Text
    OBVIOUS
  <2>1. \A i \in (j + 1)..(Len(s) + 1) : i \in 1..(Len(s) + 1) /\ Len(s) + 1 - i < n
    BY <1>0
  <2>2. \A i \in (j + 1)..(Len(s) + 1) : f[i] \in Text
    BY <1>3, <2>1
  <2>3. ScanStep(f, s, j) \in Text
    BY <2>2, ScanStepType
  <2>. QED
    BY <1>1, <2>3
<1>. HIDE DEF T
<1>4. \A n \in Nat : n \in T
  BY <1>2, <1>3, Induction
<1>5. Len(s) + 1 \in Nat /\ 1 \in 1..(Len(s) + 1) /\ Len(s) + 1 - 1 < Len(s) + 1
  BY <1>0
<1>. QED
  BY <1>1, <1>4, <1>5 DEF T
=============================================================================
