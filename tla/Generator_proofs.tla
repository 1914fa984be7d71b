-------------------------- MODULE Generator_proofs --------------------------
(***************************************************************************)
(* Proofs about Generator: type correctness, mutual exclusion on the maps, *)
(* agreement of the two maps, and that the generator implements the        *)
(* abstract dictionary.                                                    *)
(***************************************************************************)
EXTENDS Generator, TLAPS

(***************************************************************************)
(* A map that gets one more entry.                                         *)
(***************************************************************************)
LEMMA PutFacts ==
  ASSUME NEW f, NEW k, NEW v
  PROVE  /\ DOMAIN Put(f, k, v) = DOMAIN f \cup {k}
         /\ Put(f, k, v)[k] = v
         /\ \A x \in DOMAIN f : x # k => Put(f, k, v)[x] = f[x]
BY DEF Put

LEMMA NoneIsNoThread == None \notin Threads
BY MappingAssumption

LEMMA InitTypeOK == Init => TypeOK
<1>. SUFFICES ASSUME Init PROVE TypeOK
  OBVIOUS
<1>1. labelCounts \in [Labels -> Nat]
  BY DEF Init
<1>2. DOMAIN valueToPlaceholder = {} /\ DOMAIN placeholderToValue = {}
  BY DEF Init
<1>3. holder \in Threads \cup {None} /\ readers \subseteq Threads
  BY DEF Init
<1>4. /\ pc \in [Threads -> {"idle"} \cup ForSteps \cup LookupSteps]
      /\ arg \in [Threads -> (Values \X EntityTypes) \cup Placeholders \cup {None}]
      /\ result \in [Threads -> Values \cup Placeholders \cup {None}]
  BY DEF Init
<1>5. \A t \in Threads : pc[t] \notin ForSteps /\ pc[t] \notin LookupSteps /\ ~Storing(t)
  BY DEF Init, ForSteps, LookupSteps, Storing
<1>. QED
  BY <1>1, <1>2, <1>3, <1>4, <1>5 DEF TypeOK

(***************************************************************************)
(* Every step keeps the types.                                             *)
(***************************************************************************)
LEMMA NextTypeOK == TypeOK /\ [Next]_vars => TypeOK'
<1>. SUFFICES ASSUME TypeOK, [Next]_vars PROVE TypeOK'
  OBVIOUS
<1>. USE DEF TypeOK, Goto, maps, ForSteps, LookupSteps, Storing
<1>1. ASSUME NEW t \in Threads, NEW v \in Values, NEW e \in EntityTypes,
             CallPlaceholderFor(t, v, e)
      PROVE  TypeOK'
  BY <1>1 DEF CallPlaceholderFor
<1>2. ASSUME NEW t \in Threads, NEW ph \in Placeholders, CallLookup(t, ph)
      PROVE  TypeOK'
  BY <1>2 DEF CallLookup
<1>3. ASSUME NEW t \in Threads, Lock(t)
      PROVE  TypeOK'
  BY <1>3 DEF Lock
<1>4. ASSUME NEW t \in Threads, Drain(t)
      PROVE  TypeOK'
  BY <1>4 DEF Drain
<1>5. ASSUME NEW t \in Threads, Check(t)
      PROVE  TypeOK'
  BY <1>5 DEF Check
<1>6. ASSUME NEW t \in Threads, Count(t)
      PROVE  TypeOK'
  <2>1. /\ arg[t] \in Values \X EntityTypes /\ LabelOf[arg[t][2]] \in Labels
        /\ labelCounts[LabelOf[arg[t][2]]] \in Nat
    BY <1>6, MappingAssumption DEF Count
  <2>. DEFINE label == LabelOf[arg[t][2]]
              ph == <<label, labelCounts[label] + 1>>
  <2>2. ph \in Placeholders
    BY <1>6, <2>1 DEF Count, Placeholders
  <2>3. /\ result' = [result EXCEPT ![t] = ph]
        /\ pc' = [pc EXCEPT ![t] = "storeValue"]
        /\ labelCounts' = [labelCounts EXCEPT ![label] = @ + 1]
        /\ UNCHANGED <<valueToPlaceholder, placeholderToValue, holder, readers, arg>>
    BY <1>6 DEF Count
  <2>4. pc[t] = "count"
    BY <1>6 DEF Count
  <2>. HIDE DEF label, ph
  <2>5. labelCounts' \in [Labels -> Nat]
    BY <2>1, <2>3 DEF label
  <2>. QED
    BY <2>2, <2>3, <2>4, <2>5
<1>7. ASSUME NEW t \in Threads, StoreValue(t)
      PROVE  TypeOK'
  <2>1. arg[t][1] \in Values /\ result[t] \in Placeholders
    BY <1>7 DEF StoreValue
  <2>2. /\ valueToPlaceholder' = Put(valueToPlaceholder, arg[t][1], result[t])
        /\ pc[t] = "storeValue" /\ pc' = [pc EXCEPT ![t] = "storePlaceholder"]
        /\ UNCHANGED <<labelCounts, placeholderToValue, holder, readers, arg, result>>
    BY <1>7 DEF StoreValue
  <2>3. /\ DOMAIN valueToPlaceholder' \subseteq Values
        /\ \A v \in DOMAIN valueToPlaceholder' : valueToPlaceholder'[v] \in Placeholders
    BY <2>1, <2>2 DEF Put
  <2>. QED
    BY <2>2, <2>3
<1>8. ASSUME NEW t \in Threads, StorePlaceholder(t)
      PROVE  TypeOK'
  <2>1. arg[t][1] \in Values /\ result[t] \in Placeholders
    BY <1>8 DEF StorePlaceholder
  <2>2. /\ placeholderToValue' = Put(placeholderToValue, result[t], arg[t][1])
        /\ pc[t] = "storePlaceholder" /\ pc' = [pc EXCEPT ![t] = "unlock"]
        /\ UNCHANGED <<labelCounts, valueToPlaceholder, holder, readers, arg, result>>
    BY <1>8 DEF StorePlaceholder
  <2>3. /\ DOMAIN placeholderToValue' \subseteq Placeholders
        /\ \A ph \in DOMAIN placeholderToValue' : placeholderToValue'[ph] \in Values
    BY <2>1, <2>2 DEF Put
  <2>. QED
    BY <2>2, <2>3
<1>9. ASSUME NEW t \in Threads, Unlock(t)
      PROVE  TypeOK'
  BY <1>9 DEF Unlock
<1>10. ASSUME NEW t \in Threads, RLock(t)
      PROVE  TypeOK'
  BY <1>10 DEF RLock
<1>11. ASSUME NEW t \in Threads, Read(t)
      PROVE  TypeOK'
  BY <1>11 DEF Read
<1>12. ASSUME NEW t \in Threads, RUnlock(t)
       PROVE  TypeOK'
  BY <1>12 DEF RUnlock
<1>13. CASE UNCHANGED vars
  BY <1>13 DEF vars
<1>. QED
  BY <1>1, <1>2, <1>3, <1>4, <1>5, <1>6, <1>7, <1>8, <1>9, <1>10, <1>11, <1>12, <1>13
     DEF Next, PlaceholderFor, Lookup

(***************************************************************************)
(* The mutex: who owns it, and that a writer has the maps to itself.       *)
(***************************************************************************)
LEMMA InitLockInv == Init => LockInv
<1>. SUFFICES ASSUME Init PROVE LockInv
  OBVIOUS
<1>1. /\ holder = None /\ readers = {}
      /\ \A t \in Threads : pc[t] = "idle"
  BY DEF Init
<1>. QED
  BY <1>1, NoneIsNoThread DEF LockInv, Writing, Reading

LEMMA NextLockInv == TypeOK /\ LockInv /\ [Next]_vars => LockInv'
<1>. SUFFICES ASSUME TypeOK, LockInv, [Next]_vars PROVE LockInv'
  OBVIOUS
<1>0. /\ DOMAIN pc = Threads
      /\ holder \in Threads \cup {None} /\ readers \subseteq Threads
  BY DEF TypeOK
<1>. USE DEF LockInv, Goto, Writing, Reading
<1>1. ASSUME NEW t \in Threads, NEW v \in Values, NEW e \in EntityTypes,
             CallPlaceholderFor(t, v, e)
      PROVE  LockInv'
  BY <1>0, <1>1 DEF CallPlaceholderFor
<1>2. ASSUME NEW t \in Threads, NEW ph \in Placeholders, CallLookup(t, ph)
      PROVE  LockInv'
  BY <1>0, <1>2 DEF CallLookup
<1>3. ASSUME NEW t \in Threads, Lock(t)
      PROVE  LockInv'
  BY <1>0, <1>3, NoneIsNoThread DEF Lock
<1>4. ASSUME NEW t \in Threads, Drain(t)
      PROVE  LockInv'
  BY <1>0, <1>4 DEF Drain
<1>5. ASSUME NEW t \in Threads, Check(t)
      PROVE  LockInv'
  BY <1>0, <1>5 DEF Check
<1>6. ASSUME NEW t \in Threads, Count(t)
      PROVE  LockInv'
  BY <1>0, <1>6 DEF Count
<1>7. ASSUME NEW t \in Threads, StoreValue(t)
      PROVE  LockInv'
  BY <1>0, <1>7 DEF StoreValue
<1>8. ASSUME NEW t \in Threads, StorePlaceholder(t)
      PROVE  LockInv'
  BY <1>0, <1>8 DEF StorePlaceholder
<1>9. ASSUME NEW t \in Threads, Unlock(t)
      PROVE  LockInv'
  BY <1>0, <1>9, NoneIsNoThread DEF Unlock
<1>10. ASSUME NEW t \in Threads, RLock(t)
       PROVE  LockInv'
  BY <1>0, <1>10, NoneIsNoThread DEF RLock
<1>11. ASSUME NEW t \in Threads, Read(t)
       PROVE  LockInv'
  BY <1>0, <1>11 DEF Read
<1>12. ASSUME NEW t \in Threads, RUnlock(t)
       PROVE  LockInv'
  BY <1>0, <1>12 DEF RUnlock
<1>13. CASE UNCHANGED vars
  BY <1>13 DEF vars
<1>. QED
  BY <1>1, <1>2, <1>3, <1>4, <1>5, <1>6, <1>7, <1>8, <1>9, <1>10, <1>11, <1>12, <1>13
     DEF Next, PlaceholderFor, Lookup

(***************************************************************************)
(* The maps and the steps of the calls, together.                          *)
(***************************************************************************)
LEMMA InitMaps == Init => MapInv /\ StepInv
<1>. SUFFICES ASSUME Init PROVE MapInv /\ StepInv
  OBVIOUS
<1>1. /\ DOMAIN valueToPlaceholder = {} /\ DOMAIN placeholderToValue = {}
      /\ labelCounts = [l \in Labels |-> 0]
      /\ \A t \in Threads : result[t] = None
  BY DEF Init
<1>2. \A t \in Threads : pc[t] = "idle"
  BY DEF Init
<1>3. \A l \in Labels, i \in Indices : ~(i <= labelCounts[l])
  BY <1>1, MappingAssumption
<1>4. MapInv
  BY <1>1, <1>2, <1>3 DEF MapInv, Storing
<1>5. StepInv
  BY <1>1, <1>2 DEF StepInv, Storing
<1>. QED
  BY <1>4, <1>5

(***************************************************************************)
(* A step that leaves the maps alone, and what the goroutine that inserts  *)
(* knows, keeps the maps in agreement.                                     *)
(***************************************************************************)
LEMMA MapsUntouched ==
  ASSUME MapInv, UNCHANGED maps,
         \A u \in Threads : /\ Storing(u)' <=> Storing(u)
                            /\ pc'[u] = "storePlaceholder" <=> pc[u] = "storePlaceholder"
                            /\ Storing(u) => arg'[u] = arg[u] /\ result'[u] = result[u]
  PROVE  MapInv'
<1>. UNCHANGED <<labelCounts, valueToPlaceholder, placeholderToValue>>
  BY DEF maps
<1>1. \A v \in DOMAIN valueToPlaceholder :
        \/ /\ valueToPlaceholder[v] \in DOMAIN placeholderToValue
           /\ placeholderToValue[valueToPlaceholder[v]] = v
        \/ \E t \in Threads : /\ pc'[t] = "storePlaceholder"
                              /\ arg'[t][1] = v /\ result'[t] = valueToPlaceholder[v]
  BY DEF MapInv, Storing
<1>2. \A l \in Labels, i \in Indices :
        i <= labelCounts[l] <=> \/ <<l, i>> \in DOMAIN placeholderToValue
                                \/ \E t \in Threads : Storing(t)' /\ result'[t] = <<l, i>>
  <2>1. TAKE l \in Labels, i \in Indices
  <2>2. i <= labelCounts[l] <=> \/ <<l, i>> \in DOMAIN placeholderToValue
                                \/ \E t \in Threads : Storing(t) /\ result[t] = <<l, i>>
    BY DEF MapInv
  <2>3. (\E t \in Threads : Storing(t) /\ result[t] = <<l, i>>)
          <=> \E t \in Threads : Storing(t)' /\ result'[t] = <<l, i>>
    OBVIOUS
  <2>. QED
    BY <2>2, <2>3
<1>. QED
  BY <1>1, <1>2 DEF MapInv, Storing

(***************************************************************************)
(* A step of t that leaves the maps alone keeps what the others know.      *)
(***************************************************************************)
Knows(t) ==
    /\ pc[t] \in {"count", "storeValue"} => arg[t][1] \notin DOMAIN valueToPlaceholder
    /\ pc[t] = "storePlaceholder" => /\ arg[t][1] \in DOMAIN valueToPlaceholder
                                     /\ valueToPlaceholder[arg[t][1]] = result[t]
    /\ Storing(t) => /\ result[t] \notin DOMAIN placeholderToValue
                     /\ result[t][1] = LabelOf[arg[t][2]]
    /\ pc[t] = "unlock" => /\ result[t] \in DOMAIN placeholderToValue
                           /\ placeholderToValue[result[t]] = arg[t][1]
    /\ pc[t] \in {"idle", "rlock", "rwait", "read"} => result[t] = None

LEMMA StepInvIsKnows == (StepInv <=> \A t \in Threads : Knows(t))
BY DEF StepInv, Knows

LEMMA OthersUntouched ==
  ASSUME NEW u \in Threads, Knows(u), UNCHANGED maps,
         pc'[u] = pc[u], arg'[u] = arg[u], result'[u] = result[u]
  PROVE  Knows(u)'
BY DEF Knows, maps, Storing

LEMMA NextMaps ==
  TypeOK /\ LockInv /\ MapInv /\ StepInv /\ [Next]_vars => MapInv' /\ StepInv'
<1>. SUFFICES ASSUME TypeOK, LockInv, MapInv, StepInv, [Next]_vars
              PROVE  MapInv' /\ \A u \in Threads : Knows(u)'
  BY StepInvIsKnows DEF StepInv, Knows
<1>0. /\ DOMAIN pc = Threads /\ DOMAIN arg = Threads /\ DOMAIN result = Threads
      /\ \A t \in Threads : pc[t] \in ForSteps => arg[t] \in Values \X EntityTypes
      /\ \A t \in Threads : Knows(t)
  BY StepInvIsKnows DEF TypeOK
\* Only one goroutine is inside a call to PlaceholderFor.
<1>20. ASSUME NEW t \in Threads, NEW u \in Threads, pc[t] \in Writing, pc[u] \in Writing
       PROVE  t = u
  BY <1>20 DEF LockInv
<1>1. ASSUME NEW t \in Threads, NEW v \in Values, NEW e \in EntityTypes,
             CallPlaceholderFor(t, v, e)
      PROVE  MapInv' /\ \A u \in Threads : Knows(u)'
  <2>1. MapInv'
    BY <1>0, <1>1, MapsUntouched DEF CallPlaceholderFor, Goto, Storing
  <2>2. Knows(t)'
    BY <1>0, <1>1 DEF CallPlaceholderFor, Goto, Knows, Storing
  <2>3. \A u \in Threads : u # t => Knows(u)'
    BY <1>0, <1>1, OthersUntouched DEF CallPlaceholderFor, Goto
  <2>. QED
    BY <2>1, <2>2, <2>3
<1>2. ASSUME NEW t \in Threads, NEW ph \in Placeholders, CallLookup(t, ph)
      PROVE  MapInv' /\ \A u \in Threads : Knows(u)'
  <2>1. MapInv'
    BY <1>0, <1>2, MapsUntouched DEF CallLookup, Goto, Storing
  <2>2. Knows(t)'
    BY <1>0, <1>2 DEF CallLookup, Goto, Knows, Storing
  <2>3. \A u \in Threads : u # t => Knows(u)'
    BY <1>0, <1>2, OthersUntouched DEF CallLookup, Goto
  <2>. QED
    BY <2>1, <2>2, <2>3
<1>3. ASSUME NEW t \in Threads, Lock(t) \/ Drain(t)
      PROVE  MapInv' /\ \A u \in Threads : Knows(u)'
  <2>1. MapInv'
    BY <1>0, <1>3, MapsUntouched DEF Lock, Drain, Goto, Storing
  <2>2. Knows(t)'
    BY <1>0, <1>3 DEF Lock, Drain, Goto, Knows, Storing
  <2>3. \A u \in Threads : u # t => Knows(u)'
    BY <1>0, <1>3, OthersUntouched DEF Lock, Drain, Goto
  <2>. QED
    BY <2>1, <2>2, <2>3
<1>5. ASSUME NEW t \in Threads, Check(t)
      PROVE  MapInv' /\ \A u \in Threads : Knows(u)'
  <2>1. MapInv'
    BY <1>0, <1>5, MapsUntouched DEF Check, Goto, Storing
  <2>2. Knows(t)'
    <3>1. \A u \in Threads : pc[u] # "storePlaceholder"
      BY <1>5, <1>20 DEF Check, Writing
    <3>2. ASSUME arg[t][1] \in DOMAIN valueToPlaceholder
          PROVE  /\ valueToPlaceholder[arg[t][1]] \in DOMAIN placeholderToValue
                 /\ placeholderToValue[valueToPlaceholder[arg[t][1]]] = arg[t][1]
      BY <3>1, <3>2 DEF MapInv
    <3>. QED
      BY <1>0, <1>5, <3>2 DEF Check, Goto, maps, Knows, Storing
  <2>3. \A u \in Threads : u # t => Knows(u)'
    BY <1>0, <1>5, OthersUntouched DEF Check, Goto
  <2>. QED
    BY <2>1, <2>2, <2>3
<1>6. ASSUME NEW t \in Threads, Count(t)
      PROVE  MapInv' /\ \A u \in Threads : Knows(u)'
  <2>. DEFINE label == LabelOf[arg[t][2]]
              n == labelCounts[label] + 1
  <2>1. /\ arg[t] \in Values \X EntityTypes /\ label \in Labels
        /\ labelCounts \in [Labels -> Nat]
        /\ pc[t] = "count"
    BY <1>6, <1>0, MappingAssumption DEF Count, ForSteps, TypeOK
  <2>2. /\ n \in Indices
        /\ labelCounts' = [labelCounts EXCEPT ![label] = @ + 1]
        /\ result' = [result EXCEPT ![t] = <<label, n>>]
        /\ pc' = [pc EXCEPT ![t] = "storeValue"]
        /\ UNCHANGED <<valueToPlaceholder, placeholderToValue, arg>>
    BY <1>6 DEF Count, Goto
  <2>3. \A u \in Threads : ~Storing(u)
    BY <1>20, <2>1 DEF Storing, Writing
  <2>4. \A u \in Threads : Storing(u)' <=> u = t
    BY <1>0, <2>2, <2>3 DEF Storing
  <2>5. \A l \in Labels, i \in Indices :
          i <= labelCounts[l] <=> <<l, i>> \in DOMAIN placeholderToValue
    BY <2>3 DEF MapInv
  <2>6. \A l \in Labels : /\ l # label => labelCounts'[l] = labelCounts[l]
                          /\ l = label => labelCounts'[l] = n
    BY <2>1, <2>2
  <2>7. labelCounts[label] \in Nat /\ n = labelCounts[label] + 1 /\ n \in Nat
    BY <2>1
  <2>8. <<label, n>> \notin DOMAIN placeholderToValue
    BY <2>1, <2>2, <2>5, <2>7
  <2>9. result'[t] = <<label, n>>
    BY <1>0, <2>2
  <2>. HIDE DEF n, label
  <2>10. \A l \in Labels, i \in Indices :
           i <= labelCounts'[l] <=> \/ <<l, i>> \in DOMAIN placeholderToValue
                                    \/ l = label /\ i = n
    <3>1. TAKE l \in Labels, i \in Indices
    <3>2. i \in Nat
      BY MappingAssumption
    <3>3. CASE l # label
      BY <2>5, <2>6, <3>3
    <3>4. CASE l = label
      BY <2>1, <2>5, <2>6, <2>7, <3>2, <3>4
    <3>. QED
      BY <3>3, <3>4
  <2>11. \A l \in Labels, i \in Indices :
           i <= labelCounts'[l] <=> \/ <<l, i>> \in DOMAIN placeholderToValue'
                                    \/ \E u \in Threads : Storing(u)' /\ result'[u] = <<l, i>>
    <3>1. TAKE l \in Labels, i \in Indices
    <3>2. (\E u \in Threads : Storing(u)' /\ result'[u] = <<l, i>>) <=> <<label, n>> = <<l, i>>
      BY <2>4, <2>9
    <3>3. <<label, n>> = <<l, i>> <=> l = label /\ i = n
      OBVIOUS
    <3>. QED
      BY <2>2, <2>10, <3>2, <3>3
  <2>12. \A v \in DOMAIN valueToPlaceholder :
           /\ valueToPlaceholder[v] \in DOMAIN placeholderToValue
           /\ placeholderToValue[valueToPlaceholder[v]] = v
    BY <2>3 DEF MapInv, Storing
  <2>13. MapInv'
    BY <2>2, <2>11, <2>12 DEF MapInv, Storing
  <2>14. Knows(t)'
    BY <1>0, <2>1, <2>2, <2>8, <2>9 DEF Knows, Storing, label
  <2>15. \A u \in Threads : u # t => Knows(u)'
    BY <1>0, <2>2 DEF Knows, Storing
  <2>. QED
    BY <2>13, <2>14, <2>15
<1>7. ASSUME NEW t \in Threads, StoreValue(t)
      PROVE  MapInv' /\ \A u \in Threads : Knows(u)'
  <2>1. /\ pc[t] = "storeValue"
        /\ valueToPlaceholder' = Put(valueToPlaceholder, arg[t][1], result[t])
        /\ pc' = [pc EXCEPT ![t] = "storePlaceholder"]
        /\ UNCHANGED <<labelCounts, placeholderToValue, arg, result>>
    BY <1>7 DEF StoreValue, Goto
  <2>2. arg[t][1] \notin DOMAIN valueToPlaceholder
    BY <1>0, <2>1 DEF Knows
  <2>3. /\ DOMAIN valueToPlaceholder' = DOMAIN valueToPlaceholder \cup {arg[t][1]}
        /\ valueToPlaceholder'[arg[t][1]] = result[t]
        /\ \A v \in DOMAIN valueToPlaceholder : valueToPlaceholder'[v] = valueToPlaceholder[v]
    BY <2>1, <2>2, PutFacts DEF Put
  <2>4. \A u \in Threads : u # t => pc[u] \notin Writing /\ pc'[u] = pc[u]
    BY <1>0, <1>20, <2>1 DEF Writing
  <2>5. pc'[t] = "storePlaceholder"
    BY <1>0, <2>1
  <2>6. \A v \in DOMAIN valueToPlaceholder :
          /\ valueToPlaceholder[v] \in DOMAIN placeholderToValue
          /\ placeholderToValue[valueToPlaceholder[v]] = v
    <3>1. \A u \in Threads : pc[u] # "storePlaceholder"
      BY <2>1, <2>4 DEF Writing
    <3>. QED
      BY <3>1 DEF MapInv
  <2>7. \A u \in Threads : Storing(u)' <=> Storing(u)
    BY <2>1, <2>4, <2>5 DEF Storing
  <2>8. /\ \A ph \in DOMAIN placeholderToValue' :
             /\ placeholderToValue'[ph] \in DOMAIN valueToPlaceholder'
             /\ valueToPlaceholder'[placeholderToValue'[ph]] = ph
        /\ \A v \in DOMAIN valueToPlaceholder' :
             \/ /\ valueToPlaceholder'[v] \in DOMAIN placeholderToValue'
                /\ placeholderToValue'[valueToPlaceholder'[v]] = v
             \/ /\ pc'[t] = "storePlaceholder"
                /\ arg'[t][1] = v /\ result'[t] = valueToPlaceholder'[v]
    BY <2>1, <2>3, <2>5, <2>6 DEF MapInv
  <2>9. \A l \in Labels, i \in Indices :
           i <= labelCounts'[l] <=> \/ <<l, i>> \in DOMAIN placeholderToValue'
                                    \/ \E u \in Threads : Storing(u)' /\ result'[u] = <<l, i>>
    BY ZenonT(60), <2>1, <2>7 DEF MapInv
  <2>10. MapInv'
    BY <2>8, <2>9 DEF MapInv, Storing
  <2>11. Knows(t)'
    BY <1>0, <2>1, <2>3, <2>5 DEF Knows, Storing
  <2>12. \A u \in Threads : u # t => Knows(u)'
    BY <1>0, <2>1, <2>4 DEF Knows, Storing, Writing
  <2>. QED
    BY <2>10, <2>11, <2>12
<1>8. ASSUME NEW t \in Threads, StorePlaceholder(t)
      PROVE  MapInv' /\ \A u \in Threads : Knows(u)'
  <2>1. /\ pc[t] = "storePlaceholder"
        /\ placeholderToValue' = Put(placeholderToValue, result[t], arg[t][1])
        /\ pc' = [pc EXCEPT ![t] = "unlock"]
        /\ UNCHANGED <<labelCounts, valueToPlaceholder, arg, result>>
    BY <1>8 DEF StorePlaceholder, Goto
  <2>2. /\ arg[t][1] \in DOMAIN valueToPlaceholder
        /\ valueToPlaceholder[arg[t][1]] = result[t]
        /\ result[t] \notin DOMAIN placeholderToValue
    BY <1>0, <2>1 DEF Knows, Storing
  <2>3. /\ DOMAIN placeholderToValue' = DOMAIN placeholderToValue \cup {result[t]}
        /\ placeholderToValue'[result[t]] = arg[t][1]
        /\ \A ph \in DOMAIN placeholderToValue : placeholderToValue'[ph] = placeholderToValue[ph]
    BY <2>1, <2>2 DEF Put
  <2>4. \A u \in Threads : u # t => pc[u] \notin Writing /\ pc'[u] = pc[u]
    BY <1>0, <1>20, <2>1 DEF Writing
  <2>5. pc'[t] = "unlock"
    BY <1>0, <2>1
  <2>6. /\ \A u \in Threads : ~Storing(u)'
        /\ \A u \in Threads : Storing(u) <=> u = t
    BY <2>1, <2>4, <2>5 DEF Storing, Writing
  <2>7. /\ \A ph \in DOMAIN placeholderToValue' :
             /\ placeholderToValue'[ph] \in DOMAIN valueToPlaceholder'
             /\ valueToPlaceholder'[placeholderToValue'[ph]] = ph
        /\ \A v \in DOMAIN valueToPlaceholder' :
             /\ valueToPlaceholder'[v] \in DOMAIN placeholderToValue'
             /\ placeholderToValue'[valueToPlaceholder'[v]] = v
    <3>1. \A v \in DOMAIN valueToPlaceholder : v # arg[t][1] =>
             /\ valueToPlaceholder[v] \in DOMAIN placeholderToValue
             /\ placeholderToValue[valueToPlaceholder[v]] = v
      BY <2>1, <2>4 DEF MapInv, Writing
    <3>. QED
      BY <2>1, <2>2, <2>3, <3>1 DEF MapInv
  <2>8. \A l \in Labels, i \in Indices :
           i <= labelCounts'[l] <=> <<l, i>> \in DOMAIN placeholderToValue'
    <3>1. TAKE l \in Labels, i \in Indices
    <3>2. i <= labelCounts[l] <=> \/ <<l, i>> \in DOMAIN placeholderToValue
                                  \/ \E u \in Threads : Storing(u) /\ result[u] = <<l, i>>
      BY DEF MapInv
    <3>3. (\E u \in Threads : Storing(u) /\ result[u] = <<l, i>>) <=> <<l, i>> = result[t]
      BY <2>6
    <3>. QED
      BY <2>1, <2>3, <3>2, <3>3
  <2>9. MapInv'
    BY <2>6, <2>7, <2>8 DEF MapInv
  <2>10. Knows(t)'
    BY <2>1, <2>3, <2>5 DEF Knows, Storing
  <2>11. \A u \in Threads : u # t => Knows(u)'
    BY <1>0, <2>1, <2>4 DEF Knows, Storing, Writing
  <2>. QED
    BY <2>9, <2>10, <2>11
<1>9. ASSUME NEW t \in Threads, Unlock(t)
      PROVE  MapInv' /\ \A u \in Threads : Knows(u)'
  <2>0. /\ pc[t] = "unlock" /\ pc'[t] = "idle" /\ result'[t] = None
        /\ UNCHANGED maps
    BY <1>0, <1>9 DEF Unlock
  <2>1. /\ pc[t] = "unlock" /\ pc'[t] = "idle" /\ result'[t] = None
        /\ UNCHANGED maps
        /\ \A u \in Threads : u # t =>
             /\ arg'[u] = arg[u] /\ result'[u] = result[u]
             /\ pc'[u] = pc[u] \/ (pc[u] = "rwait" /\ pc'[u] = "read")
    <3>1. ASSUME NEW u \in Threads, u # t
          PROVE  pc'[u] = pc[u] \/ (pc[u] = "rwait" /\ pc'[u] = "read")
      BY <1>9, <3>1 DEF Unlock
    <3>2. ASSUME NEW u \in Threads, u # t
          PROVE  arg'[u] = arg[u] /\ result'[u] = result[u]
      BY <1>0, <1>9, <3>2 DEF Unlock
    <3>. QED
      BY <2>0, <3>1, <3>2
  <2>2. MapInv'
    BY <2>1, MapsUntouched DEF Storing
  <2>3. Knows(t)'
    BY <2>1 DEF Knows, Storing
  <2>4. \A u \in Threads : u # t => Knows(u)'
    BY <1>0, <2>1 DEF Knows, Storing, maps
  <2>. QED
    BY <2>2, <2>3, <2>4
<1>10. ASSUME NEW t \in Threads, RLock(t) \/ Read(t) \/ RUnlock(t)
       PROVE  MapInv' /\ \A u \in Threads : Knows(u)'
  <2>1. /\ UNCHANGED maps
        /\ \A u \in Threads : u # t => /\ arg'[u] = arg[u] /\ result'[u] = result[u]
                                       /\ pc'[u] = pc[u]
    BY <1>0, <1>10 DEF RLock, Read, RUnlock, Goto, maps
  <2>2. /\ ~Storing(t) /\ ~Storing(t)' /\ pc[t] # "storePlaceholder" /\ pc'[t] # "storePlaceholder"
    BY <1>0, <1>10 DEF RLock, Read, RUnlock, Goto, Storing
  <2>3. MapInv'
    BY <2>1, <2>2, MapsUntouched DEF Storing
  <2>4. Knows(t)'
    BY <1>0, <1>10 DEF RLock, Read, RUnlock, Goto, Knows, Storing
  <2>5. \A u \in Threads : u # t => Knows(u)'
    BY <1>0, <2>1, OthersUntouched
  <2>. QED
    BY <2>3, <2>4, <2>5
<1>13. CASE UNCHANGED vars
  <2>1. MapInv'
    BY <1>13, MapsUntouched DEF vars, maps, Storing
  <2>. QED
    BY <1>0, <1>13, <2>1, OthersUntouched DEF vars, maps
<1>. QED
  BY <1>1, <1>2, <1>3, <1>5, <1>6, <1>7, <1>8, <1>9, <1>10, <1>13
     DEF Next, PlaceholderFor, Lookup

THEOREM Invariance == Spec => []IInv
<1>1. Init => IInv
  BY InitTypeOK, InitLockInv, InitMaps DEF IInv
<1>2. IInv /\ [Next]_vars => IInv'
  BY NextTypeOK, NextLockInv, NextMaps DEF IInv
<1>. QED
  BY <1>1, <1>2, PTL DEF Spec

(***************************************************************************)
(* Type correctness of the generator under any interleaving of its calls.  *)
(***************************************************************************)
THEOREM TypeCorrect == Spec => []TypeOK
BY Invariance, PTL DEF IInv

(***************************************************************************)
(* Mutual exclusion: while one goroutine has the maps for writing, nobody  *)
(* else is inside them.                                                    *)
(***************************************************************************)
THEOREM MutualExclusion == Spec => []NoRace
<1>1. IInv => NoRace
  <2>. SUFFICES ASSUME LockInv, NEW t \in Threads, NEW u \in Threads,
                       t # u, pc[t] \in Writing
                PROVE  pc[u] \notin Writing \cup Reading
    BY DEF IInv, NoRace
  <2>1. holder = t /\ readers = {}
    BY DEF LockInv
  <2>. QED
    BY <2>1 DEF LockInv, Writing, Reading
<1>. QED
  BY <1>1, Invariance, PTL

(***************************************************************************)
(* Between two insertions the two maps are each other's inverse, and the   *)
(* indices of every label have been handed out without a gap.              *)
(***************************************************************************)
THEOREM MapsAlwaysAgree == Spec => []MapsAgree
<1>1. IInv => MapsAgree
  <2>. SUFFICES ASSUME MapInv, \A t \in Threads : pc[t] \notin Writing
                PROVE  MapsAgree
    BY DEF IInv, MapsAgree
  <2>1. \A t \in Threads : ~Storing(t) /\ pc[t] # "storePlaceholder"
    BY DEF Writing, Storing
  <2>2. \A l \in Labels, i \in Indices :
          <<l, i>> \in DOMAIN placeholderToValue <=> i <= labelCounts[l]
    BY <2>1 DEF MapInv
  <2>. QED
    BY <2>1, <2>2 DEF MapInv, MapsAgree
<1>. QED
  BY <1>1, Invariance, PTL
-----------------------------------------------------------------------------
(***************************************************************************)
(* The generator implements the abstract dictionary.  Calls is what the    *)
(* refinement mapping puts in the place of the dictionary's variable call. *)
(***************************************************************************)
Calls == [t \in Threads |-> CallOf(t)]

LEMMA OneCallChanges ==
  ASSUME NEW t \in Threads, NEW c, CallOf(t)' = c,
         \A u \in Threads : u # t => CallOf(u)' = CallOf(u)
  PROVE  Calls' = [Calls EXCEPT ![t] = c]
BY DEF Calls

\* A goroutine's call depends on nothing but its own variables.
LEMMA CallUntouched ==
  ASSUME NEW u \in Threads, pc'[u] = pc[u], arg'[u] = arg[u], result'[u] = result[u]
  PROVE  CallOf(u)' = CallOf(u)
BY DEF CallOf

LEMMA Stutters ==
  ASSUME UNCHANGED placeholderToValue, \A u \in Threads : CallOf(u)' = CallOf(u)
  PROVE  UNCHANGED Dict!dictVars
BY DEF Dict!dictVars

LEMMA InitRefines == Init => Dict!DictInit
<1>. SUFFICES ASSUME Init PROVE Dict!DictInit
  OBVIOUS
<1>1. \A t \in Threads : CallOf(t) = Dict!Idle
  BY DEF Init, CallOf, ForSteps, LookupSteps, Dict!Idle
<1>. QED
  BY <1>1 DEF Init, Dict!DictInit

(***************************************************************************)
(* The step of PlaceholderFor that inserts: the value has no placeholder   *)
(* yet and the placeholder no value.                                       *)
(***************************************************************************)
LEMMA StorePlaceholderIssues ==
  ASSUME TypeOK, MapInv, StepInv, NEW t \in Threads, StorePlaceholder(t)
  PROVE  Dict!Issue(t, arg[t][1], arg[t][2], result[t])
<1>1. /\ pc[t] = "storePlaceholder" /\ pc' = [pc EXCEPT ![t] = "unlock"]
      /\ placeholderToValue' = Put(placeholderToValue, result[t], arg[t][1])
      /\ UNCHANGED <<arg, result>>
  BY DEF StorePlaceholder, Goto
<1>2. pc'[t] = "unlock" /\ \A u \in Threads : u # t => pc'[u] = pc[u]
  BY <1>1 DEF TypeOK
<1>3. /\ valueToPlaceholder[arg[t][1]] = result[t]
      /\ result[t] \notin DOMAIN placeholderToValue
      /\ result[t][1] = LabelOf[arg[t][2]]
  BY <1>1 DEF StepInv, Storing
<1>4. \A other \in DOMAIN placeholderToValue : placeholderToValue[other] # arg[t][1]
  BY <1>3 DEF MapInv
<1>5. CallOf(t) = Dict!ForCall(arg[t][1], arg[t][2], "pending", None)
  BY <1>1 DEF CallOf, ForSteps, Dict!ForCall
<1>6. CallOf(t)' = Dict!ForCall(arg[t][1], arg[t][2], "done", result[t])
  BY <1>1, <1>2 DEF CallOf, ForSteps, Dict!ForCall
<1>7. \A u \in Threads : u # t => CallOf(u)' = CallOf(u)
  BY <1>1, <1>2, CallUntouched
<1>8. Calls' = [Calls EXCEPT ![t] = Dict!ForCall(arg[t][1], arg[t][2], "done", result[t])]
  BY <1>6, <1>7, OneCallChanges
<1>. QED
  BY <1>1, <1>3, <1>4, <1>5, <1>8 DEF Dict!Issue, Calls, Put

(***************************************************************************)
(* The step of PlaceholderFor that finds the value: its placeholder is in  *)
(* the dictionary, because nobody is between the two insertions.           *)
(***************************************************************************)
LEMMA CheckReuses ==
  ASSUME TypeOK, LockInv, MapInv, NEW t \in Threads, Check(t),
         arg[t][1] \in DOMAIN valueToPlaceholder
  PROVE  Dict!Reuse(t, arg[t][1], arg[t][2], valueToPlaceholder[arg[t][1]])
<1>. DEFINE ph == valueToPlaceholder[arg[t][1]]
<1>1. /\ pc[t] = "check" /\ pc' = [pc EXCEPT ![t] = "unlock"]
      /\ result' = [result EXCEPT ![t] = ph]
      /\ UNCHANGED <<placeholderToValue, arg>>
  BY DEF Check, Goto, maps
<1>2. /\ pc'[t] = "unlock" /\ result'[t] = ph
      /\ \A u \in Threads : u # t => pc'[u] = pc[u] /\ result'[u] = result[u]
  BY <1>1 DEF TypeOK
<1>3. \A u \in Threads : pc[u] # "storePlaceholder"
  BY <1>1 DEF LockInv, Writing
<1>4. ph \in DOMAIN placeholderToValue /\ placeholderToValue[ph] = arg[t][1]
  BY <1>3 DEF MapInv
<1>5. CallOf(t) = Dict!ForCall(arg[t][1], arg[t][2], "pending", None)
  BY <1>1 DEF CallOf, ForSteps, Dict!ForCall
<1>6. CallOf(t)' = Dict!ForCall(arg[t][1], arg[t][2], "done", ph)
  BY <1>1, <1>2 DEF CallOf, ForSteps, Dict!ForCall
<1>7. \A u \in Threads : u # t => CallOf(u)' = CallOf(u)
  BY <1>1, <1>2, CallUntouched
<1>8. Calls' = [Calls EXCEPT ![t] = Dict!ForCall(arg[t][1], arg[t][2], "done", ph)]
  BY <1>6, <1>7, OneCallChanges
<1>. QED
  BY <1>1, <1>4, <1>5, <1>8 DEF Dict!Reuse, Calls

(***************************************************************************)
(* The step of Lookup that reads the map.                                  *)
(***************************************************************************)
LEMMA ReadResolves ==
  ASSUME TypeOK, StepInv, NEW t \in Threads, Read(t)
  PROVE  Dict!Resolve(t, arg[t])
<1>1. /\ pc[t] = "read" /\ pc' = [pc EXCEPT ![t] = "runlock"]
      /\ result' = [result EXCEPT ![t] = Dict!Resolved(arg[t])]
      /\ UNCHANGED <<placeholderToValue, arg>>
  BY DEF Read, Goto, maps, Dict!Resolved
<1>2. /\ pc'[t] = "runlock" /\ result'[t] = Dict!Resolved(arg[t])
      /\ \A u \in Threads : u # t => pc'[u] = pc[u] /\ result'[u] = result[u]
  BY <1>1 DEF TypeOK
<1>3. result[t] = None
  BY <1>1 DEF StepInv
<1>4. CallOf(t) = Dict!LookupCall(arg[t], "pending", None)
  BY <1>1, <1>3 DEF CallOf, ForSteps, LookupSteps, Dict!LookupCall
<1>5. CallOf(t)' = Dict!LookupCall(arg[t], "done", Dict!Resolved(arg[t]))
  BY <1>1, <1>2 DEF CallOf, ForSteps, LookupSteps, Dict!LookupCall
<1>6. \A u \in Threads : u # t => CallOf(u)' = CallOf(u)
  BY <1>1, <1>2, CallUntouched
<1>7. Calls' = [Calls EXCEPT ![t] = Dict!LookupCall(arg[t], "done", Dict!Resolved(arg[t]))]
  BY <1>5, <1>6, OneCallChanges
<1>. QED
  BY <1>1, <1>4, <1>7 DEF Dict!Resolve, Calls

LEMMA UnlockReturns ==
  ASSUME TypeOK, NEW t \in Threads, Unlock(t)
  PROVE  Dict!Return(t)
<1>1. /\ pc[t] = "unlock" /\ pc'[t] = "idle"
      /\ UNCHANGED placeholderToValue
  BY DEF TypeOK, Unlock, maps
<1>2. \A u \in Threads : u # t =>
        /\ arg'[u] = arg[u] /\ result'[u] = result[u]
        /\ pc'[u] = pc[u] \/ (pc[u] = "rwait" /\ pc'[u] = "read")
  BY DEF TypeOK, Unlock
<1>3. \A u \in Threads : u # t => CallOf(u)' = CallOf(u)
  BY <1>2 DEF CallOf, ForSteps, LookupSteps
<1>4. CallOf(t) # Dict!Idle /\ CallOf(t).stage = "done"
  BY <1>1 DEF CallOf, ForSteps, Dict!Idle
<1>5. CallOf(t)' = Dict!Idle
  BY <1>1 DEF CallOf, ForSteps, LookupSteps, Dict!Idle
<1>6. Calls' = [Calls EXCEPT ![t] = Dict!Idle]
  BY <1>3, <1>5, OneCallChanges
<1>. QED
  BY <1>1, <1>4, <1>6 DEF Dict!Return, Calls

LEMMA RUnlockReturns ==
  ASSUME TypeOK, NEW t \in Threads, RUnlock(t)
  PROVE  Dict!Return(t)
<1>1. /\ pc[t] = "runlock" /\ pc'[t] = "idle"
      /\ \A u \in Threads : u # t =>
           pc'[u] = pc[u] /\ arg'[u] = arg[u] /\ result'[u] = result[u]
      /\ UNCHANGED placeholderToValue
  BY DEF TypeOK, RUnlock, Goto, maps
<1>2. \A u \in Threads : u # t => CallOf(u)' = CallOf(u)
  BY <1>1, CallUntouched
<1>3. CallOf(t) # Dict!Idle /\ CallOf(t).stage = "done"
  BY <1>1 DEF CallOf, ForSteps, LookupSteps, Dict!Idle
<1>4. CallOf(t)' = Dict!Idle
  BY <1>1 DEF CallOf, ForSteps, LookupSteps, Dict!Idle
<1>5. Calls' = [Calls EXCEPT ![t] = Dict!Idle]
  BY <1>2, <1>4, OneCallChanges
<1>. QED
  BY <1>1, <1>3, <1>5 DEF Dict!Return, Calls

LEMMA CallForCalls ==
  ASSUME TypeOK, NEW t \in Threads, NEW v \in Values, NEW e \in EntityTypes,
         CallPlaceholderFor(t, v, e)
  PROVE  Dict!CallFor(t, v, e)
<1>1. /\ pc[t] = "idle" /\ pc'[t] = "lock" /\ arg'[t] = <<v, e>>
      /\ \A u \in Threads : u # t =>
           pc'[u] = pc[u] /\ arg'[u] = arg[u] /\ result'[u] = result[u]
      /\ UNCHANGED placeholderToValue
  BY DEF TypeOK, CallPlaceholderFor, Goto, maps
<1>2. \A u \in Threads : u # t => CallOf(u)' = CallOf(u)
  BY <1>1, CallUntouched
<1>3. CallOf(t) = Dict!Idle
  BY <1>1 DEF CallOf, ForSteps, LookupSteps, Dict!Idle
<1>4. CallOf(t)' = Dict!ForCall(v, e, "pending", None)
  BY <1>1 DEF CallOf, ForSteps, Dict!ForCall
<1>5. Calls' = [Calls EXCEPT ![t] = Dict!ForCall(v, e, "pending", None)]
  BY <1>2, <1>4, OneCallChanges
<1>. QED
  BY <1>1, <1>3, <1>5 DEF Dict!CallFor, Calls

LEMMA CallLookupCalls ==
  ASSUME TypeOK, StepInv, NEW t \in Threads, NEW ph \in Placeholders, CallLookup(t, ph)
  PROVE  Dict!CallLookup(t, ph)
<1>1. /\ pc[t] = "idle" /\ pc'[t] = "rlock" /\ arg'[t] = ph /\ result'[t] = result[t]
      /\ \A u \in Threads : u # t =>
           pc'[u] = pc[u] /\ arg'[u] = arg[u] /\ result'[u] = result[u]
      /\ UNCHANGED placeholderToValue
  BY DEF TypeOK, CallLookup, Goto, maps
<1>2. \A u \in Threads : u # t => CallOf(u)' = CallOf(u)
  BY <1>1, CallUntouched
<1>3. CallOf(t) = Dict!Idle /\ result[t] = None
  BY <1>1 DEF CallOf, ForSteps, LookupSteps, Dict!Idle, StepInv
<1>4. CallOf(t)' = Dict!LookupCall(ph, "pending", None)
  BY <1>1, <1>3 DEF CallOf, ForSteps, LookupSteps, Dict!LookupCall
<1>5. Calls' = [Calls EXCEPT ![t] = Dict!LookupCall(ph, "pending", None)]
  BY <1>2, <1>4, OneCallChanges
<1>. QED
  BY <1>1, <1>3, <1>5 DEF Dict!CallLookup, Calls

(***************************************************************************)
(* The steps around the map accesses: locking, waiting, counting, and the  *)
(* first of the two insertions.                                            *)
(***************************************************************************)
LEMMA InnerStepsStutter ==
  ASSUME TypeOK, NEW t \in Threads,
         \/ Lock(t) \/ Drain(t) \/ Count(t) \/ StoreValue(t) \/ RLock(t)
         \/ Check(t) /\ arg[t][1] \notin DOMAIN valueToPlaceholder
  PROVE  UNCHANGED Dict!dictVars
<1>1. \A u \in Threads : u # t =>
        pc'[u] = pc[u] /\ arg'[u] = arg[u] /\ result'[u] = result[u]
  BY DEF TypeOK, Lock, Drain, Count, StoreValue, RLock, Check, Goto
<1>2. UNCHANGED <<placeholderToValue, arg>>
  BY DEF Lock, Drain, Count, StoreValue, RLock, Check, maps
<1>3. \/ /\ pc[t] \in ForSteps \ {"unlock"} /\ pc'[t] \in ForSteps \ {"unlock"}
      \/ /\ pc[t] \in LookupSteps \ {"runlock"} /\ pc'[t] \in LookupSteps \ {"runlock"}
         /\ result'[t] = result[t]
  BY DEF TypeOK, Lock, Drain, Count, StoreValue, RLock, Check, Goto, ForSteps, LookupSteps
<1>4. CallOf(t)' = CallOf(t)
  BY <1>2, <1>3 DEF CallOf, ForSteps, LookupSteps
<1>5. \A u \in Threads : u # t => CallOf(u)' = CallOf(u)
  BY <1>1, CallUntouched
<1>. QED
  BY <1>2, <1>4, <1>5, Stutters

LEMMA StepRefines == IInv /\ [Next]_vars => [Dict!DictNext]_(Dict!dictVars)
<1>. SUFFICES ASSUME IInv, [Next]_vars, ~UNCHANGED Dict!dictVars PROVE Dict!DictNext
  OBVIOUS
<1>. USE DEF IInv
<1>1. CASE UNCHANGED vars
  <2>1. UNCHANGED placeholderToValue /\ \A u \in Threads : CallOf(u)' = CallOf(u)
    BY <1>1, CallUntouched DEF vars
  <2>. QED
    BY <2>1, Stutters
<1>2. ASSUME NEW t \in Threads, NEW v \in Values, NEW e \in EntityTypes,
             CallPlaceholderFor(t, v, e)
      PROVE  Dict!DictNext
  BY <1>2, CallForCalls DEF Dict!DictNext
<1>3. ASSUME NEW t \in Threads, NEW ph \in Placeholders, CallLookup(t, ph)
      PROVE  Dict!DictNext
  BY <1>3, CallLookupCalls DEF Dict!DictNext, Dict!Placeholders, Placeholders
<1>4. ASSUME NEW t \in Threads, PlaceholderFor(t)
      PROVE  Dict!DictNext
  <2>1. CASE Lock(t) \/ Drain(t) \/ Count(t) \/ StoreValue(t)
    BY <2>1, InnerStepsStutter
  <2>2. CASE Check(t)
    <3>1. arg[t] \in Values \X EntityTypes
      BY <2>2 DEF Check, TypeOK, ForSteps
    <3>2. CASE arg[t][1] \in DOMAIN valueToPlaceholder
      <4>1. Dict!Reuse(t, arg[t][1], arg[t][2], valueToPlaceholder[arg[t][1]])
        BY <2>2, <3>2, CheckReuses
      <4>2. valueToPlaceholder[arg[t][1]] \in Placeholders
        BY <3>2 DEF TypeOK
      <4>. QED
        BY <3>1, <4>1, <4>2 DEF Dict!DictNext, Dict!Placeholders, Placeholders
    <3>. QED
      BY <2>2, <3>2, InnerStepsStutter
  <2>3. CASE StorePlaceholder(t)
    <3>1. arg[t] \in Values \X EntityTypes /\ result[t] \in Placeholders
      BY <2>3 DEF StorePlaceholder, TypeOK, ForSteps, Storing
    <3>. QED
      BY <2>3, <3>1, StorePlaceholderIssues DEF Dict!DictNext, Dict!Placeholders, Placeholders
  <2>4. CASE Unlock(t)
    BY <2>4, UnlockReturns DEF Dict!DictNext
  <2>. QED
    BY <1>4, <2>1, <2>2, <2>3, <2>4 DEF PlaceholderFor
<1>5. ASSUME NEW t \in Threads, Lookup(t)
      PROVE  Dict!DictNext
  <2>1. CASE RLock(t)
    BY <2>1, InnerStepsStutter
  <2>2. CASE Read(t)
    <3>1. arg[t] \in Placeholders
      BY <2>2 DEF Read, TypeOK, LookupSteps
    <3>. QED
      BY <2>2, <3>1, ReadResolves DEF Dict!DictNext, Dict!Placeholders, Placeholders
  <2>3. CASE RUnlock(t)
    BY <2>3, RUnlockReturns DEF Dict!DictNext
  <2>. QED
    BY <1>5, <2>1, <2>2, <2>3 DEF Lookup
<1>. QED
  BY <1>1, <1>2, <1>3, <1>4, <1>5 DEF Next

(***************************************************************************)
(* To the goroutines of a request, PlaceholderFor and Lookup take effect   *)
(* at one instant each: the generator with its lock and its two maps       *)
(* implements the abstract dictionary.                                     *)
(***************************************************************************)
THEOREM Refinement == Spec => ImplementsDict
BY Invariance, InitRefines, StepRefines, PTL DEF Spec, ImplementsDict, Dict!DictSpec

(***************************************************************************)
(* A value's placeholder never changes once Lookup can see it, whatever    *)
(* else is inserted.                                                       *)
(***************************************************************************)
THEOREM PlaceholdersStable == Spec => Stable
<1>1. IInv /\ [Next]_vars =>
        \A p \in DOMAIN placeholderToValue :
          p \in DOMAIN placeholderToValue' /\ placeholderToValue'[p] = placeholderToValue[p]
  <2>. SUFFICES ASSUME IInv, [Next]_vars, NEW p \in DOMAIN placeholderToValue
                PROVE  p \in DOMAIN placeholderToValue' /\ placeholderToValue'[p] = placeholderToValue[p]
    OBVIOUS
  <2>1. CASE UNCHANGED placeholderToValue
    BY <2>1
  <2>2. ASSUME NEW t \in Threads, StorePlaceholder(t)
        PROVE  p \in DOMAIN placeholderToValue' /\ placeholderToValue'[p] = placeholderToValue[p]
    <3>1. result[t] \notin DOMAIN placeholderToValue
      BY <2>2 DEF StorePlaceholder, IInv, StepInv, Storing
    <3>. QED
      BY <2>2, <3>1 DEF StorePlaceholder, Put
  <2>3. ASSUME ~\E t \in Threads : StorePlaceholder(t)
        PROVE  UNCHANGED placeholderToValue
    BY <2>3 DEF Next, vars, maps, PlaceholderFor, Lookup, CallPlaceholderFor, CallLookup,
                Lock, Drain, Check, Count, StoreValue, Unlock, RLock, Read, RUnlock
  <2>. QED
    BY <2>1, <2>2, <2>3
<1>. QED
  BY <1>1, Invariance, PTL DEF Spec, Stable, Dict!Stable

-----------------------------------------------------------------------------
(***************************************************************************)
(* What the dictionary promises by itself, whoever implements it.          *)
(***************************************************************************)
(***************************************************************************)
(* The only step that changes the dictionary adds a placeholder it did not *)
(* have, for a value that had none.                                        *)
(***************************************************************************)
LEMMA OnlyIssueChanges ==
  ASSUME Dict!DictNext \/ UNCHANGED Dict!dictVars
  PROVE  \/ UNCHANGED placeholderToValue
         \/ \E t \in Threads, v \in Values, e \in EntityTypes, ph \in Dict!Placeholders :
              Dict!Issue(t, v, e, ph)
<1>1. CASE UNCHANGED Dict!dictVars
  BY <1>1 DEF Dict!dictVars
<1>2. CASE Dict!DictNext
  <2>1. ASSUME NEW t \in Threads, Dict!Return(t)
        PROVE  UNCHANGED placeholderToValue
    BY <2>1 DEF Dict!Return
  <2>2. ASSUME NEW t \in Threads, NEW v \in Values, NEW e \in EntityTypes, Dict!CallFor(t, v, e)
        PROVE  UNCHANGED placeholderToValue
    BY <2>2 DEF Dict!CallFor
  <2>3. ASSUME NEW t \in Threads, NEW v \in Values, NEW e \in EntityTypes,
               NEW ph \in Dict!Placeholders, Dict!Reuse(t, v, e, ph)
        PROVE  UNCHANGED placeholderToValue
    BY <2>3 DEF Dict!Reuse
  <2>4. ASSUME NEW t \in Threads, NEW ph \in Dict!Placeholders,
               Dict!CallLookup(t, ph) \/ Dict!Resolve(t, ph)
        PROVE  UNCHANGED placeholderToValue
    BY <2>4 DEF Dict!CallLookup, Dict!Resolve
  <2>. QED
    BY <1>2, <2>1, <2>2, <2>3, <2>4 DEF Dict!DictNext
<1>. QED
  BY <1>1, <1>2

(***************************************************************************)
(* The dictionary is a partial function from placeholders to values, and   *)
(* different values never share a placeholder.                             *)
(***************************************************************************)
DictInv == Dict!DictTypeOK /\ Dict!OneToOne

LEMMA DictInvariance == Dict!DictSpec => []DictInv
<1>1. Dict!DictInit => DictInv
  <2>. SUFFICES ASSUME Dict!DictInit PROVE DictInv
    OBVIOUS
  <2>1. placeholderToValue = [ph \in {} |-> None] /\ DOMAIN placeholderToValue = {}
    BY DEF Dict!DictInit
  <2>2. placeholderToValue \in [{} -> Values] /\ {} \in SUBSET Dict!Placeholders
    BY <2>1
  <2>. QED
    BY <2>1, <2>2 DEF DictInv, Dict!DictTypeOK, Dict!Dictionaries, Dict!OneToOne
<1>2. DictInv /\ [Dict!DictNext]_(Dict!dictVars) => DictInv'
  <2>. SUFFICES ASSUME DictInv, Dict!DictNext \/ UNCHANGED Dict!dictVars PROVE DictInv'
    OBVIOUS
  <2>1. CASE UNCHANGED placeholderToValue
    BY <2>1 DEF DictInv, Dict!DictTypeOK, Dict!Dictionaries, Dict!OneToOne
  <2>2. ASSUME NEW t \in Threads, NEW v \in Values, NEW e \in EntityTypes,
               NEW ph \in Dict!Placeholders, Dict!Issue(t, v, e, ph)
        PROVE  DictInv'
    <3>. DEFINE D == DOMAIN placeholderToValue \cup {ph}
    <3>1. PICK D0 \in SUBSET Dict!Placeholders : placeholderToValue \in [D0 -> Values]
      BY DEF DictInv, Dict!DictTypeOK, Dict!Dictionaries
    <3>2. /\ \A other \in DOMAIN placeholderToValue : placeholderToValue[other] # v
          /\ ph \notin DOMAIN placeholderToValue
          /\ placeholderToValue' = [p \in D |-> IF p = ph THEN v ELSE placeholderToValue[p]]
      BY <2>2 DEF Dict!Issue
    <3>3. D \in SUBSET Dict!Placeholders /\ placeholderToValue' \in [D -> Values]
      BY <3>1, <3>2
    <3>4. Dict!DictTypeOK'
      BY <3>3 DEF Dict!DictTypeOK, Dict!Dictionaries
    <3>5. Dict!OneToOne'
      BY <3>2 DEF DictInv, Dict!OneToOne
    <3>. QED
      BY <3>4, <3>5 DEF DictInv
  <2>. QED
    BY <2>1, <2>2, OnlyIssueChanges
<1>. QED
  BY <1>1, <1>2, PTL DEF Dict!DictSpec

(***************************************************************************)
(* Equal values share one placeholder, different values have different     *)
(* ones, whatever the goroutines call.                                     *)
(***************************************************************************)
THEOREM DictOneToOne == Dict!DictSpec => []Dict!OneToOne
BY DictInvariance, PTL DEF DictInv

(***************************************************************************)
(* A placeholder keeps its value for good, so that whatever has been sent  *)
(* upstream can be restored.                                               *)
(***************************************************************************)
THEOREM DictStable == Dict!DictSpec => Dict!Stable
<1>1. [Dict!DictNext]_(Dict!dictVars) =>
        [ \A p \in DOMAIN placeholderToValue :
            p \in DOMAIN placeholderToValue' /\ placeholderToValue'[p] = placeholderToValue[p] ]_(Dict!dictVars)
  <2>. DEFINE Keeps == \A p \in DOMAIN placeholderToValue :
         p \in DOMAIN placeholderToValue' /\ placeholderToValue'[p] = placeholderToValue[p]
  <2>. SUFFICES ASSUME Dict!DictNext \/ UNCHANGED Dict!dictVars
                PROVE  Keeps
    OBVIOUS
  <2>1. CASE UNCHANGED placeholderToValue
    BY <2>1
  <2>2. ASSUME NEW t \in Threads, NEW v \in Values, NEW e \in EntityTypes,
               NEW ph \in Dict!Placeholders, Dict!Issue(t, v, e, ph)
        PROVE  Keeps
    BY <2>2 DEF Dict!Issue
  <2>. QED
    BY <2>1, <2>2, OnlyIssueChanges
<1>. QED
  BY <1>1, PTL DEF Dict!DictSpec, Dict!Stable

(***************************************************************************)
(* So in the generator, whatever its goroutines do, no two placeholders    *)
(* that Lookup can see stand for one value.                                *)
(***************************************************************************)
THEOREM IssuedOneToOne == Spec => []Dict!OneToOne
BY Refinement, DictOneToOne, PTL DEF ImplementsDict
=============================================================================
