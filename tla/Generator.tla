------------------------------ MODULE Generator ------------------------------
(***************************************************************************)
(* PlaceholderGenerator (anonymize/placeholder.go) as its goroutines       *)
(* execute it: PlaceholderFor and Lookup step by step under the generator's*)
(* RWMutex.  The mutex is Go's sync.RWMutex: a writer that arrives keeps   *)
(* new readers out, waits for the readers inside, and lets the readers that*)
(* waited for it in when it unlocks.                                       *)
(***************************************************************************)
EXTENDS MappingConstants

VARIABLES labelCounts, valueToPlaceholder, placeholderToValue,
          holder,    \* mu: the goroutine that has called Lock
          readers,   \* mu: the goroutines that hold the read lock
          pc, arg, result

maps == <<labelCounts, valueToPlaceholder, placeholderToValue>>
vars == <<labelCounts, valueToPlaceholder, placeholderToValue,
          holder, readers, pc, arg, result>>

\* Where a goroutine is: outside, in PlaceholderFor, or in Lookup.
ForSteps == {"lock", "drain", "check", "count", "storeValue", "storePlaceholder", "unlock"}
LookupSteps == {"rlock", "rwait", "read", "runlock"}

Put(f, k, v) == [x \in DOMAIN f \cup {k} |-> IF x = k THEN v ELSE f[x]]

Init ==
  /\ labelCounts = [l \in Labels |-> 0]
  /\ valueToPlaceholder = [v \in {} |-> None]
  /\ placeholderToValue = [ph \in {} |-> None]
  /\ holder = None
  /\ readers = {}
  /\ pc = [t \in Threads |-> "idle"]
  /\ arg = [t \in Threads |-> None]
  /\ result = [t \in Threads |-> None]

Goto(t, step) == pc' = [pc EXCEPT ![t] = step]

CallPlaceholderFor(t, v, e) ==
  /\ pc[t] = "idle"
  /\ Goto(t, "lock")
  /\ arg' = [arg EXCEPT ![t] = <<v, e>>]
  /\ UNCHANGED <<maps, holder, readers, result>>

Lock(t) ==
  /\ pc[t] = "lock" /\ holder = None
  /\ holder' = t
  /\ Goto(t, "drain")
  /\ UNCHANGED <<maps, readers, arg, result>>

Drain(t) ==
  /\ pc[t] = "drain" /\ readers = {}
  /\ Goto(t, "check")
  /\ UNCHANGED <<maps, holder, readers, arg, result>>

\* Mutant: values seen before are not looked for.
CheckNever(t) ==
  /\ pc[t] = "check"
  /\ Goto(t, "count")
  /\ UNCHANGED <<maps, holder, readers, arg, result>>

\* A value seen before keeps its placeholder.
Check(t) ==
  LET value == arg[t][1]
      known == value \in DOMAIN valueToPlaceholder
  IN  /\ pc[t] = "check"
      /\ IF known
         THEN /\ result' = [result EXCEPT ![t] = valueToPlaceholder[value]]
              /\ Goto(t, "unlock")
         ELSE /\ UNCHANGED result
              /\ Goto(t, "count")
      /\ UNCHANGED <<maps, holder, readers, arg>>

\* Mutant: the placeholder is built from the counter before it is increased.
CountPostIncrement(t) ==
  LET label == LabelOf[arg[t][2]]
  IN  /\ pc[t] = "count"
      /\ labelCounts[label] + 1 \in Indices
      /\ labelCounts' = [labelCounts EXCEPT ![label] = @ + 1]
      /\ result' = [result EXCEPT ![t] = <<label, labelCounts[label]>>]
      /\ Goto(t, "storeValue")
      /\ UNCHANGED <<valueToPlaceholder, placeholderToValue, holder, readers, arg>>

\* Mutant: the counter is not increased.
CountStuck(t) ==
  LET label == LabelOf[arg[t][2]]
  IN  /\ pc[t] = "count"
      /\ labelCounts[label] + 1 \in Indices
      /\ result' = [result EXCEPT ![t] = <<label, labelCounts[label] + 1>>]
      /\ Goto(t, "storeValue")
      /\ UNCHANGED <<maps, holder, readers, arg>>

Count(t) ==
  LET label == LabelOf[arg[t][2]]
  IN  /\ pc[t] = "count"
      /\ labelCounts[label] + 1 \in Indices
      /\ labelCounts' = [labelCounts EXCEPT ![label] = @ + 1]
      /\ result' = [result EXCEPT ![t] = <<label, labelCounts[label] + 1>>]
      /\ Goto(t, "storeValue")
      /\ UNCHANGED <<valueToPlaceholder, placeholderToValue, holder, readers, arg>>

StoreValue(t) ==
  /\ pc[t] = "storeValue"
  /\ valueToPlaceholder' = Put(valueToPlaceholder, arg[t][1], result[t])
  /\ Goto(t, "storePlaceholder")
  /\ UNCHANGED <<labelCounts, placeholderToValue, holder, readers, arg, result>>

StorePlaceholder(t) ==
  /\ pc[t] = "storePlaceholder"
  /\ placeholderToValue' = Put(placeholderToValue, result[t], arg[t][1])
  /\ Goto(t, "unlock")
  /\ UNCHANGED <<labelCounts, valueToPlaceholder, holder, readers, arg, result>>

\* The deferred Unlock lets in every reader that waited for this writer.
Unlock(t) ==
  LET waiting == {u \in Threads : pc[u] = "rwait"}
  IN  /\ pc[t] = "unlock"
      /\ holder' = None
      /\ readers' = readers \cup waiting
      /\ pc' = [u \in Threads |-> IF u = t THEN "idle"
                                  ELSE IF u \in waiting THEN "read" ELSE pc[u]]
      /\ arg' = [arg EXCEPT ![t] = None]
      /\ result' = [result EXCEPT ![t] = None]
      /\ UNCHANGED maps

CallLookup(t, ph) ==
  /\ pc[t] = "idle"
  /\ Goto(t, "rlock")
  /\ arg' = [arg EXCEPT ![t] = ph]
  /\ UNCHANGED <<maps, holder, readers, result>>

\* Mutant: Lookup reads the map without RLock (RUnlock is then harmless).
RLockForgotten(t) ==
  /\ pc[t] = "rlock"
  /\ Goto(t, "read")
  /\ UNCHANGED <<maps, holder, readers, arg, result>>

RLock(t) ==
  /\ pc[t] = "rlock"
  /\ IF holder = None
     THEN readers' = readers \cup {t} /\ Goto(t, "read")
     ELSE UNCHANGED readers /\ Goto(t, "rwait")
  /\ UNCHANGED <<maps, holder, arg, result>>

Read(t) ==
  LET ph == arg[t]
  IN  /\ pc[t] = "read"
      /\ result' = [result EXCEPT ![t] = IF ph \in DOMAIN placeholderToValue
                                         THEN placeholderToValue[ph] ELSE None]
      /\ Goto(t, "runlock")
      /\ UNCHANGED <<maps, holder, readers, arg>>

\* Mutant: a lookup returns without RUnlock.
RUnlockForgotten(t) ==
  /\ pc[t] = "runlock"
  /\ Goto(t, "idle")
  /\ arg' = [arg EXCEPT ![t] = None]
  /\ result' = [result EXCEPT ![t] = None]
  /\ UNCHANGED <<maps, holder, readers>>

RUnlock(t) ==
  /\ pc[t] = "runlock"
  /\ readers' = readers \ {t}
  /\ Goto(t, "idle")
  /\ arg' = [arg EXCEPT ![t] = None]
  /\ result' = [result EXCEPT ![t] = None]
  /\ UNCHANGED <<maps, holder>>

PlaceholderFor(t) ==
  \/ Lock(t) \/ Drain(t) \/ Check(t) \/ Count(t)
  \/ StoreValue(t) \/ StorePlaceholder(t) \/ Unlock(t)

Lookup(t) == RLock(t) \/ Read(t) \/ RUnlock(t)

Next ==
  \E t \in Threads :
    \/ \E v \in Values, e \in EntityTypes : CallPlaceholderFor(t, v, e)
    \/ \E ph \in Placeholders : CallLookup(t, ph)
    \/ PlaceholderFor(t)
    \/ Lookup(t)

Spec == Init /\ [][Next]_vars

(***************************************************************************)
(* A goroutine inside a call keeps running; nobody has to call.  A writer  *)
(* that waits for the mutex gets it in the end: sync.Mutex hands itself    *)
(* over in order once a waiter has starved for a millisecond.              *)
(***************************************************************************)
Fairness ==
  \A t \in Threads :
    /\ WF_vars(PlaceholderFor(t))
    /\ SF_vars(Lock(t))
    /\ WF_vars(Lookup(t))

FairSpec == Spec /\ Fairness

-----------------------------------------------------------------------------
\* Steps during which a goroutine owns the write lock, and those of them that
\* change a map.
Writing == {"check", "count", "storeValue", "storePlaceholder", "unlock"}
Reading == {"read", "runlock"}

Storing(t) == pc[t] \in {"storeValue", "storePlaceholder"}

TypeOK ==
  /\ labelCounts \in [Labels -> Nat]
  /\ DOMAIN valueToPlaceholder \subseteq Values
  /\ \A v \in DOMAIN valueToPlaceholder : valueToPlaceholder[v] \in Placeholders
  /\ DOMAIN placeholderToValue \subseteq Placeholders
  /\ \A ph \in DOMAIN placeholderToValue : placeholderToValue[ph] \in Values
  /\ holder \in Threads \cup {None}
  /\ readers \subseteq Threads
  /\ pc \in [Threads -> {"idle"} \cup ForSteps \cup LookupSteps]
  /\ arg \in [Threads -> (Values \X EntityTypes) \cup Placeholders \cup {None}]
  /\ result \in [Threads -> Values \cup Placeholders \cup {None}]
  /\ \A t \in Threads :
       /\ pc[t] \in ForSteps => arg[t] \in Values \X EntityTypes
       /\ pc[t] \in LookupSteps => arg[t] \in Placeholders
       /\ Storing(t) => result[t] \in Placeholders

\* The locks that PlaceholderFor and Lookup take keep what the type promises
\* ("safe for concurrent use"): no goroutine is inside one of the maps while
\* another one may write to it (the Go runtime would abort the process).
NoRace ==
  \A t, u \in Threads :
    t # u /\ pc[t] \in Writing => pc[u] \notin Writing \cup Reading

\* Whenever nobody owns the write lock the two maps are each other's inverse
\* and every label's indices are handed out without a gap.
MapsAgree ==
  (\A t \in Threads : pc[t] \notin Writing) =>
    /\ \A v \in DOMAIN valueToPlaceholder :
         /\ valueToPlaceholder[v] \in DOMAIN placeholderToValue
         /\ placeholderToValue[valueToPlaceholder[v]] = v
    /\ \A ph \in DOMAIN placeholderToValue :
         /\ placeholderToValue[ph] \in DOMAIN valueToPlaceholder
         /\ valueToPlaceholder[placeholderToValue[ph]] = ph
    /\ \A l \in Labels, i \in Indices :
         <<l, i>> \in DOMAIN placeholderToValue <=> i <= labelCounts[l]

\* The call a goroutine is in, as the abstract dictionary sees it.
CallOf(t) ==
  IF pc[t] \in ForSteps
  THEN [op |-> "for", value |-> arg[t][1], entity |-> arg[t][2],
        stage |-> IF pc[t] = "unlock" THEN "done" ELSE "pending",
        result |-> IF pc[t] = "unlock" THEN result[t] ELSE None]
  ELSE IF pc[t] \in LookupSteps
  THEN [op |-> "lookup", ph |-> arg[t],
        stage |-> IF pc[t] = "runlock" THEN "done" ELSE "pending", result |-> result[t]]
  ELSE [op |-> "idle"]

\* PlaceholderFor and Lookup take effect at one instant: the insertion when
\* the second map is written, a hit when the first map is read, a lookup when
\* the second map is read.
Dict == INSTANCE PlaceholderDict WITH
  issued <- placeholderToValue,
  call   <- [t \in Threads |-> CallOf(t)]

ImplementsDict == Dict!DictSpec

\* A value's placeholder never changes, whatever else is inserted.
Stable == Dict!Stable

\* Every call returns.
CallsReturn == \A t \in Threads : pc[t] # "idle" ~> pc[t] = "idle"

-----------------------------------------------------------------------------
(***************************************************************************)
(* The inductive invariant.                                                *)
(***************************************************************************)
\* Who owns the mutex, and how.
LockInv ==
  /\ \A t \in Threads : pc[t] \in {"drain"} \cup Writing <=> holder = t
  /\ \A t \in Threads : pc[t] \in Reading <=> t \in readers
  /\ \A t \in Threads : pc[t] \in Writing => readers = {}

\* The maps, also in the middle of an insertion.
MapInv ==
  /\ \A ph \in DOMAIN placeholderToValue :
       /\ placeholderToValue[ph] \in DOMAIN valueToPlaceholder
       /\ valueToPlaceholder[placeholderToValue[ph]] = ph
  /\ \A v \in DOMAIN valueToPlaceholder :
       \/ /\ valueToPlaceholder[v] \in DOMAIN placeholderToValue
          /\ placeholderToValue[valueToPlaceholder[v]] = v
       \/ \E t \in Threads : /\ pc[t] = "storePlaceholder"
                             /\ arg[t][1] = v /\ result[t] = valueToPlaceholder[v]
  /\ \A l \in Labels, i \in Indices :
       i <= labelCounts[l] <=> \/ <<l, i>> \in DOMAIN placeholderToValue
                               \/ \E t \in Threads : Storing(t) /\ result[t] = <<l, i>>

\* What a goroutine knows at each step of its call.
StepInv ==
  \A t \in Threads :
    /\ pc[t] \in {"count", "storeValue"} => arg[t][1] \notin DOMAIN valueToPlaceholder
    /\ pc[t] = "storePlaceholder" => /\ arg[t][1] \in DOMAIN valueToPlaceholder
                                     /\ valueToPlaceholder[arg[t][1]] = result[t]
    /\ Storing(t) => /\ result[t] \notin DOMAIN placeholderToValue
                     /\ result[t][1] = LabelOf[arg[t][2]]
    /\ pc[t] = "unlock" => /\ result[t] \in DOMAIN placeholderToValue
                           /\ placeholderToValue[result[t]] = arg[t][1]
    /\ pc[t] \in {"idle", "rlock", "rwait", "read"} => result[t] = None

IInv == TypeOK /\ LockInv /\ MapInv /\ StepInv
=============================================================================
