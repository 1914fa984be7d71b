--------------------------- MODULE PlaceholderDict ---------------------------
(***************************************************************************)
(* What a request's placeholder mapping promises to the goroutines that    *)
(* use it (anonymize/placeholder.go): PlaceholderFor and Lookup each take  *)
(* effect at one instant, equal values share one placeholder, different    *)
(* values never do, and a placeholder once issued keeps its value.  The    *)
(* generator's maps, counters and lock are abstracted to one dictionary.   *)
(***************************************************************************)
EXTENDS MappingConstants

VARIABLES issued,   \* the dictionary: placeholder -> value
          call      \* the call each goroutine is in

dictVars == <<issued, call>>

Idle == [op |-> "idle"]
ForCall(v, e, stage, ph) == [op |-> "for", value |-> v, entity |-> e, stage |-> stage, result |-> ph]
LookupCall(ph, stage, v) == [op |-> "lookup", ph |-> ph, stage |-> stage, result |-> v]

Dictionaries == UNION {[D -> Values] : D \in SUBSET Placeholders}

DictInit ==
  /\ issued = [ph \in {} |-> None]
  /\ call = [t \in Threads |-> Idle]

CallFor(t, v, e) ==
  /\ call[t] = Idle
  /\ call' = [call EXCEPT ![t] = ForCall(v, e, "pending", None)]
  /\ UNCHANGED issued

\* A value that has a placeholder keeps it.
Reuse(t, v, e, ph) ==
  /\ call[t] = ForCall(v, e, "pending", None)
  /\ ph \in DOMAIN issued /\ issued[ph] = v
  /\ call' = [call EXCEPT ![t] = ForCall(v, e, "done", ph)]
  /\ UNCHANGED issued

\* Any other value gets a placeholder of its label that nobody has.
Issue(t, v, e, ph) ==
  /\ call[t] = ForCall(v, e, "pending", None)
  /\ \A other \in DOMAIN issued : issued[other] # v
  /\ ph[1] = LabelOf[e] /\ ph \notin DOMAIN issued
  /\ issued' = [p \in DOMAIN issued \cup {ph} |-> IF p = ph THEN v ELSE issued[p]]
  /\ call' = [call EXCEPT ![t] = ForCall(v, e, "done", ph)]

CallLookup(t, ph) ==
  /\ call[t] = Idle
  /\ call' = [call EXCEPT ![t] = LookupCall(ph, "pending", None)]
  /\ UNCHANGED issued

Resolved(ph) == IF ph \in DOMAIN issued THEN issued[ph] ELSE None

Resolve(t, ph) ==
  /\ call[t] = LookupCall(ph, "pending", None)
  /\ call' = [call EXCEPT ![t] = LookupCall(ph, "done", Resolved(ph))]
  /\ UNCHANGED issued

Return(t) ==
  /\ call[t] # Idle /\ call[t].stage = "done"
  /\ call' = [call EXCEPT ![t] = Idle]
  /\ UNCHANGED issued

DictNext ==
  \E t \in Threads :
    \/ Return(t)
    \/ \E v \in Values, e \in EntityTypes :
         \/ CallFor(t, v, e)
         \/ \E ph \in Placeholders : Reuse(t, v, e, ph) \/ Issue(t, v, e, ph)
    \/ \E ph \in Placeholders : CallLookup(t, ph) \/ Resolve(t, ph)

DictSpec == DictInit /\ [][DictNext]_dictVars

-----------------------------------------------------------------------------
DictTypeOK == issued \in Dictionaries

\* Different values never share a placeholder, equal values never have two.
OneToOne ==
  \A p, q \in DOMAIN issued : issued[p] = issued[q] => p = q

\* A placeholder that has been issued keeps its value for good.
Stable ==
  [][ \A p \in DOMAIN issued : p \in DOMAIN issued' /\ issued'[p] = issued[p] ]_dictVars
=============================================================================
