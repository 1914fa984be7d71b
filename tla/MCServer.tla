------------------------------ MODULE MCServer ------------------------------
(***************************************************************************)
(* Instances of Server: every setting of the secret scan, with settings of *)
(* the other variables that differ from their defaults in one place.       *)
(***************************************************************************)
EXTENDS Server

Defaults == [secretScan |-> Unset, gitleaks |-> Unset, port |-> Unset,
             languages |-> Unset, maxBody |-> Unset]

MCKnownLanguages == {"en", "de"}

Variants ==
  {Defaults}
    \cup {[Defaults EXCEPT !.port = p] : p \in {Junk, 443, 0, 65536}}
    \cup {[Defaults EXCEPT !.languages = l] :
            l \in {<<"de", "xx", "en">>, <<"en", "en">>, <<"xx">>}}
    \cup {[Defaults EXCEPT !.maxBody = b] : b \in {Junk, 100, 0}}

MCEnvironments ==
  {[v EXCEPT !.secretScan = s, !.gitleaks = g] :
     v \in Variants, s \in {Unset, "on", "off", Junk},
     g \in {Unset, "rules", "missing", "malformed", "empty"}}
=============================================================================
