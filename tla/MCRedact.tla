------------------------------ MODULE MCRedact ------------------------------
(***************************************************************************)
(* Instances of Redact.  The configurations between them have a rule of    *)
(* every kind that NewScanner and Scan tell apart, two rules that match the*)
(* same text under different conditions, and one that leaves no rule.      *)
(***************************************************************************)
EXTENDS Redact, TLC

MCLower == "a" :> "a" @@ "A" :> "a" @@ "b" :> "b" @@ "c" :> "c" @@ "x" :> "x"

MCTexts == {<<"A", "b", "b", "c">>, <<"a">>, <<>>}

Rule(groups, group, keywords, entropy) ==
  [path |-> FALSE, compiles |-> TRUE, groups |-> groups, secretGroup |-> group,
   keywords |-> keywords, entropy |-> entropy]

Plain == Rule(0, 0, {}, 0)
PathRule == [Plain EXCEPT !.path = TRUE]
Broken == [Plain EXCEPT !.compiles = FALSE]

Config(rules, stopwords, allowlist) ==
  [rules |-> rules, stopwords |-> stopwords, allowlist |-> allowlist]

MCConfigs ==
  {Config(<<Plain, Plain>>, {}, {}),
   Config(<<PathRule, Rule(0, 0, {<<"a">>}, 2), Plain>>, {<<"a">>}, {}),
   Config(<<Rule(0, 1, {<<"x">>, <<"b", "c">>}, 0), Rule(0, 0, {}, 2)>>, {},
          {[compiles |-> TRUE, secrets |-> {<<"b">>, <<"b", "c">>}],
           [compiles |-> FALSE, secrets |-> {<<"c">>}]}),
   Config(<<Broken, Rule(1, 1, {}, 2), Rule(0, 0, {<<"x">>}, 0)>>, {<<"c">>}, {}),
   Config(<<Broken, PathRule>>, {}, {})}
=============================================================================
