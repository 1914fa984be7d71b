------------------------------ MODULE Scanner ------------------------------
(***************************************************************************)
(* The secret scanner (secrets/scanner.go): which rules of a gitleaks      *)
(* configuration NewScanner keeps, and which matches of them Scan reports. *)
(*                                                                         *)
(* A rule of the configuration says whether it is for file paths, whether  *)
(* its expression compiles and how many groups that has, which group is the*)
(* secret, its keywords and its entropy threshold.  The regular expression *)
(* engine is external: a match gives a span to each group that took part.  *)
(***************************************************************************)
EXTENDS Integers, SequencesExt, FiniteSetsExt

CONSTANTS Lower,   \* strings.ToLower: a function on bytes
          Absent   \* the span of a group that took no part in the match

ASSUME ScannerAssumption ==
  /\ Absent \notin [start : Nat, end : Nat]
  /\ \A c \in DOMAIN Lower : Lower[c] \in DOMAIN Lower /\ Lower[Lower[c]] = Lower[c]

\* A text is a sequence of bytes.
Bytes == DOMAIN Lower

ToLower(text) == [k \in DOMAIN text |-> Lower[text[k]]]

HasSubstring(text, word) ==
  \E k \in 0..(Len(text) - Len(word)) : SubSeq(text, k + 1, k + Len(word)) = word

\* The elements of a sequence that are in a set, in their order.
Kept(seq, S) ==
  FlattenSeq([k \in DOMAIN seq |-> IF seq[k] \in S THEN <<seq[k]>> ELSE <<>>])

\* Rules for paths and rules that do not compile are left out.
UsableRules(config) ==
  Kept(config.rules, {rule \in Range(config.rules) : ~rule.path /\ rule.compiles})

\* Mutant: the whole match is taken for the secret.
CompiledWhole(rule) ==
  [group |-> 0, keywords |-> rule.keywords, entropy |-> rule.entropy]

Compiled(rule) ==
  [group    |-> IF rule.secretGroup \in 0..rule.groups THEN rule.secretGroup ELSE 0,
   keywords |-> rule.keywords,
   entropy  |-> rule.entropy]

\* NewScanner: expressions of the allowlist that do not compile are left out.
NewScanner(config) ==
  [rules     |-> [k \in DOMAIN UsableRules(config) |-> Compiled(UsableRules(config)[k])],
   stopwords |-> config.stopwords,
   allowed   |-> UNION {re.secrets : re \in {e \in config.allowlist : e.compiles}}]

\* It refuses a configuration without a rule that is left.
Usable(scanner) == scanner.rules # <<>>

\* allowlisted: an expression of the allowlist stands for the secrets it
\* matches.
Allowlisted(scanner, secret) ==
  \/ \E word \in scanner.stopwords : HasSubstring(ToLower(secret), word)
  \/ secret \in scanner.allowed

\* ShannonEntropy, as far as a threshold tells secrets apart: of two secrets of
\* at most four bytes the one with more different bytes has the higher entropy.
Entropy(secret) == Cardinality(Range(secret))

\* The keyword filter in front of a rule's expression.
Applies(rule, text) ==
  rule.keywords = {} \/ \E word \in rule.keywords : HasSubstring(ToLower(text), word)

\* Whether Scan reports a match m of one of its rules.
Reported(scanner, text, m) ==
  LET rule   == scanner.rules[m.rule]
      span   == m.groups[rule.group]
      secret == SubSeq(text, span.start + 1, span.end)
  IN  /\ Applies(rule, text)
      /\ span # Absent /\ span.start < span.end
      /\ rule.entropy > 0 => Entropy(secret) >= rule.entropy
      /\ ~Allowlisted(scanner, secret)

\* Scan, given the matches of each rule in the order of the rules.
Scan(scanner, text, matches) ==
  LET kept == Kept(matches, {m \in Range(matches) : Reported(scanner, text, m)})
  IN  [k \in DOMAIN kept |-> kept[k].groups[scanner.rules[kept[k].rule].group]]
=============================================================================
