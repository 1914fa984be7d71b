------------------------------- MODULE Redact -------------------------------
(***************************************************************************)
(* The secret stage on one text: Scan with the rules of a configuration,   *)
(* then secrets.Redact (secrets/redact.go) on its findings: they are sorted*)
(* and the text is copied from left to right with a fixed token in place of*)
(* each secret.  Several rules may match overlapping parts of the text.    *)
(***************************************************************************)
EXTENDS Scanner

CONSTANTS Configs,         \* gitleaks configurations
          Texts,           \* the texts to be redacted, sequences of bytes
          RedactionToken,  \* "[REDACTED]", as one element that no text holds
          MaxMatches       \* bound: matches of all rules in one text

\* The rules of a configuration, as the TOML parser gives them.
Rules == [path : BOOLEAN, compiles : BOOLEAN, groups : Nat, secretGroup : Int,
          keywords : SUBSET Seq(Bytes), entropy : Int]

ASSUME RedactAssumption ==
  /\ \A c \in Configs : c.rules \in Seq(Rules)
  /\ Texts \subseteq Seq(Bytes)
  /\ RedactionToken \notin Bytes
  /\ MaxMatches \in Nat

VARIABLES config,
          text,
          matches,   \* history: what the rules' expressions matched
          findings,  \* history: what Scan reported
          todo,      \* sorted findings that the loop has still to see
          cursor,    \* the text up to here has been dealt with
          out,       \* the strings.Builder
          stage      \* "scan", "redact" or "done"; "unusable": no scanner

vars == <<config, text, matches, findings, todo, cursor, out, stage>>

Init ==
  /\ config \in Configs /\ text \in Texts
  /\ matches = <<>> /\ findings = <<>> /\ todo = <<>>
  /\ cursor = 0 /\ out = <<>>
  /\ stage = IF Usable(NewScanner(config)) THEN "scan" ELSE "unusable"

Spans == {s \in [start : 0..Len(text), end : 0..Len(text)] : s.start <= s.end}

Within(f, g) == g.start <= f.start /\ f.end <= g.end

\* A match of one of the kept rules: a span for the whole, and for each group
\* that took part a span inside it.
Matches ==
  LET kept == UsableRules(config)
  IN  UNION {{[rule |-> r, groups |-> g] :
        g \in {h \in [0..kept[r].groups -> Spans \cup {Absent}] :
                 /\ h[0] # Absent
                 /\ \A k \in DOMAIN h : h[k] # Absent => Within(h[k], h[0])}}
        : r \in DOMAIN kept}

\* FindAllStringSubmatchIndex: the matches of one rule follow each other.
Follows(m, n) ==
  m.rule < n.rule \/ (m.rule = n.rule /\ m.groups[0].end <= n.groups[0].start /\ m # n)

\* Mutant: of two secrets that begin together any one may come first.
PrecedesStartOnly(f, g) == f.start < g.start

Precedes(f, g) == f.start < g.start \/ (f.start = g.start /\ f.end > g.end)

Sortings(fs) ==
  {s \in {[k \in DOMAIN fs |-> fs[p[k]]] : p \in Bijection(DOMAIN fs, DOMAIN fs)} :
     \A k, l \in DOMAIN fs : k < l => ~Precedes(s[l], s[k])}

FindSecrets ==
  /\ stage = "scan"
  /\ \E ms \in SeqOf(Matches, MaxMatches) :
       /\ \A k \in 1..(Len(ms) - 1) : Follows(ms[k], ms[k + 1])
       /\ matches' = ms
  /\ findings' = Scan(NewScanner(config), text, matches')
  /\ todo' \in Sortings(findings')
  /\ stage' = "redact"
  /\ UNCHANGED <<config, text, cursor, out>>

\* Mutant: one byte too many is left out behind the secret.
WriteTokenPast ==
  LET f == Head(todo)
  IN  /\ stage = "redact" /\ todo # <<>> /\ f.start >= cursor
      /\ out' = Append(out \o SubSeq(text, cursor + 1, f.start), RedactionToken)
      /\ cursor' = f.end + 1
      /\ todo' = Tail(todo)
      /\ UNCHANGED <<config, text, matches, findings, stage>>

\* The checks behind the skip, for offsets outside the text and empty spans, are
\* left out: Scan reports none of those.
WriteToken ==
  LET f == Head(todo)
  IN  /\ stage = "redact" /\ todo # <<>> /\ f.start >= cursor
      /\ out' = Append(out \o SubSeq(text, cursor + 1, f.start), RedactionToken)
      /\ cursor' = f.end
      /\ todo' = Tail(todo)
      /\ UNCHANGED <<config, text, matches, findings, stage>>

\* A finding that begins in a part already redacted.
Skip ==
  /\ stage = "redact" /\ todo # <<>> /\ Head(todo).start < cursor
  /\ todo' = Tail(todo)
  /\ UNCHANGED <<config, text, matches, findings, cursor, out, stage>>

WriteRest ==
  /\ stage = "redact" /\ todo = <<>>
  /\ out' = out \o SubSeq(text, cursor + 1, Len(text))
  /\ stage' = "done"
  /\ UNCHANGED <<config, text, matches, findings, todo, cursor>>

Next == FindSecrets \/ WriteToken \/ Skip \/ WriteRest

Spec == Init /\ [][Next]_vars

-----------------------------------------------------------------------------
\* Types; every finding is a part of the text.
TypeOK ==
  /\ config \in Configs /\ text \in Texts
  /\ cursor \in 0..Len(text)
  /\ stage \in {"scan", "redact", "done", "unusable"}
  /\ \A k \in DOMAIN findings : findings[k] \in Spans /\ findings[k].start < findings[k].end
  /\ Range(todo) \subseteq Range(findings)

\* The secrets of the text: what a rule of the configuration for texts found,
\* unless the text has no keyword of that rule or the find is too regular or
\* allowed.  No other rule has a say.
Secrets ==
  LET usable == UsableRules(config)
      Secret(s) == SubSeq(text, s.start + 1, s.end)
      Span(m) == LET rule == usable[m.rule]
                 IN  m.groups[IF rule.secretGroup \in 1..rule.groups THEN rule.secretGroup ELSE 0]
  IN  {Span(m) : m \in {n \in Range(matches) :
         /\ ~usable[n.rule].path /\ usable[n.rule].compiles
         /\ Span(n) # Absent /\ Secret(Span(n)) # <<>>
         /\ usable[n.rule].keywords # {} =>
              \E word \in usable[n.rule].keywords : HasSubstring(ToLower(text), word)
         /\ Entropy(Secret(Span(n))) >= usable[n.rule].entropy
         /\ ~\E word \in config.stopwords : HasSubstring(ToLower(Secret(Span(n))), word)
         /\ ~\E re \in config.allowlist : re.compiles /\ Secret(Span(n)) \in re.secrets}}

Covers(f, p) == f.start < p /\ p <= f.end

Partial(f, g) == f.start < g.start /\ g.start < f.end /\ f.end < g.end

\* The secrets that no other one contains.
Outermost == {f \in Secrets : \A g \in Secrets : Within(f, g) => g = f}

\* The text in which each of some spans is one token.
Redacted(spans) ==
  FlattenSeq([p \in 1..Len(text) |->
    IF \E f \in spans : p = f.start + 1 THEN <<RedactionToken>>
    ELSE IF \E f \in spans : Covers(f, p) THEN <<>>
    ELSE <<text[p]>>])

\* From the configuration to the redacted text: secrets of several rules that
\* lie apart or inside each other leave no byte, everything else is kept, and
\* there is one token per secret.
SecretsRedacted ==
  stage = "done" /\ (\A f, g \in Secrets : ~Partial(f, g)) => out = Redacted(Outermost)

\* However secrets overlap, what is left of the text are bytes of it, once and in
\* order: all that are no secret's, and of a secret only an end, behind another
\* secret that begins before it and ends inside it.
OnlyEndsSurvive ==
  stage = "done" =>
    \E S \in SUBSET (1..Len(text)) :
      /\ Kept(out, Bytes) = FlattenSeq([p \in 1..Len(text) |-> IF p \in S THEN <<text[p]>> ELSE <<>>])
      /\ \A p \in 1..Len(text) : p \in S \/ \E f \in Secrets : Covers(f, p)
      /\ \A f \in Secrets, p \in S :
           Covers(f, p) => \E g \in Secrets : Partial(g, f) /\ g.end < p
=============================================================================
