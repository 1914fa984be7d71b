------------------------------- MODULE Config -------------------------------
(***************************************************************************)
(* What the process makes of its environment: config.go, and the parts that*)
(* main builds from it or refuses to build (language/detector.go,          *)
(* secrets/scanner.go).  An environment gives each variable its value,     *)
(* Unset, or Junk for a value that does not parse.  URLs and log settings  *)
(* change nothing that is modelled.                                        *)
(***************************************************************************)
EXTENDS Integers, SequencesExt

CONSTANTS Environments,   \* the environments the process is started in
          KnownLanguages, \* the ISO 639-1 codes that lingua knows
          Unset, Junk     \* no value; a value that is no number in range

\* The words getEnvBool knows, in any case.
TrueWords  == {"1", "true", "yes", "on"}
FalseWords == {"0", "false", "no", "off"}

\* Mutant: whatever is not one of the words for true is false.
GetEnvBoolStrict(value, fallback) ==
  IF value = Unset THEN fallback ELSE value \in TrueWords

GetEnvBool(value, fallback) ==
  IF value \in TrueWords THEN TRUE ELSE IF value \in FalseWords THEN FALSE ELSE fallback

\* getEnvInt and getEnvInt64.
GetEnvInt(value, fallback) == IF value \in {Unset, Junk} THEN fallback ELSE value

GetEnv(value, fallback) == IF value = Unset THEN fallback ELSE value

DefaultMaxRequestBodyBytes == 10485760

LoadConfig(env) ==
  [secretScan |-> GetEnvBool(env.secretScan, TRUE),
   gitleaks   |-> GetEnv(env.gitleaks, "embedded"),
   port       |-> GetEnvInt(env.port, 8080),
   languages  |-> GetEnv(env.languages, <<"en", "de">>),
   maxBody    |-> GetEnvInt(env.maxBody, DefaultMaxRequestBodyBytes)]

\* parseIsoCodes: the codes that lingua knows, each once, in their order.
ParseIsoCodes(codes) ==
  FoldLeft(LAMBDA kept, code : IF code \in KnownLanguages \ Range(kept)
                               THEN Append(kept, code) ELSE kept,
           <<>>, codes)

\* NewDetector.
DetectorBuilds(config) == Len(ParseIsoCodes(config.languages)) >= 2

\* NewScanner reads the file, parses it and wants a rule that is left
\* (Usable of module Scanner).
ScannerBuilds(config) == config.gitleaks \in {"embedded", "rules"}

PortValid(config) == config.port \in 1..65535
=============================================================================
