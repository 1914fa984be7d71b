------------------------------ MODULE Routing ------------------------------
(***************************************************************************)
(* Paths on their way through the proxy (upstreamPath and isLLMEndpoint of *)
(* proxy/proxy_handler.go).  A path is the sequence of its segments:       *)
(* "/v1/models" is <<"v1", "models">>, "/" is <<"">>, and a trailing or a  *)
(* doubled slash leaves an empty segment.  These are the segments of the   *)
(* path as net/http has decoded it; that Forward writes it into a URL      *)
(* without encoding it again is left out.                                  *)
(***************************************************************************)
EXTENDS Integers, FiniteSets, SequencesExt

healthPath == <<"healthz">>

LLMEndpoints ==
  {<<"v1", "chat", "completions">>, <<"v1", "responses">>, <<"v1", "completions">>}

\* path.Clean of a rooted path, segment by segment; "/" becomes <<>>.
Clean(path) ==
  LET cleaned[n \in 0..Len(path)] ==
        IF n = 0 THEN <<>>
        ELSE LET kept == cleaned[n - 1]
             IN  IF path[n] \in {"", "."} \/ (path[n] = ".." /\ kept = <<>>) THEN kept
                 ELSE IF path[n] = ".." THEN Front(kept)
                 ELSE Append(kept, path[n])
  IN  cleaned[Len(path)]

StripV1(path) == IF path # <<>> /\ path[1] = "v1" THEN Tail(path) ELSE path

\* Mutant: the path is cleaned first.
UpstreamPathCleanFirst(path) == StripV1(Clean(path))

\* The upstream's base URL ends in /v1 itself, so one leading "v1" goes.
UpstreamPath(path) == Clean(StripV1(path))

-----------------------------------------------------------------------------
(***************************************************************************)
(* The reference: the names of a path that no ".." behind them takes back, *)
(* found by counting.                                                      *)
(***************************************************************************)
Dotted == {"", ".", ".."}

Remains(path, i) ==
  /\ path[i] \notin Dotted
  /\ \A j \in i..Len(path) :
       Cardinality({n \in i..j : path[n] = ".."}) < Cardinality({n \in i..j : path[n] \notin Dotted})

Remaining(path) ==
  FlattenSeq([i \in DOMAIN path |-> IF Remains(path, i) THEN <<path[i]>> ELSE <<>>])
=============================================================================
