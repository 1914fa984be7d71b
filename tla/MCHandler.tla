----------------------------- MODULE MCHandler -----------------------------
(***************************************************************************)
(* The instance of Handler: requests of every kind for the endpoints and   *)
(* for two paths that are no endpoints, and one request for every path of  *)
(* up to four segments over those that are hard to treat alike.            *)
(***************************************************************************)
EXTENDS Handler

MCPaths ==
  {healthPath, <<"v1", "models">>, <<"v1", "", "responses">>} \cup LLMEndpoints

MCRequests ==
  [method : {"GET", "POST"}, path : MCPaths, body : {"json", "junk", "large", "cut"},
   stream : BOOLEAN, texts : 0..MaxTexts]
    \cup
  [method : {"GET"}, path : BoundedSeq({"v1", "responses", "", ".", ".."}, 4),
   body : {"json"}, stream : {FALSE}, texts : {0}]
=============================================================================
