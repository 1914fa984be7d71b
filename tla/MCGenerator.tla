----------------------------- MODULE MCGenerator -----------------------------
(***************************************************************************)
(* The instance of Generator.  Two entity types share a label, as two      *)
(* unknown types do whose names differ only in characters that             *)
(* labelForEntity removes.  There is no symmetry, CallsReturn forbids it.  *)
(***************************************************************************)
EXTENDS Generator

CONSTANTS t1, t2, t3, v1, v2

MCThreads == {t1, t2, t3}
MCValues == {v1, v2}
MCEntityTypes == {"X", "X!"}
MCLabels == {"X"}
MCLabelOf == [e \in MCEntityTypes |-> "X"]
=============================================================================
