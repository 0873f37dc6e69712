----------------------------- MODULE MCPullSync -----------------------------
(* Pull synchronisation on small instances: a voter in each of two turfs,  *)
(* one in both, and a contact log in the first.                            *)
EXTENDS PullSync

OneEngine == {"main"}
TwoEngines == {"main", "background"}

HomeOfRows ==
  [r \in Rows |-> CASE r = "v2" -> {"t2"} [] r = "v12" -> {"t1", "t2"} [] OTHER -> {"t1"}]
=============================================================================
