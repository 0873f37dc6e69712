--------------------------- MODULE MCTaskProgress ---------------------------
(* Tasks on small instances.                                               *)
EXTENDS TaskProgress

(* All voters in one turf.                                                 *)
InOneTurf == [v \in Voters |-> "turf"]
=============================================================================
