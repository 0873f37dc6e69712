---------------------------- MODULE MCSmsOutreach ----------------------------
(* Text messages on small instances.                                       *)
EXTENDS SmsOutreach

CONSTANTS v1, v2, r1, r2   (* model values *)

TwoVoters == {v1, v2}
OneRequest == {r1}
TwoRequests == {r1, r2}

(* Every voter with a name of its own; v1 and v2 of one name.              *)
OwnNames == [v \in Voters |-> IF v = v1 THEN 1 ELSE 2]
SharedName == [v \in Voters |-> IF v \in {v1, v2} THEN 1 ELSE 2]
=============================================================================
