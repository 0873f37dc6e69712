--------------------------- MODULE MCSmsWebhooks ---------------------------
(* An instance of SmsWebhooks for TLC: one voter with a phone of their own *)
(* and a number nobody knows.                                              *)
EXTENDS SmsWebhooks

CONSTANTS v1, p1, p2

OneOwner == [p \in Phones |-> IF p = p1 THEN {v1} ELSE {}]
=============================================================================
