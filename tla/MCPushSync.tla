----------------------------- MODULE MCPushSync -----------------------------
(* Push synchronisation on small instances.                                *)
EXTENDS PushSync, TLC

CONSTANTS d1, d2, c1, c2   (* model values *)

OneDevice == {d1}
TwoDevices == {d1, d2}
OneCall == {c1}
TwoCalls == {c1, c2}
OneIsolate == {"main"}
TwoIsolates == {"main", "background"}

(* Requests are interchangeable.                                           *)
CallSymmetry == Permutations(Calls)
=============================================================================
