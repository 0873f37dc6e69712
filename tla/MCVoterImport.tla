---------------------------- MODULE MCVoterImport ----------------------------
(* Import and geocoding on small instances.                                *)
EXTENDS VoterImport, TLC

CONSTANTS k1, k2, l1, l2, l3, l4, l5   (* model values *)

FiveLines == {l1, l2, l3, l4, l5}
KeyOfLine == (l1 :> k1) @@ (l2 :> k2) @@ (l3 :> k2) @@ (l4 :> NoKey) @@ (l5 :> NoRow)

(* A file with good and bad lines, a household under one key, and a        *)
(* mapping that cannot be read.                                            *)
ThreeFiles == {[source |-> "l2",  lines |-> {l1, l2, l4, l5}, mapping |-> TRUE],
               [source |-> "cvr", lines |-> {l2, l3}, mapping |-> TRUE],
               [source |-> "l2",  lines |-> {l2}, mapping |-> FALSE]}
=============================================================================
