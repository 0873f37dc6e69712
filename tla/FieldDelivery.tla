---------------------------- MODULE FieldDelivery ---------------------------
(***************************************************************************)
(* What push synchronisation promises a navigator: a piece of field work   *)
(* stays on the device until the server has stored it or the navigator     *)
(* gives it up, and the server stores only work that was recorded.         *)
(***************************************************************************)
CONSTANT Work   (* the pieces of field work that can be recorded           *)

VARIABLES
  held,     (* on a device, still to be delivered                          *)
  stored,   (* in the server's tables                                      *)
  gone      (* no longer held by the device                                *)

vars == <<held, stored, gone>>

Init == held = {} /\ stored = {} /\ gone = {}

RecordWork(w) ==
  /\ w \notin held \cup stored \cup gone
  /\ held' = held \cup {w}
  /\ UNCHANGED <<stored, gone>>

Store(w) ==
  /\ w \in held \cup gone
  /\ stored' = stored \cup {w}
  /\ UNCHANGED <<held, gone>>

(* The device forgets work only when the server has it.                    *)
Release(W) ==
  /\ W \subseteq held \cap stored
  /\ held' = held \ W
  /\ gone' = gone \cup W
  /\ UNCHANGED stored

GiveUp(w) ==
  /\ w \in held
  /\ held' = held \ {w}
  /\ gone' = gone \cup {w}
  /\ UNCHANGED stored

Next ==
  \/ \E w \in Work : RecordWork(w) \/ Store(w) \/ GiveUp(w)
  \/ \E W \in SUBSET held : Release(W)

Spec == Init /\ [][Next]_vars
=============================================================================
