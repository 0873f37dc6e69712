------------------------------ MODULE PushSync ------------------------------
(***************************************************************************)
(* Push synchronisation: devices and server joined by the PushSyncBatch    *)
(* call.  The request carries the operations as they were selected; the    *)
(* answer reaches the engine, or the call throws although the server may   *)
(* have done, be doing or never do any part of the work.                   *)
(***************************************************************************)
EXTENDS FieldClient, PushServer

CONSTANTS
  MaxLost,     (* bound: calls that throw                                  *)
  MaxFaults,   (* bound: statements of the server that fail                *)
  MaxRemovals, (* bound: turfs with work taken from a device               *)
  MaxKills     (* bound: isolates killed                                   *)

ASSUME PushAssumption ==
  /\ MaxLost \in Nat
  /\ MaxFaults \in Nat
  /\ MaxRemovals \in Nat
  /\ MaxKills \in Nat
  /\ NoClient \notin Engines \cup Devices

VARIABLES
  lost,        (* calls that threw so far                                  *)
  faults,      (* statements of the server that failed so far              *)
  removals,    (* turfs taken from a device so far                         *)
  kills        (* killed isolates so far                                   *)

countVars == <<lost, faults, removals, kills>>
vars == <<clientVars, serverVars, countVars>>

Init ==
  /\ ClientInit
  /\ ServerInit
  /\ lost = 0
  /\ faults = 0
  /\ removals = 0
  /\ kills = 0

(* Requests of an engine that no longer listens.                           *)
Orphan(e) == [c \in Calls |-> IF call[c].client = e
                              THEN [call[c] EXCEPT !.client = NoClient] ELSE call[c]]

-----------------------------------------------------------------------------
RecordFieldWork ==
  /\ \E d \in Devices :
       \/ SaveDoorKnock(d)
       \/ SavePhoneCall(d)
       \/ SaveNextPart(d)
       \/ AddNote(d, "voter_note")
       \/ AddNote(d, "task_note")
  /\ UNCHANGED <<serverVars, countVars>>

LocalStep(e) ==
  /\ \/ StartCycle(e)
     \/ SelectPending(e)
     \/ MarkNextError(e)
     \/ FinishBatch(e)
     \/ FinishTurf(e)
     \/ SelectRetriable(e)
     \/ ResetRetriable(e)
  /\ UNCHANGED <<serverVars, countVars>>

RemoveTurf(e) ==
  /\ removals < MaxRemovals
  /\ removals' = removals + 1
  /\ SelectForTurf(e)
  /\ UNCHANGED <<serverVars, lost, faults, kills>>

SendBatch(e) ==
  /\ \E c \in Calls :
       /\ call[c].phase = "free"
       /\ call' = [call EXCEPT ![c] = NewCall(e, DeviceOf(e), engine[e].batch)]
  /\ MarkBatch(e)
  /\ UNCHANGED <<received, copies, countVars>>

ReceiveAnswer(e) ==
  /\ \E c \in Calls :
       /\ call[c].client = e
       /\ Answered(c)
       /\ TakeAnswer(e, call[c].processed, call[c].errors)
       /\ call' = [call EXCEPT ![c] = FreeCall]
  /\ UNCHANGED <<received, copies, countVars>>

LoseCall(e) ==
  /\ lost < MaxLost
  /\ lost' = lost + 1
  /\ CallFails(e)
  /\ call' = Orphan(e)
  /\ UNCHANGED <<received, copies, faults, removals, kills>>

Kill(e) ==
  /\ kills < MaxKills
  /\ kills' = kills + 1
  /\ KillIsolate(e)
  /\ call' = Orphan(e)
  /\ UNCHANGED <<received, copies, lost, faults, removals>>

UserStep ==
  /\ \E d \in Devices, i \in OpIds : RetryDeadLetter(d, i) \/ DismissDeadLetter(d, i)
  /\ UNCHANGED <<serverVars, countVars>>

ServerStep(c) ==
  /\ \/ LookUp(c)
     \/ Process(c, local[call[c].dev][call[c].op])
     \/ Record(c, TRUE)
     \/ Abandon(c)
  /\ UNCHANGED <<clientVars, countVars>>

ServerFault(c) ==
  /\ faults < MaxFaults
  /\ faults' = faults + 1
  /\ \/ Record(c, FALSE)
     \/ StatementFails(c)
     \/ WriteInDoubt(c, local[call[c].dev][call[c].op])
  /\ UNCHANGED <<clientVars, lost, removals, kills>>

Next ==
  \/ RecordFieldWork
  \/ UserStep
  \/ \E e \in Engines : LocalStep(e) \/ RemoveTurf(e) \/ SendBatch(e)
                          \/ ReceiveAnswer(e) \/ LoseCall(e) \/ Kill(e)
  \/ \E c \in Calls : ServerStep(c) \/ ServerFault(c)

Spec == Init /\ [][Next]_vars

(* Cycles start again and again (app resume, reconnection, the periodic    *)
(* task) and run on; the server serves every request; a save the user      *)
(* started goes on.  Recording and the dead-letter cards are the user's.   *)
Fairness ==
  /\ \A e \in Engines : WF_vars(LocalStep(e)) /\ WF_vars(SendBatch(e))
                          /\ WF_vars(ReceiveAnswer(e))
  /\ \A c \in Calls : WF_vars(ServerStep(c))

FairSpec == Spec /\ Fairness
-----------------------------------------------------------------------------
(* Properties.                                                             *)

Written(d, i) == i \in DOMAIN local[d]
Held(d, i) == i \in DOMAIN outbox[d]
DeadLetter(d, i) == Held(d, i) /\ outbox[d][i].status = "failed"
                                /\ outbox[d][i].retries >= MaxRetry

(* The schema takes the entity, whatever else has been stored.             *)
Acceptable(d, i) ==
  CASE local[d][i].kind = "contact_log"     -> local[d][i].outcome \in AllowedOutcomes
    [] local[d][i].kind = "survey_response" -> FALSE
    [] OTHER                                -> TRUE

CallState == [phase : {"free", "next", "process", "record"},
              client : Engines \cup {NoClient}, dev : Devices \cup {NoClient},
              todo : SUBSET OpIds, op : 0 .. MaxOps,
              processed : SUBSET OpIds, errors : SUBSET OpIds]

(* The types of the server's variables.                                    *)
ServerTypeOK ==
  /\ call \in [Calls -> CallState]
  /\ \A c \in Calls : call[c].phase \in {"process", "record"} => call[c].op \in OpIds
  /\ received \in SUBSET OpIds
  /\ copies \in [Devices -> [OpIds -> Nat]]

CountTypeOK ==
  /\ lost \in 0 .. MaxLost
  /\ faults \in 0 .. MaxFaults
  /\ removals \in 0 .. MaxRemovals
  /\ kills \in 0 .. MaxKills

(* The types of all variables.                                             *)
TypeOK == ClientTypeOK /\ ServerTypeOK /\ CountTypeOK

(* A device drops an operation only when the server has stored its entity  *)
(* or the user dismissed it: pushPendingOperations deletes what the server *)
(* reports processed, and PushSyncBatch reports an operation processed     *)
(* when it finds the operation id in sync_received_operations.             *)
DroppedWasStored ==
  \A d \in Devices : \A i \in DOMAIN local[d] :
    Held(d, i) \/ Stored(d, i) \/ i \in dismissed[d]

(* Only the user brings a dead letter back: retryFailedOperations reads    *)
(* the retriable rows and resets them in a later statement.                *)
DeadLettersWait ==
  [][\A d \in Devices, i \in OpIds :
       (DeadLetter(d, i) /\ i \in DOMAIN outbox'[d]
          /\ outbox'[d][i].status # "failed") => UserStep]_vars

(* Operations reach the server in creation order (pushPendingOperations:   *)
(* processed in creation order): until a statement fails, a turf is pushed *)
(* ahead or an isolate is killed, nothing is stored before older           *)
(* acceptable work of the device.                                          *)
InCreationOrder ==
  (faults = 0 /\ removals = 0 /\ kills = 0) =>
    \A d \in Devices : \A i, j \in DOMAIN local[d] :
      (i < j /\ Acceptable(d, i) /\ Stored(d, j)) => Stored(d, i)

(* As long as no isolate is killed, a row is in progress only while an     *)
(* engine holds it: no path of the push loop leaves one behind.            *)
NoStrandedRow ==
  kills = 0 =>
    \A d \in Devices : \A i \in IdsWithStatus(outbox[d], "in_progress") :
      \E e \in Engines : /\ DeviceOf(e) = d
                         /\ engine[e].pc \in {"wait", "errors"}
                         /\ i \in engine[e].batch \cup engine[e].errors

(* Refinement: work is on the device, on the server, or given up.          *)
Work == Devices \X OpIds
HeldWork == {w \in Work : Held(w[1], w[2])}
StoredWork == {w \in Work : Stored(w[1], w[2])}
GoneWork == {w \in Work : Written(w[1], w[2]) /\ ~Held(w[1], w[2])}

Delivery == INSTANCE FieldDelivery
              WITH held <- HeldWork, stored <- StoredWork, gone <- GoneWork

(* The push protocol implements the delivery promise.                      *)
ImplementsDelivery == Delivery!Spec

(* Every operation leaves the outbox or becomes a dead letter the user     *)
(* sees on the sync screen, unless an isolate is killed and leaves its     *)
(* rows in progress.                                                       *)
EveryOperationSettles ==
  \A d \in Devices, i \in OpIds :
    Written(d, i) ~> (~Held(d, i) \/ DeadLetter(d, i) \/ kills > 0)

(* Work the schema allows reaches the server, whatever refused work is     *)
(* queued ahead of it, when fewer statements fail than an operation has    *)
(* retries and no isolate is killed.                                       *)
AcceptableWorkArrives ==
  \A d \in Devices, i \in OpIds : (Written(d, i) /\ Acceptable(d, i)) ~> Stored(d, i)

(* Repetitions store nothing without a reason: what carries the client's   *)
(* UUID has one row, however often its operation is sent, and a task note  *)
(* at most one more for each lost call, failed statement and kill, while a *)
(* device has one engine.                                                  *)
OneRowPerFailure ==
  \A d \in Devices : \A i \in DOMAIN local[d] :
    copies[d][i] <= IF local[d][i].kind = "task_note" THEN 1 + lost + faults + kills ELSE 1

(* What PushSyncBatch says of itself: "re-sending the same operation is a  *)
(* no-op" on a server that has stored it.                                  *)
ResendIsNoOp ==
  [][\A d \in Devices, i \in OpIds : Stored(d, i) => copies'[d][i] = copies[d][i]]_vars

(* What pushPendingOperations says of the in_progress mark, that it        *)
(* prevents double-sends: two engines never wait for one operation at once.*)
NoDoubleSend ==
  \A e, o \in Engines :
    (e # o /\ DeviceOf(e) = DeviceOf(o) /\ engine[e].pc = "wait" /\ engine[o].pc = "wait")
      => engine[e].batch \cap engine[o].batch = {}
=============================================================================
