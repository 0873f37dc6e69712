--------------------------- MODULE PushSyncProofs ---------------------------
(***************************************************************************)
(* Proofs about push synchronisation, for any number of devices, isolates, *)
(* requests, operations, retries and failures.                             *)
(***************************************************************************)
EXTENDS PushSync, FiniteSetTheorems, TLAPS

-----------------------------------------------------------------------------
(* The statements of SyncDao on a well-typed table.                        *)

Table(t) == DOMAIN t \subseteq OpIds /\ t \in [DOMAIN t -> Row]

LEMMA SetStatusType ==
  ASSUME NEW t, Table(t), NEW ids, NEW s \in RowStatus
  PROVE  /\ Table(SetStatus(t, ids, s))
         /\ DOMAIN SetStatus(t, ids, s) = DOMAIN t
  BY DEF Table, SetStatus, Row

LEMMA CountFailureType ==
  ASSUME NEW t, Table(t), NEW ids, NEW s \in RowStatus
  PROVE  /\ Table(CountFailure(t, ids, s))
         /\ DOMAIN CountFailure(t, ids, s) = DOMAIN t
  BY DEF Table, CountFailure, Row

LEMMA MarkSyncedType ==
  ASSUME NEW t, Table(t), NEW ids
  PROVE  /\ Table(MarkSynced(t, ids))
         /\ DOMAIN MarkSynced(t, ids) = DOMAIN t \ ids
         /\ DOMAIN MarkSynced(t, ids) \subseteq DOMAIN t
  BY DEF Table, MarkSynced

LEMMA InsertOperationType ==
  ASSUME NEW t, Table(t), NEW i \in OpIds
  PROVE  /\ Table(InsertOperation(t, i))
         /\ DOMAIN InsertOperation(t, i) = DOMAIN t \cup {i}
  BY DEF Table, InsertOperation, FreshRow, Row, RowStatus

(* An update of one device's table that keeps it within what the device    *)
(* has written keeps the client's types.                                   *)
LEMMA TableUpdate ==
  ASSUME ClientTypeOK, NEW d \in Devices, NEW t, Table(t),
         DOMAIN t \subseteq DOMAIN local[d],
         outbox' = [outbox EXCEPT ![d] = t],
         UNCHANGED <<local, session>>, engine' \in [Engines -> EngineState],
         dismissed' \in [Devices -> SUBSET OpIds]
  PROVE  ClientTypeOK'
  BY DEF ClientTypeOK, Table

LEMMA OutboxIsTable ==
  ASSUME ClientTypeOK, NEW d \in Devices
  PROVE  Table(outbox[d]) /\ DOMAIN outbox[d] \subseteq DOMAIN local[d]
  <1>1. DOMAIN local[d] \subseteq OpIds
    BY OutboxAssumption DEF ClientTypeOK, OpIds
  <1> QED  BY <1>1 DEF ClientTypeOK, Table

LEMMA EngineType ==
  ASSUME ClientTypeOK, NEW e \in Engines
  PROVE  /\ DeviceOf(e) \in Devices
         /\ engine[e] \in EngineState
         /\ engine[e].batch \subseteq OpIds
         /\ engine[e].errors \subseteq OpIds
  BY DEF ClientTypeOK, EngineState, Engines, DeviceOf

(* Appending an entity and inserting its row.                              *)
LEMMA WriteType ==
  ASSUME ClientTypeOK, NEW d \in Devices, NEW entity \in Entity,
         WriteWithOutbox(d, entity),
         session' \in [Devices -> Seq(Entity)], UNCHANGED <<engine, dismissed>>
  PROVE  ClientTypeOK'
  <1> DEFINE i == Len(local[d]) + 1
  <1>1. /\ local[d] \in Seq(Entity) /\ Len(local[d]) \in Nat
        /\ Len(local[d]) < MaxOps /\ i \in OpIds
    BY OutboxAssumption DEF ClientTypeOK, WriteWithOutbox, OpIds
  <1>2. /\ Append(local[d], entity) \in Seq(Entity)
        /\ Len(Append(local[d], entity)) = i
        /\ DOMAIN Append(local[d], entity) = DOMAIN local[d] \cup {i}
    BY <1>1
  <1>3. /\ local' = [local EXCEPT ![d] = Append(local[d], entity)]
        /\ outbox' = [outbox EXCEPT ![d] = InsertOperation(outbox[d], i)]
    BY DEF WriteWithOutbox
  <1>4. /\ Table(InsertOperation(outbox[d], i))
        /\ DOMAIN InsertOperation(outbox[d], i) = DOMAIN outbox[d] \cup {i}
    BY <1>1, OutboxIsTable, InsertOperationType
  <1>5. local' \in [Devices -> Seq(Entity)]
    BY <1>2, <1>3 DEF ClientTypeOK
  <1>6. DOMAIN outbox' = Devices
    BY <1>3 DEF ClientTypeOK
  <1>7. ASSUME NEW b \in Devices
        PROVE  /\ Len(local'[b]) <= MaxOps
               /\ DOMAIN outbox'[b] \subseteq DOMAIN local'[b]
               /\ outbox'[b] \in [DOMAIN outbox'[b] -> Row]
    <2>1. CASE b = d
      BY <2>1, <1>1, <1>2, <1>3, <1>4, OutboxAssumption, OutboxIsTable
         DEF ClientTypeOK, Table
    <2>2. CASE b # d
      BY <2>2, <1>3 DEF ClientTypeOK
    <2> QED  BY <2>1, <2>2
  <1> QED  BY <1>5, <1>6, <1>7 DEF ClientTypeOK
-----------------------------------------------------------------------------
(* The steps of the client keep its types.                                 *)

LEMMA RecordingType ==
  ASSUME ClientTypeOK, NEW d \in Devices,
         \/ SaveDoorKnock(d) \/ SavePhoneCall(d) \/ SaveNextPart(d)
         \/ AddNote(d, "voter_note") \/ AddNote(d, "task_note")
  PROVE  ClientTypeOK'
  <1> USE OutboxAssumption, ClientAssumption
  <1>1. /\ local[d] \in Seq(Entity) /\ session[d] \in Seq(Entity)
        /\ session \in [Devices -> Seq(Entity)]
    BY DEF ClientTypeOK
  <1>2. \A o \in Outcomes : ContactLog(o) \in Entity
    BY DEF ContactLog, Entity, Kinds
  <1>3. /\ Note("voter_note") \in Entity /\ Note("task_note") \in Entity
        /\ \A l \in OpIds : SurveyResponse(l) \in Entity
    BY DEF Note, SurveyResponse, Entity, Kinds, Outcomes, OpIds
  <1>4. ASSUME NEW outcome \in Outcomes, NEW rest \in Seq(Entity),
               SaveContact(d, outcome, rest)
        PROVE  ClientTypeOK'
    <2>1. session' \in [Devices -> Seq(Entity)]
      BY <1>1, <1>4 DEF SaveContact
    <2> QED  BY <1>2, <1>4, <2>1, WriteType DEF SaveContact
  <1>5. CASE SaveDoorKnock(d)
    <2> DEFINE log == Len(local[d]) + 1
               parts(survey, note) ==
                 (IF survey THEN <<SurveyResponse(log)>> ELSE <<>>)
                   \o (IF note THEN <<Note("voter_note")>> ELSE <<>>)
    <2>1. PICK s \in DoorStatuses, survey \in BOOLEAN, note \in BOOLEAN :
            SaveContact(d, DoorStatusToOutcome(s), parts(survey, note))
      BY <1>5 DEF SaveDoorKnock
    <2>2. DoorStatusToOutcome(s) \in Outcomes
      BY DEF DoorStatusToOutcome, Outcomes
    <2>3. log \in OpIds
      BY <1>1, <2>1 DEF SaveContact, WriteWithOutbox, OpIds
    <2>4. parts(survey, note) \in Seq(Entity)
      BY <1>3, <2>3
    <2> QED  BY <1>4, <2>1, <2>2, <2>4
  <1>6. CASE SavePhoneCall(d)
    <2>1. PICK s \in CallStatuses, note \in BOOLEAN :
            SaveContact(d, CallStatusToOutcome(s),
                        IF note THEN <<Note("voter_note")>> ELSE <<>>)
      BY <1>6 DEF SavePhoneCall
    <2>2. CallStatusToOutcome(s) \in Outcomes
      BY DEF CallStatusToOutcome, Outcomes
    <2>3. (IF note THEN <<Note("voter_note")>> ELSE <<>>) \in Seq(Entity)
      BY <1>3
    <2> QED  BY <1>4, <2>1, <2>2, <2>3
  <1>7. CASE SaveNextPart(d)
    <2>1. Head(session[d]) \in Entity /\ Tail(session[d]) \in Seq(Entity)
      BY <1>1, <1>7 DEF SaveNextPart
    <2>2. session' \in [Devices -> Seq(Entity)]
      BY <1>1, <1>7, <2>1 DEF SaveNextPart
    <2> QED  BY <1>7, <2>1, <2>2, WriteType DEF SaveNextPart
  <1>8. ASSUME NEW kind, Note(kind) \in Entity, AddNote(d, kind)
        PROVE  ClientTypeOK'
    BY <1>1, <1>8, WriteType DEF AddNote
  <1> QED  BY <1>3, <1>5, <1>6, <1>7, <1>8

LEMMA LocalStepType ==
  ASSUME ClientTypeOK, NEW e \in Engines,
         \/ StartCycle(e) \/ SelectPending(e) \/ MarkNextError(e)
         \/ FinishBatch(e) \/ FinishTurf(e) \/ SelectForTurf(e)
         \/ SelectRetriable(e) \/ ResetRetriable(e)
  PROVE  ClientTypeOK'
  <1> DEFINE d == DeviceOf(e)
  <1>1. /\ d \in Devices /\ engine[e] \in EngineState
        /\ engine[e].batch \subseteq OpIds /\ engine[e].errors \subseteq OpIds
        /\ engine \in [Engines -> EngineState]
        /\ dismissed \in [Devices -> SUBSET OpIds]
    BY EngineType DEF ClientTypeOK
  <1>2. Table(outbox[d]) /\ DOMAIN outbox[d] \subseteq DOMAIN local[d]
    BY <1>1, OutboxIsTable
  <1>3. /\ \A pc \in {"idle", "select", "mark", "wait", "errors", "retry", "reset"} :
             \A batch \in SUBSET OpIds : At(pc, batch) \in EngineState
        /\ Idle \in EngineState
    BY DEF At, Idle, EngineState
  <1>4. ASSUME NEW es \in EngineState, engine' = [engine EXCEPT ![e] = es],
               UNCHANGED <<local, outbox, session, dismissed>>
        PROVE  ClientTypeOK'
    BY <1>1, <1>4 DEF ClientTypeOK
  <1>5. ASSUME NEW t, Table(t), DOMAIN t = DOMAIN outbox[d],
               outbox' = [outbox EXCEPT ![d] = t],
               NEW es \in EngineState, engine' = [engine EXCEPT ![e] = es],
               UNCHANGED <<local, session, dismissed>>
        PROVE  ClientTypeOK'
    <2>1. engine' \in [Engines -> EngineState] /\ dismissed' \in [Devices -> SUBSET OpIds]
      BY <1>1, <1>5
    <2> QED  BY <1>1, <1>2, <1>5, <2>1, TableUpdate
  <1>6. CASE StartCycle(e)
    BY <1>3, <1>4, <1>6 DEF StartCycle
  <1>7. CASE SelectPending(e)
    <2>1. GetPendingOperations(outbox[d], BatchSize) \subseteq OpIds
      BY <1>2 DEF GetPendingOperations, IdsWithStatus, Table
    <2> QED  BY <1>3, <1>4, <1>7, <2>1 DEF SelectPending
  <1>8. CASE MarkNextError(e)
    <2>1. PICK i \in engine[e].errors :
            /\ outbox' = [outbox EXCEPT ![d] = MarkFailedWithRetry(outbox[d], {i})]
            /\ engine' = [engine EXCEPT ![e].errors = engine[e].errors \ {i}]
            /\ UNCHANGED <<local, session, dismissed>>
      BY <1>8, <1>1 DEF MarkNextError, ClientTypeOK
    <2>2. /\ Table(MarkFailedWithRetry(outbox[d], {i}))
          /\ DOMAIN MarkFailedWithRetry(outbox[d], {i}) = DOMAIN outbox[d]
      BY <1>2, CountFailureType DEF MarkFailedWithRetry, RowStatus
    <2>3. /\ [engine[e] EXCEPT !.errors = engine[e].errors \ {i}] \in EngineState
          /\ engine' = [engine EXCEPT ![e] =
                          [engine[e] EXCEPT !.errors = engine[e].errors \ {i}]]
      BY <1>1, <2>1 DEF EngineState
    <2> QED  BY <1>5, <2>1, <2>2, <2>3
  <1>9. CASE FinishBatch(e)
    <2>1. /\ Table(MarkFailed(outbox[d], engine[e].batch))
          /\ DOMAIN MarkFailed(outbox[d], engine[e].batch) = DOMAIN outbox[d]
      BY <1>2, CountFailureType DEF MarkFailed, RowStatus
    <2>2. outbox' = [outbox EXCEPT ![d] = MarkFailed(outbox[d], engine[e].batch)]
      BY <1>1, <1>9 DEF FinishBatch, ClientTypeOK
    <2> QED  BY <1>3, <1>5, <1>9, <2>1, <2>2 DEF FinishBatch
  <1>10. CASE SelectRetriable(e)
    <2>1. GetRetriableFailedOperations(outbox[d]) \subseteq OpIds
      BY <1>2 DEF GetRetriableFailedOperations, IdsWithStatus, Table
    <2> QED  BY <1>3, <1>4, <1>10, <2>1 DEF SelectRetriable
  <1>11. CASE ResetRetriable(e)
    <2>1. /\ Table(ResetToPending(outbox[d], engine[e].batch))
          /\ DOMAIN ResetToPending(outbox[d], engine[e].batch) = DOMAIN outbox[d]
      BY <1>2, SetStatusType DEF ResetToPending, RowStatus
    <2>2. outbox' = [outbox EXCEPT ![d] = ResetToPending(outbox[d], engine[e].batch)]
      BY <1>1, <1>11 DEF ResetRetriable, ClientTypeOK
    <2> QED  BY <1>3, <1>5, <1>11, <2>1, <2>2 DEF ResetRetriable
  <1>12. CASE FinishTurf(e)
    <2>1. /\ Table(ResetToPending(outbox[d], engine[e].batch))
          /\ DOMAIN ResetToPending(outbox[d], engine[e].batch) = DOMAIN outbox[d]
      BY <1>2, SetStatusType DEF ResetToPending, RowStatus
    <2>2. outbox' = [outbox EXCEPT ![d] = ResetToPending(outbox[d], engine[e].batch)]
      BY <1>1, <1>12 DEF FinishTurf, ClientTypeOK
    <2> QED  BY <1>3, <1>5, <1>12, <2>1, <2>2 DEF FinishTurf
  <1>13. CASE SelectForTurf(e)
    <2>1. PICK ops \in SUBSET IdsWithStatus(outbox[d], "pending") :
            /\ engine' = [engine EXCEPT ![e] = [At("mark", ops) EXCEPT !.turf = TRUE]]
            /\ UNCHANGED <<local, outbox, session, dismissed>>
      BY <1>13 DEF SelectForTurf
    <2>2. ops \subseteq OpIds
      BY <1>2, <2>1 DEF IdsWithStatus, Table
    <2>3. [At("mark", ops) EXCEPT !.turf = TRUE] \in EngineState
      BY <2>2 DEF At, EngineState
    <2> QED  BY <1>4, <2>1, <2>3
  <1> QED  BY <1>6, <1>7, <1>8, <1>9, <1>10, <1>11, <1>12, <1>13

LEMMA CallStepType ==
  ASSUME ClientTypeOK, NEW e \in Engines,
         \/ MarkBatch(e)
         \/ \E processed, errors \in SUBSET OpIds : TakeAnswer(e, processed, errors)
         \/ CallFails(e)
         \/ KillIsolate(e)
  PROVE  ClientTypeOK'
  <1> DEFINE d == DeviceOf(e)
  <1>1. /\ d \in Devices /\ engine[e] \in EngineState
        /\ engine[e].batch \subseteq OpIds /\ engine[e].errors \subseteq OpIds
        /\ engine \in [Engines -> EngineState]
        /\ dismissed \in [Devices -> SUBSET OpIds]
        /\ DOMAIN outbox = Devices
    BY EngineType DEF ClientTypeOK
  <1>2. Table(outbox[d]) /\ DOMAIN outbox[d] \subseteq DOMAIN local[d]
    BY <1>1, OutboxIsTable
  <1>3. ASSUME NEW t, Table(t), DOMAIN t \subseteq DOMAIN outbox[d],
               outbox' = [outbox EXCEPT ![d] = t],
               NEW es \in EngineState, engine' = [engine EXCEPT ![e] = es],
               UNCHANGED <<local, session, dismissed>>
        PROVE  ClientTypeOK'
    <2>1. engine' \in [Engines -> EngineState] /\ dismissed' \in [Devices -> SUBSET OpIds]
      BY <1>1, <1>3
    <2> QED  BY <1>1, <1>2, <1>3, <2>1, TableUpdate
  <1>4. CASE MarkBatch(e)
    <2>1. /\ outbox' = [outbox EXCEPT ![d] = MarkInProgress(outbox[d], engine[e].batch)]
          /\ engine' = [engine EXCEPT ![e] = [engine[e] EXCEPT !.pc = "wait"]]
      BY <1>1, <1>4 DEF MarkBatch
    <2>2. /\ Table(MarkInProgress(outbox[d], engine[e].batch))
          /\ DOMAIN MarkInProgress(outbox[d], engine[e].batch) = DOMAIN outbox[d]
      BY <1>2, SetStatusType DEF MarkInProgress, RowStatus
    <2>3. [engine[e] EXCEPT !.pc = "wait"] \in EngineState
      BY <1>1 DEF EngineState
    <2> QED  BY <1>3, <1>4, <2>1, <2>2, <2>3 DEF MarkBatch
  <1>5. CASE \E processed, errors \in SUBSET OpIds : TakeAnswer(e, processed, errors)
    <2>1. PICK processed \in SUBSET OpIds, errors \in SUBSET OpIds :
            TakeAnswer(e, processed, errors)
      BY <1>5
    <2> DEFINE counted == IF engine[e].turf THEN {} ELSE errors
               es == [pc |-> "errors", batch |-> engine[e].batch \ (processed \cup counted),
                      errors |-> counted \cap engine[e].batch,
                      pushed |-> processed \cap engine[e].batch # {},
                      turf |-> engine[e].turf]
               t == MarkSynced(outbox[d], processed \cap engine[e].batch)
    <2>2. /\ outbox' = [outbox EXCEPT ![d] = t]
          /\ engine' = [engine EXCEPT ![e] = es]
          /\ UNCHANGED <<local, session, dismissed>>
      BY <1>1, <2>1 DEF TakeAnswer
    <2>3. Table(t) /\ DOMAIN t \subseteq DOMAIN outbox[d]
      BY <1>2, MarkSyncedType
    <2>4. es \in EngineState
      BY <1>1 DEF EngineState
    <2> QED  BY <1>3, <2>2, <2>3, <2>4
  <1>6. CASE CallFails(e)
    <2>1. /\ outbox' = [outbox EXCEPT ![d] = ResetInProgressToPending(outbox[d])]
          /\ engine' = [engine EXCEPT ![e] =
                          At(IF engine[e].turf THEN "select" ELSE "retry", {})]
      BY <1>1, <1>6 DEF CallFails
    <2>2. /\ Table(ResetInProgressToPending(outbox[d]))
          /\ DOMAIN ResetInProgressToPending(outbox[d]) = DOMAIN outbox[d]
      BY <1>2, SetStatusType DEF ResetInProgressToPending, RowStatus
    <2>3. At(IF engine[e].turf THEN "select" ELSE "retry", {}) \in EngineState
      BY DEF At, EngineState
    <2> QED  BY <1>3, <1>6, <2>1, <2>2, <2>3 DEF CallFails
  <1>7. CASE KillIsolate(e)
    <2>1. Idle \in EngineState
      BY DEF Idle, At, EngineState
    <2>2. /\ engine' \in [Engines -> EngineState]
          /\ session' \in [Devices -> Seq(Entity)]
          /\ UNCHANGED <<local, outbox, dismissed>>
      BY <1>1, <1>7, <2>1 DEF KillIsolate, ClientTypeOK
    <2> QED  BY <2>2 DEF ClientTypeOK
  <1> QED  BY <1>4, <1>5, <1>6, <1>7

LEMMA UserStepType ==
  ASSUME ClientTypeOK, NEW d \in Devices, NEW i \in OpIds,
         RetryDeadLetter(d, i) \/ DismissDeadLetter(d, i)
  PROVE  ClientTypeOK'
  <1>1. Table(outbox[d]) /\ DOMAIN outbox[d] \subseteq DOMAIN local[d]
    BY OutboxIsTable
  <1>2. /\ engine \in [Engines -> EngineState]
        /\ dismissed \in [Devices -> SUBSET OpIds]
        /\ DOMAIN outbox = Devices
    BY DEF ClientTypeOK
  <1>3. CASE RetryDeadLetter(d, i)
    <2>1. /\ Table(ResetToPending(outbox[d], {i}))
          /\ DOMAIN ResetToPending(outbox[d], {i}) = DOMAIN outbox[d]
      BY <1>1, SetStatusType DEF ResetToPending, RowStatus
    <2>2. outbox' = [outbox EXCEPT ![d] = ResetToPending(outbox[d], {i})]
      BY <1>2, <1>3 DEF RetryDeadLetter
    <2> QED  BY <1>1, <1>2, <1>3, <2>1, <2>2, TableUpdate DEF RetryDeadLetter
  <1>4. CASE DismissDeadLetter(d, i)
    <2>1. /\ Table(MarkSynced(outbox[d], {i}))
          /\ DOMAIN MarkSynced(outbox[d], {i}) \subseteq DOMAIN outbox[d]
      BY <1>1, MarkSyncedType
    <2>2. /\ outbox' = [outbox EXCEPT ![d] = MarkSynced(outbox[d], {i})]
          /\ dismissed' \in [Devices -> SUBSET OpIds]
          /\ UNCHANGED <<local, session, engine>>
      BY <1>2, <1>4 DEF DismissDeadLetter
    <2> QED  BY <1>1, <1>2, <2>1, <2>2, TableUpdate
  <1> QED  BY <1>3, <1>4
-----------------------------------------------------------------------------
(* The steps of the server keep its types.                                 *)

LEMMA CallType ==
  ASSUME ServerTypeOK, NEW c \in Calls
  PROVE  /\ call[c] \in CallState
         /\ call[c].todo \subseteq OpIds /\ call[c].processed \subseteq OpIds
         /\ call[c].errors \subseteq OpIds
         /\ call[c].phase \in {"process", "record"} => call[c].op \in OpIds
  BY DEF ServerTypeOK, CallState

(* Replacing one request.                                                  *)
LEMMA CallUpdate ==
  ASSUME ServerTypeOK, NEW c \in Calls, NEW r \in CallState,
         r.phase \in {"process", "record"} => r.op \in OpIds,
         call' = [call EXCEPT ![c] = r],
         received' \in SUBSET OpIds, copies' \in [Devices -> [OpIds -> Nat]]
  PROVE  ServerTypeOK'
  BY DEF ServerTypeOK

LEMMA FreeCallType == FreeCall \in CallState /\ FreeCall.phase = "free"
  BY OutboxAssumption DEF FreeCall, CallState, OpIds

LEMMA OrphanType ==
  ASSUME ServerTypeOK, NEW e, call' = Orphan(e), UNCHANGED <<received, copies>>
  PROVE  ServerTypeOK'
  <1>1. ASSUME NEW r \in CallState
        PROVE  /\ [r EXCEPT !.client = NoClient] \in CallState
               /\ [r EXCEPT !.client = NoClient].phase = r.phase
               /\ [r EXCEPT !.client = NoClient].op = r.op
    BY DEF CallState
  <1>2. ASSUME NEW c \in Calls
        PROVE  call'[c] \in CallState /\ call'[c].phase = call[c].phase
                                      /\ call'[c].op = call[c].op
    <2>1. call[c] \in CallState
      BY CallType
    <2>2. call'[c] \in {call[c], [call[c] EXCEPT !.client = NoClient]}
      BY DEF Orphan
    <2> QED  BY <1>1, <2>1, <2>2
  <1>3. call' = [c \in Calls |-> call'[c]]
    BY DEF Orphan
  <1>4. call' \in [Calls -> CallState]
    BY <1>2, <1>3
  <1> QED  BY <1>2, <1>4 DEF ServerTypeOK

(* One more operation of a request.                                        *)
LEMMA RequestStepType ==
  ASSUME NEW r \in CallState, NEW i \in OpIds
  PROVE  /\ Begin(r, i) \in CallState /\ Begin(r, i).op = i
         /\ Report(r, i) \in CallState /\ Report(r, i).phase = "next"
         /\ Refuse(r, i) \in CallState /\ Refuse(r, i).phase = "next"
         /\ [r EXCEPT !.phase = "record"] \in CallState
         /\ [r EXCEPT !.phase = "record"].op = r.op
  <1>1. 0 \in 0 .. MaxOps /\ i \in 0 .. MaxOps
    BY OutboxAssumption DEF OpIds
  <1>2. /\ r.todo \ {i} \in SUBSET OpIds
        /\ r.processed \cup {i} \in SUBSET OpIds
        /\ r.errors \cup {i} \in SUBSET OpIds
    BY DEF CallState
  <1> DEFINE p1 == [r EXCEPT !.phase = "process"]
             p2 == [p1 EXCEPT !.op = i]
             p3 == [p2 EXCEPT !.todo = r.todo \ {i}]
             n1 == [r EXCEPT !.phase = "next"]
             n2 == [n1 EXCEPT !.op = 0]
             n3 == [n2 EXCEPT !.todo = r.todo \ {i}]
             n4 == [n3 EXCEPT !.processed = r.processed \cup {i}]
             n5 == [n3 EXCEPT !.errors = r.errors \cup {i}]
  <1>3. Begin(r, i) = p3
    BY DEF Begin
  <1>4. Report(r, i) = n4
    BY DEF Report
  <1>5. Refuse(r, i) = n5
    BY DEF Refuse
  <1>6. p1 \in CallState /\ n1 \in CallState /\ n1.phase = "next"
    BY DEF CallState
  <1>7. p2 \in CallState /\ p2.op = i /\ n2 \in CallState /\ n2.phase = "next"
    <2> HIDE DEF p1, n1
    <2> QED  BY <1>1, <1>6 DEF CallState
  <1>8. p3 \in CallState /\ p3.op = i /\ n3 \in CallState /\ n3.phase = "next"
    <2> HIDE DEF p2, n2
    <2> QED  BY <1>2, <1>7 DEF CallState
  <1>9. /\ n4 \in CallState /\ n4.phase = "next"
         /\ n5 \in CallState /\ n5.phase = "next"
    <2> HIDE DEF n3
    <2> QED  BY <1>2, <1>8 DEF CallState
  <1>10. /\ [r EXCEPT !.phase = "record"] \in CallState
         /\ [r EXCEPT !.phase = "record"].op = r.op
    BY DEF CallState
  <1> HIDE DEF p3, n4, n5
  <1> QED  BY <1>3, <1>4, <1>5, <1>8, <1>9, <1>10

LEMMA ServerStepType ==
  ASSUME ServerTypeOK, NEW c \in Calls,
         \/ LookUp(c) \/ \E entity : Process(c, entity)
         \/ \E recorded \in BOOLEAN : Record(c, recorded)
         \/ StatementFails(c) \/ Abandon(c)
         \/ \E entity : WriteInDoubt(c, entity)
  PROVE  ServerTypeOK'
  <1>1. /\ call[c] \in CallState /\ call[c].todo \subseteq OpIds
        /\ call[c].phase \in {"process", "record"} => call[c].op \in OpIds
        /\ call \in [Calls -> CallState]
        /\ received \in SUBSET OpIds /\ copies \in [Devices -> [OpIds -> Nat]]
    BY CallType DEF ServerTypeOK
  <1>2. CASE LookUp(c)
    <2>1. PICK i \in OpIds :
            /\ call' = [call EXCEPT ![c] = IF i \in received THEN Report(call[c], i)
                                                            ELSE Begin(call[c], i)]
            /\ UNCHANGED <<received, copies>>
      BY <1>1, <1>2 DEF LookUp
    <2>2. CASE i \in received
      BY <1>1, <2>1, <2>2, RequestStepType, CallUpdate
    <2>3. CASE i \notin received
      BY <1>1, <2>1, <2>3, RequestStepType, CallUpdate
    <2> QED  BY <2>2, <2>3
  <1>3. CASE \E entity : Process(c, entity)
    <2>1. PICK entity : Process(c, entity)
      BY <1>3
    <2> DEFINE d == call[c].dev
               i == call[c].op
    <2>2. i \in OpIds
      BY <1>1, <2>1 DEF Process
    <2>3. CASE Accepts(d, entity)
      <3>1. copies' = [copies EXCEPT ![d][i] = RowsAfterInsert(entity, copies[d][i])]
        BY <1>1, <2>1, <2>3 DEF Process
      <3>2. \A n \in Nat : RowsAfterInsert(entity, n) \in Nat
        BY DEF RowsAfterInsert
      <3>3. copies' \in [Devices -> [OpIds -> Nat]]
        BY <1>1, <2>2, <3>1, <3>2
      <3>4. call' = [call EXCEPT ![c] = [call[c] EXCEPT !.phase = "record"]]
        BY <1>1, <2>1, <2>3 DEF Process
      <3> QED  BY <1>1, <2>1, <2>2, <3>3, <3>4, RequestStepType, CallUpdate DEF Process
    <2>4. CASE ~Accepts(d, entity)
      <3>1. /\ call' = [call EXCEPT ![c] = Refuse(call[c], i)]
            /\ UNCHANGED <<received, copies>>
        BY <1>1, <2>1, <2>4 DEF Process
      <3> QED  BY <1>1, <2>2, <3>1, RequestStepType, CallUpdate
    <2> QED  BY <2>3, <2>4
  <1>4. CASE \E recorded \in BOOLEAN : Record(c, recorded)
    <2>1. /\ call[c].op \in OpIds
          /\ call' = [call EXCEPT ![c] = Report(call[c], call[c].op)]
          /\ received' \in SUBSET OpIds /\ UNCHANGED copies
      BY <1>1, <1>4 DEF Record
    <2> QED  BY <1>1, <2>1, RequestStepType, CallUpdate
  <1>5. CASE StatementFails(c)
    <2>1. PICK i \in OpIds : call' = [call EXCEPT ![c] = Refuse(call[c], i)]
      BY <1>1, <1>5 DEF StatementFails
    <2> QED  BY <1>1, <1>5, <2>1, RequestStepType, CallUpdate DEF StatementFails
  <1>6. CASE Abandon(c)
    BY <1>1, <1>6, FreeCallType, CallUpdate DEF Abandon
  <1>7. CASE \E entity : WriteInDoubt(c, entity)
    <2>1. PICK entity : WriteInDoubt(c, entity)
      BY <1>7
    <2> DEFINE d == call[c].dev
               i == call[c].op
    <2>2. /\ i \in OpIds
          /\ copies' = [copies EXCEPT ![d][i] = RowsAfterInsert(entity, copies[d][i])]
          /\ call' = [call EXCEPT ![c] = Refuse(call[c], i)] /\ UNCHANGED received
      BY <1>1, <2>1 DEF WriteInDoubt
    <2>3. \A n \in Nat : RowsAfterInsert(entity, n) \in Nat
      BY DEF RowsAfterInsert
    <2>4. copies' \in [Devices -> [OpIds -> Nat]]
      BY <1>1, <2>2, <2>3
    <2> QED  BY <1>1, <2>2, <2>4, RequestStepType, CallUpdate
  <1> QED  BY <1>2, <1>3, <1>4, <1>5, <1>6, <1>7
-----------------------------------------------------------------------------
(* Type correctness of the composition.                                    *)

LEMMA NewCallType ==
  ASSUME NEW e \in Engines, NEW d \in Devices, NEW batch \in SUBSET OpIds
  PROVE  NewCall(e, d, batch) \in CallState /\ NewCall(e, d, batch).phase = "next"
  BY OutboxAssumption DEF NewCall, CallState, OpIds

LEMMA InitType == Init => TypeOK
  <1> SUFFICES ASSUME Init PROVE TypeOK
    OBVIOUS
  <1>1. ClientTypeOK
    BY OutboxAssumption
    DEF Init, ClientInit, ClientTypeOK, Idle, At, EngineState, Row
  <1>2. ServerTypeOK
    BY FreeCallType DEF Init, ServerInit, ServerTypeOK
  <1>3. CountTypeOK
    BY PushAssumption DEF Init, CountTypeOK
  <1> QED  BY <1>1, <1>2, <1>3 DEF TypeOK

LEMMA NextType == TypeOK /\ [Next]_vars => TypeOK'
  <1> SUFFICES ASSUME TypeOK, [Next]_vars PROVE TypeOK'
    OBVIOUS
  <1> USE DEF TypeOK
  <1>a. UNCHANGED clientVars => ClientTypeOK'
    BY DEF ClientTypeOK, clientVars
  <1>b. UNCHANGED serverVars => ServerTypeOK'
    BY DEF ServerTypeOK, serverVars
  <1>c. UNCHANGED countVars => CountTypeOK'
    BY DEF CountTypeOK, countVars
  <1>1. CASE RecordFieldWork
    BY <1>1, <1>b, <1>c, RecordingType DEF RecordFieldWork
  <1>2. CASE UserStep
    BY <1>2, <1>b, <1>c, UserStepType DEF UserStep
  <1>3. ASSUME NEW e \in Engines, LocalStep(e)
        PROVE  TypeOK'
    BY <1>3, <1>b, <1>c, LocalStepType DEF LocalStep
  <1>3a. ASSUME NEW e \in Engines, RemoveTurf(e)
         PROVE  TypeOK'
    <2>1. ClientTypeOK'
      BY <1>3a, LocalStepType DEF RemoveTurf
    <2>2. CountTypeOK'
      BY <1>3a, PushAssumption DEF RemoveTurf, CountTypeOK
    <2> QED  BY <1>3a, <1>b, <2>1, <2>2 DEF RemoveTurf
  <1>4. ASSUME NEW e \in Engines, SendBatch(e)
        PROVE  TypeOK'
    <2>1. ClientTypeOK'
      BY <1>4, CallStepType DEF SendBatch
    <2>2. PICK c \in Calls :
            call' = [call EXCEPT ![c] = NewCall(e, DeviceOf(e), engine[e].batch)]
      BY <1>4 DEF SendBatch
    <2>3. ServerTypeOK'
      <3>1. /\ received' \in SUBSET OpIds /\ copies' \in [Devices -> [OpIds -> Nat]]
        BY <1>4 DEF SendBatch, ServerTypeOK
      <3> QED  BY <2>2, <3>1, EngineType, NewCallType, CallUpdate
    <2> QED  BY <1>4, <1>c, <2>1, <2>3 DEF SendBatch
  <1>5. ASSUME NEW e \in Engines, ReceiveAnswer(e)
        PROVE  TypeOK'
    <2>1. PICK c \in Calls : /\ TakeAnswer(e, call[c].processed, call[c].errors)
                             /\ call' = [call EXCEPT ![c] = FreeCall]
      BY <1>5 DEF ReceiveAnswer
    <2>2. ClientTypeOK'
      BY <2>1, CallStepType, CallType
    <2>3. ServerTypeOK'
      <3>1. /\ received' \in SUBSET OpIds /\ copies' \in [Devices -> [OpIds -> Nat]]
        BY <1>5 DEF ReceiveAnswer, ServerTypeOK
      <3> QED  BY <2>1, <3>1, FreeCallType, CallUpdate
    <2> QED  BY <1>5, <1>c, <2>2, <2>3 DEF ReceiveAnswer
  <1>6. ASSUME NEW e \in Engines, LoseCall(e)
        PROVE  TypeOK'
    <2>1. ClientTypeOK'
      BY <1>6, CallStepType DEF LoseCall
    <2>2. ServerTypeOK'
      BY <1>6, OrphanType DEF LoseCall
    <2>3. CountTypeOK'
      BY <1>6, PushAssumption DEF LoseCall, CountTypeOK
    <2> QED  BY <2>1, <2>2, <2>3
  <1>7. ASSUME NEW e \in Engines, Kill(e)
        PROVE  TypeOK'
    <2>1. ClientTypeOK'
      BY <1>7, CallStepType DEF Kill
    <2>2. ServerTypeOK'
      BY <1>7, OrphanType DEF Kill
    <2>3. CountTypeOK'
      BY <1>7, PushAssumption DEF Kill, CountTypeOK
    <2> QED  BY <2>1, <2>2, <2>3
  <1>8. ASSUME NEW c \in Calls, ServerStep(c)
        PROVE  TypeOK'
    BY <1>8, <1>a, <1>c, ServerStepType DEF ServerStep
  <1>9. ASSUME NEW c \in Calls, ServerFault(c)
        PROVE  TypeOK'
    <2>1. ServerTypeOK'
      BY <1>9, ServerStepType DEF ServerFault
    <2>2. CountTypeOK'
      BY <1>9, PushAssumption DEF ServerFault, CountTypeOK
    <2> QED  BY <1>9, <1>a, <2>1, <2>2 DEF ServerFault
  <1>10. CASE UNCHANGED vars
    BY <1>10, <1>a, <1>b, <1>c DEF vars
  <1> QED
    BY <1>1, <1>2, <1>3, <1>4, <1>5, <1>6, <1>7, <1>8, <1>9, <1>10, <1>3a DEF Next

(* The variables have their types in every reachable state: the statements *)
(* of SyncDao, the push loop and PushSyncBatch keep the tables well formed.*)
THEOREM TypeCorrect == Spec => []TypeOK
  BY InitType, NextType, PTL DEF Spec
-----------------------------------------------------------------------------
(* Delivery.  An operation id in sync_received_operations stands for an    *)
(* entity stored for SOME device, a processed operation of an answer for   *)
(* an entity of the request's own device or an id recorded before, and an  *)
(* answer goes to an engine of the device that sent the request.           *)

ReceivedStored == \A i \in received : \E d \in Devices : Stored(d, i)

AnswersTrue ==
  \A c \in Calls : call[c].phase # "free" =>
    /\ call[c].dev \in Devices
    /\ \A i \in call[c].processed : Stored(call[c].dev, i) \/ i \in received
    /\ call[c].phase = "record" => Stored(call[c].dev, call[c].op)

AnswersOwn ==
  \A c \in Calls : (call[c].phase # "free" /\ call[c].client # NoClient) =>
    call[c].client \in Engines /\ call[c].dev = DeviceOf(call[c].client)

(* For any number of devices: what a device no longer holds is stored, was *)
(* dismissed, or carries an id the server has recorded.                    *)
DroppedWasKnown ==
  \A d \in Devices : \A i \in DOMAIN local[d] :
    Held(d, i) \/ Stored(d, i) \/ i \in dismissed[d] \/ i \in received

DeliveryInv == /\ TypeOK
               /\ ReceivedStored
               /\ AnswersTrue
               /\ AnswersOwn
               /\ DroppedWasKnown

(* What the server has stored or recorded stays so.                        *)
ServerGrows ==
  /\ received \subseteq received'
  /\ \A d \in Devices, i \in OpIds : Stored(d, i) => Stored(d, i)'

LEMMA UnchangedServerGrows == UNCHANGED <<received, copies>> => ServerGrows
  BY DEF ServerGrows, Stored

LEMMA DroppedKept ==
  ASSUME TypeOK, DroppedWasKnown, ServerGrows, UNCHANGED <<local, dismissed>>,
         \A d \in Devices : DOMAIN outbox'[d] = DOMAIN outbox[d]
  PROVE  DroppedWasKnown'
  <1>1. \A d \in Devices : DOMAIN local[d] \subseteq OpIds
    BY OutboxAssumption DEF TypeOK, ClientTypeOK, OpIds
  <1> QED  BY <1>1 DEF DroppedWasKnown, ServerGrows, Held

(* One request changes.                                                    *)
LEMMA AnswersUpdate ==
  ASSUME TypeOK, AnswersTrue, AnswersOwn, ServerGrows,
         NEW c \in Calls, NEW r, call' = [call EXCEPT ![c] = r],
         r.phase # "free" =>
           /\ r.dev \in Devices
           /\ \A i \in r.processed : copies'[r.dev][i] > 0 \/ i \in received'
           /\ r.phase = "record" => copies'[r.dev][r.op] > 0
           /\ r.client # NoClient => r.client \in Engines /\ r.dev = DeviceOf(r.client)
  PROVE  AnswersTrue' /\ AnswersOwn'
  <1>1. ASSUME NEW b \in Calls, b # c
        PROVE  call'[b] = call[b]
    BY <1>1 DEF TypeOK, ServerTypeOK
  <1>2. call'[c] = r
    BY DEF TypeOK, ServerTypeOK
  <1>3. ASSUME NEW b \in Calls
        PROVE  /\ call[b].processed \subseteq OpIds
               /\ call[b].phase = "record" => call[b].op \in OpIds
    BY CallType DEF TypeOK
  <1> QED  BY <1>1, <1>2, <1>3 DEF AnswersTrue, AnswersOwn, ServerGrows, Stored
LEMMA RequestStepFields ==
  ASSUME NEW r \in CallState, NEW i
  PROVE  /\ Begin(r, i).dev = r.dev /\ Begin(r, i).client = r.client
         /\ Begin(r, i).processed = r.processed /\ Begin(r, i).phase = "process"
         /\ Report(r, i).dev = r.dev /\ Report(r, i).client = r.client
         /\ Report(r, i).processed = r.processed \cup {i}
         /\ Report(r, i).phase = "next"
         /\ Refuse(r, i).dev = r.dev /\ Refuse(r, i).client = r.client
         /\ Refuse(r, i).processed = r.processed /\ Refuse(r, i).phase = "next"
  <1>1. /\ Begin(r, i).dev = r.dev /\ Begin(r, i).client = r.client
        /\ Begin(r, i).processed = r.processed /\ Begin(r, i).phase = "process"
    BY DEF Begin, CallState
  <1>2. /\ Report(r, i).dev = r.dev /\ Report(r, i).client = r.client
        /\ Report(r, i).processed = r.processed \cup {i}
        /\ Report(r, i).phase = "next"
    BY DEF Report, CallState
  <1>3. /\ Refuse(r, i).dev = r.dev /\ Refuse(r, i).client = r.client
        /\ Refuse(r, i).processed = r.processed /\ Refuse(r, i).phase = "next"
    BY DEF Refuse, CallState
  <1> QED  BY <1>1, <1>2, <1>3

LEMMA OrphanAnswers ==
  ASSUME TypeOK, AnswersTrue, AnswersOwn, NEW e, call' = Orphan(e),
         UNCHANGED <<received, copies>>
  PROVE  AnswersTrue' /\ AnswersOwn'
  <1>1. ASSUME NEW c \in Calls
        PROVE  /\ call'[c].phase = call[c].phase /\ call'[c].dev = call[c].dev
               /\ call'[c].processed = call[c].processed /\ call'[c].op = call[c].op
               /\ call'[c].client \in {call[c].client, NoClient}
    <2>1. call[c] \in CallState
      BY CallType DEF TypeOK
    <2>2. CASE call[c].client = e
      <3>1. call'[c] = [call[c] EXCEPT !.client = NoClient]
        BY <2>2 DEF Orphan
      <3> QED  BY <2>1, <3>1 DEF CallState
    <2>3. CASE call[c].client # e
      BY <2>3 DEF Orphan
    <2> QED  BY <2>2, <2>3
  <1> QED  BY <1>1 DEF AnswersTrue, AnswersOwn, Stored

(* Every step of the server keeps what its answers say.                    *)
LEMMA ServerStepAnswers ==
  ASSUME TypeOK, ReceivedStored, AnswersTrue, AnswersOwn, NEW c \in Calls,
         \/ LookUp(c) \/ \E entity : Process(c, entity)
         \/ \E recorded \in BOOLEAN : Record(c, recorded)
         \/ StatementFails(c) \/ Abandon(c)
         \/ \E entity : WriteInDoubt(c, entity)
  PROVE  ServerGrows /\ ReceivedStored' /\ AnswersTrue' /\ AnswersOwn'
  <1>1. /\ call[c] \in CallState /\ call[c].todo \subseteq OpIds
        /\ call[c].processed \subseteq OpIds
        /\ call[c].phase \in {"process", "record"} => call[c].op \in OpIds
        /\ call \in [Calls -> CallState]
        /\ received \in SUBSET OpIds /\ copies \in [Devices -> [OpIds -> Nat]]
    BY CallType DEF TypeOK, ServerTypeOK
  <1>2. call[c].phase # "free" =>
          /\ call[c].dev \in Devices
          /\ \A i \in call[c].processed : copies[call[c].dev][i] > 0 \/ i \in received
          /\ call[c].phase = "record" => copies[call[c].dev][call[c].op] > 0
          /\ call[c].client # NoClient =>
               call[c].client \in Engines /\ call[c].dev = DeviceOf(call[c].client)
    BY DEF AnswersTrue, AnswersOwn, Stored
  <1>3. ASSUME UNCHANGED copies, received' = received
        PROVE  ServerGrows /\ ReceivedStored'
    BY <1>3 DEF ServerGrows, ReceivedStored, Stored
  <1>4. ASSUME ServerGrows, call[c].phase # "free", NEW i \in OpIds, NEW r,
               r \in {Begin(call[c], i), Report(call[c], i), Refuse(call[c], i)},
               r = Report(call[c], i) => copies'[call[c].dev][i] > 0 \/ i \in received',
               call' = [call EXCEPT ![c] = r]
        PROVE  AnswersTrue' /\ AnswersOwn'
    <2>1. /\ r.dev = call[c].dev /\ r.client = call[c].client
          /\ r.phase \in {"next", "process"}
          /\ \/ r.processed = call[c].processed
             \/ r.processed = call[c].processed \cup {i} /\ r = Report(call[c], i)
      BY <1>1, <1>4, RequestStepFields
    <2>2. \A j \in call[c].processed : copies'[r.dev][j] > 0 \/ j \in received'
      BY <1>1, <1>2, <1>4, <2>1 DEF ServerGrows, Stored
    <2>3. \A j \in r.processed : copies'[r.dev][j] > 0 \/ j \in received'
      BY <1>4, <2>1, <2>2
    <2> QED  BY <1>2, <1>4, <2>1, <2>3, AnswersUpdate
  <1>5. CASE LookUp(c)
    <2>1. PICK i \in OpIds :
            /\ call[c].phase = "next"
            /\ call' = [call EXCEPT ![c] = IF i \in received THEN Report(call[c], i)
                                                            ELSE Begin(call[c], i)]
            /\ UNCHANGED <<received, copies>>
      BY <1>1, <1>5 DEF LookUp, IsNext
    <2>2. Begin(call[c], i) # Report(call[c], i)
      BY <1>1, RequestStepFields
    <2>3. CASE i \in received
      BY <1>3, <1>4, <2>1, <2>3
    <2>4. CASE i \notin received
      BY <1>3, <1>4, <2>1, <2>2, <2>4
    <2> QED  BY <2>3, <2>4
  <1>6. CASE \E entity : Process(c, entity)
    <2>1. PICK entity : Process(c, entity)
      BY <1>6
    <2>2. PICK d \in Devices, i \in OpIds : d = call[c].dev /\ i = call[c].op
      BY <1>1, <1>2, <2>1 DEF Process
    <2>3. call[c].phase = "process" /\ received' = received
      BY <2>1 DEF Process
    <2>4. CASE Accepts(d, entity)
      <3>1. /\ copies' = [copies EXCEPT ![d][i] = RowsAfterInsert(entity, copies[d][i])]
            /\ call' = [call EXCEPT ![c] = [call[c] EXCEPT !.phase = "record"]]
        BY <1>1, <2>1, <2>2, <2>4 DEF Process
      <3>2. RowsAfterInsert(entity, copies[d][i]) \in Nat \ {0}
        BY <1>1, <2>2 DEF RowsAfterInsert
      <3>3. ServerGrows /\ copies'[d][i] > 0
        BY <1>1, <2>2, <2>3, <3>1, <3>2 DEF ServerGrows, Stored
      <3>4. ReceivedStored'
        BY <1>1, <2>3, <3>3 DEF ReceivedStored, ServerGrows
      <3>5. \A j \in call[c].processed : copies'[d][j] > 0 \/ j \in received'
        BY <1>1, <1>2, <2>2, <2>3, <3>3 DEF ServerGrows, Stored
      <3> DEFINE r == [call[c] EXCEPT !.phase = "record"]
      <3>6. /\ r.dev = d /\ r.op = i /\ r.client = call[c].client
            /\ r.processed = call[c].processed
        BY <1>1, <2>2 DEF CallState
      <3>7. call' = [call EXCEPT ![c] = r]
        BY <3>1
      <3> HIDE DEF r
      <3>8. /\ d = call[c].dev
            /\ call[c].client # NoClient => call[c].client \in Engines /\ d = DeviceOf(call[c].client)
        BY <1>2, <2>2, <2>3
      <3>9. AnswersTrue' /\ AnswersOwn'
        BY <2>2, <3>3, <3>5, <3>6, <3>7, <3>8, AnswersUpdate
      <3> QED  BY <3>3, <3>4, <3>9
    <2>5. CASE ~Accepts(d, entity)
      <3>1. call' = [call EXCEPT ![c] = Refuse(call[c], i)] /\ UNCHANGED copies
        BY <1>1, <2>1, <2>2, <2>5 DEF Process
      <3>2. Refuse(call[c], i) # Report(call[c], i) \/ i \in call[c].processed
        BY <1>1, RequestStepFields
      <3>3. copies[call[c].dev][i] > 0 \/ i \in received \/ Refuse(call[c], i) # Report(call[c], i)
        BY <1>2, <2>3, <3>2
      <3> QED  BY <1>3, <1>4, <2>3, <3>1, <3>3
    <2> QED  BY <2>4, <2>5
  <1>7. CASE \E recorded \in BOOLEAN : Record(c, recorded)
    <2>1. PICK d \in Devices, i \in OpIds : d = call[c].dev /\ i = call[c].op
      BY <1>1, <1>2, <1>7 DEF Record
    <2>2. /\ call[c].phase = "record" /\ copies[d][i] > 0
          /\ call' = [call EXCEPT ![c] = Report(call[c], i)]
          /\ received \subseteq received' /\ received' \subseteq received \cup {i}
          /\ UNCHANGED copies
      BY <1>1, <1>2, <1>7, <2>1 DEF Record
    <2>3. ServerGrows /\ ReceivedStored'
      BY <2>1, <2>2 DEF ServerGrows, ReceivedStored, Stored
    <2> QED  BY <1>4, <2>1, <2>2, <2>3
  <1>8. CASE StatementFails(c)
    <2>1. PICK i \in OpIds : /\ IsNext(c, i) \/ call[c].phase = "process"
                             /\ call' = [call EXCEPT ![c] = Refuse(call[c], i)]
                             /\ UNCHANGED <<received, copies>>
      BY <1>1, <1>8 DEF StatementFails
    <2>2. call[c].phase # "free"
      BY <2>1 DEF IsNext
    <2>3. Refuse(call[c], i) # Report(call[c], i) \/ i \in call[c].processed
      BY <1>1, RequestStepFields
    <2>4. copies[call[c].dev][i] > 0 \/ i \in received \/ Refuse(call[c], i) # Report(call[c], i)
      BY <1>2, <2>2, <2>3
    <2> QED  BY <1>3, <1>4, <2>1, <2>2, <2>4
  <1>9. CASE Abandon(c)
    BY <1>1, <1>3, <1>9, FreeCallType, AnswersUpdate DEF Abandon
  <1>10. CASE \E entity : WriteInDoubt(c, entity)
    <2>1. PICK entity : WriteInDoubt(c, entity)
      BY <1>10
    <2>2. PICK d, i : /\ d \in Devices /\ i \in OpIds
                      /\ d = call[c].dev /\ i = call[c].op
      BY <1>1, <1>2, <2>1 DEF WriteInDoubt
    <2>3. /\ call[c].phase = "process" /\ received' = received
          /\ copies' = [copies EXCEPT ![d][i] = RowsAfterInsert(entity, copies[d][i])]
          /\ call' = [call EXCEPT ![c] = Refuse(call[c], i)]
      BY <1>1, <2>1, <2>2 DEF WriteInDoubt
    <2>4. RowsAfterInsert(entity, copies[d][i]) \in Nat \ {0}
      BY <1>1, <2>2 DEF RowsAfterInsert
    <2>5. ServerGrows /\ copies'[d][i] > 0
      BY <1>1, <2>2, <2>3, <2>4 DEF ServerGrows, Stored
    <2>6. ReceivedStored'
      BY <1>1, <2>3, <2>5 DEF ReceivedStored, ServerGrows
    <2> QED  BY <1>4, <2>2, <2>3, <2>5, <2>6
  <1> QED  BY <1>5, <1>6, <1>7, <1>8, <1>9, <1>10
(* Which rows a step of the client leaves in a table.                      *)
LEMMA SameRows ==
  ASSUME NEW t, NEW ids, NEW s
  PROVE  /\ DOMAIN SetStatus(t, ids, s) = DOMAIN t
         /\ DOMAIN CountFailure(t, ids, s) = DOMAIN t
  BY DEF SetStatus, CountFailure

LEMMA RowsKept ==
  ASSUME ClientTypeOK, NEW e \in Engines,
         \/ StartCycle(e) \/ SelectPending(e) \/ MarkNextError(e)
         \/ FinishBatch(e) \/ FinishTurf(e) \/ SelectForTurf(e)
         \/ SelectRetriable(e) \/ ResetRetriable(e)
         \/ MarkBatch(e) \/ CallFails(e) \/ KillIsolate(e)
  PROVE  /\ UNCHANGED <<local, dismissed>>
         /\ \A d \in Devices : DOMAIN outbox'[d] = DOMAIN outbox[d]
  <1> DEFINE D == DeviceOf(e)
  <1>1. D \in Devices /\ DOMAIN outbox = Devices
    BY EngineType DEF ClientTypeOK
  <1>2. ASSUME NEW t, DOMAIN t = DOMAIN outbox[D], outbox' = [outbox EXCEPT ![D] = t]
        PROVE  \A d \in Devices : DOMAIN outbox'[d] = DOMAIN outbox[d]
    BY <1>1, <1>2
  <1>3. CASE \/ StartCycle(e) \/ SelectPending(e) \/ SelectForTurf(e)
             \/ SelectRetriable(e) \/ KillIsolate(e)
    BY <1>3 DEF StartCycle, SelectPending, SelectForTurf, SelectRetriable, KillIsolate
  <1>4. CASE MarkNextError(e)
    <2>1. PICK i : outbox' = [outbox EXCEPT ![D] = MarkFailedWithRetry(outbox[D], {i})]
      BY <1>1, <1>4 DEF MarkNextError
    <2> QED  BY <1>2, <1>4, <2>1, SameRows DEF MarkNextError, MarkFailedWithRetry
  <1>5. CASE FinishBatch(e)
    <2>1. outbox' = [outbox EXCEPT ![D] = MarkFailed(outbox[D], engine[e].batch)]
      BY <1>1, <1>5 DEF FinishBatch
    <2> QED  BY <1>2, <1>5, <2>1, SameRows DEF FinishBatch, MarkFailed
  <1>6. CASE ResetRetriable(e)
    <2>1. outbox' = [outbox EXCEPT ![D] = ResetToPending(outbox[D], engine[e].batch)]
      BY <1>1, <1>6 DEF ResetRetriable
    <2> QED  BY <1>2, <1>6, <2>1, SameRows DEF ResetRetriable, ResetToPending
  <1>7. CASE MarkBatch(e)
    <2>1. outbox' = [outbox EXCEPT ![D] = MarkInProgress(outbox[D], engine[e].batch)]
      BY <1>1, <1>7 DEF MarkBatch
    <2> QED  BY <1>2, <1>7, <2>1, SameRows DEF MarkBatch, MarkInProgress
  <1>8. CASE CallFails(e)
    <2>1. outbox' = [outbox EXCEPT ![D] = ResetInProgressToPending(outbox[D])]
      BY <1>1, <1>8 DEF CallFails
    <2> QED  BY <1>2, <1>8, <2>1, SameRows DEF CallFails, ResetInProgressToPending
  <1>9. CASE FinishTurf(e)
    <2>1. outbox' = [outbox EXCEPT ![D] = ResetToPending(outbox[D], engine[e].batch)]
      BY <1>1, <1>9 DEF FinishTurf
    <2> QED  BY <1>2, <1>9, <2>1, SameRows DEF FinishTurf, ResetToPending
  <1> QED  BY <1>3, <1>4, <1>5, <1>6, <1>7, <1>8, <1>9

(* A recorded entity has its row from the start.                           *)
LEMMA WriteDelivery ==
  ASSUME TypeOK, DroppedWasKnown, NEW d \in Devices, NEW entity,
         WriteWithOutbox(d, entity), UNCHANGED <<dismissed, received, copies>>
  PROVE  DroppedWasKnown'
  <1> DEFINE n == Len(local[d]) + 1
  <1>1. local[d] \in Seq(Entity) /\ DOMAIN outbox = Devices /\ DOMAIN local = Devices
    BY DEF TypeOK, ClientTypeOK
  <1>2. /\ local' = [local EXCEPT ![d] = Append(local[d], entity)]
        /\ outbox' = [outbox EXCEPT ![d] = InsertOperation(outbox[d], n)]
    BY <1>1 DEF WriteWithOutbox
  <1>3. DOMAIN Append(local[d], entity) = DOMAIN local[d] \cup {n}
    BY <1>1
  <1>4. DOMAIN InsertOperation(outbox[d], n) = DOMAIN outbox[d] \cup {n}
    BY DEF InsertOperation
  <1>5. ASSUME NEW b \in Devices, NEW i \in DOMAIN local'[b]
        PROVE  i \in DOMAIN outbox'[b] \/ Stored(b, i) \/ i \in dismissed[b] \/ i \in received
    <2>1. CASE b = d
      BY <1>1, <1>2, <1>3, <1>4, <1>5, <2>1 DEF DroppedWasKnown, Held
    <2>2. CASE b # d
      BY <1>1, <1>2, <1>5, <2>2 DEF DroppedWasKnown, Held
    <2> QED  BY <2>1, <2>2
  <1> QED  BY <1>5 DEF DroppedWasKnown, Held, Stored

LEMMA InitDelivery == Init => DeliveryInv
  <1>1. Init => ReceivedStored /\ AnswersTrue /\ AnswersOwn
    BY DEF Init, ServerInit, ReceivedStored, AnswersTrue, AnswersOwn, FreeCall
  <1>2. Init => DroppedWasKnown
    BY DEF Init, ClientInit, DroppedWasKnown
  <1> QED  BY <1>1, <1>2, InitType DEF DeliveryInv

LEMMA NextDelivery == DeliveryInv /\ [Next]_vars => DeliveryInv'
  <1> SUFFICES ASSUME DeliveryInv, [Next]_vars PROVE DeliveryInv'
    OBVIOUS
  <1>1. TypeOK /\ ClientTypeOK /\ ServerTypeOK /\ TypeOK'
    BY NextType DEF DeliveryInv, TypeOK
  <1>2. ReceivedStored /\ AnswersTrue /\ AnswersOwn /\ DroppedWasKnown
    BY DEF DeliveryInv
  <1>3. UNCHANGED <<received, copies>> => ServerGrows /\ ReceivedStored'
    BY <1>2, UnchangedServerGrows DEF ReceivedStored, Stored
  <1>4. UNCHANGED serverVars => AnswersTrue' /\ AnswersOwn'
    BY <1>2 DEF serverVars, AnswersTrue, AnswersOwn, Stored
  <1>5. ServerGrows /\ UNCHANGED clientVars => DroppedWasKnown'
    BY <1>1, <1>2, DroppedKept DEF clientVars
  <1> SUFFICES ReceivedStored' /\ AnswersTrue' /\ AnswersOwn' /\ DroppedWasKnown'
    BY <1>1 DEF DeliveryInv
  <1>6. CASE RecordFieldWork
    <2>1. PICK d \in Devices : \/ SaveDoorKnock(d) \/ SavePhoneCall(d) \/ SaveNextPart(d)
                               \/ AddNote(d, "voter_note") \/ AddNote(d, "task_note")
      BY <1>6 DEF RecordFieldWork
    <2>2. UNCHANGED <<dismissed, received, copies>> /\ UNCHANGED serverVars
      BY <1>6, <2>1 DEF RecordFieldWork, serverVars, SaveDoorKnock, SavePhoneCall,
                        SaveContact, SaveNextPart, AddNote
    <2>3. \E entity : WriteWithOutbox(d, entity)
      BY <2>1 DEF SaveDoorKnock, SavePhoneCall, SaveContact, SaveNextPart, AddNote
    <2> QED  BY <1>1, <1>2, <1>3, <1>4, <2>2, <2>3, WriteDelivery
  <1>7. CASE UserStep
    <2>1. UNCHANGED <<local, received, copies>> /\ UNCHANGED serverVars
      BY <1>7 DEF UserStep, serverVars, RetryDeadLetter, DismissDeadLetter
    <2>2. PICK d \in Devices, i \in OpIds : RetryDeadLetter(d, i) \/ DismissDeadLetter(d, i)
      BY <1>7 DEF UserStep
    <2>3. DOMAIN outbox = Devices /\ dismissed \in [Devices -> SUBSET OpIds]
      BY <1>1 DEF ClientTypeOK
    <2>4. CASE RetryDeadLetter(d, i)
      <3>1. outbox' = [outbox EXCEPT ![d] = ResetToPending(outbox[d], {i})]
        BY <2>3, <2>4 DEF RetryDeadLetter
      <3>2. \A b \in Devices : DOMAIN outbox'[b] = DOMAIN outbox[b]
        BY <2>3, <3>1, SameRows DEF ResetToPending
      <3> QED  BY <1>1, <1>2, <1>3, <1>4, <2>1, <2>4, <3>2, DroppedKept DEF RetryDeadLetter
    <2>5. CASE DismissDeadLetter(d, i)
      <3>1. /\ outbox' = [outbox EXCEPT ![d] = MarkSynced(outbox[d], {i})]
            /\ dismissed' = [dismissed EXCEPT ![d] = dismissed[d] \cup {i}]
        BY <2>3, <2>5 DEF DismissDeadLetter
      <3>2. \A b \in Devices : /\ DOMAIN outbox[b] \subseteq DOMAIN outbox'[b] \cup dismissed'[b]
                               /\ dismissed[b] \subseteq dismissed'[b]
        BY <2>3, <3>1 DEF MarkSynced
      <3>3. DroppedWasKnown'
        BY <1>2, <2>1, <3>2 DEF DroppedWasKnown, Held, Stored
      <3> QED  BY <1>3, <1>4, <2>1, <3>3
    <2> QED  BY <2>2, <2>4, <2>5
  <1>8. ASSUME NEW e \in Engines, LocalStep(e)
        PROVE  ReceivedStored' /\ AnswersTrue' /\ AnswersOwn' /\ DroppedWasKnown'
    <2>1. UNCHANGED <<local, dismissed>> /\ \A d \in Devices : DOMAIN outbox'[d] = DOMAIN outbox[d]
      BY <1>1, <1>8, RowsKept DEF LocalStep
    <2>2. UNCHANGED <<received, copies>> /\ UNCHANGED serverVars
      BY <1>8 DEF LocalStep, serverVars
    <2> QED  BY <1>1, <1>2, <1>3, <1>4, <2>1, <2>2, DroppedKept
  <1>8a. ASSUME NEW e \in Engines, RemoveTurf(e)
         PROVE  ReceivedStored' /\ AnswersTrue' /\ AnswersOwn' /\ DroppedWasKnown'
    <2>1. UNCHANGED <<local, dismissed>> /\ \A d \in Devices : DOMAIN outbox'[d] = DOMAIN outbox[d]
      BY <1>1, <1>8a, RowsKept DEF RemoveTurf
    <2>2. UNCHANGED <<received, copies>> /\ UNCHANGED serverVars
      BY <1>8a DEF RemoveTurf, serverVars
    <2> QED  BY <1>1, <1>2, <1>3, <1>4, <2>1, <2>2, DroppedKept
  <1>9. ASSUME NEW e \in Engines, SendBatch(e)
        PROVE  ReceivedStored' /\ AnswersTrue' /\ AnswersOwn' /\ DroppedWasKnown'
    <2>1. UNCHANGED <<local, dismissed>> /\ \A d \in Devices : DOMAIN outbox'[d] = DOMAIN outbox[d]
      BY <1>1, <1>9, RowsKept DEF SendBatch
    <2>2. PICK c \in Calls :
            call' = [call EXCEPT ![c] = NewCall(e, DeviceOf(e), engine[e].batch)]
      BY <1>9 DEF SendBatch
    <2>3. UNCHANGED <<received, copies>>
      BY <1>9 DEF SendBatch
    <2>4. /\ NewCall(e, DeviceOf(e), engine[e].batch).dev = DeviceOf(e)
          /\ NewCall(e, DeviceOf(e), engine[e].batch).client = e
          /\ NewCall(e, DeviceOf(e), engine[e].batch).processed = {}
          /\ NewCall(e, DeviceOf(e), engine[e].batch).phase = "next"
          /\ DeviceOf(e) \in Devices
      BY <1>1, EngineType DEF NewCall
    <2>5. AnswersTrue' /\ AnswersOwn'
      BY <1>1, <1>2, <1>3, <2>2, <2>3, <2>4, AnswersUpdate
    <2> QED  BY <1>1, <1>2, <1>3, <2>1, <2>3, <2>5, DroppedKept
  <1>10. ASSUME NEW e \in Engines, ReceiveAnswer(e)
         PROVE  ReceivedStored' /\ AnswersTrue' /\ AnswersOwn' /\ DroppedWasKnown'
    <2>1. PICK c \in Calls : /\ call[c].client = e /\ Answered(c)
                             /\ TakeAnswer(e, call[c].processed, call[c].errors)
                             /\ call' = [call EXCEPT ![c] = FreeCall]
      BY <1>10 DEF ReceiveAnswer
    <2>2. UNCHANGED <<received, copies, local, dismissed>>
      BY <1>10, <2>1 DEF ReceiveAnswer, TakeAnswer
    <2>3. PICK d \in Devices : d = DeviceOf(e)
      BY <1>1, EngineType
    <2>4. call[c].dev = d
      BY <1>2, <2>1, <2>3, PushAssumption DEF AnswersOwn, Answered
    <2>5. \A i \in call[c].processed : Stored(d, i) \/ i \in received
      BY <1>2, <2>1, <2>4 DEF AnswersTrue, Answered
    <2>6. DOMAIN outbox = Devices
      BY <1>1 DEF ClientTypeOK
    <2>7. \A b \in Devices : \A i \in DOMAIN outbox[b] :
            i \in DOMAIN outbox'[b] \/ (b = d /\ i \in call[c].processed)
      BY <2>1, <2>3, <2>6 DEF TakeAnswer, MarkSynced
    <2>8. DroppedWasKnown'
      BY <1>2, <2>2, <2>5, <2>7 DEF DroppedWasKnown, Held, Stored
    <2>9. AnswersTrue' /\ AnswersOwn'
      BY <1>1, <1>2, <1>3, <2>1, <2>2, FreeCallType, AnswersUpdate
    <2> QED  BY <1>3, <2>2, <2>8, <2>9
  <1>11. ASSUME NEW e \in Engines, LoseCall(e) \/ Kill(e)
         PROVE  ReceivedStored' /\ AnswersTrue' /\ AnswersOwn' /\ DroppedWasKnown'
    <2>1. call' = Orphan(e) /\ UNCHANGED <<received, copies>>
      BY <1>11 DEF LoseCall, Kill
    <2>2. UNCHANGED <<local, dismissed>> /\ \A d \in Devices : DOMAIN outbox'[d] = DOMAIN outbox[d]
      BY <1>1, <1>11, RowsKept DEF LoseCall, Kill
    <2> QED  BY <1>1, <1>2, <1>3, <2>1, <2>2, OrphanAnswers, DroppedKept
  <1>12. ASSUME NEW c \in Calls, ServerStep(c) \/ ServerFault(c)
         PROVE  ReceivedStored' /\ AnswersTrue' /\ AnswersOwn' /\ DroppedWasKnown'
    <2>1. /\ UNCHANGED clientVars
          /\ \/ LookUp(c) \/ \E entity : Process(c, entity)
             \/ \E recorded \in BOOLEAN : Record(c, recorded)
             \/ StatementFails(c) \/ Abandon(c)
         \/ \E entity : WriteInDoubt(c, entity)
      BY <1>12 DEF ServerStep, ServerFault
    <2>2. ServerGrows /\ ReceivedStored' /\ AnswersTrue' /\ AnswersOwn'
      BY <1>1, <1>2, <2>1, ServerStepAnswers
    <2>3. UNCHANGED clientVars
      BY <1>12 DEF ServerStep, ServerFault
    <2> QED  BY <1>5, <2>2, <2>3
  <1>13. CASE UNCHANGED vars
    <2>1. UNCHANGED clientVars /\ UNCHANGED serverVars /\ UNCHANGED <<received, copies>>
      BY <1>13 DEF vars, serverVars
    <2> QED  BY <1>3, <1>4, <1>5, <2>1
  <1> QED
    BY <1>6, <1>7, <1>8, <1>9, <1>10, <1>11, <1>12, <1>13, <1>8a DEF Next

(* On every device of a company, work the device no longer holds is on the *)
(* server, was dismissed by the user, or has an id the server recorded for *)
(* SOME device: what a failed call, a refused operation or a killed engine *)
(* leaves undone is still in the outbox.                                   *)
THEOREM DroppedKnown == Spec => []DroppedWasKnown
  <1>1. DeliveryInv => DroppedWasKnown
    BY DEF DeliveryInv
  <1> QED  BY <1>1, InitDelivery, NextDelivery, PTL DEF Spec

(* With a single device the recorded ids are its own, and nothing is lost. *)
(* (With two devices the property fails: their row ids coincide.)          *)
THEOREM NothingLostOnOneDevice ==
  ASSUME \A a, b \in Devices : a = b
  PROVE  Spec => []DroppedWasStored
  <1>1. DeliveryInv => DroppedWasStored
    BY DEF DeliveryInv, ReceivedStored, DroppedWasKnown, DroppedWasStored
  <1> QED  BY <1>1, InitDelivery, NextDelivery, PTL DEF Spec

-----------------------------------------------------------------------------
(* Rows in progress.  An engine has refusals to write only while it works  *)
(* through an answer, and none for a turf's push, whose errors the code    *)
(* ignores; this is what lets FinishTurf end with the batch alone.         *)

RefusalsWhileAnswering ==
  \A e \in Engines :
    engine[e].errors # {} => engine[e].pc = "errors" /\ ~engine[e].turf

RowsInv == TypeOK /\ RefusalsWhileAnswering /\ NoStrandedRow

Holds(es, i) == es.pc \in {"wait", "errors"} /\ i \in es.batch \cup es.errors

(* One engine changes, and with it the table of its device: it suffices    *)
(* that a row in progress was so before unless the engine holds it now,    *)
(* and that the engine lets go of no row that stays in progress.           *)
LEMMA RowsUpdate ==
  ASSUME TypeOK, RefusalsWhileAnswering, NoStrandedRow, NEW e \in Engines,
         NEW t, \/ outbox' = [outbox EXCEPT ![DeviceOf(e)] = t]
                \/ outbox' = outbox /\ t = outbox[DeviceOf(e)],
         NEW es, engine' = [engine EXCEPT ![e] = es],
         es.errors # {} => es.pc = "errors" /\ ~es.turf,
         \A i \in IdsWithStatus(t, "in_progress") :
           \/ Holds(es, i)
           \/ /\ i \in IdsWithStatus(outbox[DeviceOf(e)], "in_progress")
              /\ ~Holds(engine[e], i),
         UNCHANGED kills
  PROVE  RefusalsWhileAnswering' /\ NoStrandedRow'
  <1> DEFINE D == DeviceOf(e)
  <1>1. /\ D \in Devices /\ DOMAIN outbox = Devices /\ engine \in [Engines -> EngineState]
        /\ kills \in Nat
    BY EngineType DEF TypeOK, ClientTypeOK, CountTypeOK
  <1>2. engine'[e] = es /\ \A b \in Engines : b # e => engine'[b] = engine[b]
    BY <1>1
  <1>3. RefusalsWhileAnswering'
    BY <1>2 DEF RefusalsWhileAnswering
  <1>4. ASSUME kills = 0, NEW d \in Devices, NEW i \in IdsWithStatus(outbox'[d], "in_progress")
        PROVE  \E b \in Engines : DeviceOf(b) = d /\ Holds(engine'[b], i)
    <2>1. CASE d # D
      <3>1. i \in IdsWithStatus(outbox[d], "in_progress")
        BY <1>1, <1>4, <2>1
      <3>2. PICK b \in Engines : DeviceOf(b) = d /\ Holds(engine[b], i)
        BY <1>4, <3>1 DEF NoStrandedRow, Holds
      <3> QED  BY <1>2, <2>1, <3>2
    <2>2. CASE d = D
      <3>1. i \in IdsWithStatus(t, "in_progress")
        BY <1>1, <1>4, <2>2
      <3>2. CASE Holds(es, i)
        BY <1>2, <2>2, <3>2
      <3>3. CASE /\ i \in IdsWithStatus(outbox[d], "in_progress")
                 /\ ~Holds(engine[e], i)
        <4>1. PICK b \in Engines : DeviceOf(b) = d /\ Holds(engine[b], i)
          BY <1>4, <3>3 DEF NoStrandedRow, Holds
        <4> QED  BY <1>2, <3>3, <4>1
      <3> QED  BY <2>2, <3>1, <3>2, <3>3
    <2> QED  BY <2>1, <2>2
  <1>5. NoStrandedRow'
    BY <1>1, <1>4 DEF NoStrandedRow, Holds
  <1> QED  BY <1>3, <1>5

(* The table alone changes, and puts no row in progress.                   *)
LEMMA RowsTableUpdate ==
  ASSUME TypeOK, RefusalsWhileAnswering, NoStrandedRow, NEW d \in Devices,
         NEW t, outbox' = [outbox EXCEPT ![d] = t],
         IdsWithStatus(t, "in_progress") \subseteq IdsWithStatus(outbox[d], "in_progress"),
         UNCHANGED <<engine, kills>>
  PROVE  RefusalsWhileAnswering' /\ NoStrandedRow'
  <1>1. DOMAIN outbox = Devices
    BY DEF TypeOK, ClientTypeOK
  <1>2. \A b \in Devices : IdsWithStatus(outbox'[b], "in_progress")
                             \subseteq IdsWithStatus(outbox[b], "in_progress")
    BY <1>1
  <1> QED  BY <1>2 DEF RefusalsWhileAnswering, NoStrandedRow

(* The rows in progress after each statement.                              *)
LEMMA InProgressRows ==
  ASSUME NEW t, NEW ids
  PROVE  /\ IdsWithStatus(ResetToPending(t, ids), "in_progress")
              = IdsWithStatus(t, "in_progress") \ ids
         /\ IdsWithStatus(MarkFailed(t, ids), "in_progress")
              = IdsWithStatus(t, "in_progress") \ ids
         /\ IdsWithStatus(MarkFailedWithRetry(t, ids), "in_progress")
              = IdsWithStatus(t, "in_progress") \ ids
         /\ IdsWithStatus(MarkSynced(t, ids), "in_progress")
              = IdsWithStatus(t, "in_progress") \ ids
         /\ IdsWithStatus(MarkInProgress(t, ids), "in_progress")
              \subseteq IdsWithStatus(t, "in_progress") \cup ids
         /\ IdsWithStatus(ResetInProgressToPending(t), "in_progress") = {}
  <1>1. /\ IdsWithStatus(ResetToPending(t, ids), "in_progress")
             = IdsWithStatus(t, "in_progress") \ ids
        /\ IdsWithStatus(MarkInProgress(t, ids), "in_progress")
             \subseteq IdsWithStatus(t, "in_progress") \cup ids
    BY DEF IdsWithStatus, SetStatus, MarkInProgress, ResetToPending
  <1>2. /\ IdsWithStatus(MarkFailed(t, ids), "in_progress")
             = IdsWithStatus(t, "in_progress") \ ids
        /\ IdsWithStatus(MarkFailedWithRetry(t, ids), "in_progress")
             = IdsWithStatus(t, "in_progress") \ ids
    BY DEF IdsWithStatus, CountFailure, MarkFailed, MarkFailedWithRetry
  <1>3. IdsWithStatus(MarkSynced(t, ids), "in_progress")
              = IdsWithStatus(t, "in_progress") \ ids
    BY DEF IdsWithStatus, MarkSynced
  <1>4. IdsWithStatus(ResetInProgressToPending(t), "in_progress") = {}
    BY DEF IdsWithStatus, SetStatus, ResetInProgressToPending
  <1> QED  BY <1>1, <1>2, <1>3, <1>4

LEMMA InsertedIsPending ==
  ASSUME NEW t, NEW i
  PROVE  IdsWithStatus(InsertOperation(t, i), "in_progress")
              \subseteq IdsWithStatus(t, "in_progress")
  BY DEF IdsWithStatus, InsertOperation, FreshRow

LEMMA EngineRows ==
  ASSUME TypeOK, RefusalsWhileAnswering, NoStrandedRow, NEW e \in Engines,
         \/ StartCycle(e) \/ SelectPending(e) \/ MarkNextError(e)
         \/ FinishBatch(e) \/ FinishTurf(e) \/ SelectForTurf(e)
         \/ SelectRetriable(e) \/ ResetRetriable(e) \/ MarkBatch(e)
         \/ (\E processed, refused \in SUBSET OpIds : TakeAnswer(e, processed, refused))
         \/ CallFails(e),
         UNCHANGED kills
  PROVE  RefusalsWhileAnswering' /\ NoStrandedRow'
  <1> DEFINE D == DeviceOf(e)
  <1>1. /\ D \in Devices /\ DOMAIN outbox = Devices /\ engine[e] \in EngineState
        /\ engine \in [Engines -> EngineState]
    BY EngineType DEF TypeOK, ClientTypeOK
  <1>2. engine[e].errors # {} => engine[e].pc = "errors" /\ ~engine[e].turf
    BY DEF RefusalsWhileAnswering
  <1>3. ASSUME NEW es, engine' = [engine EXCEPT ![e] = es],
               es.errors = {}, ~(engine[e].pc \in {"wait", "errors"}), UNCHANGED outbox
        PROVE  RefusalsWhileAnswering' /\ NoStrandedRow'
    BY <1>3, RowsUpdate DEF Holds
  <1>4. \A pc, batch : At(pc, batch).errors = {} /\ Idle.errors = {}
    BY DEF At, Idle
  <1>5. CASE StartCycle(e) \/ SelectPending(e) \/ SelectRetriable(e)
    BY <1>3, <1>4, <1>5 DEF StartCycle, SelectPending, SelectRetriable
  <1>6. CASE SelectForTurf(e)
    <2>1. PICK ops : /\ engine[e].pc = "idle" /\ UNCHANGED outbox
                     /\ engine' = [engine EXCEPT ![e] = [At("mark", ops) EXCEPT !.turf = TRUE]]
      BY <1>6 DEF SelectForTurf
    <2>2. [At("mark", ops) EXCEPT !.turf = TRUE].errors = {}
      BY DEF At
    <2> QED  BY <1>3, <2>1, <2>2
  <1>7. CASE MarkNextError(e)
    <2>1. PICK i \in engine[e].errors :
            /\ engine[e].pc = "errors"
            /\ outbox' = [outbox EXCEPT ![D] = MarkFailedWithRetry(outbox[D], {i})]
            /\ engine' = [engine EXCEPT ![e].errors = engine[e].errors \ {i}]
      BY <1>7, <1>1 DEF MarkNextError
    <2> DEFINE es == [engine[e] EXCEPT !.errors = engine[e].errors \ {i}]
    <2>2. engine' = [engine EXCEPT ![e] = es]
      BY <1>1, <2>1
    <2>3. /\ es.errors = engine[e].errors \ {i} /\ es.pc = engine[e].pc
          /\ es.batch = engine[e].batch /\ es.turf = engine[e].turf
      BY <1>1 DEF EngineState
    <2> HIDE DEF es
    <2>4. IdsWithStatus(MarkFailedWithRetry(outbox[D], {i}), "in_progress")
            = IdsWithStatus(outbox[D], "in_progress") \ {i}
      BY InProgressRows
    <2>5. es.errors # {} => es.pc = "errors" /\ ~es.turf
      BY <1>2, <2>3
    <2>6. \A j \in IdsWithStatus(MarkFailedWithRetry(outbox[D], {i}), "in_progress") :
            \/ Holds(es, j)
            \/ j \in IdsWithStatus(outbox[D], "in_progress") /\ ~Holds(engine[e], j)
      BY <2>3, <2>4 DEF Holds
    <2> QED  BY <2>1, <2>2, <2>5, <2>6, RowsUpdate
  <1>8. CASE FinishBatch(e) \/ FinishTurf(e)
    <2>1. /\ engine[e].pc = "errors" /\ engine[e].errors = {}
          /\ engine'[e].errors = {} /\ engine' = [engine EXCEPT ![e] = engine'[e]]
      BY <1>1, <1>2, <1>4, <1>8 DEF FinishBatch, FinishTurf
    <2>2. PICK t \in {MarkFailed(outbox[D], engine[e].batch),
                      ResetToPending(outbox[D], engine[e].batch)} :
            outbox' = [outbox EXCEPT ![D] = t]
      BY <1>1, <1>8 DEF FinishBatch, FinishTurf
    <2>3. IdsWithStatus(t, "in_progress")
            = IdsWithStatus(outbox[D], "in_progress") \ engine[e].batch
      BY <2>2, InProgressRows
    <2> QED  BY <2>1, <2>2, <2>3, RowsUpdate DEF Holds
  <1>9. CASE ResetRetriable(e)
    <2>1. IdsWithStatus(ResetToPending(outbox[D], engine[e].batch), "in_progress")
            \subseteq IdsWithStatus(outbox[D], "in_progress")
      BY InProgressRows
    <2>2. outbox' = [outbox EXCEPT ![D] = ResetToPending(outbox[D], engine[e].batch)]
      BY <1>1, <1>9 DEF ResetRetriable
    <2>3. engine[e].pc = "reset" /\ engine' = [engine EXCEPT ![e] = Idle]
      BY <1>9 DEF ResetRetriable
    <2> QED  BY <1>4, <2>1, <2>2, <2>3, RowsUpdate DEF Holds
  <1>10. CASE MarkBatch(e)
    <2> DEFINE es == [engine[e] EXCEPT !.pc = "wait"]
    <2>1. /\ engine[e].pc = "mark" /\ engine' = [engine EXCEPT ![e] = es]
          /\ outbox' = [outbox EXCEPT ![D] = MarkInProgress(outbox[D], engine[e].batch)]
      BY <1>1, <1>10 DEF MarkBatch
    <2>2. es.pc = "wait" /\ es.batch = engine[e].batch /\ es.errors = {}
      BY <1>1, <1>2, <2>1 DEF EngineState
    <2> HIDE DEF es
    <2>3. \A j \in IdsWithStatus(MarkInProgress(outbox[D], engine[e].batch), "in_progress") :
            \/ Holds(es, j)
            \/ j \in IdsWithStatus(outbox[D], "in_progress") /\ ~Holds(engine[e], j)
      BY <2>1, <2>2, InProgressRows DEF Holds
    <2> QED  BY <2>1, <2>2, <2>3, RowsUpdate
  <1>11. CASE \E processed, refused \in SUBSET OpIds : TakeAnswer(e, processed, refused)
    <2>1. PICK processed \in SUBSET OpIds, refused \in SUBSET OpIds :
            TakeAnswer(e, processed, refused)
      BY <1>11
    <2> DEFINE errors == IF engine[e].turf THEN {} ELSE refused
               es == [pc |-> "errors", batch |-> engine[e].batch \ (processed \cup errors),
                      errors |-> errors \cap engine[e].batch,
                      pushed |-> processed \cap engine[e].batch # {},
                      turf |-> engine[e].turf]
               t == MarkSynced(outbox[D], processed \cap engine[e].batch)
    <2>2. /\ engine[e].pc = "wait" /\ outbox' = [outbox EXCEPT ![D] = t]
          /\ engine' = [engine EXCEPT ![e] = es]
      BY <1>1, <2>1 DEF TakeAnswer
    <2>3. es.errors # {} => es.pc = "errors" /\ ~es.turf
      OBVIOUS
    <2>4. \A j \in engine[e].batch : Holds(es, j) \/ j \in processed \cap engine[e].batch
      BY DEF Holds
    <2>5. engine[e].errors = {}
      BY <1>2, <2>2
    <2>6. IdsWithStatus(t, "in_progress")
            = IdsWithStatus(outbox[D], "in_progress") \ (processed \cap engine[e].batch)
      BY InProgressRows
    <2> HIDE DEF es, t
    <2>7. \A j \in IdsWithStatus(t, "in_progress") :
            \/ Holds(es, j)
            \/ j \in IdsWithStatus(outbox[D], "in_progress") /\ ~Holds(engine[e], j)
      BY <2>4, <2>5, <2>6 DEF Holds
    <2> QED  BY <2>2, <2>3, <2>7, RowsUpdate
  <1>12. CASE CallFails(e)
    <2>1. outbox' = [outbox EXCEPT ![D] = ResetInProgressToPending(outbox[D])]
      BY <1>1, <1>12 DEF CallFails
    <2>2. engine' = [engine EXCEPT ![e] =
                       At(IF engine[e].turf THEN "select" ELSE "retry", {})]
      BY <1>12 DEF CallFails
    <2>3. IdsWithStatus(ResetInProgressToPending(outbox[D]), "in_progress") = {}
      BY InProgressRows
    <2> QED  BY <1>4, <2>1, <2>2, <2>3, RowsUpdate
  <1> QED
    BY <1>5, <1>6, <1>7, <1>8, <1>9, <1>10, <1>11, <1>12

LEMMA InitRows == Init => RowsInv
  <1>1. Init => RefusalsWhileAnswering /\ NoStrandedRow
    BY DEF Init, ClientInit, Idle, At, RefusalsWhileAnswering, NoStrandedRow, IdsWithStatus
  <1> QED  BY <1>1, InitType DEF RowsInv

LEMMA NextRows == RowsInv /\ [Next]_vars => RowsInv'
  <1> SUFFICES ASSUME RowsInv, [Next]_vars PROVE RowsInv'
    OBVIOUS
  <1>1. TypeOK /\ ClientTypeOK /\ TypeOK' /\ RefusalsWhileAnswering /\ NoStrandedRow
    BY NextType DEF RowsInv, TypeOK
  <1> SUFFICES RefusalsWhileAnswering' /\ NoStrandedRow'
    BY <1>1 DEF RowsInv
  <1>2. CASE RecordFieldWork
    <2>1. UNCHANGED <<engine, kills>>
      BY <1>2 DEF RecordFieldWork, countVars, SaveDoorKnock, SavePhoneCall, SaveContact,
                  SaveNextPart, AddNote
    <2>2. PICK d \in Devices : \E entity : WriteWithOutbox(d, entity)
      BY <1>2 DEF RecordFieldWork, SaveDoorKnock, SavePhoneCall, SaveContact,
                  SaveNextPart, AddNote
    <2>3. outbox' = [outbox EXCEPT ![d] = InsertOperation(outbox[d], Len(local[d]) + 1)]
      BY <1>1, <2>2 DEF WriteWithOutbox, ClientTypeOK
    <2>4. IdsWithStatus(InsertOperation(outbox[d], Len(local[d]) + 1), "in_progress")
            \subseteq IdsWithStatus(outbox[d], "in_progress")
      BY InsertedIsPending
    <2> QED  BY <1>1, <2>1, <2>3, <2>4, RowsTableUpdate
  <1>3. CASE UserStep
    <2>1. PICK d \in Devices, i \in OpIds : RetryDeadLetter(d, i) \/ DismissDeadLetter(d, i)
      BY <1>3 DEF UserStep
    <2>2. UNCHANGED <<engine, kills>>
      BY <1>3, <2>1 DEF UserStep, countVars, RetryDeadLetter, DismissDeadLetter
    <2>3. PICK t \in {ResetToPending(outbox[d], {i}), MarkSynced(outbox[d], {i})} :
            outbox' = [outbox EXCEPT ![d] = t]
      BY <1>1, <2>1 DEF RetryDeadLetter, DismissDeadLetter, ClientTypeOK
    <2>4. IdsWithStatus(t, "in_progress") \subseteq IdsWithStatus(outbox[d], "in_progress")
      BY <2>3, InProgressRows
    <2> QED  BY <1>1, <2>2, <2>3, <2>4, RowsTableUpdate
  <1>4. ASSUME NEW e \in Engines,
               LocalStep(e) \/ RemoveTurf(e) \/ SendBatch(e) \/ LoseCall(e)
        PROVE  RefusalsWhileAnswering' /\ NoStrandedRow'
    BY <1>1, <1>4, EngineRows DEF LocalStep, RemoveTurf, SendBatch, LoseCall, countVars
  <1>5. ASSUME NEW e \in Engines, ReceiveAnswer(e)
        PROVE  RefusalsWhileAnswering' /\ NoStrandedRow'
    <2>1. PICK c \in Calls : TakeAnswer(e, call[c].processed, call[c].errors)
      BY <1>5 DEF ReceiveAnswer
    <2>2. call[c].processed \in SUBSET OpIds /\ call[c].errors \in SUBSET OpIds
      BY <1>1, CallType DEF TypeOK
    <2>3. UNCHANGED kills
      BY <1>5 DEF ReceiveAnswer, countVars
    <2> QED  BY <1>1, <2>1, <2>2, <2>3, EngineRows
  <1>6. ASSUME NEW e \in Engines, Kill(e)
        PROVE  RefusalsWhileAnswering' /\ NoStrandedRow'
    <2>1. kills' # 0
      BY <1>1, <1>6 DEF Kill, TypeOK, CountTypeOK
    <2>2. engine' = [engine EXCEPT ![e] = Idle] /\ Idle.errors = {}
      BY <1>6 DEF Kill, KillIsolate, Idle, At
    <2>3. \A b \in Engines : engine'[b] \in {engine[b], Idle}
      BY <2>2, <1>1 DEF ClientTypeOK
    <2> QED  BY <1>1, <2>1, <2>2, <2>3 DEF RefusalsWhileAnswering, NoStrandedRow
  <1>7. CASE UNCHANGED <<outbox, engine, kills>>
    BY <1>1, <1>7 DEF RefusalsWhileAnswering, NoStrandedRow
  <1>8. ASSUME NEW c \in Calls, ServerStep(c) \/ ServerFault(c)
        PROVE  UNCHANGED <<outbox, engine, kills>>
    BY <1>8 DEF ServerStep, ServerFault, clientVars, countVars
  <1>9. UNCHANGED vars => UNCHANGED <<outbox, engine, kills>>
    BY DEF vars, clientVars, countVars
  <1> QED  BY <1>2, <1>3, <1>4, <1>5, <1>6, <1>7, <1>8, <1>9 DEF Next

(* As long as no isolate is killed, on any number of devices with any      *)
(* number of engines each, a row is in progress only while an engine of    *)
(* its device waits for the answer to it or works through that answer: the *)
(* answer deletes, refuses or leaves to FinishBatch every row it was sent  *)
(* for, and a call that throws resets them all.                            *)
THEOREM NoRowStranded == Spec => []NoStrandedRow
  <1>1. RowsInv => NoStrandedRow
    BY DEF RowsInv
  <1> QED  BY <1>1, InitRows, NextRows, PTL DEF Spec

-----------------------------------------------------------------------------
(* Only written work is selected, sent and stored.                         *)

BatchWritten == \A e \in Engines : engine[e].batch \subseteq DOMAIN local[DeviceOf(e)]

RequestWritten(r) ==
  r.phase # "free" =>
    /\ r.todo \subseteq DOMAIN local[r.dev]
    /\ r.phase \in {"process", "record"} => r.op \in DOMAIN local[r.dev]

CallsWritten == \A c \in Calls : RequestWritten(call[c])

StoredWritten == \A d \in Devices, i \in OpIds : Stored(d, i) => Written(d, i)

WrittenInv == DeliveryInv /\ BatchWritten /\ CallsWritten /\ StoredWritten

LEMMA LocalGrows ==
  ASSUME TypeOK, [Next]_vars
  PROVE  /\ \A d \in Devices : DOMAIN local[d] \subseteq DOMAIN local'[d]
         /\ ~RecordFieldWork => UNCHANGED local
  <1>1. ClientTypeOK
    BY DEF TypeOK
  <1>2. CASE RecordFieldWork
    <2>1. PICK d \in Devices : \E entity : WriteWithOutbox(d, entity)
      BY <1>2
      DEF RecordFieldWork, SaveDoorKnock, SavePhoneCall, SaveContact, SaveNextPart, AddNote
    <2>2. PICK entity : local' = [local EXCEPT ![d] = Append(local[d], entity)]
      BY <1>1, <2>1 DEF WriteWithOutbox, ClientTypeOK
    <2>3. local[d] \in Seq(Entity) /\ DOMAIN local = Devices
      BY <1>1 DEF ClientTypeOK
    <2>4. DOMAIN local[d] \subseteq DOMAIN Append(local[d], entity)
      BY <2>3
    <2> QED  BY <1>2, <2>2, <2>3, <2>4
  <1>3. CASE ~RecordFieldWork
    <2>1. ASSUME NEW e \in Engines, LocalStep(e) \/ RemoveTurf(e) \/ SendBatch(e)
                                      \/ LoseCall(e) \/ Kill(e)
          PROVE  UNCHANGED local
      BY <1>1, <2>1, RowsKept DEF LocalStep, RemoveTurf, SendBatch, LoseCall, Kill
    <2>2. ASSUME NEW e \in Engines, ReceiveAnswer(e)
          PROVE  UNCHANGED local
      BY <2>2 DEF ReceiveAnswer, TakeAnswer
    <2>3. ASSUME NEW c \in Calls, ServerStep(c) \/ ServerFault(c)
          PROVE  UNCHANGED local
      BY <2>3 DEF ServerStep, ServerFault, clientVars
    <2>4. UserStep => UNCHANGED local
      BY DEF UserStep, RetryDeadLetter, DismissDeadLetter
    <2>5. UNCHANGED vars => UNCHANGED local
      BY DEF vars, clientVars
    <2> QED  BY <1>3, <2>1, <2>2, <2>3, <2>4, <2>5 DEF Next
  <1> QED  BY <1>2, <1>3

(* What else a step of a request writes.                                   *)
LEMMA RequestStepRest ==
  ASSUME NEW r \in CallState, NEW i
  PROVE  /\ Begin(r, i).todo = r.todo \ {i} /\ Begin(r, i).op = i
         /\ Begin(r, i).errors = r.errors
         /\ Report(r, i).todo = r.todo \ {i} /\ Report(r, i).op = 0
         /\ Report(r, i).errors = r.errors
         /\ Refuse(r, i).todo = r.todo \ {i} /\ Refuse(r, i).op = 0
         /\ Refuse(r, i).errors = r.errors \cup {i}
  <1>1. /\ Begin(r, i).todo = r.todo \ {i} /\ Begin(r, i).op = i
        /\ Begin(r, i).errors = r.errors
    BY DEF Begin, CallState
  <1>2. /\ Report(r, i).todo = r.todo \ {i} /\ Report(r, i).op = 0
        /\ Report(r, i).errors = r.errors
    BY DEF Report, CallState
  <1>3. /\ Refuse(r, i).todo = r.todo \ {i} /\ Refuse(r, i).op = 0
        /\ Refuse(r, i).errors = r.errors \cup {i}
    BY DEF Refuse, CallState
  <1> QED  BY <1>1, <1>2, <1>3

(* What an engine's step selects is in its table, or it had it before.     *)
LEMMA EngineBatch ==
  ASSUME ClientTypeOK, NEW e \in Engines,
         \/ StartCycle(e) \/ SelectPending(e) \/ MarkNextError(e)
         \/ FinishBatch(e) \/ FinishTurf(e) \/ SelectForTurf(e)
         \/ SelectRetriable(e) \/ ResetRetriable(e) \/ MarkBatch(e)
         \/ (\E processed, refused : TakeAnswer(e, processed, refused))
         \/ CallFails(e) \/ KillIsolate(e)
  PROVE  /\ \A b \in Engines : b # e => engine'[b] = engine[b]
         /\ engine'[e].batch \subseteq engine[e].batch \cup DOMAIN outbox[DeviceOf(e)]
  <1>1. engine \in [Engines -> EngineState] /\ engine[e] \in EngineState
    BY EngineType DEF ClientTypeOK
  <1>2. /\ \A pc, batch : At(pc, batch).batch = batch
        /\ Idle.batch = {}
    BY DEF At, Idle
  <1>3. CASE StartCycle(e) \/ SelectPending(e) \/ SelectRetriable(e)
    <2>1. /\ GetPendingOperations(outbox[DeviceOf(e)], BatchSize)
                \subseteq DOMAIN outbox[DeviceOf(e)]
          /\ GetRetriableFailedOperations(outbox[DeviceOf(e)])
                \subseteq DOMAIN outbox[DeviceOf(e)]
      BY DEF GetPendingOperations, GetRetriableFailedOperations, IdsWithStatus
    <2>2. PICK es : /\ engine' = [engine EXCEPT ![e] = es]
                    /\ es.batch \subseteq DOMAIN outbox[DeviceOf(e)]
      <3>1. CASE StartCycle(e)
        BY <1>2, <3>1 DEF StartCycle
      <3>2. CASE SelectPending(e)
        <4> DEFINE B == GetPendingOperations(outbox[DeviceOf(e)], BatchSize)
                   es == IF B = {} THEN At("retry", {}) ELSE At("mark", B)
        <4>1. engine' = [engine EXCEPT ![e] = es]
          BY <3>2 DEF SelectPending
        <4>2. es.batch \subseteq B
          BY <1>2
        <4> HIDE DEF es
        <4> QED  BY <2>1, <4>1, <4>2
      <3>3. CASE SelectRetriable(e)
        <4> DEFINE B == GetRetriableFailedOperations(outbox[DeviceOf(e)])
                   es == IF B = {} THEN Idle ELSE At("reset", B)
        <4>1. engine' = [engine EXCEPT ![e] = es]
          BY <3>3 DEF SelectRetriable
        <4>2. es.batch \subseteq B
          BY <1>2
        <4> HIDE DEF es
        <4> QED  BY <2>1, <4>1, <4>2
      <3> QED  BY <1>3, <3>1, <3>2, <3>3
    <2> QED  BY <1>1, <2>2
  <1>4. CASE SelectForTurf(e)
    <2>1. PICK ops \in SUBSET IdsWithStatus(outbox[DeviceOf(e)], "pending") :
            engine' = [engine EXCEPT ![e] = [At("mark", ops) EXCEPT !.turf = TRUE]]
      BY <1>4 DEF SelectForTurf
    <2>2. [At("mark", ops) EXCEPT !.turf = TRUE].batch = ops
      BY DEF At
    <2> QED  BY <1>1, <2>1, <2>2 DEF IdsWithStatus
  <1>5. CASE \/ FinishBatch(e) \/ FinishTurf(e) \/ ResetRetriable(e) \/ CallFails(e)
             \/ KillIsolate(e)
    <2>1. \E es : engine' = [engine EXCEPT ![e] = es] /\ es.batch = {}
      BY <1>2, <1>5 DEF FinishBatch, FinishTurf, ResetRetriable, CallFails, KillIsolate
    <2> QED  BY <1>1, <2>1
  <1>6. CASE MarkNextError(e) \/ MarkBatch(e)
    <2>1. \/ \E E : engine' = [engine EXCEPT ![e] = [engine[e] EXCEPT !.errors = E]]
          \/ engine' = [engine EXCEPT ![e] = [engine[e] EXCEPT !.pc = "wait"]]
      BY <1>1, <1>6 DEF MarkNextError, MarkBatch
    <2>2. /\ \A E : [engine[e] EXCEPT !.errors = E].batch = engine[e].batch
          /\ [engine[e] EXCEPT !.pc = "wait"].batch = engine[e].batch
      BY <1>1 DEF EngineState
    <2> QED  BY <1>1, <2>1, <2>2
  <1>7. CASE \E processed, refused : TakeAnswer(e, processed, refused)
    BY <1>1, <1>7 DEF TakeAnswer
  <1> QED  BY <1>3, <1>4, <1>5, <1>6, <1>7

(* One request changes, and what is written stays written.                 *)
LEMMA RequestUpdate ==
  ASSUME TypeOK, AnswersTrue, CallsWritten, NEW c \in Calls, NEW r,
         call' = [call EXCEPT ![c] = r],
         \A d \in Devices : DOMAIN local[d] \subseteq DOMAIN local'[d],
         r.phase # "free" =>
           /\ r.todo \subseteq DOMAIN local'[r.dev]
           /\ r.phase \in {"process", "record"} => r.op \in DOMAIN local'[r.dev]
  PROVE  CallsWritten'
  <1>1. call'[c] = r /\ \A b \in Calls : b # c => call'[b] = call[b]
    BY DEF TypeOK, ServerTypeOK
  <1>2. \A b \in Calls : call[b].phase # "free" => call[b].dev \in Devices
    BY DEF AnswersTrue
  <1> QED  BY <1>1, <1>2 DEF CallsWritten, RequestWritten

LEMMA InitWritten == Init => WrittenInv
  <1>1. Init => BatchWritten /\ CallsWritten /\ StoredWritten
    BY DEF Init, ClientInit, ServerInit, Idle, At, FreeCall, BatchWritten, CallsWritten,
           RequestWritten, StoredWritten, Stored
  <1> QED  BY <1>1, InitDelivery DEF WrittenInv

LEMMA ServerStepWritten ==
  ASSUME TypeOK, AnswersTrue, CallsWritten, StoredWritten, UNCHANGED local,
         NEW c \in Calls,
         \/ LookUp(c) \/ \E entity : Process(c, entity)
         \/ \E recorded \in BOOLEAN : Record(c, recorded)
         \/ StatementFails(c) \/ Abandon(c)
         \/ \E entity : WriteInDoubt(c, entity)
  PROVE  CallsWritten' /\ StoredWritten'
  <1>1. /\ call[c] \in CallState /\ call \in [Calls -> CallState]
        /\ copies \in [Devices -> [OpIds -> Nat]]
    BY CallType DEF TypeOK, ServerTypeOK
  <1>2. /\ call[c].phase # "free" => call[c].dev \in Devices
        /\ call[c].phase # "free" => call[c].todo \subseteq DOMAIN local[call[c].dev]
        /\ call[c].phase \in {"process", "record"} =>
              call[c].op \in DOMAIN local[call[c].dev]
    BY DEF AnswersTrue, CallsWritten, RequestWritten
  <1>3. UNCHANGED copies => StoredWritten'
    BY DEF StoredWritten, Stored, Written
  <1>4. ASSUME NEW i, call[c].phase # "free",
               \/ call' = [call EXCEPT ![c] = Report(call[c], i)]
               \/ call' = [call EXCEPT ![c] = Refuse(call[c], i)]
               \/ call' = [call EXCEPT ![c] = Begin(call[c], i)] /\ i \in call[c].todo
        PROVE  CallsWritten'
    <2>1. ASSUME NEW r, call' = [call EXCEPT ![c] = r], r.dev = call[c].dev,
                 r.todo \subseteq call[c].todo,
                 r.phase \in {"process", "record"} => r.op \in call[c].todo
          PROVE  CallsWritten'
      BY <1>2, <1>4, <2>1, RequestUpdate
    <2>2. /\ Report(call[c], i).dev = call[c].dev
          /\ Report(call[c], i).todo \subseteq call[c].todo
          /\ Report(call[c], i).phase = "next"
          /\ Refuse(call[c], i).dev = call[c].dev
          /\ Refuse(call[c], i).todo \subseteq call[c].todo
          /\ Refuse(call[c], i).phase = "next"
      BY <1>1, RequestStepFields, RequestStepRest
    <2>3. /\ Begin(call[c], i).dev = call[c].dev
          /\ Begin(call[c], i).todo \subseteq call[c].todo
          /\ Begin(call[c], i).op = i
      BY <1>1, RequestStepFields, RequestStepRest
    <2> QED  BY <1>4, <2>1, <2>2, <2>3
  <1>5. CASE LookUp(c)
    <2>1. PICK i \in call[c].todo :
            /\ call[c].phase = "next" /\ UNCHANGED copies
            /\ \/ call' = [call EXCEPT ![c] = Report(call[c], i)]
               \/ call' = [call EXCEPT ![c] = Begin(call[c], i)]
      BY <1>5 DEF LookUp, IsNext
    <2> QED  BY <1>3, <1>4, <2>1
  <1>6. CASE \E entity : Process(c, entity)
    <2>1. PICK entity : Process(c, entity)
      BY <1>6
    <2>2. PICK d, i : /\ d \in Devices /\ i \in DOMAIN local[d]
                       /\ d = call[c].dev /\ i = call[c].op
      BY <1>2, <2>1 DEF Process
    <2>3. CASE Accepts(d, entity)
      <3> DEFINE r == [call[c] EXCEPT !.phase = "record"]
      <3>1. /\ copies' = [copies EXCEPT ![d][i] = RowsAfterInsert(entity, copies[d][i])]
            /\ call' = [call EXCEPT ![c] = r]
        BY <1>1, <2>1, <2>2, <2>3 DEF Process
      <3>2. r.phase = "record" /\ r.dev = d /\ r.op = i /\ r.todo = call[c].todo
        BY <1>1, <2>2 DEF CallState
      <3> HIDE DEF r
      <3>3. call[c].todo \subseteq DOMAIN local[d]
        BY <1>2, <2>1, <2>2 DEF Process
      <3>4. CallsWritten'
        BY <2>2, <3>1, <3>2, <3>3, RequestUpdate
      <3>5. StoredWritten'
        BY <1>1, <2>2, <3>1 DEF StoredWritten, Stored, Written
      <3> QED  BY <3>4, <3>5
    <2>4. CASE ~Accepts(d, entity)
      BY <1>1, <1>3, <1>4, <2>1, <2>2, <2>4 DEF Process
    <2> QED  BY <2>3, <2>4
  <1>7. CASE \E recorded \in BOOLEAN : Record(c, recorded)
    BY <1>1, <1>3, <1>4, <1>7 DEF Record
  <1>8. CASE StatementFails(c)
    <2>1. PICK i : /\ call[c].phase # "free" /\ UNCHANGED copies
                   /\ call' = [call EXCEPT ![c] = Refuse(call[c], i)]
      BY <1>1, <1>8 DEF StatementFails, IsNext
    <2> QED  BY <1>3, <1>4, <2>1
  <1>9. CASE Abandon(c)
    BY <1>3, <1>9, FreeCallType, RequestUpdate DEF Abandon
  <1>10. CASE \E entity : WriteInDoubt(c, entity)
    <2>1. PICK entity : WriteInDoubt(c, entity)
      BY <1>10
    <2>2. PICK d, i : /\ d \in Devices /\ i \in DOMAIN local[d]
                      /\ d = call[c].dev /\ i = call[c].op
      BY <1>2, <2>1 DEF WriteInDoubt
    <2>3. /\ copies' = [copies EXCEPT ![d][i] = RowsAfterInsert(entity, copies[d][i])]
          /\ call' = [call EXCEPT ![c] = Refuse(call[c], i)] /\ call[c].phase # "free"
      BY <1>1, <2>1, <2>2 DEF WriteInDoubt
    <2>4. StoredWritten'
      BY <1>1, <2>2, <2>3 DEF StoredWritten, Stored, Written
    <2> QED  BY <1>4, <2>3, <2>4
  <1> QED  BY <1>5, <1>6, <1>7, <1>8, <1>9, <1>10

LEMMA NextWritten == WrittenInv /\ [Next]_vars => WrittenInv'
  <1> SUFFICES ASSUME WrittenInv, [Next]_vars
               PROVE  BatchWritten' /\ CallsWritten' /\ StoredWritten'
    BY NextDelivery DEF WrittenInv
  <1>1. /\ TypeOK /\ ClientTypeOK /\ ServerTypeOK /\ AnswersTrue
        /\ BatchWritten /\ CallsWritten /\ StoredWritten
    BY DEF WrittenInv, DeliveryInv, TypeOK
  <1>2. \A d \in Devices : DOMAIN local[d] \subseteq DOMAIN local'[d]
    BY <1>1, LocalGrows
  <1>3. UNCHANGED copies => StoredWritten'
    BY <1>1, <1>2 DEF StoredWritten, Stored, Written
  <1>4. UNCHANGED call => CallsWritten'
    BY <1>1, <1>2 DEF CallsWritten, RequestWritten, AnswersTrue
  <1>5. UNCHANGED engine => BatchWritten'
    BY <1>1, <1>2, EngineType DEF BatchWritten
  <1>6. ASSUME NEW e \in Engines,
               \/ StartCycle(e) \/ SelectPending(e) \/ MarkNextError(e)
               \/ FinishBatch(e) \/ FinishTurf(e) \/ SelectForTurf(e)
               \/ SelectRetriable(e) \/ ResetRetriable(e) \/ MarkBatch(e)
               \/ (\E processed, refused : TakeAnswer(e, processed, refused))
               \/ CallFails(e) \/ KillIsolate(e)
        PROVE  BatchWritten'
    <2>1. DOMAIN outbox[DeviceOf(e)] \subseteq DOMAIN local[DeviceOf(e)]
      BY <1>1, EngineType, OutboxIsTable
    <2> QED  BY <1>1, <1>2, <1>6, <2>1, EngineType, EngineBatch DEF BatchWritten
  <1>7. CASE RecordFieldWork \/ UserStep
    BY <1>3, <1>4, <1>5, <1>7
    DEF RecordFieldWork, UserStep, serverVars, SaveDoorKnock, SavePhoneCall, SaveContact,
        SaveNextPart, AddNote, RetryDeadLetter, DismissDeadLetter
  <1>8. ASSUME NEW e \in Engines, LocalStep(e) \/ RemoveTurf(e)
        PROVE  BatchWritten' /\ CallsWritten' /\ StoredWritten'
    BY <1>3, <1>4, <1>6, <1>8 DEF LocalStep, RemoveTurf, serverVars
  <1>9. ASSUME NEW e \in Engines, SendBatch(e)
        PROVE  BatchWritten' /\ CallsWritten' /\ StoredWritten'
    <2>1. PICK c \in Calls :
            call' = [call EXCEPT ![c] = NewCall(e, DeviceOf(e), engine[e].batch)]
      BY <1>9 DEF SendBatch
    <2> DEFINE r == NewCall(e, DeviceOf(e), engine[e].batch)
    <2>2. r.dev = DeviceOf(e) /\ r.todo = engine[e].batch /\ r.phase = "next"
      BY DEF NewCall
    <2>3. r.todo \subseteq DOMAIN local'[r.dev]
      BY <1>1, <1>2, <2>2, EngineType DEF BatchWritten
    <2> HIDE DEF r
    <2>4. CallsWritten'
      BY <1>1, <1>2, <2>1, <2>2, <2>3, RequestUpdate DEF r
    <2> QED  BY <1>3, <1>6, <1>9, <2>4 DEF SendBatch
  <1>10. ASSUME NEW e \in Engines, ReceiveAnswer(e)
         PROVE  BatchWritten' /\ CallsWritten' /\ StoredWritten'
    <2>1. PICK c \in Calls : /\ TakeAnswer(e, call[c].processed, call[c].errors)
                             /\ call' = [call EXCEPT ![c] = FreeCall]
      BY <1>10 DEF ReceiveAnswer
    <2>2. CallsWritten'
      BY <1>1, <1>2, <2>1, FreeCallType, RequestUpdate
    <2>3. BatchWritten'
      BY <1>6, <2>1
    <2> QED  BY <1>3, <1>10, <2>2, <2>3 DEF ReceiveAnswer
  <1>11. ASSUME NEW e \in Engines, LoseCall(e) \/ Kill(e)
         PROVE  BatchWritten' /\ CallsWritten' /\ StoredWritten'
    <2>1. call' = Orphan(e) /\ UNCHANGED copies
      BY <1>11 DEF LoseCall, Kill
    <2>2. BatchWritten'
      BY <1>6, <1>11 DEF LoseCall, Kill
    <2>3. \A c \in Calls : /\ call'[c].phase = call[c].phase /\ call'[c].dev = call[c].dev
                           /\ call'[c].todo = call[c].todo /\ call'[c].op = call[c].op
      <3>1. \A r \in CallState : LET o == [r EXCEPT !.client = NoClient]
                                 IN  /\ o.phase = r.phase /\ o.dev = r.dev
                                     /\ o.todo = r.todo /\ o.op = r.op
        BY DEF CallState
      <3>2. \A c \in Calls : call[c] \in CallState
        BY <1>1, CallType
      <3> QED  BY <2>1, <3>1, <3>2 DEF Orphan
    <2>4. CallsWritten'
      BY <1>1, <1>2, <2>3 DEF CallsWritten, RequestWritten, AnswersTrue
    <2> QED  BY <1>3, <2>1, <2>2, <2>4
  <1>12. ASSUME NEW c \in Calls, ServerStep(c) \/ ServerFault(c)
         PROVE  BatchWritten' /\ CallsWritten' /\ StoredWritten'
    <2>1. UNCHANGED <<local, engine>>
      BY <1>12 DEF ServerStep, ServerFault, clientVars
    <2>2. \/ LookUp(c)
          \/ \E entity : Process(c, entity)
          \/ \E recorded \in BOOLEAN : Record(c, recorded)
          \/ StatementFails(c)
          \/ \E entity : WriteInDoubt(c, entity)
          \/ Abandon(c)
      BY <1>12 DEF ServerStep, ServerFault
    <2> QED  BY <1>1, <1>5, <2>1, <2>2, ServerStepWritten
  <1>13. CASE UNCHANGED vars
    BY <1>3, <1>4, <1>5, <1>13 DEF vars, clientVars, serverVars
  <1> QED
    BY <1>7, <1>8, <1>9, <1>10, <1>11, <1>12, <1>13 DEF Next

-----------------------------------------------------------------------------
(* The push protocol implements FieldDelivery on one device.               *)

(* A step seen by the abstract specification: how work changes place.      *)
WorkUnmoved ==
  \A d \in Devices, i \in OpIds :
    /\ Held(d, i)' <=> Held(d, i)
    /\ Stored(d, i)' <=> Stored(d, i)
    /\ Written(d, i)' <=> Written(d, i)

LEMMA UnmovedStutters == WorkUnmoved => UNCHANGED Delivery!vars
  BY DEF WorkUnmoved, Delivery!vars, HeldWork, StoredWork, GoneWork, Work

LEMMA RecordingRecords ==
  ASSUME WrittenInv, RecordFieldWork
  PROVE  Delivery!Next
  <1>1. ClientTypeOK /\ StoredWritten
    BY DEF WrittenInv, DeliveryInv, TypeOK
  <1>2. PICK d \in Devices : \E entity : WriteWithOutbox(d, entity)
    BY DEF RecordFieldWork, SaveDoorKnock, SavePhoneCall, SaveContact, SaveNextPart, AddNote
  <1> DEFINE n == Len(local[d]) + 1
             w == <<d, n>>
  <1>3. local[d] \in Seq(Entity) /\ Len(local[d]) \in Nat /\ DOMAIN local = Devices
        /\ DOMAIN outbox = Devices
    BY <1>1 DEF ClientTypeOK
  <1>4. PICK entity : /\ Len(local[d]) < MaxOps
                      /\ local' = [local EXCEPT ![d] = Append(local[d], entity)]
                      /\ outbox' = [outbox EXCEPT ![d] = InsertOperation(outbox[d], n)]
    BY <1>2, <1>3 DEF WriteWithOutbox
  <1>5. n \in OpIds /\ n \notin DOMAIN local[d]
    BY <1>3, <1>4, OutboxAssumption DEF OpIds
  <1>6. DOMAIN local'[d] = DOMAIN local[d] \cup {n}
    BY <1>3, <1>4
  <1>7. DOMAIN outbox'[d] = DOMAIN outbox[d] \cup {n}
    BY <1>3, <1>4 DEF InsertOperation
  <1>8. \A b \in Devices : b # d => local'[b] = local[b] /\ outbox'[b] = outbox[b]
    BY <1>3, <1>4
  <1>9. DOMAIN outbox[d] \subseteq DOMAIN local[d]
    BY <1>1 DEF ClientTypeOK
  <1>10. UNCHANGED copies
    BY DEF RecordFieldWork, serverVars
  <1>11. w \in Work /\ w \notin HeldWork \cup StoredWork \cup GoneWork
    BY <1>1, <1>5, <1>9 DEF Work, HeldWork, StoredWork, GoneWork, Held, Written, StoredWritten
  <1>12. HeldWork' = HeldWork \cup {w}
    BY <1>5, <1>7, <1>8 DEF Work, HeldWork, Held
  <1>13. StoredWork' = StoredWork
    BY <1>10 DEF StoredWork, Work, Stored
  <1>14. GoneWork' = GoneWork
    BY <1>5, <1>6, <1>7, <1>8 DEF GoneWork, Work, Held, Written
  <1>15. Delivery!RecordWork(w)
    BY <1>11, <1>12, <1>13, <1>14 DEF Delivery!RecordWork
  <1> QED  BY <1>11, <1>15 DEF Delivery!Next

LEMMA InitImplements == Init => Delivery!Init
  BY DEF Init, ClientInit, ServerInit, Delivery!Init, HeldWork, StoredWork, GoneWork, Work,
         Held, Stored, Written

LEMMA UserStepGivesUp ==
  ASSUME WrittenInv, UserStep
  PROVE  WorkUnmoved \/ Delivery!Next
  <1>1. ClientTypeOK /\ DOMAIN outbox = Devices
    BY DEF WrittenInv, DeliveryInv, TypeOK, ClientTypeOK
  <1>2. PICK d \in Devices, i \in OpIds : RetryDeadLetter(d, i) \/ DismissDeadLetter(d, i)
    BY DEF UserStep
  <1>3. UNCHANGED <<local, copies>>
    BY <1>2 DEF UserStep, serverVars, RetryDeadLetter, DismissDeadLetter
  <1>4. CASE RetryDeadLetter(d, i)
    <2>1. outbox' = [outbox EXCEPT ![d] = ResetToPending(outbox[d], {i})]
      BY <1>1, <1>4 DEF RetryDeadLetter
    <2>2. \A b \in Devices : DOMAIN outbox'[b] = DOMAIN outbox[b]
      BY <1>1, <2>1, SameRows DEF ResetToPending
    <2> QED  BY <1>3, <2>2 DEF WorkUnmoved, Held, Stored, Written
  <1>5. CASE DismissDeadLetter(d, i)
    <2> DEFINE w == <<d, i>>
    <2>1. /\ outbox' = [outbox EXCEPT ![d] = MarkSynced(outbox[d], {i})]
          /\ i \in DOMAIN outbox[d]
      BY <1>1, <1>5 DEF DismissDeadLetter, GetDeadLetterOperations
    <2>2. /\ DOMAIN outbox'[d] = DOMAIN outbox[d] \ {i}
          /\ \A b \in Devices : b # d => outbox'[b] = outbox[b]
      BY <1>1, <2>1 DEF MarkSynced
    <2>3. w \in HeldWork /\ w \in Work /\ Written(d, i)
      BY <1>1, <2>1 DEF HeldWork, Work, Held, Written, ClientTypeOK
    <2>4. HeldWork' = HeldWork \ {w}
      BY <2>2 DEF HeldWork, Work, Held
    <2>5. StoredWork' = StoredWork
      BY <1>3 DEF StoredWork, Work, Stored
    <2>6. GoneWork' = GoneWork \cup {w}
      BY <1>3, <2>2, <2>3 DEF GoneWork, Work, Held, Written
    <2>7. Delivery!GiveUp(w)
      BY <2>3, <2>4, <2>5, <2>6 DEF Delivery!GiveUp
    <2> QED  BY <2>3, <2>7 DEF Delivery!Next
  <1> QED  BY <1>2, <1>4, <1>5

(* What an answer deletes the server has stored: on one device the ids it  *)
(* has recorded are this device's.                                         *)
LEMMA AnswerReleases ==
  ASSUME \A a, b \in Devices : a = b,
         WrittenInv, NEW e \in Engines, ReceiveAnswer(e)
  PROVE  Delivery!Next
  <1>1. /\ ClientTypeOK /\ DOMAIN outbox = Devices /\ ServerTypeOK
        /\ ReceivedStored /\ AnswersTrue /\ AnswersOwn
    BY DEF WrittenInv, DeliveryInv, TypeOK, ClientTypeOK
  <1>2. PICK c \in Calls : /\ call[c].client = e /\ Answered(c)
                           /\ TakeAnswer(e, call[c].processed, call[c].errors)
    BY DEF ReceiveAnswer
  <1>3. PICK d \in Devices : d = DeviceOf(e)
    BY <1>1, EngineType
  <1>4. call[c].phase # "free" /\ call[c].dev \in Devices /\ call[c].dev = d
    BY <1>1, <1>2, <1>3 DEF Answered, AnswersTrue
  <1> DEFINE gone == call[c].processed \cap engine[e].batch
             W == {w \in HeldWork : w[2] \in gone}
  <1>5. \A i \in gone : Stored(d, i)
    BY <1>1, <1>4 DEF AnswersTrue, ReceivedStored
  <1>6. outbox' = [outbox EXCEPT ![d] = MarkSynced(outbox[d], gone)]
    BY <1>1, <1>2, <1>3 DEF TakeAnswer
  <1>7. DOMAIN outbox'[d] = DOMAIN outbox[d] \ gone
    BY <1>1, <1>6 DEF MarkSynced
  <1>8. UNCHANGED <<local, copies>>
    BY <1>2 DEF ReceiveAnswer, TakeAnswer
  <1> HIDE DEF gone
  <1>9. W \in SUBSET HeldWork /\ W \subseteq StoredWork
    BY <1>5 DEF HeldWork, StoredWork, Work
  <1>10. HeldWork' = HeldWork \ W
    BY <1>7 DEF HeldWork, Work, Held
  <1>11. StoredWork' = StoredWork
    BY <1>8 DEF StoredWork, Work, Stored
  <1>12. \A i \in DOMAIN outbox[d] : Written(d, i)
    BY <1>1 DEF ClientTypeOK, Written
  <1>13. GoneWork' = GoneWork \cup W
    BY <1>7, <1>8, <1>12 DEF HeldWork, GoneWork, Work, Held, Written
  <1>14. Delivery!Release(W)
    BY <1>9, <1>10, <1>11, <1>13 DEF Delivery!Release
  <1> QED  BY <1>9, <1>14 DEF Delivery!Next

LEMMA ServerStepStores ==
  ASSUME WrittenInv, NEW c \in Calls, ServerStep(c) \/ ServerFault(c)
  PROVE  WorkUnmoved \/ Delivery!Next
  <1>1. /\ ServerTypeOK /\ AnswersTrue /\ CallsWritten
        /\ copies \in [Devices -> [OpIds -> Nat]]
    BY DEF WrittenInv, DeliveryInv, TypeOK, ServerTypeOK
  <1>2. UNCHANGED <<local, outbox>>
    BY DEF ServerStep, ServerFault, clientVars
  <1>3. CASE UNCHANGED copies
    BY <1>2, <1>3 DEF WorkUnmoved, Held, Stored, Written
  <1>4. CASE ~UNCHANGED copies
    <2>1. PICK entity : \/ Process(c, entity) \/ WriteInDoubt(c, entity)
      BY <1>4 DEF ServerStep, ServerFault, LookUp, Record, StatementFails, Abandon
    <2>2. PICK d, i : /\ d \in Devices /\ i \in OpIds /\ Written(d, i)
                      /\ d = call[c].dev /\ i = call[c].op
      BY <1>1, <2>1, CallType DEF Process, WriteInDoubt, AnswersTrue, CallsWritten, RequestWritten, Written
    <2> DEFINE w == <<d, i>>
    <2>3. copies' = [copies EXCEPT ![d][i] = RowsAfterInsert(entity, copies[d][i])]
      BY <1>1, <1>4, <2>1, <2>2 DEF Process, WriteInDoubt
    <2>4. RowsAfterInsert(entity, copies[d][i]) \in Nat \ {0}
      BY <1>1, <2>2 DEF RowsAfterInsert
    <2>5. w \in Work /\ w \in HeldWork \cup GoneWork
      BY <2>2 DEF Work, HeldWork, GoneWork
    <2>6. HeldWork' = HeldWork /\ GoneWork' = GoneWork
      BY <1>2 DEF HeldWork, GoneWork, Work, Held, Written
    <2>7. StoredWork' = StoredWork \cup {w}
      <3>1. \A b \in Devices, j \in OpIds :
              copies'[b][j] = IF b = d /\ j = i THEN RowsAfterInsert(entity, copies[d][i])
                                                ELSE copies[b][j]
        BY <1>1, <2>2, <2>3
      <3>2. \A b \in Devices, j \in OpIds :
              copies'[b][j] > 0 <=> (copies[b][j] > 0 \/ (b = d /\ j = i))
        BY <1>1, <2>4, <3>1
      <3> QED  BY <2>2, <3>2 DEF StoredWork, Work, Stored
    <2>8. Delivery!Store(w)
      BY <2>5, <2>6, <2>7 DEF Delivery!Store
    <2> QED  BY <2>5, <2>8 DEF Delivery!Next
  <1> QED  BY <1>3, <1>4

LEMMA EngineStepStutters ==
  ASSUME WrittenInv, NEW e \in Engines,
         LocalStep(e) \/ RemoveTurf(e) \/ SendBatch(e) \/ LoseCall(e) \/ Kill(e)
  PROVE  WorkUnmoved
  <1>1. ClientTypeOK
    BY DEF WrittenInv, DeliveryInv, TypeOK
  <1>2. UNCHANGED local /\ \A d \in Devices : DOMAIN outbox'[d] = DOMAIN outbox[d]
    BY <1>1, RowsKept DEF LocalStep, RemoveTurf, SendBatch, LoseCall, Kill
  <1>3. UNCHANGED copies
    BY DEF LocalStep, RemoveTurf, SendBatch, LoseCall, Kill, serverVars
  <1> QED  BY <1>2, <1>3 DEF WorkUnmoved, Held, Stored, Written

(* On one device, with any number of engines, requests, lost calls, failed *)
(* statements, removed turfs and killed isolates, the push protocol does   *)
(* what FieldDelivery promises: work is released only when the server has  *)
(* stored it, given up only by the user, and stored only when recorded.    *)
THEOREM PushImplementsDelivery ==
  ASSUME \A a, b \in Devices : a = b
  PROVE  Spec => ImplementsDelivery
  <1>1. WrittenInv /\ [Next]_vars => [Delivery!Next]_(Delivery!vars)
    <2> SUFFICES ASSUME WrittenInv, [Next]_vars
                 PROVE  Delivery!Next \/ UNCHANGED Delivery!vars
      OBVIOUS
    <2>1. ASSUME NEW e \in Engines, LocalStep(e) \/ RemoveTurf(e) \/ SendBatch(e)
                                      \/ ReceiveAnswer(e) \/ LoseCall(e) \/ Kill(e)
          PROVE  Delivery!Next \/ UNCHANGED Delivery!vars
      BY <2>1, AnswerReleases, EngineStepStutters, UnmovedStutters
    <2>2. ASSUME NEW c \in Calls, ServerStep(c) \/ ServerFault(c)
          PROVE  Delivery!Next \/ UNCHANGED Delivery!vars
      BY <2>2, ServerStepStores, UnmovedStutters
    <2>3. CASE RecordFieldWork \/ UserStep
      BY <2>3, RecordingRecords, UserStepGivesUp, UnmovedStutters
    <2>4. UNCHANGED vars => WorkUnmoved
      BY DEF vars, clientVars, serverVars, WorkUnmoved, Held, Stored, Written
    <2> QED  BY <2>1, <2>2, <2>3, <2>4, UnmovedStutters DEF Next
  <1> QED  BY <1>1, InitImplements, InitWritten, NextWritten, PTL
           DEF Spec, ImplementsDelivery, Delivery!Spec

-----------------------------------------------------------------------------
(* Order.  Due work: written, acceptable to the schema, not yet stored.    *)
Quiet == faults = 0 /\ removals = 0 /\ kills = 0

Due(d, i) == i \in DOMAIN local[d] /\ Acceptable(d, i) /\ ~Stored(d, i)

(* A set of operations that leaves out no older due work of the device.    *)
LeavesNoneOut(d, S) ==
  \A j \in S : \A i \in DOMAIN local[d] : (i < j /\ Due(d, i)) => i \in S

(* What a request may still store.                                         *)
ToStore(r) == r.todo \cup (IF r.phase = "process" THEN {r.op} ELSE {})

(* What the answer to a request names, or will.                            *)
ToName(r) == r.todo \cup r.processed \cup r.errors
               \cup (IF r.phase \in {"process", "record"} THEN {r.op} ELSE {})

(* A row still to be sent for the first time, or being sent.               *)
Untried(t, i) == i \in DOMAIN t /\ t[i].retries = 0 /\ t[i].status # "failed"

DueRowsWait ==
  \A d \in Devices : \A i \in DOMAIN local[d] : Due(d, i) => Untried(outbox[d], i)

BatchesInOrder ==
  \A e \in Engines : engine[e].pc = "mark" => LeavesNoneOut(DeviceOf(e), engine[e].batch)

RequestsInOrder ==
  \A c \in Calls : call[c].phase # "free" =>
    /\ LeavesNoneOut(call[c].dev, ToStore(call[c]))
    /\ call[c].phase = "process" => \A j \in call[c].todo : call[c].op < j

Unacceptable(d, S) == \A i \in S : i \in DOMAIN local[d] /\ ~Acceptable(d, i)

RefusedForGood ==
  /\ \A e \in Engines : Unacceptable(DeviceOf(e), engine[e].errors)
  /\ \A c \in Calls : call[c].phase # "free" => Unacceptable(call[c].dev, call[c].errors)

AnswersNameAll ==
  /\ \A c \in Calls : call[c].client # NoClient =>
       /\ call[c].phase # "free"
       /\ engine[call[c].client].pc = "wait"
       /\ engine[call[c].client].batch \subseteq ToName(call[c])
       /\ \A b \in Calls : call[b].client = call[c].client => b = c
  /\ \A e \in Engines : /\ ~engine[e].turf
                        /\ engine[e].pc = "errors" => engine[e].batch = {}

Ordered == /\ DueRowsWait
           /\ BatchesInOrder
           /\ RequestsInOrder
           /\ RefusedForGood
           /\ AnswersNameAll
           /\ \A d \in Devices : \A i, j \in DOMAIN local[d] :
                (i < j /\ Acceptable(d, i) /\ Stored(d, j)) => Stored(d, i)

OrderInv == WrittenInv /\ RowsInv /\ (Quiet => Ordered)

(* Due rows are touched only by what sends them: DueRowsWait after a       *)
(* statement on one table, or none, when no work becomes due.              *)
LEMMA DueTable ==
  ASSUME TypeOK, DueRowsWait, UNCHANGED local, NEW d \in Devices,
         \A b \in Devices : \A i \in DOMAIN local[b] : Stored(b, i) => Stored(b, i)',
         NEW t, \/ outbox' = [outbox EXCEPT ![d] = t]
                \/ outbox' = outbox /\ t = outbox[d],
         \A i \in DOMAIN local[d] :
           (Due(d, i) /\ Untried(outbox[d], i)) => (Stored(d, i)' \/ Untried(t, i))
  PROVE  DueRowsWait'
  <1>1. DOMAIN outbox = Devices
    BY DEF TypeOK, ClientTypeOK
  <1>2. outbox'[d] = t /\ \A b \in Devices : b # d => outbox'[b] = outbox[b]
    BY <1>1
  <1>3. ASSUME NEW b \in Devices, NEW i \in DOMAIN local[b], Due(b, i)'
        PROVE  Untried(outbox'[b], i)
    <2>1. Due(b, i) /\ ~Stored(b, i)'
      BY <1>3 DEF Due, Acceptable
    <2>2. Untried(outbox[b], i)
      BY <2>1 DEF DueRowsWait
    <2> QED  BY <1>2, <2>1, <2>2
  <1> QED  BY <1>3 DEF DueRowsWait

(* What leaves no due work out still leaves none out when less is due.     *)
LEMMA NoneOutKept ==
  ASSUME UNCHANGED local, NEW d \in Devices, NEW S, LeavesNoneOut(d, S),
         \A i \in DOMAIN local[d] : Stored(d, i) => Stored(d, i)'
  PROVE  LeavesNoneOut(d, S)'
  BY DEF LeavesNoneOut, Due, Acceptable

(* One engine changes that waits for no answer; nothing is sent or stored. *)
LEMMA OrderEngineUpdate ==
  ASSUME TypeOK, AnswersTrue, Ordered, UNCHANGED <<local, call, copies>>, NEW e \in Engines,
         NEW es, engine' = [engine EXCEPT ![e] = es], engine[e].pc # "wait",
         ~es.turf, es.pc = "errors" => es.batch = {},
         es.pc = "mark" => LeavesNoneOut(DeviceOf(e), es.batch),
         Unacceptable(DeviceOf(e), es.errors),
         DueRowsWait'
  PROVE  Ordered'
  <1>1. /\ engine'[e] = es /\ \A b \in Engines : b # e => engine'[b] = engine[b]
        /\ \A b \in Engines : DeviceOf(b) \in Devices
        /\ \A c \in Calls : call[c].client \in Engines \cup {NoClient}
    BY EngineType, CallType DEF TypeOK, ClientTypeOK, CallState
  <1>2. \A d \in Devices : \A i : Stored(d, i)' <=> Stored(d, i)
    BY DEF Stored
  <1>3. \A d \in Devices : \A S : LeavesNoneOut(d, S)' <=> LeavesNoneOut(d, S)
    BY DEF LeavesNoneOut, Due, Acceptable, Stored
  <1>4. \A d \in Devices : \A S : Unacceptable(d, S)' <=> Unacceptable(d, S)
    BY DEF Unacceptable, Acceptable
  <1>5. BatchesInOrder'
    BY <1>1, <1>3 DEF Ordered, BatchesInOrder
  <1>6. RequestsInOrder'
    BY <1>3 DEF Ordered, RequestsInOrder, AnswersTrue
  <1>7. RefusedForGood'
    BY <1>1, <1>4 DEF Ordered, RefusedForGood, AnswersTrue
  <1>8. AnswersNameAll'
    BY <1>1 DEF Ordered, AnswersNameAll
  <1>9. \A d \in Devices : \A i, j \in DOMAIN local'[d] :
                (i < j /\ Acceptable(d, i)' /\ Stored(d, j)') => Stored(d, i)'
    BY <1>2 DEF Ordered, Acceptable
  <1> QED  BY <1>5, <1>6, <1>7, <1>8, <1>9 DEF Ordered

(* A batch is the older part of what is pending.                           *)
LEMMA PendingOldestFirst ==
  ASSUME NEW t, Table(t), NEW n \in Nat,
         NEW j \in GetPendingOperations(t, n),
         NEW i \in IdsWithStatus(t, "pending"), i < j
  PROVE  i \in GetPendingOperations(t, n)
  <1> DEFINE pending == IdsWithStatus(t, "pending")
             Older(k) == {h \in pending : h < k}
  <1>1. pending \subseteq 1 .. MaxOps /\ MaxOps \in Nat
    BY OutboxAssumption DEF IdsWithStatus, Table, OpIds
  <1>2. j \in pending /\ Cardinality(Older(j)) < n
    BY DEF GetPendingOperations
  <1>3. IsFiniteSet(1 .. MaxOps)
    BY <1>1, FS_Interval
  <1>4. IsFiniteSet(Older(j))
    BY <1>1, <1>3, FS_Subset
  <1>5. Older(i) \in SUBSET Older(j)
    BY <1>1, <1>2
  <1>6. /\ Cardinality(Older(i)) <= Cardinality(Older(j))
        /\ Cardinality(Older(i)) \in Nat /\ Cardinality(Older(j)) \in Nat
    BY <1>4, <1>5, FS_Subset, FS_CardinalityType
  <1>7. Cardinality(Older(i)) < n
    BY <1>2, <1>6
  <1> QED  BY <1>7 DEF GetPendingOperations

(* What an engine selects leaves out no older due work: with one engine a  *)
(* row in progress would be its own, so all due rows are pending.          *)
LEMMA SelectionInOrder ==
  ASSUME \A a, b \in Engines : a = b,
         TypeOK, NoStrandedRow, kills = 0, DueRowsWait,
         NEW e \in Engines, engine[e].pc = "select"
  PROVE  LeavesNoneOut(DeviceOf(e), GetPendingOperations(outbox[DeviceOf(e)], BatchSize))
  <1> DEFINE d == DeviceOf(e)
  <1>1. ClientTypeOK /\ d \in Devices /\ Table(outbox[d])
    BY EngineType, OutboxIsTable DEF TypeOK
  <1>2. ASSUME NEW i \in DOMAIN local[d], Due(d, i)
        PROVE  i \in IdsWithStatus(outbox[d], "pending")
    <2>1. i \in DOMAIN outbox[d] /\ outbox[d][i].status # "failed"
      BY <1>1, <1>2 DEF DueRowsWait, Untried
    <2>2. i \notin IdsWithStatus(outbox[d], "in_progress")
      BY <1>1 DEF NoStrandedRow
    <2>3. outbox[d][i].status \in RowStatus
      BY <1>1, <2>1 DEF Table, Row
    <2> QED  BY <2>1, <2>2, <2>3 DEF IdsWithStatus, RowStatus
  <1>3. BatchSize \in Nat
    BY ClientAssumption
  <1> QED  BY <1>1, <1>2, <1>3, PendingOldestFirst DEF LeavesNoneOut

LEMMA LocalStepOrder ==
  ASSUME \A a, b \in Engines : a = b,
         TypeOK, AnswersTrue, NoStrandedRow, kills = 0, Ordered,
         NEW e \in Engines, LocalStep(e)
  PROVE  Ordered'
  <1> DEFINE d == DeviceOf(e)
  <1>1. /\ ClientTypeOK /\ d \in Devices /\ engine[e] \in EngineState
        /\ Table(outbox[d]) /\ engine \in [Engines -> EngineState] /\ DOMAIN outbox = Devices
    BY EngineType, OutboxIsTable DEF TypeOK, ClientTypeOK
  <1>2. /\ DueRowsWait /\ Unacceptable(d, engine[e].errors)
        /\ ~engine[e].turf
        /\ engine[e].pc = "errors" => engine[e].batch = {}
    BY DEF Ordered, RefusedForGood, AnswersNameAll
  <1>3. UNCHANGED <<local, call, copies>>
    BY <1>1, RowsKept DEF LocalStep, serverVars
  <1>4. \A b \in Devices : \A i \in DOMAIN local[b] : Stored(b, i) => Stored(b, i)'
    BY <1>3 DEF Stored
  <1>5. UNCHANGED outbox => DueRowsWait'
    BY <1>1, <1>2, <1>3, <1>4, DueTable
  <1>6. Unacceptable(d, {})
    BY DEF Unacceptable
  <1>7. /\ \A pc, batch : LET es == At(pc, batch)
                          IN  /\ es.pc = pc /\ es.batch = batch
                              /\ ~es.turf /\ es.errors = {}
        /\ Idle.pc = "idle" /\ ~Idle.turf /\ Idle.errors = {}
    BY DEF At, Idle
  <1>8. CASE StartCycle(e)
    <2> DEFINE es == At("select", {})
    <2>1. engine' = [engine EXCEPT ![e] = es] /\ engine[e].pc = "idle" /\ UNCHANGED outbox
      BY <1>8 DEF StartCycle
    <2>2. ~es.turf /\ es.errors = {} /\ es.pc = "select"
      BY <1>7
    <2> HIDE DEF es
    <2> QED  BY <1>3, <1>5, <1>6, <2>1, <2>2, OrderEngineUpdate
  <1>9. CASE SelectPending(e)
    <2> DEFINE B == GetPendingOperations(outbox[d], BatchSize)
               es == IF B = {} THEN At("retry", {}) ELSE At("mark", B)
    <2>1. engine' = [engine EXCEPT ![e] = es] /\ engine[e].pc = "select" /\ UNCHANGED outbox
      BY <1>9 DEF SelectPending
    <2>2. /\ ~es.turf /\ es.errors = {} /\ es.pc # "errors"
          /\ es.pc = "mark" => es.batch = B
      BY <1>7
    <2>3. LeavesNoneOut(d, B)
      BY <1>2, <2>1, SelectionInOrder
    <2> HIDE DEF es, B
    <2> QED  BY <1>3, <1>5, <1>6, <2>1, <2>2, <2>3, OrderEngineUpdate
  <1>10. CASE MarkNextError(e)
    <2>1. PICK i \in engine[e].errors :
            /\ engine[e].pc = "errors"
            /\ outbox' = [outbox EXCEPT ![d] = MarkFailedWithRetry(outbox[d], {i})]
            /\ engine' = [engine EXCEPT ![e].errors = engine[e].errors \ {i}]
      BY <1>10, <1>1 DEF MarkNextError
    <2> DEFINE es == [engine[e] EXCEPT !.errors = engine[e].errors \ {i}]
               t == MarkFailedWithRetry(outbox[d], {i})
    <2>2. engine' = [engine EXCEPT ![e] = es]
      BY <1>1, <2>1
    <2>3. /\ es.errors = engine[e].errors \ {i} /\ es.pc = "errors"
          /\ es.batch = {} /\ ~es.turf
      BY <1>1, <1>2, <2>1 DEF EngineState
    <2>4. /\ DOMAIN t = DOMAIN outbox[d]
          /\ \A k \in DOMAIN outbox[d] : k # i => t[k] = outbox[d][k]
      BY DEF MarkFailedWithRetry, CountFailure
    <2>5. ~Acceptable(d, i)
      BY <1>2, <2>1 DEF Unacceptable
    <2> HIDE DEF es, t
    <2>5a. \A k \in DOMAIN local[d] : (Due(d, k) /\ Untried(outbox[d], k)) => Untried(t, k)
      BY <2>4, <2>5 DEF Due, Untried
    <2>6. DueRowsWait'
      BY <1>1, <1>2, <1>3, <1>4, <2>1, <2>5a, DueTable DEF t
    <2>7. Unacceptable(d, es.errors)
      BY <1>2, <2>3 DEF Unacceptable
    <2> QED  BY <1>3, <2>1, <2>2, <2>3, <2>6, <2>7, OrderEngineUpdate
  <1>11. CASE FinishBatch(e)
    <2> DEFINE t == MarkFailed(outbox[d], engine[e].batch)
               es == IF engine[e].pushed THEN At("select", {}) ELSE At("retry", {})
    <2>1. /\ engine[e].pc = "errors" /\ outbox' = [outbox EXCEPT ![d] = t]
          /\ engine' = [engine EXCEPT ![e] = es]
      BY <1>1, <1>11 DEF FinishBatch
    <2>2. ~es.turf /\ es.errors = {} /\ es.pc \notin {"errors", "mark"}
      BY <1>7
    <2>3. DOMAIN t = DOMAIN outbox[d] /\ \A k \in DOMAIN outbox[d] : t[k] = outbox[d][k]
      BY <1>2, <2>1 DEF MarkFailed, CountFailure
    <2> HIDE DEF es, t
    <2>3a. \A k \in DOMAIN local[d] : (Due(d, k) /\ Untried(outbox[d], k)) => Untried(t, k)
      BY <2>3 DEF Untried
    <2>4. DueRowsWait'
      BY <1>1, <1>2, <1>3, <1>4, <2>1, <2>3a, DueTable
    <2> QED  BY <1>3, <1>6, <2>1, <2>2, <2>4, OrderEngineUpdate
  <1>12. CASE FinishTurf(e)
    BY <1>2, <1>12 DEF FinishTurf
  <1>13. CASE SelectRetriable(e)
    <2> DEFINE B == GetRetriableFailedOperations(outbox[d])
               es == IF B = {} THEN Idle ELSE At("reset", B)
    <2>1. engine' = [engine EXCEPT ![e] = es] /\ engine[e].pc = "retry" /\ UNCHANGED outbox
      BY <1>13 DEF SelectRetriable
    <2>2. ~es.turf /\ es.errors = {} /\ es.pc \notin {"errors", "mark"}
      BY <1>7
    <2> HIDE DEF es
    <2> QED  BY <1>3, <1>5, <1>6, <2>1, <2>2, OrderEngineUpdate
  <1>14. CASE ResetRetriable(e)
    <2> DEFINE t == ResetToPending(outbox[d], engine[e].batch)
    <2>1. /\ engine[e].pc = "reset" /\ outbox' = [outbox EXCEPT ![d] = t]
          /\ engine' = [engine EXCEPT ![e] = Idle]
      BY <1>1, <1>14 DEF ResetRetriable
    <2>2. /\ DOMAIN t = DOMAIN outbox[d]
          /\ \A k \in DOMAIN outbox[d] : /\ t[k].retries = outbox[d][k].retries
                                         /\ t[k].status \in {outbox[d][k].status, "pending"}
      BY DEF ResetToPending, SetStatus
    <2> HIDE DEF t
    <2>2a. \A k \in DOMAIN local[d] : (Due(d, k) /\ Untried(outbox[d], k)) => Untried(t, k)
      BY <2>2 DEF Untried
    <2>3. DueRowsWait'
      BY <1>1, <1>2, <1>3, <1>4, <2>1, <2>2a, DueTable
    <2> QED  BY <1>3, <1>6, <1>7, <2>1, <2>3, OrderEngineUpdate
  <1> QED  BY <1>8, <1>9, <1>10, <1>11, <1>12, <1>13, <1>14 DEF LocalStep

-----------------------------------------------------------------------------
LEMMA UserStepOrder ==
  ASSUME TypeOK, AnswersTrue, Ordered, UserStep
  PROVE  Ordered'
  <1>1. ClientTypeOK /\ DOMAIN outbox = Devices
    BY DEF TypeOK, ClientTypeOK
  <1>2. PICK d \in Devices, i \in OpIds : RetryDeadLetter(d, i) \/ DismissDeadLetter(d, i)
    BY DEF UserStep
  <1>3. UNCHANGED <<local, engine, call, copies>>
    BY <1>2 DEF UserStep, serverVars, RetryDeadLetter, DismissDeadLetter
  <1>4. PICK t \in {ResetToPending(outbox[d], {i}), MarkSynced(outbox[d], {i})} :
          outbox' = [outbox EXCEPT ![d] = t]
    BY <1>1, <1>2 DEF RetryDeadLetter, DismissDeadLetter
  <1>5. /\ DOMAIN outbox[d] \ {i} \subseteq DOMAIN t
        /\ \A k \in DOMAIN outbox[d] \ {i} : t[k] = outbox[d][k]
    BY <1>4 DEF ResetToPending, SetStatus, MarkSynced
  <1>6. ~Untried(outbox[d], i)
    BY <1>2, OutboxAssumption
    DEF RetryDeadLetter, DismissDeadLetter, GetDeadLetterOperations, Untried
  <1>7. \A k \in DOMAIN local[d] : (Due(d, k) /\ Untried(outbox[d], k)) => Untried(t, k)
    BY <1>5, <1>6 DEF Untried
  <1>8. \A b \in Devices : \A k \in DOMAIN local[b] : Stored(b, k) => Stored(b, k)'
    BY <1>3 DEF Stored
  <1>9. DueRowsWait'
    BY <1>3, <1>4, <1>7, <1>8, DueTable DEF Ordered
  <1>10. \A b \in Devices : \A S : LeavesNoneOut(b, S)' <=> LeavesNoneOut(b, S)
    BY <1>3 DEF LeavesNoneOut, Due, Acceptable, Stored
  <1>11. \A b \in Devices : \A S : Unacceptable(b, S)' <=> Unacceptable(b, S)
    BY <1>3 DEF Unacceptable, Acceptable
  <1>12. BatchesInOrder'
    BY <1>1, <1>3, <1>10, EngineType DEF Ordered, BatchesInOrder
  <1>13. RequestsInOrder'
    BY <1>3, <1>10 DEF Ordered, RequestsInOrder, AnswersTrue
  <1>14. RefusedForGood'
    BY <1>1, <1>3, <1>11, EngineType DEF Ordered, RefusedForGood, AnswersTrue
  <1>15. AnswersNameAll'
    BY <1>3 DEF Ordered, AnswersNameAll
  <1> QED  BY <1>3, <1>9, <1>12, <1>13, <1>14, <1>15 DEF Ordered, Acceptable, Stored

(* New work is younger than all work selected or sent.                     *)
LEMMA RecordingOrder ==
  ASSUME WrittenInv, Ordered, RecordFieldWork
  PROVE  Ordered'
  <1>1. /\ ClientTypeOK /\ ServerTypeOK /\ DOMAIN outbox = Devices /\ DOMAIN local = Devices
        /\ BatchWritten /\ CallsWritten /\ StoredWritten /\ AnswersTrue
    BY DEF WrittenInv, DeliveryInv, TypeOK, ClientTypeOK
  <1>2. PICK d \in Devices : \E entity : WriteWithOutbox(d, entity)
    BY DEF RecordFieldWork, SaveDoorKnock, SavePhoneCall, SaveContact, SaveNextPart, AddNote
  <1>3. UNCHANGED <<engine, call, copies>>
    BY DEF RecordFieldWork, serverVars, SaveDoorKnock, SavePhoneCall, SaveContact,
           SaveNextPart, AddNote
  <1> DEFINE n == Len(local[d]) + 1
  <1>4. PICK entity : /\ Len(local[d]) < MaxOps
                      /\ local' = [local EXCEPT ![d] = Append(local[d], entity)]
                      /\ outbox' = [outbox EXCEPT ![d] = InsertOperation(outbox[d], n)]
    BY <1>1, <1>2 DEF WriteWithOutbox
  <1>5. local[d] \in Seq(Entity) /\ Len(local[d]) \in Nat /\ DOMAIN local[d] = 1 .. Len(local[d])
    BY <1>1 DEF ClientTypeOK
  <1>6. /\ DOMAIN local'[d] = DOMAIN local[d] \cup {n}
        /\ \A i \in DOMAIN local[d] : local'[d][i] = local[d][i] /\ i < n
    BY <1>1, <1>4, <1>5
  <1>7. \A b \in Devices : b # d => local'[b] = local[b] /\ outbox'[b] = outbox[b]
    BY <1>1, <1>4
  <1>8. /\ Untried(outbox'[d], n)
        /\ \A i \in DOMAIN local[d] : Untried(outbox[d], i) => Untried(outbox'[d], i)
    BY <1>1, <1>4, <1>6 DEF Untried, InsertOperation, FreshRow
  <1>9. \A b \in Devices : \A i \in DOMAIN local[b] :
          /\ Acceptable(b, i)' <=> Acceptable(b, i)
          /\ Stored(b, i)' <=> Stored(b, i)
          /\ Due(b, i)' <=> Due(b, i)
    BY <1>3, <1>6, <1>7 DEF Acceptable, Stored, Due
  <1>10. ASSUME NEW b \in Devices, NEW S, S \subseteq DOMAIN local[b], LeavesNoneOut(b, S)
         PROVE  LeavesNoneOut(b, S)'
    <2>1. ASSUME NEW j \in S, NEW i \in DOMAIN local'[b], i < j, Due(b, i)'
          PROVE  i \in S
      <3>1. i \in DOMAIN local[b]
        BY <1>5, <1>6, <1>7, <1>10, <2>1
      <3> QED  BY <1>9, <1>10, <2>1, <3>1 DEF LeavesNoneOut
    <2> QED  BY <2>1 DEF LeavesNoneOut
  <1>11. \A b \in Devices : \A S : Unacceptable(b, S) => Unacceptable(b, S)'
    BY <1>6, <1>7, <1>9 DEF Unacceptable
  <1>12. DueRowsWait'
    BY <1>6, <1>7, <1>8, <1>9 DEF Ordered, DueRowsWait
  <1>13. BatchesInOrder'
    BY <1>1, <1>3, <1>10, EngineType DEF Ordered, BatchesInOrder, BatchWritten
  <1>14. ASSUME NEW c \in Calls, call[c].phase # "free"
         PROVE  LeavesNoneOut(call[c].dev, ToStore(call[c]))'
    <2>1. call[c].dev \in Devices /\ ToStore(call[c]) \subseteq DOMAIN local[call[c].dev]
      BY <1>1, <1>14 DEF AnswersTrue, CallsWritten, RequestWritten, ToStore
    <2>2. LeavesNoneOut(call[c].dev, ToStore(call[c]))
      BY <1>14 DEF Ordered, RequestsInOrder
    <2>3. PICK b, S : b = call[c].dev /\ S = ToStore(call[c])
      OBVIOUS
    <2>4. LeavesNoneOut(b, S)'
      BY <1>10, <2>1, <2>2, <2>3
    <2>5. call[c].dev' = b /\ ToStore(call[c])' = S
      BY <1>3, <2>3 DEF ToStore
    <2> QED  BY <2>4, <2>5
  <1>15. RequestsInOrder'
    BY <1>3, <1>14 DEF Ordered, RequestsInOrder
  <1>16. RefusedForGood'
    BY <1>1, <1>3, <1>11, EngineType DEF Ordered, RefusedForGood, AnswersTrue
  <1>17. AnswersNameAll'
    BY <1>3 DEF Ordered, AnswersNameAll
  <1>18. ASSUME NEW b \in Devices, NEW i \in DOMAIN local'[b], NEW j \in DOMAIN local'[b],
                i < j, Acceptable(b, i)', Stored(b, j)'
         PROVE  Stored(b, i)'
    <2>1. j \in DOMAIN local[b]
      <3>1. j \in OpIds
        BY <1>4, <1>5, <1>6, <1>7, <1>18, <1>1, OutboxAssumption DEF OpIds, ClientTypeOK
      <3> QED  BY <1>1, <1>3, <1>18, <3>1 DEF StoredWritten, Stored, Written
    <2>2. i \in DOMAIN local[b]
      BY <1>5, <1>6, <1>7, <1>18, <2>1
    <2> QED  BY <1>9, <1>18, <2>1, <2>2 DEF Ordered
  <1> QED  BY <1>12, <1>13, <1>15, <1>16, <1>17, <1>18 DEF Ordered

-----------------------------------------------------------------------------
LEMMA SendBatchOrder ==
  ASSUME TypeOK, AnswersTrue, Ordered, NEW e \in Engines, SendBatch(e)
  PROVE  Ordered'
  <1> DEFINE d == DeviceOf(e)
             t == MarkInProgress(outbox[d], engine[e].batch)
  <1>a. PICK r : r = NewCall(e, d, engine[e].batch)
    OBVIOUS
  <1>b. PICK es : es = [engine[e] EXCEPT !.pc = "wait"]
    OBVIOUS
  <1>1. /\ ClientTypeOK /\ ServerTypeOK /\ d \in Devices /\ engine[e] \in EngineState
        /\ engine \in [Engines -> EngineState] /\ DOMAIN outbox = Devices
        /\ call \in [Calls -> CallState]
    BY EngineType DEF TypeOK, ClientTypeOK, ServerTypeOK
  <1>2. /\ DueRowsWait /\ Unacceptable(d, engine[e].errors) /\ ~engine[e].turf
        /\ engine[e].pc = "mark" => LeavesNoneOut(d, engine[e].batch)
    BY DEF Ordered, RefusedForGood, AnswersNameAll, BatchesInOrder
  <1>3. PICK c \in Calls : call' = [call EXCEPT ![c] = r]
    BY <1>a DEF SendBatch
  <1>4. /\ engine[e].pc = "mark" /\ outbox' = [outbox EXCEPT ![d] = t]
        /\ engine' = [engine EXCEPT ![e] = es]
        /\ UNCHANGED <<local, copies>>
    BY <1>1, <1>b DEF SendBatch, MarkBatch
  <1>5. es.pc = "wait" /\ es.batch = engine[e].batch /\ es.errors = engine[e].errors /\ ~es.turf
    BY <1>1, <1>2, <1>b DEF EngineState
  <1>6. /\ r.phase = "next" /\ r.client = e /\ r.dev = d /\ r.errors = {}
        /\ r.todo = engine[e].batch
        /\ ToStore(r) = engine[e].batch /\ engine[e].batch \subseteq ToName(r)
    BY <1>a DEF NewCall, ToStore, ToName
  <1>7. \A k \in DOMAIN local[d] : (Due(d, k) /\ Untried(outbox[d], k)) => Untried(t, k)
    BY DEF MarkInProgress, SetStatus, Untried
  <1> HIDE DEF t
  <1>8. \A b \in Devices : \A i : Stored(b, i)' <=> Stored(b, i)
    BY <1>4 DEF Stored
  <1>9. DueRowsWait'
    BY <1>1, <1>2, <1>4, <1>7, <1>8, DueTable
  <1>10. \A b \in Devices : \A S : LeavesNoneOut(b, S)' <=> LeavesNoneOut(b, S)
    BY <1>4 DEF LeavesNoneOut, Due, Acceptable, Stored
  <1>11. \A b \in Devices : \A S : Unacceptable(b, S)' <=> Unacceptable(b, S)
    BY <1>4 DEF Unacceptable, Acceptable
  <1>12. /\ engine'[e] = es /\ \A b \in Engines : b # e => engine'[b] = engine[b]
         /\ call'[c] = r /\ \A b \in Calls : b # c => call'[b] = call[b]
         /\ \A b \in Engines : DeviceOf(b) \in Devices
         /\ \A b \in Calls : call[b].client \in Engines \cup {NoClient}
    BY <1>1, <1>3, <1>4, EngineType, CallType DEF CallState
  <1>13. BatchesInOrder'
    BY <1>5, <1>10, <1>12 DEF Ordered, BatchesInOrder
  <1>14. RequestsInOrder'
    <2>1. LeavesNoneOut(r.dev, ToStore(r))'
      BY <1>1, <1>2, <1>4, <1>6, <1>10
    <2> QED  BY <1>6, <1>10, <1>12, <2>1 DEF Ordered, RequestsInOrder, AnswersTrue
  <1>15. RefusedForGood'
    <2>1. Unacceptable(d, es.errors)' /\ Unacceptable(d, r.errors)'
      <3>1. Unacceptable(d, es.errors) /\ Unacceptable(d, r.errors)
        BY <1>2, <1>5, <1>6 DEF Unacceptable
      <3> QED  BY <1>1, <1>11, <3>1
    <2>2. \A b \in Engines : Unacceptable(DeviceOf(b), engine[b].errors)'
      BY <1>11, <1>12, <2>1 DEF Ordered, RefusedForGood
    <2>3. \A b \in Calls : call'[b].phase # "free" => Unacceptable(call[b].dev, call[b].errors)'
      BY <1>6, <1>11, <1>12, <2>1 DEF Ordered, RefusedForGood, AnswersTrue
    <2> QED  BY <2>2, <2>3 DEF RefusedForGood
  <1>16. AnswersNameAll'
    <2>1. \A b \in Calls : call[b].client # e
      BY <1>4, PushAssumption DEF Ordered, AnswersNameAll
    <2> QED  BY <1>5, <1>6, <1>12, <2>1 DEF Ordered, AnswersNameAll
  <1>17. \A b \in Devices : \A i, j \in DOMAIN local'[b] :
                (i < j /\ Acceptable(b, i)' /\ Stored(b, j)') => Stored(b, i)'
    BY <1>4, <1>8 DEF Ordered, Acceptable
  <1> QED  BY <1>9, <1>13, <1>14, <1>15, <1>16, <1>17 DEF Ordered

LEMMA LoseCallOrder ==
  ASSUME TypeOK, AnswersTrue, Ordered, NEW e \in Engines, LoseCall(e)
  PROVE  Ordered'
  <1> DEFINE d == DeviceOf(e)
             t == ResetInProgressToPending(outbox[d])
             es == At(IF engine[e].turf THEN "select" ELSE "retry", {})
  <1>1. /\ ClientTypeOK /\ ServerTypeOK /\ d \in Devices
        /\ engine \in [Engines -> EngineState] /\ DOMAIN outbox = Devices
        /\ call \in [Calls -> CallState]
    BY EngineType DEF TypeOK, ClientTypeOK, ServerTypeOK
  <1>2. /\ outbox' = [outbox EXCEPT ![d] = t]
        /\ engine' = [engine EXCEPT ![e] = es]
        /\ call' = Orphan(e)
        /\ UNCHANGED <<local, copies>>
    BY <1>1 DEF LoseCall, CallFails
  <1>3. es.pc \notin {"mark", "errors"} /\ ~es.turf /\ es.errors = {}
    BY DEF At
  <1>4. \A k \in DOMAIN local[d] : (Due(d, k) /\ Untried(outbox[d], k)) => Untried(t, k)
    BY DEF ResetInProgressToPending, SetStatus, Untried
  <1> HIDE DEF t, es
  <1>5. \A b \in Devices : \A i : Stored(b, i)' <=> Stored(b, i)
    BY <1>2 DEF Stored
  <1>6. DueRowsWait'
    BY <1>1, <1>2, <1>4, <1>5, DueTable DEF Ordered
  <1>7. \A b \in Devices : \A S : LeavesNoneOut(b, S)' <=> LeavesNoneOut(b, S)
    BY <1>2 DEF LeavesNoneOut, Due, Acceptable, Stored
  <1>8. \A b \in Devices : \A S : Unacceptable(b, S)' <=> Unacceptable(b, S)
    BY <1>2 DEF Unacceptable, Acceptable
  <1>9. ASSUME NEW c \in Calls
        PROVE  /\ call'[c].phase = call[c].phase /\ call'[c].dev = call[c].dev
               /\ call'[c].todo = call[c].todo /\ call'[c].op = call[c].op
               /\ call'[c].processed = call[c].processed /\ call'[c].errors = call[c].errors
               /\ call[c].client \in Engines \cup {NoClient}
               /\ call'[c].client = IF call[c].client = e THEN NoClient ELSE call[c].client
    <2>1. \A q \in CallState : LET o == [q EXCEPT !.client = NoClient]
                               IN  /\ o.phase = q.phase /\ o.dev = q.dev
                                   /\ o.todo = q.todo /\ o.op = q.op
                                   /\ o.processed = q.processed /\ o.errors = q.errors
                                   /\ o.client = NoClient
      BY DEF CallState
    <2>2. call[c] \in CallState /\ call[c].client \in Engines \cup {NoClient}
      BY <1>1 DEF CallState
    <2> QED  BY <1>2, <2>1, <2>2 DEF Orphan
  <1>10. \A c \in Calls : ToStore(call'[c]) = ToStore(call[c]) /\ ToName(call'[c]) = ToName(call[c])
    BY <1>9 DEF ToStore, ToName
  <1>11. /\ engine'[e] = es /\ \A b \in Engines : b # e => engine'[b] = engine[b]
         /\ \A b \in Engines : DeviceOf(b) \in Devices
    BY <1>1, <1>2, EngineType
  <1>12. BatchesInOrder'
    BY <1>3, <1>7, <1>11 DEF Ordered, BatchesInOrder
  <1>13. RequestsInOrder'
    BY <1>7, <1>9, <1>10 DEF Ordered, RequestsInOrder, AnswersTrue
  <1>14. RefusedForGood'
    <2>1. Unacceptable(DeviceOf(e), es.errors)
      BY <1>3 DEF Unacceptable
    <2>2. \A b \in Engines : Unacceptable(DeviceOf(b), engine[b].errors)'
      BY <1>8, <1>11, <2>1 DEF Ordered, RefusedForGood
    <2>3. \A c \in Calls :
            call'[c].phase # "free" => Unacceptable(call[c].dev, call[c].errors)'
      BY <1>8, <1>9 DEF Ordered, RefusedForGood, AnswersTrue
    <2> QED  BY <2>2, <2>3 DEF RefusedForGood
  <1>15. AnswersNameAll'
    BY <1>3, <1>9, <1>10, <1>11 DEF Ordered, AnswersNameAll
  <1>16. \A b \in Devices : \A i, j \in DOMAIN local'[b] :
                (i < j /\ Acceptable(b, i)' /\ Stored(b, j)') => Stored(b, i)'
    BY <1>2, <1>5 DEF Ordered, Acceptable
  <1> QED  BY <1>6, <1>12, <1>13, <1>14, <1>15, <1>16 DEF Ordered

(* An answer names the whole batch, so none of it is left for FinishBatch; *)
(* what it deletes is stored, what it refuses the schema refuses.          *)
LEMMA ReceiveAnswerOrder ==
  ASSUME \A a, b \in Devices : a = b,
         TypeOK, ReceivedStored, AnswersTrue, AnswersOwn, Ordered,
         NEW e \in Engines, ReceiveAnswer(e)
  PROVE  Ordered'
  <1>1. /\ ClientTypeOK /\ ServerTypeOK /\ engine[e] \in EngineState
        /\ engine \in [Engines -> EngineState] /\ DOMAIN outbox = Devices
        /\ call \in [Calls -> CallState]
    BY EngineType DEF TypeOK, ClientTypeOK, ServerTypeOK
  <1>2. PICK c \in Calls : /\ call[c].client = e /\ Answered(c)
                           /\ TakeAnswer(e, call[c].processed, call[c].errors)
                           /\ call' = [call EXCEPT ![c] = FreeCall]
    BY DEF ReceiveAnswer
  <1>3. PICK d \in Devices : d = DeviceOf(e)
    BY <1>1, EngineType
  <1>4. /\ call[c].phase = "next" /\ call[c].todo = {} /\ call[c].dev = d
        /\ call[c].client # NoClient
    BY <1>2, <1>3, PushAssumption DEF Answered, AnswersOwn
  <1>5. /\ ~engine[e].turf /\ engine[e].batch \subseteq ToName(call[c])
        /\ \A b \in Calls : call[b].client = e => b = c
        /\ Unacceptable(d, call[c].errors) /\ DueRowsWait
    BY <1>2, <1>4 DEF Ordered, AnswersNameAll, RefusedForGood
  <1> DEFINE done == call[c].processed \cap engine[e].batch
             t == MarkSynced(outbox[d], done)
             es == [pc |-> "errors",
                    batch |-> engine[e].batch \ (call[c].processed \cup call[c].errors),
                    errors |-> call[c].errors \cap engine[e].batch, pushed |-> done # {},
                    turf |-> engine[e].turf]
  <1>6. /\ outbox' = [outbox EXCEPT ![d] = t]
        /\ engine' = [engine EXCEPT ![e] = es]
        /\ UNCHANGED <<local, copies>>
    BY <1>1, <1>2, <1>3, <1>5 DEF TakeAnswer, ReceiveAnswer
  <1>7. es.pc = "errors" /\ es.batch = {} /\ ~es.turf /\ es.errors \subseteq call[c].errors
    BY <1>4, <1>5 DEF ToName
  <1>8. \A i \in done : Stored(d, i)
    BY <1>4 DEF AnswersTrue, ReceivedStored
  <1>9. \A k \in DOMAIN local[d] : (Due(d, k) /\ Untried(outbox[d], k)) => Untried(t, k)
    BY <1>8 DEF MarkSynced, Untried, Due
  <1> HIDE DEF t, es, done
  <1>10. \A b \in Devices : \A i : Stored(b, i)' <=> Stored(b, i)
    BY <1>6 DEF Stored
  <1>11. DueRowsWait'
    BY <1>5, <1>6, <1>9, <1>10, DueTable
  <1>12. \A b \in Devices : \A S : LeavesNoneOut(b, S)' <=> LeavesNoneOut(b, S)
    BY <1>6 DEF LeavesNoneOut, Due, Acceptable, Stored
  <1>13. \A b \in Devices : \A S : Unacceptable(b, S)' <=> Unacceptable(b, S)
    BY <1>6 DEF Unacceptable, Acceptable
  <1>14. /\ engine'[e] = es /\ \A b \in Engines : b # e => engine'[b] = engine[b]
         /\ call'[c] = FreeCall /\ \A b \in Calls : b # c => call'[b] = call[b]
         /\ \A b \in Engines : DeviceOf(b) \in Devices
         /\ FreeCall.phase = "free" /\ FreeCall.client = NoClient
         /\ \A b \in Calls : call[b].client \in Engines \cup {NoClient}
    BY <1>1, <1>2, <1>6, EngineType, CallType DEF FreeCall, CallState
  <1>15. BatchesInOrder'
    BY <1>7, <1>12, <1>14 DEF Ordered, BatchesInOrder
  <1>16. RequestsInOrder'
    BY <1>12, <1>14 DEF Ordered, RequestsInOrder, AnswersTrue
  <1>17. RefusedForGood'
    <2>1. Unacceptable(d, es.errors)
      BY <1>5, <1>7 DEF Unacceptable
    <2> QED  BY <1>3, <1>13, <1>14, <2>1 DEF Ordered, RefusedForGood, AnswersTrue
  <1>18. AnswersNameAll'
    BY <1>5, <1>7, <1>14 DEF Ordered, AnswersNameAll
  <1>19. \A b \in Devices : \A i, j \in DOMAIN local'[b] :
                (i < j /\ Acceptable(b, i)' /\ Stored(b, j)') => Stored(b, i)'
    BY <1>6, <1>10 DEF Ordered, Acceptable
  <1> QED  BY <1>11, <1>15, <1>16, <1>17, <1>18, <1>19 DEF Ordered

-----------------------------------------------------------------------------
(* One request changes, its client staying what it was or giving up.       *)
LEMMA OrderRequestUpdate ==
  ASSUME TypeOK, AnswersTrue, Ordered, UNCHANGED clientVars,
         NEW c \in Calls, NEW r, call' = [call EXCEPT ![c] = r],
         \A d \in Devices : \A i \in DOMAIN local[d] : Stored(d, i) => Stored(d, i)',
         r.phase # "free" =>
           /\ r.dev \in Devices
           /\ LeavesNoneOut(r.dev, ToStore(r))'
           /\ r.phase = "process" => \A j \in r.todo : r.op < j
           /\ Unacceptable(r.dev, r.errors),
         r.client # NoClient =>
           /\ r.phase # "free" /\ r.client = call[c].client
           /\ ToName(call[c]) \subseteq ToName(r),
         \A d \in Devices : \A i, j \in DOMAIN local[d] :
           (i < j /\ Acceptable(d, i) /\ Stored(d, j)') => Stored(d, i)'
  PROVE  Ordered'
  <1>1. UNCHANGED <<local, outbox, engine>>
    BY DEF clientVars
  <1>2. /\ call'[c] = r /\ \A b \in Calls : b # c => call'[b] = call[b]
    BY DEF TypeOK, ServerTypeOK
  <1>3. \A d \in Devices : \A i : Acceptable(d, i)' <=> Acceptable(d, i)
    BY <1>1 DEF Acceptable
  <1>4. \A d \in Devices : \A S : LeavesNoneOut(d, S) => LeavesNoneOut(d, S)'
    BY <1>1, NoneOutKept
  <1>5. \A d \in Devices : \A S : Unacceptable(d, S)' <=> Unacceptable(d, S)
    BY <1>1, <1>3 DEF Unacceptable
  <1>6. DueRowsWait'
    BY <1>1, <1>3 DEF Ordered, DueRowsWait, Due
  <1>7. \A b \in Engines : DeviceOf(b) \in Devices
    BY EngineType DEF TypeOK
  <1>8. BatchesInOrder'
    BY <1>1, <1>4, <1>7 DEF Ordered, BatchesInOrder
  <1>9. RequestsInOrder'
    BY <1>2, <1>4 DEF Ordered, RequestsInOrder, AnswersTrue
  <1>10. RefusedForGood'
    BY <1>1, <1>2, <1>5, <1>7 DEF Ordered, RefusedForGood, AnswersTrue
  <1>11. AnswersNameAll'
    <2>1. ASSUME NEW b \in Calls, call'[b].client # NoClient
          PROVE  /\ call'[b].client = call[b].client /\ call'[b].phase # "free"
                 /\ ToName(call[b]) \subseteq ToName(call'[b])
      BY <1>2, <2>1 DEF Ordered, AnswersNameAll
    <2>2. ASSUME NEW b \in Calls, call'[b].client # NoClient
          PROVE  /\ engine[call[b].client].pc = "wait"
                 /\ engine[call[b].client].batch \subseteq ToName(call'[b])
                 /\ \A a \in Calls : call'[a].client = call'[b].client => a = b
      BY <2>1, <2>2 DEF Ordered, AnswersNameAll
    <2>3. \A b \in Engines : ~engine[b].turf /\ (engine[b].pc = "errors" => engine[b].batch = {})
      BY DEF Ordered, AnswersNameAll
    <2> QED  BY <1>1, <2>1, <2>2, <2>3 DEF AnswersNameAll
  <1>12. \A d \in Devices : \A i, j \in DOMAIN local'[d] :
           (i < j /\ Acceptable(d, i)' /\ Stored(d, j)') => Stored(d, i)'
    BY <1>1, <1>3
  <1> QED  BY <1>6, <1>8, <1>9, <1>10, <1>11, <1>12 DEF Ordered

(* The schema takes what Acceptable says it takes.                         *)
LEMMA AcceptableAccepted ==
  ASSUME ClientTypeOK, NEW d \in Devices, NEW i \in DOMAIN local[d], Acceptable(d, i)
  PROVE  Accepts(d, local[d][i])
  <1>1. local[d][i] \in Entity
    BY DEF ClientTypeOK
  <1> QED  BY <1>1 DEF Acceptable, Accepts, Entity, Kinds

LEMMA ServerStepOrder ==
  ASSUME \A a, b \in Devices : a = b,
         WrittenInv, Ordered, NEW c \in Calls, ServerStep(c)
  PROVE  Ordered'
  <1>1. /\ TypeOK /\ ClientTypeOK /\ ServerTypeOK /\ CallsWritten
        /\ ReceivedStored /\ AnswersTrue
        /\ call[c] \in CallState /\ call \in [Calls -> CallState]
        /\ copies \in [Devices -> [OpIds -> Nat]]
    BY CallType DEF WrittenInv, DeliveryInv, TypeOK, ServerTypeOK
  <1>2. UNCHANGED clientVars /\ UNCHANGED local
    BY DEF ServerStep, clientVars
  <1>a. PICK q : q = call[c]
    OBVIOUS
  <1> DEFINE d == q.dev
  <1>3. q.phase # "free" =>
          /\ d \in Devices
          /\ LeavesNoneOut(d, ToStore(q))
          /\ q.phase = "process" => \A j \in q.todo : q.op < j
          /\ Unacceptable(d, q.errors)
          /\ q.todo \subseteq DOMAIN local[d]
          /\ q.phase \in {"process", "record"} => q.op \in DOMAIN local[d]
    BY <1>1, <1>a
    DEF AnswersTrue, Ordered, RequestsInOrder, RefusedForGood, CallsWritten, RequestWritten
  <1>4. DOMAIN local[d] \subseteq 1 .. MaxOps \/ q.phase = "free"
    BY <1>1, <1>3, OutboxAssumption DEF ClientTypeOK
  <1>5. ASSUME UNCHANGED copies
        PROVE  /\ \A b \in Devices : \A i \in DOMAIN local[b] : Stored(b, i) => Stored(b, i)'
               /\ \A b \in Devices : \A i, j \in DOMAIN local[b] :
                    (i < j /\ Acceptable(b, i) /\ Stored(b, j)') => Stored(b, i)'
    BY <1>5 DEF Ordered, Stored
  <1>6. ASSUME UNCHANGED copies, q.phase # "free",
               NEW r, call' = [call EXCEPT ![c] = r], r.phase # "free", r.dev = d,
               r.client = q.client, r.errors = q.errors,
               ToName(q) \subseteq ToName(r), LeavesNoneOut(d, ToStore(r)),
               r.phase = "process" => \A j \in r.todo : r.op < j
        PROVE  Ordered'
    <2>1. LeavesNoneOut(d, ToStore(r))'
      BY <1>2, <1>3, <1>5, <1>6, NoneOutKept
    <2> QED  BY <1>1, <1>2, <1>3, <1>a, <1>5, <1>6, <2>1, OrderRequestUpdate
  <1>7. CASE LookUp(c)
    <2>1. PICK i \in q.todo :
            /\ q.phase = "next" /\ \A j \in q.todo : i <= j
            /\ call' = [call EXCEPT ![c] = IF i \in received THEN Report(q, i) ELSE Begin(q, i)]
            /\ UNCHANGED copies
      BY <1>7, <1>a DEF LookUp, IsNext
    <2>2. q \in CallState /\ q.todo \subseteq 1 .. MaxOps /\ MaxOps \in Nat
      BY <1>1, <1>3, <1>4, <1>a, <2>1, OutboxAssumption
    <2>3. CASE i \in received
      <3>1. PICK r : r = Report(q, i)
        OBVIOUS
      <3>2. /\ call' = [call EXCEPT ![c] = r]
            /\ r.phase = "next" /\ r.dev = d /\ r.client = q.client /\ r.errors = q.errors
            /\ r.todo = q.todo \ {i} /\ r.processed = q.processed \cup {i}
        BY <2>1, <2>2, <2>3, <3>1, RequestStepFields, RequestStepRest
      <3>3. ToName(q) \subseteq ToName(r) /\ ToStore(q) = q.todo /\ ToStore(r) = q.todo \ {i}
        BY <2>1, <3>2 DEF ToName, ToStore
      <3>4. Stored(d, i)
        BY <1>1, <1>3, <2>1, <2>3 DEF ReceivedStored
      <3>5. LeavesNoneOut(d, ToStore(r))
        BY <1>3, <2>1, <3>3, <3>4 DEF LeavesNoneOut, Due
      <3> QED  BY <1>6, <2>1, <3>2, <3>3, <3>5
    <2>4. CASE i \notin received
      <3>1. PICK r : r = Begin(q, i)
        OBVIOUS
      <3>2. /\ call' = [call EXCEPT ![c] = r]
            /\ r.phase = "process" /\ r.dev = d /\ r.client = q.client /\ r.errors = q.errors
            /\ r.todo = q.todo \ {i} /\ r.processed = q.processed /\ r.op = i
        BY <2>1, <2>2, <2>4, <3>1, RequestStepFields, RequestStepRest
      <3>3. ToName(q) \subseteq ToName(r) /\ ToStore(q) = q.todo /\ ToStore(r) = q.todo
        BY <2>1, <3>2 DEF ToName, ToStore
      <3>4. \A j \in r.todo : r.op < j
        BY <2>1, <2>2, <3>2
      <3> QED  BY <1>3, <1>6, <2>1, <3>2, <3>3, <3>4
    <2> QED  BY <2>3, <2>4
  <1>8. CASE Process(c, local[call[c].dev][call[c].op])
    <2> DEFINE i == q.op
               entity == local[d][i]
    <2>1. /\ q.phase = "process" /\ d \in Devices /\ i \in DOMAIN local[d] /\ i \in OpIds
          /\ q \in CallState
      BY <1>1, <1>3, <1>8, <1>a, CallType DEF Process
    <2>2. CASE Accepts(d, entity)
      <3>1. PICK r : r = [q EXCEPT !.phase = "record"]
        OBVIOUS
      <3>2. /\ call' = [call EXCEPT ![c] = r]
            /\ copies' = [copies EXCEPT ![d][i] = RowsAfterInsert(entity, copies[d][i])]
        BY <1>1, <1>8, <1>a, <2>2, <3>1 DEF Process
      <3>3. /\ r.phase = "record" /\ r.dev = d /\ r.client = q.client /\ r.errors = q.errors
            /\ r.todo = q.todo /\ r.processed = q.processed /\ r.op = i
        BY <2>1, <3>1 DEF CallState
      <3>4. ToName(q) \subseteq ToName(r) /\ ToStore(q) = q.todo \cup {i} /\ ToStore(r) = q.todo
        BY <2>1, <3>3 DEF ToName, ToStore
      <3>5. RowsAfterInsert(entity, copies[d][i]) \in Nat \ {0}
        BY <1>1, <2>1 DEF RowsAfterInsert
      <3>6. \A b \in Devices, k \in OpIds : Stored(b, k)' <=> (Stored(b, k) \/ (b = d /\ k = i))
        <4>1. \A b \in Devices, k \in OpIds :
                copies'[b][k] = IF b = d /\ k = i THEN RowsAfterInsert(entity, copies[d][i])
                                                  ELSE copies[b][k]
          BY <1>1, <2>1, <3>2
        <4> QED  BY <3>5, <4>1 DEF Stored
      <3>7. \A b \in Devices : DOMAIN local[b] \subseteq OpIds
        BY <1>1, OutboxAssumption DEF ClientTypeOK, OpIds
      <3>8. \A b \in Devices : \A k \in DOMAIN local[b] : Stored(b, k) => Stored(b, k)'
        BY <3>6, <3>7
      <3>9. ASSUME NEW k \in DOMAIN local[d], k < i, Acceptable(d, k)
            PROVE  Stored(d, k)
        <4>1. CASE Due(d, k)
          <5>1. k \in q.todo \cup {i}
            BY <1>3, <2>1, <3>4, <3>9, <4>1 DEF LeavesNoneOut
          <5>2. k \in Nat /\ i \in Nat
            BY <2>1, <3>7, <3>9, OutboxAssumption DEF OpIds
          <5> QED  BY <1>3, <2>1, <3>9, <5>1, <5>2
        <4> QED  BY <3>9, <4>1 DEF Due
      <3>10. \A b \in Devices : \A k, j \in DOMAIN local[b] :
               (k < j /\ Acceptable(b, k) /\ Stored(b, j)') => Stored(b, k)'
        BY <2>1, <3>6, <3>7, <3>9 DEF Ordered
      <3>11. LeavesNoneOut(d, ToStore(r))'
        <4>1. ASSUME NEW j \in q.todo, NEW k \in DOMAIN local[d], k < j, Due(d, k)'
              PROVE  k \in q.todo
          <5>1. Due(d, k) /\ k # i
            BY <1>2, <2>1, <3>6, <3>7, <4>1 DEF Due, Acceptable
          <5> QED  BY <1>3, <2>1, <3>4, <4>1, <5>1 DEF LeavesNoneOut
        <4>2. LeavesNoneOut(d, q.todo)'
          BY <1>2, <4>1 DEF LeavesNoneOut
        <4> QED  BY <3>4, <4>2
      <3> QED  BY <1>1, <1>2, <1>3, <1>a, <2>1, <3>2, <3>3, <3>4, <3>8, <3>10, <3>11,
                  OrderRequestUpdate
    <2>3. CASE ~Accepts(d, entity)
      <3>1. PICK r : r = Refuse(q, i)
        OBVIOUS
      <3>2. /\ call' = [call EXCEPT ![c] = r] /\ UNCHANGED copies
        BY <1>1, <1>8, <1>a, <2>3, <3>1 DEF Process
      <3>3. /\ r.phase = "next" /\ r.dev = d /\ r.client = q.client
            /\ r.errors = q.errors \cup {i}
            /\ r.todo = q.todo \ {i} /\ r.processed = q.processed
        BY <2>1, <3>1, RequestStepFields, RequestStepRest
      <3>4. ToName(q) \subseteq ToName(r) /\ ToStore(q) = q.todo \cup {i} /\ ToStore(r) = q.todo \ {i}
        BY <2>1, <3>3 DEF ToName, ToStore
      <3>5. ~Acceptable(d, i)
        BY <1>1, <2>1, <2>3, AcceptableAccepted
      <3>6. Unacceptable(d, r.errors)
        BY <1>3, <2>1, <3>3, <3>5 DEF Unacceptable
      <3>7. LeavesNoneOut(d, ToStore(r))
        BY <1>3, <2>1, <3>4, <3>5 DEF LeavesNoneOut, Due
      <3>8. LeavesNoneOut(d, ToStore(r))'
        BY <1>2, <1>5, <2>1, <3>2, <3>7, NoneOutKept
      <3> QED  BY <1>1, <1>2, <1>5, <1>a, <2>1, <3>2, <3>3, <3>4, <3>6, <3>8, OrderRequestUpdate
    <2> QED  BY <2>2, <2>3
  <1>9. CASE Record(c, TRUE)
    <2>1. PICK r : r = Report(q, q.op)
      OBVIOUS
    <2>2. /\ q.phase = "record" /\ q \in CallState /\ UNCHANGED copies
          /\ call' = [call EXCEPT ![c] = r]
      BY <1>1, <1>9, <1>a, <2>1 DEF Record
    <2>3. /\ r.phase = "next" /\ r.dev = d /\ r.client = q.client /\ r.errors = q.errors
          /\ r.todo = q.todo \ {q.op} /\ r.processed = q.processed \cup {q.op}
      BY <2>1, <2>2, RequestStepFields, RequestStepRest
    <2>4. /\ ToName(q) \subseteq ToName(r)
          /\ ToStore(q) = q.todo /\ ToStore(r) = q.todo \ {q.op}
      BY <2>2, <2>3 DEF ToName, ToStore
    <2>5. Stored(d, q.op)
      BY <1>1, <1>a, <2>2 DEF AnswersTrue
    <2>6. LeavesNoneOut(d, ToStore(r))
      BY <1>3, <2>2, <2>4, <2>5 DEF LeavesNoneOut, Due
    <2> QED  BY <1>6, <2>2, <2>3, <2>4, <2>6
  <1>10. CASE Abandon(c)
    <2>1. FreeCall.phase = "free" /\ FreeCall.client = NoClient
      BY DEF FreeCall
    <2> QED  BY <1>1, <1>2, <1>5, <1>10, <2>1, OrderRequestUpdate DEF Abandon
  <1> QED  BY <1>7, <1>8, <1>9, <1>10 DEF ServerStep

LEMMA InitOrder == Init => OrderInv
  <1>1. Init => Ordered
    BY DEF Init, ClientInit, ServerInit, Idle, At, FreeCall, Ordered, DueRowsWait,
           BatchesInOrder, RequestsInOrder, RefusedForGood, Unacceptable, AnswersNameAll
  <1> QED  BY <1>1, InitWritten, InitRows DEF OrderInv

LEMMA NextOrder ==
  ASSUME \A a, b \in Devices : a = b, \A a, b \in Isolates : a = b
  PROVE  OrderInv /\ [Next]_vars => OrderInv'
  <1> SUFFICES ASSUME OrderInv, [Next]_vars, Quiet' PROVE Ordered'
    BY NextWritten, NextRows DEF OrderInv
  <1>1. /\ WrittenInv /\ TypeOK /\ CountTypeOK /\ ReceivedStored /\ AnswersTrue /\ AnswersOwn
        /\ NoStrandedRow
    BY DEF OrderInv, WrittenInv, DeliveryInv, RowsInv, TypeOK
  <1>2. \A a, b \in Engines : a = b
    BY DEF Engines
  <1>3. lost \in Nat /\ faults \in Nat /\ removals \in Nat /\ kills \in Nat
    BY <1>1, PushAssumption DEF CountTypeOK
  <1>4. ASSUME Quiet, NEW e \in Engines,
               LocalStep(e) \/ SendBatch(e) \/ ReceiveAnswer(e) \/ LoseCall(e)
        PROVE  Ordered'
    BY <1>1, <1>2, <1>4, LocalStepOrder, SendBatchOrder, ReceiveAnswerOrder, LoseCallOrder
    DEF OrderInv, Quiet
  <1>5. ASSUME NEW e \in Engines
        PROVE  ~RemoveTurf(e) /\ ~Kill(e)
    BY <1>3 DEF RemoveTurf, Kill, Quiet
  <1>6. ASSUME NEW c \in Calls
        PROVE  /\ ~ServerFault(c)
               /\ Quiet /\ ServerStep(c) => Ordered'
    <2>1. ~ServerFault(c)
      <3>1. ServerFault(c) => faults' = faults + 1
        BY DEF ServerFault
      <3>2. faults' = 0
        BY DEF Quiet
      <3> QED  BY <1>3, <3>1, <3>2
    <2>2. ASSUME Quiet, ServerStep(c)
          PROVE  Ordered'
      <3>1. Ordered
        BY <2>2 DEF OrderInv
      <3> QED  BY <1>1, <2>2, <3>1, ServerStepOrder
    <2> QED  BY <2>1, <2>2
  <1>7. Quiet /\ (RecordFieldWork \/ UserStep) => Ordered'
    BY <1>1, RecordingOrder, UserStepOrder DEF OrderInv
  <1>8. UNCHANGED vars => UNCHANGED <<faults, removals, kills>> /\ (Quiet => Ordered')
    <2>1. ASSUME UNCHANGED vars, Quiet
          PROVE  Ordered'
      <3>1. UNCHANGED <<local, outbox, engine, call, copies>>
        BY <2>1 DEF vars, clientVars, serverVars
      <3>2. Ordered
        BY <2>1 DEF OrderInv
      <3> QED  BY <3>1, <3>2
               DEF Ordered, DueRowsWait, BatchesInOrder, RequestsInOrder, RefusedForGood,
                   AnswersNameAll, LeavesNoneOut, Unacceptable, Due, Acceptable, Stored
    <2> QED  BY <2>1 DEF vars, countVars
  <1>9. Quiet
    <2>1. \/ UNCHANGED <<faults, removals, kills>>
          \/ \E e \in Engines : RemoveTurf(e) \/ Kill(e)
          \/ \E c \in Calls : ServerFault(c)
      BY <1>8 DEF Next, RecordFieldWork, UserStep, LocalStep, SendBatch, ReceiveAnswer,
                  LoseCall, ServerStep, countVars
    <2> QED  BY <1>5, <1>6, <2>1 DEF Quiet
  <1> QED  BY <1>4, <1>5, <1>6, <1>7, <1>8, <1>9 DEF Next

(* On one device with one engine, whatever calls are lost and however      *)
(* requests nobody waits for interleave with their repetitions, nothing is *)
(* stored before older work the schema accepts: the engine selects the     *)
(* oldest pending rows, a request takes its operations in order, and no    *)
(* acceptable work is ever refused, left unnamed by an answer or dropped.  *)
THEOREM StoredInOrder ==
  ASSUME \A a, b \in Devices : a = b, \A a, b \in Isolates : a = b
  PROVE  Spec => []InCreationOrder
  <1>1. OrderInv => InCreationOrder
    BY DEF OrderInv, Quiet, Ordered, InCreationOrder
  <1> QED  BY <1>1, InitOrder, NextOrder, PTL DEF Spec

-----------------------------------------------------------------------------
(* Who waits for whom: a request with a client is the only one of an       *)
(* engine that waits, and what a request is writing it has taken off its   *)
(* list.                                                                   *)
AnswersAwaited ==
  \A c \in Calls : call[c].client # NoClient =>
    /\ call[c].phase # "free"
    /\ engine[call[c].client].pc = "wait"
    /\ \A b \in Calls : call[b].client = call[c].client => b = c

WrittenIsTaken == \A c \in Calls : call[c].phase = "process" => call[c].op \notin call[c].todo

AwaitedInv == WrittenInv /\ AnswersAwaited /\ WrittenIsTaken

(* One engine moves that waits for no answer.                              *)
LEMMA EngineMoves ==
  ASSUME ClientTypeOK, NEW e \in Engines, LocalStep(e) \/ RemoveTurf(e)
  PROVE  /\ engine[e].pc \notin {"wait", "mark"}
         /\ \E es : /\ engine' = [engine EXCEPT ![e] = es]
                    /\ es.pc # "wait"
                    /\ es.pc = "mark" => es.batch \subseteq DOMAIN outbox[DeviceOf(e)]
  <1>1. engine[e] \in EngineState
    BY EngineType DEF ClientTypeOK
  <1>2. \A pc, batch : At(pc, batch).pc = pc /\ At(pc, batch).batch = batch
    BY DEF At
  <1>3. Idle.pc = "idle"
    BY DEF Idle, At
  <1>4. CASE StartCycle(e) \/ FinishTurf(e) \/ ResetRetriable(e)
    BY <1>2, <1>3, <1>4 DEF StartCycle, FinishTurf, ResetRetriable
  <1>5. CASE SelectPending(e)
    <2> DEFINE B == GetPendingOperations(outbox[DeviceOf(e)], BatchSize)
               es == IF B = {} THEN At("retry", {}) ELSE At("mark", B)
    <2>1. engine' = [engine EXCEPT ![e] = es] /\ engine[e].pc = "select"
      BY <1>5 DEF SelectPending
    <2>2. es.pc # "wait" /\ es.batch \subseteq B
      BY <1>2
    <2>3. B \subseteq DOMAIN outbox[DeviceOf(e)]
      BY DEF GetPendingOperations, IdsWithStatus
    <2> HIDE DEF es
    <2> QED  BY <2>1, <2>2, <2>3
  <1>6. CASE MarkNextError(e)
    <2>1. PICK E : /\ engine' = [engine EXCEPT ![e] = [engine[e] EXCEPT !.errors = E]]
                   /\ engine[e].pc = "errors"
      BY <1>1, <1>6 DEF MarkNextError
    <2>2. [engine[e] EXCEPT !.errors = E].pc = engine[e].pc
      BY <1>1 DEF EngineState
    <2> QED  BY <2>1, <2>2
  <1>7. CASE FinishBatch(e)
    <2> DEFINE es == IF engine[e].pushed THEN At("select", {}) ELSE At("retry", {})
    <2>1. engine' = [engine EXCEPT ![e] = es] /\ engine[e].pc = "errors"
      BY <1>7 DEF FinishBatch
    <2>2. es.pc \notin {"wait", "mark"}
      BY <1>2
    <2> HIDE DEF es
    <2> QED  BY <2>1, <2>2
  <1>8. CASE SelectRetriable(e)
    <2> DEFINE B == GetRetriableFailedOperations(outbox[DeviceOf(e)])
               es == IF B = {} THEN Idle ELSE At("reset", B)
    <2>1. engine' = [engine EXCEPT ![e] = es] /\ engine[e].pc = "retry"
      BY <1>8 DEF SelectRetriable
    <2>2. es.pc \notin {"wait", "mark"}
      BY <1>2, <1>3
    <2> HIDE DEF es
    <2> QED  BY <2>1, <2>2
  <1>9. CASE RemoveTurf(e)
    <2>1. PICK ops \in SUBSET IdsWithStatus(outbox[DeviceOf(e)], "pending") :
            /\ engine' = [engine EXCEPT ![e] = [At("mark", ops) EXCEPT !.turf = TRUE]]
            /\ engine[e].pc = "idle"
      BY <1>9 DEF RemoveTurf, SelectForTurf
    <2>2. /\ [At("mark", ops) EXCEPT !.turf = TRUE].batch = ops
          /\ [At("mark", ops) EXCEPT !.turf = TRUE].pc = "mark"
      BY DEF At
    <2> QED  BY <2>1, <2>2 DEF IdsWithStatus
  <1> QED  BY <1>4, <1>5, <1>6, <1>7, <1>8, <1>9 DEF LocalStep

(* What a lost call leaves of the requests.                                *)
LEMMA OrphanFields ==
  ASSUME ServerTypeOK, NEW e, call' = Orphan(e), NEW c \in Calls
  PROVE  /\ call'[c].phase = call[c].phase /\ call'[c].dev = call[c].dev
         /\ call'[c].todo = call[c].todo /\ call'[c].op = call[c].op
         /\ call'[c].processed = call[c].processed
         /\ call'[c].client = IF call[c].client = e THEN NoClient ELSE call[c].client
  <1>1. call[c] \in CallState
    BY CallType
  <1>2. PICK o : o = [call[c] EXCEPT !.client = NoClient]
    OBVIOUS
  <1>3. /\ o.phase = call[c].phase /\ o.dev = call[c].dev /\ o.todo = call[c].todo
        /\ o.op = call[c].op /\ o.processed = call[c].processed /\ o.client = NoClient
    BY <1>1, <1>2 DEF CallState
  <1>4. call'[c] = IF call[c].client = e THEN o ELSE call[c]
    BY <1>2 DEF Orphan
  <1> QED  BY <1>3, <1>4

(* A server step changes one request, which keeps its client or had none.  *)
LEMMA RequestMoves ==
  ASSUME ServerTypeOK, WrittenIsTaken, NEW c \in Calls, ServerStep(c) \/ ServerFault(c)
  PROVE  /\ UNCHANGED <<local, outbox, engine>> /\ call[c].phase # "free"
         /\ \E r : /\ call' = [call EXCEPT ![c] = r]
                   /\ \/ r.client = call[c].client /\ r.phase # "free"
                      \/ r.client = NoClient
                   /\ r.phase = "process" => r.op \notin r.todo
  <1>1. call[c] \in CallState
    BY CallType
  <1>2. UNCHANGED <<local, outbox, engine>>
    BY DEF ServerStep, ServerFault, clientVars
  <1>3. CASE LookUp(c)
    <2>1. PICK i \in call[c].todo :
            /\ call[c].phase = "next"
            /\ \/ call' = [call EXCEPT ![c] = Report(call[c], i)]
               \/ call' = [call EXCEPT ![c] = Begin(call[c], i)]
      BY <1>3 DEF LookUp, IsNext
    <2>2. /\ Report(call[c], i).client = call[c].client /\ Report(call[c], i).phase = "next"
          /\ Begin(call[c], i).client = call[c].client /\ Begin(call[c], i).phase = "process"
          /\ Begin(call[c], i).op \notin Begin(call[c], i).todo
      BY <1>1, RequestStepFields, RequestStepRest
    <2> QED  BY <1>2, <2>1, <2>2
  <1>4. CASE \/ \E entity : Process(c, entity)
             \/ \E recorded \in BOOLEAN : Record(c, recorded)
             \/ StatementFails(c)
             \/ \E entity : WriteInDoubt(c, entity)
    <2>1. PICK i : /\ call[c].phase # "free"
                   /\ \/ call' = [call EXCEPT ![c] = Report(call[c], i)]
                      \/ call' = [call EXCEPT ![c] = Refuse(call[c], i)]
                      \/ call' = [call EXCEPT ![c] = [call[c] EXCEPT !.phase = "record"]]
      <3>1. CASE \E entity : Process(c, entity)
        BY <1>1, <3>1 DEF Process, ServerTypeOK
      <3>2. CASE \E recorded \in BOOLEAN : Record(c, recorded)
        BY <3>2 DEF Record, ServerTypeOK
      <3>3. CASE StatementFails(c)
        BY <3>3 DEF StatementFails, IsNext, ServerTypeOK
      <3>4. CASE \E entity : WriteInDoubt(c, entity)
        BY <3>4 DEF WriteInDoubt, ServerTypeOK
      <3> QED  BY <1>4, <3>1, <3>2, <3>3, <3>4
    <2>2. /\ Report(call[c], i).client = call[c].client /\ Report(call[c], i).phase = "next"
          /\ Refuse(call[c], i).client = call[c].client /\ Refuse(call[c], i).phase = "next"
      BY <1>1, RequestStepFields
    <2>3. /\ [call[c] EXCEPT !.phase = "record"].client = call[c].client
          /\ [call[c] EXCEPT !.phase = "record"].phase = "record"
      BY <1>1 DEF CallState
    <2> QED  BY <1>2, <2>1, <2>2, <2>3
  <1>5. CASE Abandon(c)
    <2>1. FreeCall.client = NoClient /\ FreeCall.phase = "free"
      BY DEF FreeCall
    <2> QED  BY <1>2, <1>5, <2>1 DEF Abandon
  <1> QED  BY <1>3, <1>4, <1>5 DEF ServerStep, ServerFault

LEMMA InitAwaited == Init => AwaitedInv
  <1>1. FreeCall.client = NoClient /\ FreeCall.phase = "free"
    BY DEF FreeCall
  <1>2. Init => AnswersAwaited /\ WrittenIsTaken
    BY <1>1 DEF Init, ServerInit, AnswersAwaited, WrittenIsTaken
  <1> QED  BY <1>2, InitWritten DEF AwaitedInv

LEMMA NextAwaited == AwaitedInv /\ [Next]_vars => AwaitedInv'
  <1> SUFFICES ASSUME AwaitedInv, [Next]_vars
               PROVE  AnswersAwaited' /\ WrittenIsTaken'
    BY NextWritten DEF AwaitedInv
  <1>1. /\ TypeOK /\ ClientTypeOK /\ ServerTypeOK /\ AnswersAwaited /\ WrittenIsTaken
        /\ call \in [Calls -> CallState]
    BY DEF AwaitedInv, WrittenInv, DeliveryInv, TypeOK, ServerTypeOK
  <1>2. engine \in [Engines -> EngineState] /\ NoClient \notin Engines
    BY <1>1, PushAssumption DEF ClientTypeOK
  <1>3. \A c \in Calls : call[c].client \in Engines \cup {NoClient}
    BY <1>1, CallType DEF CallState
  <1>4. CASE UNCHANGED <<engine, call>>
    BY <1>1, <1>4 DEF AnswersAwaited, WrittenIsTaken
  <1>5. RecordFieldWork \/ UserStep \/ UNCHANGED vars => UNCHANGED <<engine, call>>
    BY DEF RecordFieldWork, UserStep, vars, clientVars, serverVars, SaveDoorKnock, SavePhoneCall,
           SaveContact, SaveNextPart, AddNote, RetryDeadLetter, DismissDeadLetter
  <1>6. ASSUME NEW e \in Engines, LocalStep(e) \/ RemoveTurf(e)
        PROVE  AnswersAwaited' /\ WrittenIsTaken'
    <2>1. PICK es : engine' = [engine EXCEPT ![e] = es] /\ engine[e].pc # "wait"
      BY <1>1, <1>6, EngineMoves
    <2>2. UNCHANGED call
      BY <1>6 DEF LocalStep, RemoveTurf, serverVars
    <2>3. \A c \in Calls : call[c].client # NoClient => engine'[call[c].client] = engine[call[c].client]
      BY <1>1, <1>2, <1>3, <2>1 DEF AnswersAwaited
    <2> QED  BY <1>1, <2>2, <2>3 DEF AnswersAwaited, WrittenIsTaken
  <1>7. ASSUME NEW e \in Engines, SendBatch(e)
        PROVE  AnswersAwaited' /\ WrittenIsTaken'
    <2>1. PICK r : r = NewCall(e, DeviceOf(e), engine[e].batch)
      OBVIOUS
    <2>2. PICK c \in Calls : call[c].phase = "free" /\ call' = [call EXCEPT ![c] = r]
      BY <1>7, <2>1 DEF SendBatch
    <2>3. r.phase = "next" /\ r.client = e
      BY <2>1 DEF NewCall
    <2>4. PICK es : es = [engine[e] EXCEPT !.pc = "wait"]
      OBVIOUS
    <2>5. engine' = [engine EXCEPT ![e] = es] /\ engine[e].pc = "mark" /\ es.pc = "wait"
      <3>1. engine[e] \in EngineState
        BY <1>2
      <3> QED  BY <1>2, <1>7, <2>4, <3>1 DEF SendBatch, MarkBatch, EngineState
    <2>6. \A b \in Calls : call[b].client # e
      BY <1>1, <1>2, <2>5 DEF AnswersAwaited
    <2>7. /\ call'[c] = r /\ \A b \in Calls : b # c => call'[b] = call[b]
          /\ engine'[e] = es /\ \A b \in Engines : b # e => engine'[b] = engine[b]
      BY <1>1, <1>2, <2>2, <2>5
    <2> QED  BY <1>1, <1>3, <2>3, <2>5, <2>6, <2>7 DEF AnswersAwaited, WrittenIsTaken
  <1>8. ASSUME NEW e \in Engines, ReceiveAnswer(e)
        PROVE  AnswersAwaited' /\ WrittenIsTaken'
    <2>1. PICK c \in Calls : call[c].client = e /\ call' = [call EXCEPT ![c] = FreeCall]
      BY <1>8 DEF ReceiveAnswer
    <2>2. \A b \in Engines : b # e => engine'[b] = engine[b]
      BY <1>2, <1>8 DEF ReceiveAnswer, TakeAnswer
    <2>3. FreeCall.phase = "free" /\ FreeCall.client = NoClient
      BY DEF FreeCall
    <2>4. call'[c] = FreeCall /\ \A b \in Calls : b # c => call'[b] = call[b]
      BY <1>1, <2>1
    <2>5. \A b \in Calls : b # c => call[b].client # e
      BY <1>1, <1>2, <2>1 DEF AnswersAwaited
    <2> QED  BY <1>1, <1>3, <2>2, <2>3, <2>4, <2>5 DEF AnswersAwaited, WrittenIsTaken
  <1>9. ASSUME NEW e \in Engines, LoseCall(e) \/ Kill(e)
        PROVE  AnswersAwaited' /\ WrittenIsTaken'
    <2>1. call' = Orphan(e)
      BY <1>9 DEF LoseCall, Kill
    <2>2. \A b \in Engines : b # e => engine'[b] = engine[b]
      BY <1>2, <1>9 DEF LoseCall, Kill, CallFails, KillIsolate
    <2>3. \A c \in Calls : /\ call'[c].phase = call[c].phase /\ call'[c].todo = call[c].todo
                           /\ call'[c].op = call[c].op
                           /\ call'[c].client = IF call[c].client = e THEN NoClient
                                                                     ELSE call[c].client
      BY <1>1, <2>1, OrphanFields
    <2> QED  BY <1>1, <1>2, <1>3, <2>2, <2>3 DEF AnswersAwaited, WrittenIsTaken
  <1>10. ASSUME NEW c \in Calls, ServerStep(c) \/ ServerFault(c)
         PROVE  AnswersAwaited' /\ WrittenIsTaken'
    <2>1. PICK r : /\ call' = [call EXCEPT ![c] = r]
                   /\ \/ r.client = call[c].client /\ r.phase # "free"
                      \/ r.client = NoClient
                   /\ r.phase = "process" => r.op \notin r.todo
      BY <1>1, <1>10, RequestMoves
    <2>2. UNCHANGED engine
      BY <1>1, <1>10, RequestMoves
    <2>3. call'[c] = r /\ \A b \in Calls : b # c => call'[b] = call[b]
      BY <1>1, <2>1
    <2> QED  BY <1>1, <2>1, <2>2, <2>3 DEF AnswersAwaited, WrittenIsTaken
  <1> QED  BY <1>4, <1>5, <1>6, <1>7, <1>8, <1>9, <1>10 DEF Next

-----------------------------------------------------------------------------
(* How often an operation is written.  While a device has one engine, an   *)
(* operation has a credit that only a failure renews: each row of its      *)
(* entity has used one up, each request that may still write it holds one, *)
(* and one is left for the engine as long as it may send the operation     *)
(* again.                                                                  *)
Asks(r, d, i) == r.phase # "free" /\ r.dev = d /\ i \in ToStore(r)

Asked(d, i) == {c \in Calls : Asks(call[c], d, i)}

(* What a request answers for: it will write it or report it processed.    *)
Handles(r, i) == i \in ToStore(r) \cup r.processed \/ (r.phase = "record" /\ r.op = i)

Answering(r, d) == r.client # NoClient /\ r.dev = d

Sender(d) == <<d, Main>>

Covered(e, i) ==
  /\ engine[e].pc = "wait"
  /\ i \in engine[e].batch
  /\ \E c \in Calls : call[c].client = e /\ Handles(call[c], i)

Resend(d, i) ==
  \/ engine[Sender(d)].pc = "mark" /\ i \in engine[Sender(d)].batch
  \/ Held(d, i) /\ ~Covered(Sender(d), i)

Failures == lost + faults + kills

Counted(d, i) ==
  /\ IsFiniteSet(Asked(d, i))
  /\ copies[d][i] + Cardinality(Asked(d, i)) + (IF Resend(d, i) THEN 1 ELSE 0)
       <= 1 + Failures

OneRow ==
  \A d \in Devices : \A i \in DOMAIN local[d] :
    local[d][i].kind # "task_note" => copies[d][i] <= 1

AllCounted == \A d \in Devices, i \in OpIds : Counted(d, i)

(* A step that moves no request keeps the count, or adds a failure.        *)
LEMMA CountKept ==
  ASSUME TypeOK, TypeOK', NEW d \in Devices, NEW i \in OpIds, Counted(d, i),
         Asked(d, i)' = Asked(d, i), copies'[d][i] = copies[d][i],
         \/ Failures' = Failures /\ (Resend(d, i)' => Resend(d, i))
         \/ Failures' = Failures + 1
  PROVE  Counted(d, i)'
  <1>1. copies[d][i] \in Nat /\ Failures \in Nat
    BY DEF TypeOK, ServerTypeOK, CountTypeOK, Failures
  <1>2. Cardinality(Asked(d, i)) \in Nat
    BY FS_CardinalityType DEF Counted
  <1> QED  BY <1>1, <1>2 DEF Counted

(* One request changes: whom it may still write is counted exactly.        *)
LEMMA AskedUpdate ==
  ASSUME ServerTypeOK, NEW c \in Calls, NEW r, call' = [call EXCEPT ![c] = r],
         NEW d \in Devices, NEW i \in OpIds, IsFiniteSet(Asked(d, i))
  PROVE  /\ IsFiniteSet(Asked(d, i)')
         /\ Cardinality(Asked(d, i)) \in Nat /\ Cardinality(Asked(d, i)') \in Nat
         /\ (Asks(call[c], d, i) <=> Asks(r, d, i))
               => Cardinality(Asked(d, i)') = Cardinality(Asked(d, i))
         /\ (Asks(call[c], d, i) /\ ~Asks(r, d, i))
               => Cardinality(Asked(d, i)') + 1 = Cardinality(Asked(d, i))
         /\ (~Asks(call[c], d, i) /\ Asks(r, d, i))
               => Cardinality(Asked(d, i)') = Cardinality(Asked(d, i)) + 1
  <1>1. call'[c] = r /\ \A b \in Calls : b # c => call'[b] = call[b]
    BY DEF ServerTypeOK
  <1>2. Cardinality(Asked(d, i)) \in Nat
    BY FS_CardinalityType
  <1>3. CASE Asks(call[c], d, i) <=> Asks(r, d, i)
    <2>1. \A b \in Calls : Asks(call'[b], d, i) <=> Asks(call[b], d, i)
      BY <1>1, <1>3
    <2>2. Asked(d, i)' = Asked(d, i)
      BY <2>1 DEF Asked
    <2> QED  BY <1>2, <1>3, <2>2
  <1>4. CASE ~Asks(call[c], d, i) /\ Asks(r, d, i)
    <2>1. Asked(d, i)' = Asked(d, i) \cup {c} /\ c \notin Asked(d, i)
      BY <1>1, <1>4 DEF Asked
    <2>2. /\ IsFiniteSet(Asked(d, i)')
          /\ Cardinality(Asked(d, i)') = Cardinality(Asked(d, i)) + 1
      BY <2>1, FS_AddElement
    <2>3. Cardinality(Asked(d, i)') \in Nat
      BY <2>2, FS_CardinalityType
    <2> QED  BY <1>2, <1>4, <2>2, <2>3
  <1>5. CASE Asks(call[c], d, i) /\ ~Asks(r, d, i)
    <2>1. Asked(d, i)' = Asked(d, i) \ {c} /\ c \in Asked(d, i)
      BY <1>1, <1>5 DEF Asked
    <2>2. /\ IsFiniteSet(Asked(d, i)')
          /\ Cardinality(Asked(d, i)') = Cardinality(Asked(d, i)) - 1
      BY <2>1, FS_RemoveElement
    <2>3. Cardinality(Asked(d, i)') \in Nat
      BY <2>2, FS_CardinalityType
    <2> QED  BY <1>2, <1>5, <2>2, <2>3
  <1> QED  BY <1>3, <1>4, <1>5

(* A request changes: an operation it no longer answers for may be sent    *)
(* again.                                                                  *)
LEMMA ResendUpdate ==
  ASSUME TypeOK, AnswersOwn, UNCHANGED <<outbox, engine>>, NEW c \in Calls,
         call[c].phase # "free", NEW r, call' = [call EXCEPT ![c] = r],
         r.client = call[c].client \/ call[c].client = NoClient,
         NEW d \in Devices, NEW i, Resend(d, i)', ~Resend(d, i)
  PROVE  /\ call[c].client # NoClient /\ call[c].dev = d
         /\ Handles(call[c], i) /\ ~Handles(r, i)
  <1>1. call'[c] = r /\ \A b \in Calls : b # c => call'[b] = call[b]
    BY DEF TypeOK, ServerTypeOK
  <1>2. Covered(Sender(d), i) /\ ~Covered(Sender(d), i)'
    BY DEF Resend, Held
  <1>3. PICK b \in Calls : call[b].client = Sender(d) /\ Handles(call[b], i)
    BY <1>2 DEF Covered
  <1>4. ~(call'[b].client = Sender(d) /\ Handles(call'[b], i))
    BY <1>2 DEF Covered
  <1>5. b = c
    BY <1>1, <1>3, <1>4
  <1>6. Sender(d) \in Engines /\ DeviceOf(Sender(d)) = d /\ Sender(d) # NoClient
    BY ClientAssumption, PushAssumption DEF Sender, Engines, DeviceOf
  <1>7. call[c].dev = d
    BY <1>3, <1>5, <1>6 DEF AnswersOwn
  <1> QED  BY <1>1, <1>3, <1>4, <1>5, <1>6, <1>7

(* A step of a request keeps the count: no request asks anew, a row more   *)
(* is paid for by a request that asks no longer, and so is, unless there   *)
(* was a failure, an operation to be sent again.                           *)
LEMMA CountRequest ==
  ASSUME TypeOK, TypeOK', AnswersOwn, UNCHANGED <<outbox, engine>>, NEW c \in Calls,
         call[c].phase # "free", NEW r, call' = [call EXCEPT ![c] = r],
         r.client = call[c].client \/ call[c].client = NoClient,
         NEW d \in Devices, NEW i \in OpIds, Counted(d, i),
         Asks(r, d, i) => Asks(call[c], d, i),
         \/ copies'[d][i] = copies[d][i]
         \/ copies'[d][i] <= copies[d][i] + 1 /\ Asks(call[c], d, i) /\ ~Asks(r, d, i),
         \/ Failures' = Failures + 1
         \/ /\ Failures' = Failures
            /\ \/ (Answering(call[c], d) /\ Handles(call[c], i)) => Handles(r, i)
               \/ copies'[d][i] = copies[d][i] /\ Asks(call[c], d, i) /\ ~Asks(r, d, i)
  PROVE  Counted(d, i)'
  <1> DEFINE n == Cardinality(Asked(d, i))
             m == Cardinality(Asked(d, i)')
             x == IF Resend(d, i) THEN 1 ELSE 0
             y == IF Resend(d, i)' THEN 1 ELSE 0
  <1>1. copies[d][i] \in Nat /\ copies'[d][i] \in Nat
    BY DEF TypeOK, ServerTypeOK
  <1>2. Failures \in Nat /\ Failures' \in Nat
    <2>1. /\ lost \in Nat /\ faults \in Nat /\ kills \in Nat
          /\ lost' \in Nat /\ faults' \in Nat /\ kills' \in Nat
      BY PushAssumption DEF TypeOK, CountTypeOK
    <2>2. \A a, b, k \in Nat : a + b + k \in Nat
      OBVIOUS
    <2> QED  BY <2>1, <2>2, Zenon DEF Failures
  <1>3. ServerTypeOK /\ IsFiniteSet(Asked(d, i)) /\ copies[d][i] + n + x <= 1 + Failures
    BY DEF TypeOK, Counted
  <1>4. /\ IsFiniteSet(Asked(d, i)') /\ n \in Nat /\ m \in Nat
        /\ (Asks(call[c], d, i) <=> Asks(r, d, i)) => m = n
        /\ (Asks(call[c], d, i) /\ ~Asks(r, d, i)) => m + 1 = n
    BY <1>3, AskedUpdate
  <1>5. x \in {0, 1} /\ y \in {0, 1}
    OBVIOUS
  <1>6. ((Answering(call[c], d) /\ Handles(call[c], i)) => Handles(r, i)) => y <= x
    <2>1. CASE Resend(d, i)' /\ ~Resend(d, i)
      BY <2>1, ResendUpdate DEF Answering
    <2>2. CASE ~(Resend(d, i)' /\ ~Resend(d, i))
      BY <2>2
    <2> QED  BY <2>1, <2>2
  <1> HIDE DEF n, m, x, y
  <1>7. copies'[d][i] + m <= copies[d][i] + n
    BY <1>1, <1>4
  <1>8. copies'[d][i] + m + y <= 1 + Failures'
    <2>1. CASE Failures' = Failures + 1
      BY <1>1, <1>2, <1>3, <1>4, <1>5, <1>7, <2>1
    <2>2. CASE Failures' = Failures /\ ((Answering(call[c], d) /\ Handles(call[c], i)) => Handles(r, i))
      BY <1>1, <1>2, <1>3, <1>4, <1>5, <1>6, <1>7, <2>2
    <2>3. CASE /\ Failures' = Failures /\ copies'[d][i] = copies[d][i]
               /\ Asks(call[c], d, i) /\ ~Asks(r, d, i)
      BY <1>1, <1>2, <1>3, <1>4, <1>5, <2>3
    <2> QED  BY <2>1, <2>2, <2>3
  <1> QED  BY <1>4, <1>8 DEF m, y, Counted

-----------------------------------------------------------------------------
(* What a request still writes and answers for after a step on i.          *)
LEMMA RequestStepAsks ==
  ASSUME NEW r \in CallState, r.phase # "free", NEW i
  PROVE  /\ \A d, j : Asks(Report(r, i), d, j) => Asks(r, d, j)
         /\ \A j : (Handles(r, j) /\ (r.phase \in {"process", "record"} => i = r.op))
                       => Handles(Report(r, i), j)
         /\ i \in r.todo /\ r.phase = "next" =>
              /\ \A d, j : Asks(Begin(r, i), d, j) => Asks(r, d, j)
              /\ \A j : Handles(r, j) => Handles(Begin(r, i), j)
         /\ \A d, j : Asks(Refuse(r, i), d, j) => Asks(r, d, j) /\ j # i
         /\ \A j : (Handles(r, j) /\ (r.phase = "process" => i = r.op) /\ r.phase # "record" /\ j # i)
                       => Handles(Refuse(r, i), j)
  <1>1. PICK p : p = Report(r, i)
    OBVIOUS
  <1>2. PICK b : b = Begin(r, i)
    OBVIOUS
  <1>3. PICK f : f = Refuse(r, i)
    OBVIOUS
  <1>4. /\ p.dev = r.dev /\ p.phase = "next" /\ p.todo = r.todo \ {i}
        /\ p.processed = r.processed \cup {i}
    BY <1>1, RequestStepFields, RequestStepRest
  <1>5. /\ b.dev = r.dev /\ b.phase = "process" /\ b.todo = r.todo \ {i} /\ b.op = i
        /\ b.processed = r.processed
    BY <1>2, RequestStepFields, RequestStepRest
  <1>6. /\ f.dev = r.dev /\ f.phase = "next" /\ f.todo = r.todo \ {i}
        /\ f.processed = r.processed
    BY <1>3, RequestStepFields, RequestStepRest
  <1>7. /\ \A d, j : Asks(p, d, j) => Asks(r, d, j)
        /\ \A j : (Handles(r, j) /\ (r.phase \in {"process", "record"} => i = r.op)) => Handles(p, j)
    BY <1>4 DEF Asks, Handles, ToStore
  <1>8. i \in r.todo /\ r.phase = "next" =>
              /\ \A d, j : Asks(b, d, j) => Asks(r, d, j)
              /\ \A j : Handles(r, j) => Handles(b, j)
    BY <1>5 DEF Asks, Handles, ToStore
  <1>9. \A d, j : Asks(f, d, j) => Asks(r, d, j) /\ j # i
    BY <1>6 DEF Asks, ToStore
  <1>10. \A j : (Handles(r, j) /\ (r.phase = "process" => i = r.op) /\ r.phase # "record" /\ j # i)
                  => Handles(f, j)
    BY <1>6 DEF Handles, ToStore
  <1> QED  BY <1>1, <1>2, <1>3, <1>7, <1>8, <1>9, <1>10

LEMMA ServerStepCounted ==
  ASSUME AwaitedInv, TypeOK', NEW d \in Devices, NEW i \in OpIds, Counted(d, i),
         NEW c \in Calls, ServerStep(c) \/ ServerFault(c)
  PROVE  Counted(d, i)'
  <1>1. /\ TypeOK /\ AnswersOwn /\ WrittenIsTaken /\ AnswersTrue
        /\ ServerTypeOK /\ call[c] \in CallState /\ call \in [Calls -> CallState]
    BY CallType DEF AwaitedInv, WrittenInv, DeliveryInv, TypeOK, ServerTypeOK
  <1>2. UNCHANGED <<outbox, engine>> /\ call[c].phase # "free"
    BY <1>1, RequestMoves
  <1>3. /\ call[c].phase \in {"process", "record"} => call[c].op \in OpIds
        /\ call[c].dev \in Devices
        /\ call[c].phase = "process" => call[c].op \notin call[c].todo
    BY <1>1, <1>2, CallType DEF AnswersTrue, WrittenIsTaken
  <1>4. /\ ServerStep(c) => Failures' = Failures
        /\ ServerFault(c) => Failures' = Failures + 1
    <2>1. lost \in Nat /\ faults \in Nat /\ kills \in Nat
      BY <1>1, PushAssumption DEF TypeOK, CountTypeOK
    <2>2. ServerStep(c) => lost' = lost /\ faults' = faults /\ kills' = kills
      BY DEF ServerStep, countVars
    <2>3. ServerFault(c) => lost' = lost /\ faults' = faults + 1 /\ kills' = kills
      BY DEF ServerFault
    <2>4. \A k, m, n \in Nat : k + (m + 1) + n = k + m + n + 1
      OBVIOUS
    <2>5. ServerFault(c) => Failures' = lost + (faults + 1) + kills
      BY <2>3 DEF Failures
    <2> QED  BY <2>1, <2>2, <2>4, <2>5, Zenon DEF Failures
  <1>5. Failures' \in {Failures, Failures + 1}
    BY <1>4
  <1>6. CASE LookUp(c)
    <2>1. PICK k \in call[c].todo :
            /\ call[c].phase = "next" /\ UNCHANGED copies
            /\ \/ call' = [call EXCEPT ![c] = Report(call[c], k)]
               \/ call' = [call EXCEPT ![c] = Begin(call[c], k)]
      BY <1>6 DEF LookUp, IsNext
    <2>2. PICK r : /\ call' = [call EXCEPT ![c] = r]
                   /\ r = Report(call[c], k) \/ r = Begin(call[c], k)
      BY <2>1
    <2>3. r.client = call[c].client
      BY <1>1, <2>2, RequestStepFields
    <2>4. /\ Asks(r, d, i) => Asks(call[c], d, i)
          /\ Handles(call[c], i) => Handles(r, i)
      BY <1>1, <2>1, <2>2, RequestStepAsks
    <2> QED  BY <1>1, <1>2, <1>5, <2>1, <2>2, <2>3, <2>4, CountRequest
  <1>7. CASE \E recorded \in BOOLEAN : Record(c, recorded)
    <2>1. PICK r : r = Report(call[c], call[c].op)
      OBVIOUS
    <2>2. call' = [call EXCEPT ![c] = r] /\ UNCHANGED copies /\ call[c].phase = "record"
      BY <1>1, <1>7, <2>1 DEF Record
    <2>3. r.client = call[c].client
      BY <1>1, <2>1, RequestStepFields
    <2>4. /\ Asks(r, d, i) => Asks(call[c], d, i)
          /\ Handles(call[c], i) => Handles(r, i)
      BY <1>1, <1>2, <2>1, <2>2, RequestStepAsks
    <2> QED  BY <1>1, <1>2, <1>5, <2>2, <2>3, <2>4, CountRequest
  <1>8. CASE Abandon(c)
    <2>1. call' = [call EXCEPT ![c] = FreeCall] /\ UNCHANGED copies /\ call[c].client = NoClient
      BY <1>8 DEF Abandon
    <2>2. ~Asks(FreeCall, d, i)
      BY FreeCallType DEF Asks
    <2>3. ~Answering(call[c], d)
      BY <2>1 DEF Answering
    <2>4. copies'[d][i] = copies[d][i]
      BY <2>1
    <2> QED  BY <1>1, <1>2, <1>5, <2>1, <2>2, <2>3, <2>4, CountRequest
  <1>9. CASE StatementFails(c) /\ ServerFault(c)
    <2>1. PICK k : /\ call' = [call EXCEPT ![c] = Refuse(call[c], k)] /\ UNCHANGED copies
      BY <1>1, <1>9 DEF StatementFails
    <2>2. PICK r : r = Refuse(call[c], k)
      OBVIOUS
    <2>3. r.client = call[c].client /\ (Asks(r, d, i) => Asks(call[c], d, i))
      BY <1>1, <1>2, <2>2, RequestStepFields, RequestStepAsks
    <2>4. Failures' = Failures + 1
      BY <1>4, <1>9
    <2> QED  BY <1>1, <1>2, <2>1, <2>2, <2>3, <2>4, CountRequest
  <1>10. ASSUME NEW entity, Process(c, entity) \/ (WriteInDoubt(c, entity) /\ ServerFault(c))
         PROVE  Counted(d, i)'
    <2>1. PICK b \in Devices, k \in OpIds : b = call[c].dev /\ k = call[c].op
      BY <1>3, <1>10 DEF Process, WriteInDoubt
    <2>2. call[c].phase = "process" /\ k \notin call[c].todo
      BY <1>3, <1>10, <2>1 DEF Process, WriteInDoubt
    <2>3. Asks(call[c], b, k)
      BY <2>1, <2>2 DEF Asks, ToStore
    <2>c. copies \in [Devices -> [OpIds -> Nat]]
      BY <1>1 DEF ServerTypeOK
    <2>n. PICK n : /\ n = RowsAfterInsert(entity, copies[b][k])
                   /\ n = copies[b][k] \/ n = copies[b][k] + 1
      BY DEF RowsAfterInsert
    <2>4. CASE Process(c, entity) /\ Accepts(b, entity)
      <3>1. /\ copies' = [copies EXCEPT ![b][k] = n]
            /\ call' = [call EXCEPT ![c] = [call[c] EXCEPT !.phase = "record"]]
        BY <1>1, <2>1, <2>n, <2>4 DEF Process
      <3>2. PICK r : r = [call[c] EXCEPT !.phase = "record"]
        OBVIOUS
      <3>3. /\ r.client = call[c].client /\ r.dev = b /\ r.phase = "record" /\ r.op = k
            /\ r.todo = call[c].todo /\ r.processed = call[c].processed
        BY <1>1, <2>1, <3>2 DEF CallState
      <3>4. /\ Asks(r, d, i) => Asks(call[c], d, i)
            /\ ~Asks(r, b, k)
            /\ Handles(call[c], i) => Handles(r, i)
        BY <2>1, <2>2, <3>3 DEF Asks, Handles, ToStore
      <3>5. /\ copies'[d][i] <= copies[d][i] + 1
            /\ (d # b \/ i # k) => copies'[d][i] = copies[d][i]
        BY <2>n, <2>c, <3>1
      <3>6. \/ copies'[d][i] = copies[d][i]
            \/ copies'[d][i] <= copies[d][i] + 1 /\ Asks(call[c], d, i) /\ ~Asks(r, d, i)
        BY <2>3, <3>4, <3>5
      <3>7. call' = [call EXCEPT ![c] = r]
        BY <3>1, <3>2
      <3> QED  BY <1>1, <1>2, <1>5, <3>3, <3>4, <3>6, <3>7, CountRequest
    <2>5. PICK r : r = Refuse(call[c], k)
      OBVIOUS
    <2>6. /\ r.client = call[c].client /\ (Asks(r, d, i) => Asks(call[c], d, i))
          /\ ~Asks(r, b, k)
          /\ (Handles(call[c], i) /\ i # k) => Handles(r, i)
      BY <1>1, <1>2, <2>1, <2>2, <2>5, RequestStepFields, RequestStepAsks
    <2>7. CASE Process(c, entity) /\ ~Accepts(b, entity)
      <3>1. UNCHANGED copies /\ call' = [call EXCEPT ![c] = r]
        BY <1>1, <2>1, <2>5, <2>7 DEF Process
      <3>2. CASE i = k /\ d = b
        BY <1>1, <1>2, <1>5, <2>3, <2>6, <3>1, <3>2, CountRequest
      <3>3. CASE ~(i = k /\ d = b)
        <4>1. (Answering(call[c], d) /\ Handles(call[c], i)) => Handles(r, i)
          BY <2>1, <2>6, <3>3 DEF Answering
        <4> QED  BY <1>1, <1>2, <1>5, <2>6, <3>1, <4>1, CountRequest
      <3> QED  BY <3>2, <3>3
    <2>8. CASE WriteInDoubt(c, entity) /\ ServerFault(c)
      <3>1. /\ copies' = [copies EXCEPT ![b][k] = n]
            /\ call' = [call EXCEPT ![c] = r]
        BY <1>1, <2>1, <2>n, <2>5, <2>8 DEF WriteInDoubt
      <3>2. /\ copies'[d][i] <= copies[d][i] + 1
            /\ (d # b \/ i # k) => copies'[d][i] = copies[d][i]
        BY <2>n, <2>c, <3>1
      <3>3. \/ copies'[d][i] = copies[d][i]
            \/ copies'[d][i] <= copies[d][i] + 1 /\ Asks(call[c], d, i) /\ ~Asks(r, d, i)
        BY <2>3, <2>6, <3>2
      <3>4. Failures' = Failures + 1
        BY <1>4, <2>8
      <3> QED  BY <1>1, <1>2, <2>6, <3>1, <3>3, <3>4, CountRequest
    <2> QED  BY <1>10, <2>4, <2>7, <2>8
  <1> QED  BY <1>6, <1>7, <1>8, <1>9, <1>10 DEF ServerStep, ServerFault

-----------------------------------------------------------------------------
(* The engine of a device is its only one.                                 *)
LEMMA OneSender ==
  ASSUME Isolates = {Main}, NEW e \in Engines
  PROVE  e = Sender(DeviceOf(e)) /\ DeviceOf(e) \in Devices
  BY DEF Engines, DeviceOf, Sender

LEMMA RecordingCounted ==
  ASSUME AwaitedInv, TypeOK', NEW d \in Devices, NEW i \in OpIds, Counted(d, i),
         RecordFieldWork
  PROVE  Counted(d, i)'
  <1>1. TypeOK /\ ClientTypeOK /\ CallsWritten /\ StoredWritten
    BY DEF AwaitedInv, WrittenInv, DeliveryInv, TypeOK
  <1>2. PICK b \in Devices : \E entity : WriteWithOutbox(b, entity)
    BY DEF RecordFieldWork, SaveDoorKnock, SavePhoneCall, SaveContact, SaveNextPart, AddNote
  <1>3. UNCHANGED <<engine, call, copies, lost, faults, kills>>
    BY DEF RecordFieldWork, serverVars, countVars, SaveDoorKnock, SavePhoneCall, SaveContact,
           SaveNextPart, AddNote
  <1>4. outbox' = [outbox EXCEPT ![b] = InsertOperation(outbox[b], Len(local[b]) + 1)]
    BY <1>2 DEF WriteWithOutbox
  <1>5. Asked(d, i)' = Asked(d, i) /\ Failures' = Failures
    BY <1>3 DEF Asked, Failures
  <1>6. \A e : Covered(e, i)' <=> Covered(e, i)
    BY <1>3 DEF Covered
  <1>7. CASE Held(d, i)' => Held(d, i)
    <2>1. Resend(d, i)' => Resend(d, i)
      BY <1>3, <1>6, <1>7 DEF Resend
    <2> QED  BY <1>1, <1>3, <1>5, <2>1, CountKept
  <1>8. CASE Held(d, i)' /\ ~Held(d, i)
    <2>1. d = b /\ i = Len(local[b]) + 1
      BY <1>1, <1>4, <1>8 DEF Held, InsertOperation, ClientTypeOK
    <2>2. i \notin DOMAIN local[d]
      BY <1>1, <2>1 DEF ClientTypeOK
    <2>3. copies[d][i] = 0
      BY <1>1, <2>2 DEF StoredWritten, Written, Stored, TypeOK, ServerTypeOK
    <2>4. Asked(d, i) = {}
      BY <1>1, <2>2 DEF Asked, Asks, ToStore, CallsWritten, RequestWritten
    <2>5. IsFiniteSet(Asked(d, i)') /\ Cardinality(Asked(d, i)') = 0
      BY <1>5, <2>4, FS_EmptySet
    <2>6. copies'[d][i] = 0 /\ Failures' \in Nat
      <3>1. lost' \in Nat /\ faults' \in Nat /\ kills' \in Nat
        BY PushAssumption DEF TypeOK, CountTypeOK
      <3> QED  BY <1>3, <2>3, <3>1 DEF Failures
    <2> QED  BY <2>5, <2>6 DEF Counted
  <1> QED  BY <1>7, <1>8

LEMMA EngineStepCounted ==
  ASSUME AwaitedInv, TypeOK', NEW d \in Devices, NEW i \in OpIds,
         Counted(d, i), NEW e \in Engines, LocalStep(e) \/ RemoveTurf(e)
  PROVE  Counted(d, i)'
  <1>1. TypeOK /\ ClientTypeOK /\ engine \in [Engines -> EngineState]
    BY DEF AwaitedInv, WrittenInv, DeliveryInv, TypeOK, ClientTypeOK
  <1>2. UNCHANGED <<call, copies, lost, faults, kills>>
    BY DEF LocalStep, RemoveTurf, serverVars, countVars
  <1>3. \A b \in Devices : DOMAIN outbox'[b] = DOMAIN outbox[b]
    BY <1>1, RowsKept DEF LocalStep, RemoveTurf
  <1>4. engine[e].pc \notin {"wait", "mark"}
    BY <1>1, EngineMoves
  <1>5. PICK es : /\ engine' = [engine EXCEPT ![e] = es] /\ es.pc # "wait"
                  /\ es.pc = "mark" => es.batch \subseteq DOMAIN outbox[DeviceOf(e)]
    BY <1>1, EngineMoves
  <1>6. engine'[e] = es /\ \A b \in Engines : b # e => engine'[b] = engine[b]
    BY <1>1, <1>5
  <1>7. Sender(d) \in Engines /\ DeviceOf(Sender(d)) = d
    BY ClientAssumption DEF Sender, Engines, DeviceOf
  <1>8. Resend(d, i)' => Resend(d, i)
    <2>1. CASE Sender(d) = e
      BY <1>3, <1>4, <1>5, <1>6, <1>7, <2>1 DEF Resend, Covered, Held
    <2>2. CASE Sender(d) # e
      <3>1. engine'[Sender(d)] = engine[Sender(d)]
        BY <1>6, <1>7, <2>2
      <3>2. Covered(Sender(d), i)' <=> Covered(Sender(d), i)
        BY <1>2, <3>1 DEF Covered
      <3> QED  BY <1>3, <3>1, <3>2 DEF Resend, Held
    <2> QED  BY <2>1, <2>2
  <1>9. Asked(d, i)' = Asked(d, i) /\ Failures' = Failures
    BY <1>2 DEF Asked, Failures
  <1> QED  BY <1>1, <1>2, <1>8, <1>9, CountKept

-----------------------------------------------------------------------------
(* The request takes over the engine's credit for each operation it takes. *)
LEMMA SendBatchCounted ==
  ASSUME AwaitedInv, TypeOK', Isolates = {Main}, NEW d \in Devices, NEW i \in OpIds,
         Counted(d, i), NEW e \in Engines, SendBatch(e)
  PROVE  Counted(d, i)'
  <1>1. /\ TypeOK /\ ClientTypeOK /\ ServerTypeOK /\ AnswersAwaited
        /\ engine \in [Engines -> EngineState] /\ call \in [Calls -> CallState]
    BY DEF AwaitedInv, WrittenInv, DeliveryInv, TypeOK, ClientTypeOK, ServerTypeOK
  <1>2. UNCHANGED <<copies, lost, faults, kills>> /\ engine[e].pc = "mark"
    BY DEF SendBatch, countVars, MarkBatch
  <1>3. PICK r : r = NewCall(e, DeviceOf(e), engine[e].batch)
    OBVIOUS
  <1>4. PICK c \in Calls : call[c].phase = "free" /\ call' = [call EXCEPT ![c] = r]
    BY <1>3 DEF SendBatch
  <1>5. r.client = e /\ r.dev = DeviceOf(e) /\ r.todo = engine[e].batch /\ r.phase = "next"
    BY <1>3 DEF NewCall
  <1>6. PICK es : es = [engine[e] EXCEPT !.pc = "wait"]
    OBVIOUS
  <1>7. /\ es.pc = "wait" /\ es.batch = engine[e].batch /\ engine'[e] = es
        /\ \A b \in Engines : b # e => engine'[b] = engine[b]
    <2>1. engine' = [engine EXCEPT ![e] = es]
      BY <1>1, <1>6 DEF SendBatch, MarkBatch
    <2>2. engine[e] \in EngineState
      BY <1>1
    <2> QED  BY <1>1, <1>6, <2>1, <2>2 DEF EngineState
  <1>8. call'[c] = r /\ \A b \in Calls : b # c => call'[b] = call[b]
    BY <1>1, <1>4
  <1>9. \A b \in Devices : DOMAIN outbox'[b] = DOMAIN outbox[b]
    BY <1>1, RowsKept DEF SendBatch
  <1>10. /\ Sender(d) \in Engines /\ Sender(d) # NoClient /\ e \in Engines
         /\ DeviceOf(Sender(d)) = d /\ e = Sender(DeviceOf(e))
    BY ClientAssumption, PushAssumption, OneSender DEF Sender, Engines, DeviceOf
  <1>11. ~Asks(call[c], d, i)
    BY <1>4 DEF Asks
  <1>12. Asks(r, d, i) <=> d = DeviceOf(e) /\ i \in engine[e].batch
    BY <1>5 DEF Asks, ToStore
  <1>13. /\ IsFiniteSet(Asked(d, i)')
         /\ Cardinality(Asked(d, i)) \in Nat /\ Cardinality(Asked(d, i)') \in Nat
         /\ Asks(r, d, i) => Cardinality(Asked(d, i)') = Cardinality(Asked(d, i)) + 1
    <2>1. ServerTypeOK /\ call' = [call EXCEPT ![c] = r] /\ IsFiniteSet(Asked(d, i))
      BY <1>1, <1>4 DEF Counted
    <2>2. /\ IsFiniteSet(Asked(d, i)')
          /\ Cardinality(Asked(d, i)) \in Nat /\ Cardinality(Asked(d, i)') \in Nat
          /\ (~Asks(call[c], d, i) /\ Asks(r, d, i))
               => Cardinality(Asked(d, i)') = Cardinality(Asked(d, i)) + 1
      BY <2>1, AskedUpdate, Zenon
    <2> QED  BY <1>11, <2>2
  <1>14. CASE Asks(r, d, i)
    <2>1. Resend(d, i)
      BY <1>2, <1>10, <1>12, <1>14 DEF Resend
    <2>2. Covered(Sender(d), i)'
      BY <1>5, <1>7, <1>8, <1>10, <1>12, <1>14 DEF Covered, Handles, ToStore
    <2>3. ~Resend(d, i)'
      BY <1>7, <1>10, <1>12, <1>14, <2>2 DEF Resend
    <2>4. copies[d][i] + Cardinality(Asked(d, i)) + 1 <= 1 + Failures
      BY <2>1 DEF Counted
    <2>5. /\ copies'[d][i] = copies[d][i] /\ copies[d][i] \in Nat /\ Failures' = Failures
          /\ Cardinality(Asked(d, i)') = Cardinality(Asked(d, i)) + 1
      BY <1>1, <1>2, <1>13, <1>14 DEF Failures, ServerTypeOK
    <2>6. copies'[d][i] + Cardinality(Asked(d, i)') + 0 <= 1 + Failures'
      <3>1. \A x, y \in Nat : x + (y + 1) + 0 = x + y + 1
        OBVIOUS
      <3> QED  BY <1>13, <2>4, <2>5, <3>1, Zenon
    <2> QED  BY <1>13, <2>3, <2>6 DEF Counted
  <1>15. CASE ~Asks(r, d, i)
    <2>1. Asked(d, i)' = Asked(d, i)
      BY <1>8, <1>11, <1>15 DEF Asked
    <2>2. Resend(d, i)' => Resend(d, i)
      <3>1. CASE d = DeviceOf(e)
        BY <1>2, <1>7, <1>9, <1>10, <1>12, <1>15, <3>1 DEF Resend, Held, Covered
      <3>2. CASE d # DeviceOf(e)
        <4>1. engine'[Sender(d)] = engine[Sender(d)]
          BY <1>7, <1>10, <3>2
        <4>2. Covered(Sender(d), i) => Covered(Sender(d), i)'
          BY <1>1, <1>4, <1>8, <1>10, <4>1 DEF Covered, AnswersAwaited
        <4> QED  BY <1>9, <4>1, <4>2 DEF Resend, Held
      <3> QED  BY <3>1, <3>2
    <2> QED  BY <1>1, <1>2, <2>1, <2>2, CountKept DEF Failures
  <1> QED  BY <1>14, <1>15

(* The answer names what was written; the rest is the engine's again.      *)
LEMMA ReceiveAnswerCounted ==
  ASSUME AwaitedInv, TypeOK', NEW d \in Devices, NEW i \in OpIds,
         Counted(d, i), NEW e \in Engines, ReceiveAnswer(e)
  PROVE  Counted(d, i)'
  <1>1. /\ TypeOK /\ ClientTypeOK /\ ServerTypeOK /\ AnswersAwaited /\ DOMAIN outbox = Devices
        /\ engine \in [Engines -> EngineState] /\ call \in [Calls -> CallState]
    BY DEF AwaitedInv, WrittenInv, DeliveryInv, TypeOK, ClientTypeOK, ServerTypeOK
  <1>2. UNCHANGED <<copies, lost, faults, kills>>
    BY DEF ReceiveAnswer, countVars
  <1>3. PICK c \in Calls :
          /\ call[c].client = e /\ Answered(c)
          /\ TakeAnswer(e, call[c].processed, call[c].errors)
          /\ call' = [call EXCEPT ![c] = FreeCall]
    BY DEF ReceiveAnswer
  <1>4. /\ outbox' = [outbox EXCEPT ![DeviceOf(e)] =
                        MarkSynced(outbox[DeviceOf(e)], call[c].processed \cap engine[e].batch)]
        /\ engine'[e].pc = "errors" /\ \A b \in Engines : b # e => engine'[b] = engine[b]
    BY <1>1, <1>3 DEF TakeAnswer
  <1>5. call[c].phase = "next" /\ call[c].todo = {}
    BY <1>3 DEF Answered
  <1>6. call'[c] = FreeCall /\ \A b \in Calls : b # c => call'[b] = call[b]
    BY <1>1, <1>3
  <1>7. ~Asks(call[c], d, i) /\ ~Asks(FreeCall, d, i)
    BY <1>5, FreeCallType DEF Asks, ToStore
  <1>8. Asked(d, i)' = Asked(d, i)
    BY <1>6, <1>7 DEF Asked
  <1>9. /\ Sender(d) \in Engines /\ Sender(d) # NoClient /\ e # NoClient
        /\ DeviceOf(Sender(d)) = d
    BY ClientAssumption, PushAssumption DEF Sender, Engines, DeviceOf
  <1>10. \A b \in Calls : call[b].client = e => b = c
    BY <1>1, <1>3, <1>9 DEF AnswersAwaited
  <1>11. Held(d, i)' => Held(d, i)
    BY <1>1, <1>4 DEF Held, MarkSynced
  <1>12. Resend(d, i)' => Resend(d, i)
    <2>1. CASE Sender(d) = e
      <3>1. Resend(d, i)' => Held(d, i)'
        BY <1>4, <2>1 DEF Resend
      <3>2. Held(d, i)' => i \notin call[c].processed \cap engine[e].batch
        BY <1>1, <1>4, <1>9, <2>1 DEF Held, MarkSynced
      <3>3. Covered(e, i) => i \in call[c].processed \cap engine[e].batch
        BY <1>5, <1>10 DEF Covered, Handles, ToStore
      <3> QED  BY <1>11, <2>1, <3>1, <3>2, <3>3 DEF Resend
    <2>2. CASE Sender(d) # e
      <3>1. engine'[Sender(d)] = engine[Sender(d)]
        BY <1>4, <1>9, <2>2
      <3>2. Covered(Sender(d), i) => Covered(Sender(d), i)'
        BY <1>3, <1>6, <2>2, <3>1 DEF Covered
      <3> QED  BY <1>11, <3>1, <3>2 DEF Resend
    <2> QED  BY <2>1, <2>2
  <1> QED  BY <1>1, <1>2, <1>8, <1>12, CountKept DEF Failures

(* After a failure the engine may have to send again.                      *)
LEMMA LoseCallCounted ==
  ASSUME AwaitedInv, TypeOK', NEW d \in Devices, NEW i \in OpIds,
         Counted(d, i), NEW e \in Engines, LoseCall(e) \/ Kill(e)
  PROVE  Counted(d, i)'
  <1>1. TypeOK /\ ServerTypeOK
    BY DEF AwaitedInv, WrittenInv, DeliveryInv, TypeOK
  <1>2. call' = Orphan(e) /\ UNCHANGED copies
    BY DEF LoseCall, Kill
  <1>3. \A c \in Calls : /\ call'[c].phase = call[c].phase /\ call'[c].dev = call[c].dev
                         /\ call'[c].todo = call[c].todo /\ call'[c].op = call[c].op
    BY <1>1, <1>2, OrphanFields
  <1>4. Asked(d, i)' = Asked(d, i)
    <2>1. \A c \in Calls : Asks(call'[c], d, i) <=> Asks(call[c], d, i)
      BY <1>3 DEF Asks, ToStore
    <2> QED  BY <2>1 DEF Asked
  <1>5. Failures' = Failures + 1
    <2>1. lost \in Nat /\ faults \in Nat /\ kills \in Nat
      BY <1>1, PushAssumption DEF TypeOK, CountTypeOK
    <2>2. \/ lost' = lost + 1 /\ faults' = faults /\ kills' = kills
          \/ lost' = lost /\ faults' = faults /\ kills' = kills + 1
      BY DEF LoseCall, Kill
    <2> HIDE DEF Counted
    <2> QED  BY <2>1, <2>2 DEF Failures
  <1> QED  BY <1>1, <1>2, <1>4, <1>5, CountKept

LEMMA UserStepCounted ==
  ASSUME AwaitedInv, TypeOK', NEW d \in Devices, NEW i \in OpIds,
         Counted(d, i), UserStep \/ UNCHANGED vars
  PROVE  Counted(d, i)'
  <1>1. TypeOK /\ DOMAIN outbox = Devices
    BY DEF AwaitedInv, WrittenInv, DeliveryInv, TypeOK, ClientTypeOK
  <1>2. UNCHANGED <<engine, call, copies, lost, faults, kills>>
    BY DEF UserStep, vars, clientVars, serverVars, countVars, RetryDeadLetter, DismissDeadLetter
  <1>3. Held(d, i)' => Held(d, i)
    <2>1. ASSUME NEW b \in Devices, NEW j \in OpIds, RetryDeadLetter(b, j)
          PROVE  DOMAIN outbox'[d] \subseteq DOMAIN outbox[d]
      BY <1>1, <2>1 DEF RetryDeadLetter, ResetToPending, SetStatus
    <2>2. ASSUME NEW b \in Devices, NEW j \in OpIds, DismissDeadLetter(b, j)
          PROVE  DOMAIN outbox'[d] \subseteq DOMAIN outbox[d]
      BY <1>1, <2>2 DEF DismissDeadLetter, MarkSynced
    <2>3. UNCHANGED vars => outbox' = outbox
      BY DEF vars, clientVars
    <2> QED  BY <2>1, <2>2, <2>3 DEF UserStep, Held
  <1>4. Resend(d, i)' => Resend(d, i)
    BY <1>2, <1>3 DEF Resend, Covered
  <1>5. Asked(d, i)' = Asked(d, i) /\ Failures' = Failures
    BY <1>2 DEF Asked, Failures
  <1> QED  BY <1>1, <1>2, <1>4, <1>5, CountKept

-----------------------------------------------------------------------------
LEMMA InitCounted ==
  ASSUME Init, NEW d \in Devices, NEW i \in OpIds
  PROVE  Counted(d, i)
  <1>1. Asked(d, i) = {} /\ copies[d][i] = 0 /\ ~Held(d, i) /\ Failures = 0
    BY DEF Init, ClientInit, ServerInit, FreeCall, Asked, Asks, Held, Failures
  <1>2. ~Resend(d, i)
    <2>1. engine[Sender(d)].pc = "idle"
      BY ClientAssumption DEF Init, ClientInit, Idle, At, Sender, Engines
    <2> QED  BY <1>1, <2>1 DEF Resend
  <1>3. IsFiniteSet(Asked(d, i)) /\ Cardinality(Asked(d, i)) = 0
    BY <1>1, FS_EmptySet
  <1> QED  BY <1>1, <1>2, <1>3 DEF Counted

CountedInv == AwaitedInv /\ AllCounted

LEMMA NextCounted ==
  ASSUME Isolates = {Main}
  PROVE  CountedInv /\ [Next]_vars => CountedInv'
  <1> SUFFICES ASSUME CountedInv, [Next]_vars, NEW d \in Devices, NEW i \in OpIds
               PROVE  Counted(d, i)'
    BY NextAwaited DEF CountedInv, AllCounted
  <1>1. AwaitedInv /\ Counted(d, i)
    BY DEF CountedInv, AllCounted
  <1>2. TypeOK'
    BY <1>1, NextType DEF AwaitedInv, WrittenInv, DeliveryInv
  <1>3. CASE RecordFieldWork
    BY <1>1, <1>2, <1>3, RecordingCounted
  <1>4. CASE UserStep \/ UNCHANGED vars
    BY <1>1, <1>2, <1>4, UserStepCounted
  <1>5. ASSUME NEW e \in Engines, LocalStep(e) \/ RemoveTurf(e)
        PROVE  Counted(d, i)'
    BY <1>1, <1>2, <1>5, EngineStepCounted
  <1>6. ASSUME NEW e \in Engines, SendBatch(e)
        PROVE  Counted(d, i)'
    BY <1>1, <1>2, <1>6, SendBatchCounted
  <1>7. ASSUME NEW e \in Engines, ReceiveAnswer(e)
        PROVE  Counted(d, i)'
    BY <1>1, <1>2, <1>7, ReceiveAnswerCounted
  <1>8. ASSUME NEW e \in Engines, LoseCall(e) \/ Kill(e)
        PROVE  Counted(d, i)'
    BY <1>1, <1>2, <1>8, LoseCallCounted
  <1>9. ASSUME NEW c \in Calls, ServerStep(c) \/ ServerFault(c)
        PROVE  Counted(d, i)'
    BY <1>1, <1>2, <1>9, ServerStepCounted
  <1> QED  BY <1>3, <1>4, <1>5, <1>6, <1>7, <1>8, <1>9 DEF Next

(* What was recorded keeps its kind.                                       *)
LEMMA KindKept ==
  ASSUME TypeOK, [Next]_vars, NEW d \in Devices, NEW i \in DOMAIN local[d]
  PROVE  local'[d][i] = local[d][i]
  <1>1. local \in [Devices -> Seq(Entity)]
    BY DEF TypeOK, ClientTypeOK
  <1>2. CASE RecordFieldWork
    <2>1. PICK b \in Devices : \E entity : WriteWithOutbox(b, entity)
      BY <1>2
      DEF RecordFieldWork, SaveDoorKnock, SavePhoneCall, SaveContact, SaveNextPart, AddNote
    <2>2. PICK entity : local' = [local EXCEPT ![b] = Append(local[b], entity)]
      BY <1>1, <2>1 DEF WriteWithOutbox
    <2>3. local[b] \in Seq(Entity) /\ DOMAIN local = Devices
      BY <1>1
    <2>4. \A j \in DOMAIN local[b] : Append(local[b], entity)[j] = local[b][j]
      BY <2>3
    <2> QED  BY <2>2, <2>3, <2>4
  <1>3. CASE ~RecordFieldWork
    BY <1>3, LocalGrows
  <1> QED  BY <1>2, <1>3

(* The server writes the entity that the device recorded.                  *)
LEMMA CopiesWritten ==
  ASSUME TypeOK, AnswersTrue, [Next]_vars
  PROVE  \/ UNCHANGED copies
         \/ \E d \in Devices, i \in OpIds :
              copies' = [copies EXCEPT ![d][i] = RowsAfterInsert(local[d][i], copies[d][i])]
  <1>1. copies \in [Devices -> [OpIds -> Nat]] /\ ServerTypeOK
    BY DEF TypeOK, ServerTypeOK
  <1>2. ASSUME NEW c \in Calls, ServerStep(c) \/ ServerFault(c)
        PROVE  \/ UNCHANGED copies
               \/ \E d \in Devices, i \in OpIds :
                    copies' = [copies EXCEPT ![d][i] = RowsAfterInsert(local[d][i], copies[d][i])]
    <2>1. CASE \/ Process(c, local[call[c].dev][call[c].op])
               \/ WriteInDoubt(c, local[call[c].dev][call[c].op])
      <3>1. call[c].phase = "process"
        BY <2>1 DEF Process, WriteInDoubt
      <3>2. PICK d \in Devices, i \in OpIds : d = call[c].dev /\ i = call[c].op
        BY <1>1, <3>1, CallType DEF AnswersTrue
      <3>3. \/ UNCHANGED copies
            \/ copies' = [copies EXCEPT ![d][i] = RowsAfterInsert(local[d][i], copies[d][i])]
        BY <1>1, <2>1, <3>2 DEF Process, WriteInDoubt
      <3> QED  BY <3>3
    <2>2. CASE \/ LookUp(c) \/ Abandon(c) \/ StatementFails(c)
               \/ \E recorded \in BOOLEAN : Record(c, recorded)
      BY <2>2 DEF LookUp, Abandon, StatementFails, Record
    <2> QED  BY <1>2, <2>1, <2>2 DEF ServerStep, ServerFault
  <1>3. ASSUME NEW e \in Engines, \/ LocalStep(e) \/ RemoveTurf(e) \/ SendBatch(e)
                                  \/ ReceiveAnswer(e) \/ LoseCall(e) \/ Kill(e)
        PROVE  UNCHANGED copies
    BY <1>3 DEF LocalStep, RemoveTurf, SendBatch, ReceiveAnswer, LoseCall, Kill, serverVars
  <1>4. RecordFieldWork \/ UserStep \/ UNCHANGED vars => UNCHANGED copies
    BY DEF RecordFieldWork, UserStep, vars, serverVars
  <1> QED  BY <1>2, <1>3, <1>4 DEF Next

OneRowInv == WrittenInv /\ OneRow

LEMMA InitOneRow == Init => OneRowInv
  BY InitWritten DEF Init, ClientInit, OneRow, OneRowInv

LEMMA NextOneRow == OneRowInv /\ [Next]_vars => OneRowInv'
  <1> SUFFICES ASSUME OneRowInv, [Next]_vars,
                      NEW d \in Devices, NEW i \in DOMAIN local'[d],
                      local'[d][i].kind # "task_note"
               PROVE  copies'[d][i] <= 1
    BY NextWritten DEF OneRowInv, OneRow
  <1>1. TypeOK /\ TypeOK' /\ AnswersTrue /\ StoredWritten /\ OneRow
    BY NextType DEF OneRowInv, WrittenInv, DeliveryInv
  <1>2. copies \in [Devices -> [OpIds -> Nat]] /\ i \in OpIds
    BY <1>1, OutboxAssumption DEF TypeOK, ServerTypeOK, ClientTypeOK, OpIds
  <1>3. copies[d][i] <= 1
    <2>1. CASE i \in DOMAIN local[d]
      BY <1>1, <2>1, KindKept DEF OneRow
    <2>2. CASE i \notin DOMAIN local[d]
      BY <1>1, <1>2, <2>2 DEF StoredWritten, Stored, Written
    <2> QED  BY <2>1, <2>2
  <1>4. ASSUME NEW b \in Devices, NEW j \in OpIds,
               copies' = [copies EXCEPT ![b][j] = RowsAfterInsert(local[b][j], copies[b][j])]
        PROVE  copies'[d][i] <= 1
    <2>1. CASE ~(b = d /\ j = i)
      BY <1>2, <1>3, <1>4, <2>1
    <2>2. CASE b = d /\ j = i
      <3>1. local[d][i].kind # "task_note" \/ copies[d][i] = 0
        <4>1. CASE i \in DOMAIN local[d]
          BY <1>1, <4>1, KindKept
        <4>2. CASE i \notin DOMAIN local[d]
          BY <1>1, <1>2, <4>2 DEF StoredWritten, Stored, Written
        <4> QED  BY <4>1, <4>2
      <3>2. copies[d][i] \in {0, 1}
        BY <1>2, <1>3
      <3>3. RowsAfterInsert(local[d][i], copies[d][i]) <= 1
        BY <3>1, <3>2 DEF RowsAfterInsert
      <3> QED  BY <1>2, <1>4, <2>2, <3>3
    <2> QED  BY <2>1, <2>2
  <1> QED  BY <1>1, <1>3, <1>4, CopiesWritten

(* An entity that carries the client's UUID is stored once, for any number *)
(* of devices, isolates, concurrent requests and failures.                 *)
THEOREM UuidStoredOnce == Spec => []OneRow
  <1>1. OneRowInv => OneRow
    BY DEF OneRowInv
  <1> QED  BY <1>1, InitOneRow, NextOneRow, PTL DEF Spec

(* When a device has one engine, a task note is stored at most once more   *)
(* for each lost call, failed statement and kill, however many requests    *)
(* nobody waits for run beside the one that repeats them.                  *)
THEOREM RowsPerFailure ==
  ASSUME Isolates = {Main}
  PROVE  Spec => []OneRowPerFailure
  <1>1. CountedInv /\ OneRow => OneRowPerFailure
    <2> SUFFICES ASSUME CountedInv, OneRow, NEW d \in Devices, NEW i \in DOMAIN local[d]
                 PROVE  copies[d][i] <= IF local[d][i].kind = "task_note"
                                        THEN 1 + lost + faults + kills ELSE 1
      BY DEF OneRowPerFailure
    <2>1. TypeOK /\ AllCounted
      BY DEF CountedInv, AwaitedInv, WrittenInv, DeliveryInv
    <2>2. i \in OpIds /\ Counted(d, i)
      BY <2>1, OutboxAssumption DEF TypeOK, ClientTypeOK, OpIds, AllCounted
    <2>3. copies[d][i] \in Nat /\ Failures \in Nat
      <3>1. lost \in Nat /\ faults \in Nat /\ kills \in Nat
        BY <2>1, PushAssumption DEF TypeOK, CountTypeOK
      <3> QED  BY <2>1, <2>2, <3>1 DEF TypeOK, ServerTypeOK, Failures
    <2>4. copies[d][i] <= 1 + Failures
      <3>1. Cardinality(Asked(d, i)) \in Nat
        BY <2>2, FS_CardinalityType DEF Counted
      <3> QED  BY <2>2, <2>3, <3>1 DEF Counted
    <2>5. 1 + Failures = 1 + lost + faults + kills
      <3>1. lost \in Nat /\ faults \in Nat /\ kills \in Nat
        BY <2>1, PushAssumption DEF TypeOK, CountTypeOK
      <3> QED  BY <3>1 DEF Failures
    <2> QED  BY <2>4, <2>5 DEF OneRow
  <1>2. Init => CountedInv
    BY InitAwaited, InitCounted DEF CountedInv, AllCounted
  <1>3. CountedInv /\ [Next]_vars => CountedInv'
    BY NextCounted
  <1> QED  BY <1>1, <1>2, <1>3, UuidStoredOnce, PTL DEF Spec

-----------------------------------------------------------------------------
(* Dead letters.  What an engine holds between a SELECT and the statement  *)
(* that uses its ids is still what it selected: rows to send have not      *)
(* failed, rows to retry have retries left.                                *)
StillSelected(es, t) ==
  /\ \A i \in es.batch \cap DOMAIN t :
       /\ es.pc \in {"mark", "wait", "errors"} => t[i].status # "failed"
       /\ es.pc = "reset" => t[i].retries < MaxRetry
  /\ es.pc = "errors" => es.batch \cap es.errors = {}

SelectionsHold == \A e \in Engines : StillSelected(engine[e], outbox[DeviceOf(e)])

(* A step of the only engine of a device.                                  *)
LEMMA SelectionUpdate ==
  ASSUME Isolates = {Main}, TypeOK, SelectionsHold, NEW e \in Engines,
         NEW t, \/ outbox' = [outbox EXCEPT ![DeviceOf(e)] = t]
                \/ outbox' = outbox /\ t = outbox[DeviceOf(e)],
         NEW es, engine' = [engine EXCEPT ![e] = es], StillSelected(es, t)
  PROVE  SelectionsHold'
  <1>1. DOMAIN outbox = Devices /\ engine \in [Engines -> EngineState]
    BY DEF TypeOK, ClientTypeOK
  <1>2. \A b \in Engines : /\ DeviceOf(b) \in Devices
                           /\ b # e => DeviceOf(b) # DeviceOf(e)
    BY DEF Engines, DeviceOf
  <1>3. outbox'[DeviceOf(e)] = t /\ engine'[e] = es
    BY <1>1, <1>2
  <1>4. \A b \in Engines : b # e => /\ engine'[b] = engine[b]
                                    /\ outbox'[DeviceOf(b)] = outbox[DeviceOf(b)]
    BY <1>1, <1>2
  <1> QED  BY <1>3, <1>4 DEF SelectionsHold

(* A statement of a screen, which leaves every selection what it was.      *)
LEMMA SelectionTableUpdate ==
  ASSUME TypeOK, SelectionsHold, UNCHANGED engine, NEW d \in Devices,
         NEW t, outbox' = [outbox EXCEPT ![d] = t],
         \A i \in DOMAIN t :
           \/ t[i].status = "pending" /\ t[i].retries = 0
           \/ /\ i \in DOMAIN outbox[d] /\ t[i].retries = outbox[d][i].retries
              /\ t[i].status \in {outbox[d][i].status, "pending"}
  PROVE  SelectionsHold'
  <1>1. DOMAIN outbox = Devices
    BY DEF TypeOK, ClientTypeOK
  <1>2. outbox'[d] = t /\ \A b \in Devices : b # d => outbox'[b] = outbox[b]
    BY <1>1
  <1>3. ASSUME NEW e \in Engines, DeviceOf(e) = d
        PROVE  StillSelected(engine[e], t)
    <2>1. StillSelected(engine[e], outbox[d])
      BY <1>3 DEF SelectionsHold
    <2> QED  BY <2>1, OutboxAssumption DEF StillSelected
  <1>4. \A e \in Engines : DeviceOf(e) \in Devices
    BY DEF Engines, DeviceOf
  <1> QED  BY <1>2, <1>3, <1>4 DEF SelectionsHold

LEMMA RecordingSelection ==
  ASSUME TypeOK, SelectionsHold, RecordFieldWork
  PROVE  SelectionsHold' /\ \A d \in Devices, i \in OpIds : DeadLetter(d, i) => DeadLetter(d, i)'
  <1>1. PICK d \in Devices : \E entity : WriteWithOutbox(d, entity)
    BY DEF RecordFieldWork, SaveDoorKnock, SavePhoneCall, SaveContact, SaveNextPart, AddNote
  <1>2. UNCHANGED engine
    BY DEF RecordFieldWork, SaveDoorKnock, SavePhoneCall, SaveContact, SaveNextPart, AddNote
  <1> DEFINE n == Len(local[d]) + 1
             t == InsertOperation(outbox[d], n)
  <1>3. outbox' = [outbox EXCEPT ![d] = t]
    BY <1>1 DEF WriteWithOutbox
  <1>4. \A i \in DOMAIN t : \/ t[i].status = "pending" /\ t[i].retries = 0
                            \/ i \in DOMAIN outbox[d] /\ t[i] = outbox[d][i]
    BY DEF InsertOperation, FreshRow
  <1>5. n \notin DOMAIN outbox[d] /\ DOMAIN outbox = Devices
    BY DEF TypeOK, ClientTypeOK
  <1>6. \A i \in DOMAIN outbox[d] : i \in DOMAIN t /\ t[i] = outbox[d][i]
    BY <1>5 DEF InsertOperation
  <1> HIDE DEF t, n
  <1>7. SelectionsHold'
    <2>1. \A i \in DOMAIN t :
           \/ t[i].status = "pending" /\ t[i].retries = 0
           \/ /\ i \in DOMAIN outbox[d] /\ t[i].retries = outbox[d][i].retries
              /\ t[i].status \in {outbox[d][i].status, "pending"}
      BY <1>4
    <2> QED  BY <1>2, <1>3, <2>1, SelectionTableUpdate
  <1>8. \A b \in Devices, i \in OpIds : DeadLetter(b, i) => DeadLetter(b, i)'
    BY <1>3, <1>5, <1>6 DEF DeadLetter, Held
  <1> QED  BY <1>7, <1>8

LEMMA UserStepSelection ==
  ASSUME TypeOK, SelectionsHold, UserStep
  PROVE  SelectionsHold'
  <1>1. PICK d \in Devices, i \in OpIds : RetryDeadLetter(d, i) \/ DismissDeadLetter(d, i)
    BY DEF UserStep
  <1>2. UNCHANGED engine
    BY <1>1 DEF RetryDeadLetter, DismissDeadLetter
  <1>3. CASE RetryDeadLetter(d, i)
    <2> DEFINE t == ResetToPending(outbox[d], {i})
    <2>1. outbox' = [outbox EXCEPT ![d] = t]
      BY <1>3 DEF RetryDeadLetter
    <2>2. \A j \in DOMAIN t : /\ j \in DOMAIN outbox[d] /\ t[j].retries = outbox[d][j].retries
                              /\ t[j].status \in {outbox[d][j].status, "pending"}
      BY DEF ResetToPending, SetStatus
    <2> HIDE DEF t
    <2> QED  BY <1>2, <2>1, <2>2, SelectionTableUpdate
  <1>4. CASE DismissDeadLetter(d, i)
    <2> DEFINE t == MarkSynced(outbox[d], {i})
    <2>1. outbox' = [outbox EXCEPT ![d] = t]
      BY <1>4 DEF DismissDeadLetter
    <2>2. \A j \in DOMAIN t : /\ j \in DOMAIN outbox[d] /\ t[j].retries = outbox[d][j].retries
                              /\ t[j].status \in {outbox[d][j].status, "pending"}
      BY DEF MarkSynced
    <2> HIDE DEF t
    <2> QED  BY <1>2, <2>1, <2>2, SelectionTableUpdate
  <1> QED  BY <1>1, <1>3, <1>4

(* A table u that follows t has moved no dead letter of it.                *)
FailedStay(t, u) ==
  \A i \in DOMAIN t : (t[i].status = "failed" /\ t[i].retries >= MaxRetry /\ i \in DOMAIN u)
                         => u[i].status = "failed"

(* A step of an engine keeps the selections and moves no dead letter.      *)
LEMMA EngineSelection ==
  ASSUME Isolates = {Main}, TypeOK, SelectionsHold, NEW e \in Engines,
         NEW t, \/ outbox' = [outbox EXCEPT ![DeviceOf(e)] = t]
                \/ outbox' = outbox /\ t = outbox[DeviceOf(e)],
         NEW es, engine' = [engine EXCEPT ![e] = es], StillSelected(es, t),
         FailedStay(outbox[DeviceOf(e)], t)
  PROVE  /\ SelectionsHold'
         /\ \A d \in Devices : FailedStay(outbox[d], outbox'[d])
  <1>1. SelectionsHold'
    BY SelectionUpdate
  <1>2. DOMAIN outbox = Devices /\ DeviceOf(e) \in Devices
    BY DEF TypeOK, ClientTypeOK, Engines, DeviceOf
  <1>3. \A d \in Devices : FailedStay(outbox[d], outbox[d])
    BY DEF FailedStay
  <1>4. \A d \in Devices : FailedStay(outbox[d], outbox'[d])
    BY <1>2, <1>3
  <1> QED  BY <1>1, <1>4

-----------------------------------------------------------------------------
LEMMA LocalStepSelection ==
  ASSUME Isolates = {Main}, TypeOK, SelectionsHold, NEW e \in Engines,
         LocalStep(e) \/ RemoveTurf(e)
  PROVE  /\ SelectionsHold'
         /\ \A d \in Devices : FailedStay(outbox[d], outbox'[d])
  <1> DEFINE d == DeviceOf(e)
  <1>1. /\ engine[e] \in EngineState /\ DOMAIN outbox = Devices /\ d \in Devices
        /\ StillSelected(engine[e], outbox[d]) /\ engine \in [Engines -> EngineState]
    BY EngineType DEF TypeOK, ClientTypeOK, SelectionsHold
  <1>2. /\ \A pc, batch : /\ At(pc, batch).pc = pc /\ At(pc, batch).batch = batch
                          /\ At(pc, batch).errors = {}
        /\ Idle.batch = {} /\ Idle.pc = "idle"
    BY DEF At, Idle
  <1>3. FailedStay(outbox[d], outbox[d])
    BY DEF FailedStay
  <1>4. ASSUME NEW es, NEW t, es.batch = {}
        PROVE  StillSelected(es, t)
    BY <1>4 DEF StillSelected
  <1>5. CASE StartCycle(e)
    BY <1>2, <1>3, <1>4, <1>5, EngineSelection DEF StartCycle
  <1>6. CASE SelectPending(e)
    <2> DEFINE B == GetPendingOperations(outbox[d], BatchSize)
    <2>1. PICK es : es = IF B = {} THEN At("retry", {}) ELSE At("mark", B)
      OBVIOUS
    <2>2. engine' = [engine EXCEPT ![e] = es] /\ outbox' = outbox
      BY <1>6, <2>1 DEF SelectPending
    <2>3. \A i \in B : i \in DOMAIN outbox[d] /\ outbox[d][i].status = "pending"
      BY DEF GetPendingOperations, IdsWithStatus
    <2>4. StillSelected(es, outbox[d])
      <3>1. es.batch \subseteq B /\ es.pc \in {"mark", "retry"}
        BY <1>2, <2>1
      <3> QED  BY <2>3, <3>1 DEF StillSelected
    <2> QED  BY <1>3, <2>2, <2>4, EngineSelection
  <1>7. CASE MarkNextError(e)
    <2>1. PICK i \in engine[e].errors :
            /\ engine[e].pc = "errors"
            /\ outbox' = [outbox EXCEPT ![d] = MarkFailedWithRetry(outbox[d], {i})]
            /\ engine' = [engine EXCEPT ![e] = [engine[e] EXCEPT !.errors = engine[e].errors \ {i}]]
      BY <1>1, <1>7 DEF MarkNextError
    <2>2. PICK es : es = [engine[e] EXCEPT !.errors = engine[e].errors \ {i}]
      OBVIOUS
    <2>3. es.pc = "errors" /\ es.batch = engine[e].batch /\ es.errors = engine[e].errors \ {i}
      BY <1>1, <2>1, <2>2 DEF EngineState
    <2>4. PICK t : t = MarkFailedWithRetry(outbox[d], {i})
      OBVIOUS
    <2>5. /\ DOMAIN t = DOMAIN outbox[d]
          /\ \A j \in DOMAIN t : t[j] = outbox[d][j] \/ (j = i /\ t[j].status = "failed")
      BY <2>4 DEF MarkFailedWithRetry, CountFailure
    <2>6. StillSelected(es, t)
      BY <1>1, <2>1, <2>3, <2>5 DEF StillSelected
    <2>7. FailedStay(outbox[d], t)
      BY <2>5 DEF FailedStay
    <2>8. outbox' = [outbox EXCEPT ![d] = t] /\ engine' = [engine EXCEPT ![e] = es]
      BY <2>1, <2>2, <2>4
    <2> QED  BY <2>6, <2>7, <2>8, EngineSelection
  <1>8. ASSUME NEW ids, NEW t,
               t = SetStatus(outbox[d], ids, "pending") \/ t = CountFailure(outbox[d], ids, "pending"),
               \A i \in ids \cap DOMAIN outbox[d] :
                 outbox[d][i].status # "failed" \/ outbox[d][i].retries < MaxRetry
        PROVE  FailedStay(outbox[d], t)
    <2>1. \A i \in DOMAIN outbox[d] : outbox[d][i] \in Row
      BY <1>1 DEF TypeOK, ClientTypeOK
    <2>2. \A i \in DOMAIN outbox[d] :
            (outbox[d][i].status = "failed" /\ outbox[d][i].retries >= MaxRetry) => i \notin ids
      BY <1>8, <2>1, OutboxAssumption DEF Row
    <2>3. \A i \in DOMAIN outbox[d] : i \notin ids => t[i] = outbox[d][i]
      BY <1>8 DEF SetStatus, CountFailure
    <2> QED  BY <2>2, <2>3 DEF FailedStay
  <1>9. CASE FinishBatch(e)
    <2>1. PICK t : t = MarkFailed(outbox[d], engine[e].batch)
      OBVIOUS
    <2>2. PICK es : es = IF engine[e].pushed THEN At("select", {}) ELSE At("retry", {})
      OBVIOUS
    <2>3. /\ outbox' = [outbox EXCEPT ![d] = t] /\ engine' = [engine EXCEPT ![e] = es]
          /\ engine[e].pc = "errors"
      BY <1>1, <1>9, <2>1, <2>2 DEF FinishBatch
    <2>4. es.batch = {}
      BY <1>2, <2>2
    <2>5. FailedStay(outbox[d], t)
      BY <1>1, <1>8, <2>1, <2>3 DEF StillSelected, MarkFailed
    <2> QED  BY <1>4, <2>3, <2>4, <2>5, EngineSelection
  <1>10. CASE FinishTurf(e)
    <2>1. PICK t : t = ResetToPending(outbox[d], engine[e].batch)
      OBVIOUS
    <2>2. PICK es : es = At("select", {})
      OBVIOUS
    <2>3. /\ outbox' = [outbox EXCEPT ![d] = t] /\ engine' = [engine EXCEPT ![e] = es]
          /\ engine[e].pc = "errors"
      BY <1>1, <1>10, <2>1, <2>2 DEF FinishTurf
    <2>4. es.batch = {}
      BY <1>2, <2>2
    <2>5. FailedStay(outbox[d], t)
      BY <1>1, <1>8, <2>1, <2>3 DEF StillSelected, ResetToPending
    <2> QED  BY <1>4, <2>3, <2>4, <2>5, EngineSelection
  <1>11. CASE SelectRetriable(e)
    <2> DEFINE B == GetRetriableFailedOperations(outbox[d])
    <2>1. PICK es : es = IF B = {} THEN Idle ELSE At("reset", B)
      OBVIOUS
    <2>2. engine' = [engine EXCEPT ![e] = es] /\ outbox' = outbox
      BY <1>11, <2>1 DEF SelectRetriable
    <2>3. \A i \in B : i \in DOMAIN outbox[d] /\ outbox[d][i].retries < MaxRetry
      BY DEF GetRetriableFailedOperations, IdsWithStatus
    <2>4. StillSelected(es, outbox[d])
      <3>1. es.batch \subseteq B /\ es.pc \in {"idle", "reset"}
        BY <1>2, <2>1
      <3> QED  BY <2>3, <3>1 DEF StillSelected
    <2> QED  BY <1>3, <2>2, <2>4, EngineSelection
  <1>12. CASE ResetRetriable(e)
    <2>1. PICK t : t = ResetToPending(outbox[d], engine[e].batch)
      OBVIOUS
    <2>3. /\ outbox' = [outbox EXCEPT ![d] = t] /\ engine' = [engine EXCEPT ![e] = Idle]
          /\ engine[e].pc = "reset"
      BY <1>1, <1>12, <2>1 DEF ResetRetriable
    <2>5. FailedStay(outbox[d], t)
      BY <1>1, <1>8, <2>1, <2>3 DEF StillSelected, ResetToPending
    <2> QED  BY <1>2, <1>4, <2>3, <2>5, EngineSelection
  <1>13. CASE RemoveTurf(e)
    <2>1. PICK ops \in SUBSET IdsWithStatus(outbox[d], "pending") :
            /\ engine' = [engine EXCEPT ![e] = [At("mark", ops) EXCEPT !.turf = TRUE]]
            /\ outbox' = outbox
      BY <1>13 DEF RemoveTurf, SelectForTurf
    <2>2. PICK es : es = [At("mark", ops) EXCEPT !.turf = TRUE]
      OBVIOUS
    <2>3. es.batch = ops /\ es.pc = "mark"
      BY <2>2 DEF At
    <2>4. StillSelected(es, outbox[d])
      BY <2>1, <2>3 DEF StillSelected, IdsWithStatus
    <2> QED  BY <1>3, <2>1, <2>2, <2>4, EngineSelection
  <1> QED
    BY <1>5, <1>6, <1>7, <1>9, <1>10, <1>11, <1>12, <1>13 DEF LocalStep

-----------------------------------------------------------------------------
LEMMA CallStepSelection ==
  ASSUME Isolates = {Main}, TypeOK, SelectionsHold, NEW e \in Engines,
         SendBatch(e) \/ ReceiveAnswer(e) \/ LoseCall(e) \/ Kill(e)
  PROVE  /\ SelectionsHold'
         /\ \A d \in Devices : FailedStay(outbox[d], outbox'[d])
  <1> DEFINE d == DeviceOf(e)
  <1>1. /\ engine[e] \in EngineState /\ DOMAIN outbox = Devices /\ d \in Devices
        /\ StillSelected(engine[e], outbox[d]) /\ engine \in [Engines -> EngineState]
    BY EngineType DEF TypeOK, ClientTypeOK, SelectionsHold
  <1>2. \A pc, t : StillSelected(At(pc, {}), t) /\ StillSelected(Idle, t)
    BY DEF At, Idle, StillSelected
  <1>3. CASE SendBatch(e)
    <2>1. PICK t : t = MarkInProgress(outbox[d], engine[e].batch)
      OBVIOUS
    <2>2. PICK es : es = [engine[e] EXCEPT !.pc = "wait"]
      OBVIOUS
    <2>3. /\ outbox' = [outbox EXCEPT ![d] = t] /\ engine' = [engine EXCEPT ![e] = es]
          /\ engine[e].pc = "mark"
      BY <1>1, <1>3, <2>1, <2>2 DEF SendBatch, MarkBatch
    <2>4. es.pc = "wait" /\ es.batch = engine[e].batch
      BY <1>1, <2>2 DEF EngineState
    <2>5. /\ DOMAIN t = DOMAIN outbox[d]
          /\ \A i \in DOMAIN t : IF i \in engine[e].batch THEN t[i].status = "in_progress"
                                                           ELSE t[i] = outbox[d][i]
      BY <2>1 DEF MarkInProgress, SetStatus
    <2>6. StillSelected(es, t)
      BY <2>4, <2>5 DEF StillSelected
    <2>7. FailedStay(outbox[d], t)
      BY <1>1, <2>3, <2>5 DEF StillSelected, FailedStay
    <2> QED  BY <2>3, <2>6, <2>7, EngineSelection
  <1>4. CASE ReceiveAnswer(e)
    <2>1. PICK processed, refused : TakeAnswer(e, processed, refused)
      BY <1>4 DEF ReceiveAnswer
    <2> DEFINE errors == IF engine[e].turf THEN {} ELSE refused
    <2>2. PICK t : t = MarkSynced(outbox[d], processed \cap engine[e].batch)
      OBVIOUS
    <2>3. PICK es : es = [pc |-> "errors", batch |-> engine[e].batch \ (processed \cup errors),
                          errors |-> errors \cap engine[e].batch,
                          pushed |-> processed \cap engine[e].batch # {},
                          turf |-> engine[e].turf]
      OBVIOUS
    <2>4. /\ outbox' = [outbox EXCEPT ![d] = t] /\ engine' = [engine EXCEPT ![e] = es]
          /\ engine[e].pc = "wait"
      BY <1>1, <2>1, <2>2, <2>3 DEF TakeAnswer
    <2>5. /\ es.pc = "errors" /\ es.batch \subseteq engine[e].batch
          /\ es.batch \cap es.errors = {}
      BY <2>3
    <2>6. DOMAIN t \subseteq DOMAIN outbox[d] /\ \A i \in DOMAIN t : t[i] = outbox[d][i]
      BY <2>2 DEF MarkSynced
    <2>7. StillSelected(es, t)
      BY <1>1, <2>4, <2>5, <2>6 DEF StillSelected
    <2>8. FailedStay(outbox[d], t)
      BY <2>6 DEF FailedStay
    <2> QED  BY <2>4, <2>7, <2>8, EngineSelection
  <1>5. CASE LoseCall(e)
    <2>1. PICK t : t = ResetInProgressToPending(outbox[d])
      OBVIOUS
    <2>2. PICK es : es = At(IF engine[e].turf THEN "select" ELSE "retry", {})
      OBVIOUS
    <2>3. outbox' = [outbox EXCEPT ![d] = t] /\ engine' = [engine EXCEPT ![e] = es]
      BY <1>5, <2>1, <2>2 DEF LoseCall, CallFails
    <2>4. StillSelected(es, t)
      BY <1>2, <2>2
    <2>5. FailedStay(outbox[d], t)
      BY <2>1 DEF ResetInProgressToPending, SetStatus, IdsWithStatus, FailedStay
    <2> QED  BY <2>3, <2>4, <2>5, EngineSelection
  <1>6. CASE Kill(e)
    <2>1. outbox' = outbox /\ engine' = [engine EXCEPT ![e] = Idle]
      BY <1>6 DEF Kill, KillIsolate
    <2>2. FailedStay(outbox[d], outbox[d])
      BY DEF FailedStay
    <2> QED  BY <1>2, <2>1, <2>2, EngineSelection
  <1> QED  BY <1>3, <1>4, <1>5, <1>6

LEMMA NextSelection ==
  ASSUME Isolates = {Main}, TypeOK, SelectionsHold, [Next]_vars
  PROVE  /\ SelectionsHold'
         /\ UserStep \/ \A d \in Devices : FailedStay(outbox[d], outbox'[d])
  <1>1. ASSUME UNCHANGED <<outbox, engine>>
        PROVE  SelectionsHold' /\ \A d \in Devices : FailedStay(outbox[d], outbox'[d])
    BY <1>1 DEF SelectionsHold, FailedStay
  <1>2. CASE RecordFieldWork
    <2>1. SelectionsHold' /\ \A d \in Devices, i \in OpIds : DeadLetter(d, i) => DeadLetter(d, i)'
      BY <1>2, RecordingSelection
    <2>2. \A d \in Devices : DOMAIN outbox[d] \subseteq OpIds
      BY OutboxIsTable DEF TypeOK, Table
    <2> QED  BY <2>1, <2>2 DEF FailedStay, DeadLetter, Held
  <1>3. CASE UserStep
    BY <1>3, UserStepSelection
  <1>4. ASSUME NEW e \in Engines, LocalStep(e) \/ RemoveTurf(e)
        PROVE  SelectionsHold' /\ \A d \in Devices : FailedStay(outbox[d], outbox'[d])
    BY <1>4, LocalStepSelection
  <1>5. ASSUME NEW e \in Engines, SendBatch(e) \/ ReceiveAnswer(e) \/ LoseCall(e) \/ Kill(e)
        PROVE  SelectionsHold' /\ \A d \in Devices : FailedStay(outbox[d], outbox'[d])
    BY <1>5, CallStepSelection
  <1>6. ASSUME NEW c \in Calls, ServerStep(c) \/ ServerFault(c)
        PROVE  UNCHANGED <<outbox, engine>>
    BY <1>6 DEF ServerStep, ServerFault, clientVars
  <1>7. UNCHANGED vars => UNCHANGED <<outbox, engine>>
    BY DEF vars, clientVars
  <1> QED  BY <1>1, <1>2, <1>3, <1>4, <1>5, <1>6, <1>7 DEF Next

(* While a device has one engine, no step but the user's takes a dead      *)
(* letter out of its status, although the engine selects rows in one       *)
(* statement and updates them by their ids in a later one.                 *)
THEOREM DeadLettersWaitForUser ==
  ASSUME Isolates = {Main}
  PROVE  Spec => DeadLettersWait
  <1> DEFINE Inv == TypeOK /\ SelectionsHold
             Step == \A d \in Devices, i \in OpIds :
                       (DeadLetter(d, i) /\ i \in DOMAIN outbox'[d]
                          /\ outbox'[d][i].status # "failed") => UserStep
  <1>1. Init => Inv
    <2>1. Init => SelectionsHold
      BY DEF Init, ClientInit, Idle, At, SelectionsHold, StillSelected
    <2> QED  BY <2>1, InitType
  <1>2. Inv /\ [Next]_vars => Inv'
    BY NextType, NextSelection
  <1>3. Inv /\ [Next]_vars => [Step]_vars
    <2> SUFFICES ASSUME Inv, [Next]_vars, NEW d \in Devices, NEW i \in OpIds,
                        DeadLetter(d, i), i \in DOMAIN outbox'[d],
                        outbox'[d][i].status # "failed"
                 PROVE  UserStep
      OBVIOUS
    <2> QED  BY NextSelection DEF FailedStay, DeadLetter, Held
  <1> HIDE DEF Inv
  <1> QED  BY <1>1, <1>2, <1>3, PTL DEF Spec, DeadLettersWait
=============================================================================
