---------------------------- MODULE FieldClient -----------------------------
(***************************************************************************)
(* The device side of push synchronisation: the screens that record field  *)
(* work in the local tables and the outbox, and the sync engines that send *)
(* it.  The app's main isolate and the WorkManager isolate each build      *)
(* their own SyncEngine on the same database file, so a device has several *)
(* engines, and the `_isSyncing` flag each of them holds does not exclude  *)
(* the others.  Every step is the code between two awaits.                 *)
(***************************************************************************)
EXTENDS SyncOutbox, Sequences

CONSTANTS
  Isolates,      (* the isolates of the app that run a sync engine         *)
  Main,          (* the one with the screens                               *)
  DoorStatuses,  (* door dispositions the navigator may record             *)
  CallStatuses,  (* call dispositions the navigator may record             *)
  BatchSize,     (* _maxBatchSize                                          *)
  RetryCap       (* bound: the user retries no operation refused this often*)

ASSUME ClientAssumption ==
  /\ Main \in Isolates
  /\ DoorStatuses \subseteq {"not_home", "answered", "refused", "moved"}
  /\ CallStatuses \subseteq {"answered", "voicemail", "no_answer", "refused", "busy"}
  /\ BatchSize \in Nat \ {0}
  /\ RetryCap \in Nat

VARIABLES
  local,      (* local[d]: entities written on d; the i-th has operation i *)
  outbox,     (* outbox[d]: the sync_operations table of d                 *)
  session,    (* session[d]: what a save in progress has still to write    *)
  engine,     (* engine[e]: where engine e is in its cycle                 *)
  dismissed   (* dismissed[d]: operations the user dismissed on d          *)

clientVars == <<local, outbox, session, engine, dismissed>>

Engines == Devices \X Isolates
DeviceOf(e) == e[1]

Kinds == {"contact_log", "survey_response", "voter_note", "task_note"}
Outcomes == {"", "contact_made", "not_home", "refused", "moved", "voicemail", "busy"}

(* What the server tells apart in an operation: its entity type, the       *)
(* outcome of a contact log, and for a survey response the operation that  *)
(* carries the contact log it refers to.                                   *)
Entity == [kind : Kinds, outcome : Outcomes, log : 0 .. MaxOps]

ContactLog(outcome) == [kind |-> "contact_log", outcome |-> outcome, log |-> 0]
SurveyResponse(log) == [kind |-> "survey_response", outcome |-> "", log |-> log]
Note(kind) == [kind |-> kind, outcome |-> "", log |-> 0]

(* turf: the batch holds the operations of a turf that is being removed.   *)
EngineState == [pc : {"idle", "select", "mark", "wait", "errors", "retry", "reset"},
                batch : SUBSET OpIds, errors : SUBSET OpIds,
                pushed : BOOLEAN, turf : BOOLEAN]

At(pc, batch) ==
  [pc |-> pc, batch |-> batch, errors |-> {}, pushed |-> FALSE, turf |-> FALSE]
Idle == At("idle", {})

(* The types of the client's variables: a device writes at most MaxOps     *)
(* entities, and an outbox row always belongs to one of them.              *)
ClientTypeOK ==
  /\ local \in [Devices -> Seq(Entity)]
  /\ DOMAIN outbox = Devices
  /\ \A d \in Devices : /\ Len(local[d]) <= MaxOps
                        /\ DOMAIN outbox[d] \subseteq DOMAIN local[d]
                        /\ outbox[d] \in [DOMAIN outbox[d] -> Row]
  /\ session \in [Devices -> Seq(Entity)]
  /\ engine \in [Engines -> EngineState]
  /\ dismissed \in [Devices -> SUBSET OpIds]

ClientInit ==
  /\ local = [d \in Devices |-> <<>>]
  /\ outbox = [d \in Devices |-> [i \in {} |-> FreshRow]]
  /\ session = [d \in Devices |-> <<>>]
  /\ engine = [e \in Engines |-> Idle]
  /\ dismissed = [d \in Devices |-> {}]

-----------------------------------------------------------------------------
(* Recording field work.                                                   *)

DoorStatusToOutcome(s) == IF s = "answered" THEN "contact_made" ELSE s

CallStatusToOutcome(s) ==
  CASE s = "answered"  -> "contact_made"
    [] s = "no_answer" -> "not_home"
    [] OTHER           -> s

(* Mutant: the outbox row may be committed without the entity.             *)
WriteWithoutTransaction(d, entity) ==
  /\ Len(local[d]) < MaxOps
  /\ local' = local \/ local' = [local EXCEPT ![d] = Append(@, entity)]
  /\ outbox' = [outbox EXCEPT ![d] = InsertOperation(@, Len(local[d]) + 1)]

(* The entity and its outbox row, in one transaction.                      *)
WriteWithOutbox(d, entity) ==
  /\ Len(local[d]) < MaxOps
  /\ local' = [local EXCEPT ![d] = Append(@, entity)]
  /\ outbox' = [outbox EXCEPT ![d] = InsertOperation(@, Len(local[d]) + 1)]

(* A save writes the contact log; `rest` is left for later transactions.   *)
SaveContact(d, outcome, rest) ==
  /\ session[d] = <<>>
  /\ Len(local[d]) + Len(rest) < MaxOps
  /\ WriteWithOutbox(d, ContactLog(outcome))
  /\ session' = [session EXCEPT ![d] = rest]
  /\ UNCHANGED <<engine, dismissed>>

(* Only an answered door leads to the survey and the note.                 *)
SaveDoorKnock(d) ==
  \E s \in DoorStatuses, survey, note \in BOOLEAN :
    /\ (survey \/ note) => s = "answered"
    /\ LET log == Len(local[d]) + 1
       IN  SaveContact(d, DoorStatusToOutcome(s),
                       (IF survey THEN <<SurveyResponse(log)>> ELSE <<>>)
                         \o (IF note THEN <<Note("voter_note")>> ELSE <<>>))

SavePhoneCall(d) ==
  \E s \in CallStatuses, note \in BOOLEAN :
    /\ note => s = "answered"
    /\ SaveContact(d, CallStatusToOutcome(s),
                   IF note THEN <<Note("voter_note")>> ELSE <<>>)

(* The next transaction of a save: each part has one of its own.           *)
SaveNextPart(d) ==
  /\ session[d] # <<>>
  /\ WriteWithOutbox(d, Head(session[d]))
  /\ session' = [session EXCEPT ![d] = Tail(@)]
  /\ UNCHANGED <<engine, dismissed>>

(* A note written on the voter screen or the task screen.                  *)
AddNote(d, kind) ==
  /\ session[d] = <<>>
  /\ WriteWithOutbox(d, Note(kind))
  /\ UNCHANGED <<session, engine, dismissed>>

-----------------------------------------------------------------------------
(* One cycle of an engine: push the operations of removed turfs, push      *)
(* until a batch brings nothing, then make failed operations pending again.*)

StartCycle(e) ==
  /\ engine[e].pc = "idle"
  /\ engine' = [engine EXCEPT ![e] = At("select", {})]
  /\ UNCHANGED <<local, outbox, session, dismissed>>

(* The server's manifest lacks a turf of the device: its pending           *)
(* operations, those of one visit together, are pushed first.              *)
SelectForTurf(e) ==
  LET d == DeviceOf(e)
      pending == IdsWithStatus(outbox[d], "pending")
      Visit(i) == IF local[d][i].kind = "survey_response" THEN local[d][i].log ELSE i
  IN  \E ops \in SUBSET {i \in pending : local[d][i].kind # "task_note"} \ {{}} :
        /\ engine[e].pc = "idle"
        /\ \A i \in pending, j \in ops : Visit(i) = Visit(j) => i \in ops
        /\ engine' = [engine EXCEPT ![e] = [At("mark", ops) EXCEPT !.turf = TRUE]]
        /\ UNCHANGED <<local, outbox, session, dismissed>>

SelectPending(e) ==
  LET batch == GetPendingOperations(outbox[DeviceOf(e)], BatchSize)
  IN  /\ engine[e].pc = "select"
      /\ engine' = [engine EXCEPT ![e] =
                      IF batch = {} THEN At("retry", {}) ELSE At("mark", batch)]
      /\ UNCHANGED <<local, outbox, session, dismissed>>

(* Mark the selected rows and issue the call.                              *)
MarkBatch(e) ==
  /\ engine[e].pc = "mark"
  /\ outbox' = [outbox EXCEPT ![DeviceOf(e)] = MarkInProgress(@, engine[e].batch)]
  /\ engine' = [engine EXCEPT ![e].pc = "wait"]
  /\ UNCHANGED <<local, session, dismissed>>

(* Mutant: the whole batch is deleted when the answer arrives.             *)
TakeAnswerForAll(e, processed, refused) ==
  /\ engine[e].pc = "wait"
  /\ outbox' = [outbox EXCEPT ![DeviceOf(e)] = MarkSynced(@, engine[e].batch)]
  /\ engine' = [engine EXCEPT ![e] = At("errors", {})]
  /\ UNCHANGED <<local, session, dismissed>>

(* The answer arrives: rows of processed operations are deleted.  What the *)
(* answer does not name stays in `batch`; a turf's push ignores its errors.*)
TakeAnswer(e, processed, refused) ==
  LET batch == engine[e].batch
      errors == IF engine[e].turf THEN {} ELSE refused
  IN  /\ engine[e].pc = "wait"
      /\ outbox' = [outbox EXCEPT ![DeviceOf(e)] = MarkSynced(@, processed \cap batch)]
      /\ engine' = [engine EXCEPT ![e] =
                      [pc |-> "errors", batch |-> batch \ (processed \cup errors),
                       errors |-> errors \cap batch, pushed |-> processed \cap batch # {},
                       turf |-> engine[e].turf]]
      /\ UNCHANGED <<local, session, dismissed>>

(* markFailedWithRetry: one UPDATE per refused operation.                  *)
MarkNextError(e) ==
  \E i \in engine[e].errors :
    /\ engine[e].pc = "errors"
    /\ \A j \in engine[e].errors : i <= j
    /\ outbox' = [outbox EXCEPT ![DeviceOf(e)] = MarkFailedWithRetry(@, {i})]
    /\ engine' = [engine EXCEPT ![e].errors = @ \ {i}]
    /\ UNCHANGED <<local, session, dismissed>>

(* Rows the answer did not name become pending; a batch that pushed        *)
(* nothing ends the loop.                                                  *)
FinishBatch(e) ==
  /\ engine[e].pc = "errors" /\ ~engine[e].turf
  /\ engine[e].errors = {}
  /\ outbox' = [outbox EXCEPT ![DeviceOf(e)] = MarkFailed(@, engine[e].batch)]
  /\ engine' = [engine EXCEPT ![e] =
                  IF engine[e].pushed THEN At("select", {}) ELSE At("retry", {})]
  /\ UNCHANGED <<local, session, dismissed>>

(* What of a removed turf the server did not process becomes pending, with *)
(* no failure counted.                                                     *)
FinishTurf(e) ==
  /\ engine[e].pc = "errors" /\ engine[e].turf
  /\ outbox' = [outbox EXCEPT ![DeviceOf(e)] = ResetToPending(@, engine[e].batch)]
  /\ engine' = [engine EXCEPT ![e] = At("select", {})]
  /\ UNCHANGED <<local, session, dismissed>>

(* Mutant: the rows of a failed call stay in progress.                     *)
CallFailsWithoutReset(e) ==
  /\ engine[e].pc = "wait"
  /\ engine' = [engine EXCEPT ![e] = At("retry", {})]
  /\ UNCHANGED <<local, outbox, session, dismissed>>

(* The call throws: EVERY in-progress row of the device becomes pending,   *)
(* and the exception ends the loop (a turf's push swallows it).            *)
CallFails(e) ==
  /\ engine[e].pc = "wait"
  /\ outbox' = [outbox EXCEPT ![DeviceOf(e)] = ResetInProgressToPending(@)]
  /\ engine' = [engine EXCEPT ![e] =
                  At(IF engine[e].turf THEN "select" ELSE "retry", {})]
  /\ UNCHANGED <<local, session, dismissed>>

(* Mutant: the cycle never makes failed operations pending again.          *)
SelectNoRetriable(e) ==
  /\ engine[e].pc = "retry"
  /\ engine' = [engine EXCEPT ![e] = Idle]
  /\ UNCHANGED <<local, outbox, session, dismissed>>

SelectRetriable(e) ==
  LET retriable == GetRetriableFailedOperations(outbox[DeviceOf(e)])
  IN  /\ engine[e].pc = "retry"
      /\ engine' = [engine EXCEPT ![e] =
                      IF retriable = {} THEN Idle ELSE At("reset", retriable)]
      /\ UNCHANGED <<local, outbox, session, dismissed>>

ResetRetriable(e) ==
  /\ engine[e].pc = "reset"
  /\ outbox' = [outbox EXCEPT ![DeviceOf(e)] = ResetToPending(@, engine[e].batch)]
  /\ engine' = [engine EXCEPT ![e] = Idle]
  /\ UNCHANGED <<local, session, dismissed>>

(* The system kills an isolate: what it held in memory is gone, the        *)
(* database file stays as it was.                                          *)
KillIsolate(e) ==
  /\ engine[e].pc # "idle" \/ (e[2] = Main /\ session[DeviceOf(e)] # <<>>)
  /\ engine' = [engine EXCEPT ![e] = Idle]
  /\ session' = IF e[2] = Main THEN [session EXCEPT ![DeviceOf(e)] = <<>>] ELSE session
  /\ UNCHANGED <<local, outbox, dismissed>>

-----------------------------------------------------------------------------
(* The dead-letter cards of the sync screen.                               *)

RetryDeadLetter(d, i) ==
  /\ i \in GetDeadLetterOperations(outbox[d])
  /\ outbox[d][i].retries < RetryCap
  /\ outbox' = [outbox EXCEPT ![d] = ResetToPending(@, {i})]
  /\ UNCHANGED <<local, session, engine, dismissed>>

DismissDeadLetter(d, i) ==
  /\ i \in GetDeadLetterOperations(outbox[d])
  /\ outbox' = [outbox EXCEPT ![d] = MarkSynced(@, {i})]
  /\ dismissed' = [dismissed EXCEPT ![d] = @ \cup {i}]
  /\ UNCHANGED <<local, session, engine>>
=============================================================================
