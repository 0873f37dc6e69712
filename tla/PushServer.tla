----------------------------- MODULE PushServer -----------------------------
(***************************************************************************)
(* The server side of push synchronisation: PushSyncBatch and the tables   *)
(* it writes.  An operation takes three statements, each its own           *)
(* transaction: look up the operation id, write the entity, record the id. *)
(* Requests run concurrently, so the steps of two of them interleave, and  *)
(* a request may outlive the client that sent it.                          *)
(***************************************************************************)
EXTENDS SyncOutbox

CONSTANTS
  Calls,     (* bound: requests the server handles at once                 *)
  NoClient   (* a request nobody waits for                                 *)

VARIABLES
  call,      (* call[c]: the state of a request                            *)
  received,  (* sync_received_operations: operation ids of the company     *)
  copies     (* copies[d][i]: rows stored for the entity of operation i    *)

serverVars == <<call, received, copies>>

FreeCall == [phase |-> "free", client |-> NoClient, dev |-> NoClient,
             todo |-> {}, op |-> 0, processed |-> {}, errors |-> {}]

NewCall(client, dev, batch) ==
  [phase |-> "next", client |-> client, dev |-> dev,
   todo |-> batch, op |-> 0, processed |-> {}, errors |-> {}]

ServerInit ==
  /\ call = [c \in Calls |-> FreeCall]
  /\ received = {}
  /\ copies = [d \in Devices |-> [i \in OpIds |-> 0]]

Stored(d, i) == copies[d][i] > 0

IsNext(c, i) == /\ call[c].phase = "next"
                /\ i \in call[c].todo
                /\ \A j \in call[c].todo : i <= j

Answered(c) == call[c].phase = "next" /\ call[c].todo = {}

-----------------------------------------------------------------------------
(* The CHECK constraint on contact_logs.outcome.                           *)
AllowedOutcomes == {"", "support", "oppose", "undecided", "not_home", "refused", "moved"}

(* Whether the INSERT satisfies the schema: the CHECK on the outcome, and  *)
(* the foreign key of a survey response to its contact log.                *)
Accepts(d, entity) ==
  CASE entity.kind = "contact_log"     -> entity.outcome \in AllowedOutcomes
    [] entity.kind = "survey_response" -> Stored(d, entity.log)
    [] OTHER                           -> TRUE

(* Mutant: the row's id is the server's.                                   *)
RowsWithNewId(entity, n) == n + 1

(* Entities carry the client's UUID and are inserted ON CONFLICT DO        *)
(* NOTHING, except a task note: its row gets a new id on every insert.     *)
RowsAfterInsert(entity, n) == IF entity.kind = "task_note" \/ n = 0 THEN n + 1 ELSE n

-----------------------------------------------------------------------------
(* One more operation of a request: begun, reported processed, refused.    *)
Begin(r, i) == [r EXCEPT !.phase = "process", !.op = i, !.todo = @ \ {i}]

Report(r, i) == [r EXCEPT !.phase = "next", !.op = 0, !.todo = @ \ {i},
                          !.processed = @ \cup {i}]

Refuse(r, i) == [r EXCEPT !.phase = "next", !.op = 0, !.todo = @ \ {i},
                          !.errors = @ \cup {i}]

(* CheckSyncOperationProcessed: the id is the row id of SOME device.       *)
LookUp(c) ==
  \E i \in call[c].todo :
    /\ IsNext(c, i)
    /\ call' = [call EXCEPT ![c] = IF i \in received THEN Report(call[c], i)
                                                    ELSE Begin(call[c], i)]
    /\ UNCHANGED <<received, copies>>

(* Mutant: a processor's error is not reported.                            *)
ProcessHidingErrors(c, entity) ==
  LET d == call[c].dev
      i == call[c].op
  IN  /\ call[c].phase = "process"
      /\ copies' = IF Accepts(d, entity)
                   THEN [copies EXCEPT ![d][i] = RowsAfterInsert(entity, @)] ELSE copies
      /\ call' = [call EXCEPT ![c].phase = "record"]
      /\ UNCHANGED received

(* The processor of the operation's entity type.                           *)
Process(c, entity) ==
  LET d == call[c].dev
      i == call[c].op
  IN  /\ call[c].phase = "process"
      /\ IF Accepts(d, entity)
         THEN /\ copies' = [copies EXCEPT ![d][i] = RowsAfterInsert(entity, @)]
              /\ call' = [call EXCEPT ![c].phase = "record"]
         ELSE /\ call' = [call EXCEPT ![c] = Refuse(@, i)]
              /\ UNCHANGED copies
      /\ UNCHANGED received

(* RecordSyncOperationProcessed, and its failure, which is swallowed.      *)
Record(c, recorded) ==
  /\ call[c].phase = "record"
  /\ received' = IF recorded THEN received \cup {call[c].op} ELSE received
  /\ call' = [call EXCEPT ![c] = Report(@, call[c].op)]
  /\ UNCHANGED copies

(* The lookup or the write of one operation fails for a transient reason.  *)
StatementFails(c) ==
  /\ \E i \in OpIds :
       /\ IsNext(c, i) \/ (call[c].phase = "process" /\ i = call[c].op)
       /\ call' = [call EXCEPT ![c] = Refuse(@, i)]
  /\ UNCHANGED <<received, copies>>

(* The write is committed, but its answer is lost and counts as an error.  *)
WriteInDoubt(c, entity) ==
  LET d == call[c].dev
      i == call[c].op
  IN  /\ call[c].phase = "process"
      /\ Accepts(d, entity)
      /\ copies' = [copies EXCEPT ![d][i] = RowsAfterInsert(entity, @)]
      /\ call' = [call EXCEPT ![c] = Refuse(@, i)]
      /\ UNCHANGED received

(* A request without a client stops between two statements: its context is *)
(* cancelled, or the server went down.  It also ends here when done.       *)
Abandon(c) ==
  /\ call[c].phase # "free"
  /\ call[c].client = NoClient
  /\ call' = [call EXCEPT ![c] = FreeCall]
  /\ UNCHANGED <<received, copies>>
=============================================================================
