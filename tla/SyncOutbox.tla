----------------------------- MODULE SyncOutbox -----------------------------
(***************************************************************************)
(* The sync_operations table of one device and the statements SyncDao runs *)
(* on it.  A table is a function from the ids of its rows (autoincremented *)
(* integers) to rows; an operator takes the table before a statement and   *)
(* returns the rows it selects or the table after it.  Each operator is    *)
(* ONE SQL statement: whoever runs two of them leaves a gap between.       *)
(***************************************************************************)
EXTENDS Integers, FiniteSets

CONSTANTS
  Devices,   (* the devices of one company's navigators                    *)
  MaxOps,    (* bound: operations one device ever enqueues                 *)
  MaxRetry   (* maxRetryCount                                              *)

ASSUME OutboxAssumption == MaxOps \in Nat /\ MaxRetry \in Nat \ {0}

OpIds == 1 .. MaxOps

RowStatus == {"pending", "in_progress", "failed"}
Row == [status : RowStatus, retries : Nat]

(* The columns' defaults.                                                  *)
FreshRow == [status |-> "pending", retries |-> 0]

IdsWithStatus(t, s) == {i \in DOMAIN t : t[i].status = s}

(* Mutant: ORDER BY created_at DESC.                                       *)
GetPendingNewestFirst(t, n) ==
  LET pending == IdsWithStatus(t, "pending")
  IN  {i \in pending : Cardinality({j \in pending : j > i}) < n}

(* ORDER BY created_at LIMIT n: created_at follows the id.                 *)
GetPendingOperations(t, n) ==
  LET pending == IdsWithStatus(t, "pending")
  IN  {i \in pending : Cardinality({j \in pending : j < i}) < n}

(* Mutant: retry_count <= maxRetries.                                      *)
GetRetriableUpToLimit(t) ==
  {i \in IdsWithStatus(t, "failed") : t[i].retries <= MaxRetry}

GetRetriableFailedOperations(t) ==
  {i \in IdsWithStatus(t, "failed") : t[i].retries < MaxRetry}

(* The list behind the sync screen: any status.                            *)
GetDeadLetterOperations(t) == {i \in DOMAIN t : t[i].retries >= MaxRetry}

InsertOperation(t, i) ==
  [j \in DOMAIN t \cup {i} |-> IF j = i THEN FreshRow ELSE t[j]]

(* UPDATE ... WHERE id IN ids looks at no other column, so it takes a row  *)
(* out of whatever status it had.                                          *)
SetStatus(t, ids, s) ==
  [j \in DOMAIN t |->
     IF j \in ids THEN [status |-> s, retries |-> t[j].retries] ELSE t[j]]

(* Mutant: the status is written, the count is not.                        *)
FailWithoutCounting(t, ids, s) == SetStatus(t, ids, s)

CountFailure(t, ids, s) ==
  [j \in DOMAIN t |->
     IF j \in ids THEN [status |-> s, retries |-> t[j].retries + 1] ELSE t[j]]

MarkInProgress(t, ids) == SetStatus(t, ids, "in_progress")

ResetToPending(t, ids) == SetStatus(t, ids, "pending")

ResetInProgressToPending(t) == SetStatus(t, IdsWithStatus(t, "in_progress"), "pending")

MarkFailed(t, ids) == CountFailure(t, ids, "pending")

MarkFailedWithRetry(t, ids) == CountFailure(t, ids, "failed")

MarkSynced(t, ids) == [j \in DOMAIN t \ ids |-> t[j]]
=============================================================================
