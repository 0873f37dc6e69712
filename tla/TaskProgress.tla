---------------------------- MODULE TaskProgress ----------------------------
(***************************************************************************)
(* Tasks of the office and their automatic progress.  A task has a list of *)
(* voters to contact; when a contact log is pushed, the server publishes   *)
(* an event, and the task worker marks the voter on every active task that *)
(* knows the voter and recalculates the task's progress.  Users create,    *)
(* cancel and delete tasks and link voters meanwhile.  A step is one       *)
(* statement, one publication or one delivery; the statement that counts   *)
(* voters and writes the sum into another row is two, since the database   *)
(* counts as of the start of the statement and writes when the row is free. *)
(***************************************************************************)
EXTENDS Integers, FiniteSets

CONSTANTS
  Tasks, Voters,
  Workers,     (* consumers of the event: one in each process of the server *)
  Requests,    (* requests that link voters to a task                      *)
  Turfs,
  TurfOf,      (* TurfOf[v]: the turf that v's contact logs name           *)
  Nobody,      (* no voter                                                 *)
  NoTask,      (* no task                                                  *)
  MaxStatuses, (* bound: statuses set by users                             *)
  MaxLinks,    (* bound: lists of voters linked                            *)
  MaxLogs,     (* bound: contact logs pushed                               *)
  MaxFaults    (* bound: faults of every kind together                     *)

ASSUME TaskAssumption ==
  /\ Nobody \notin Voters /\ NoTask \notin Tasks
  /\ IsFiniteSet(Voters)
  /\ TurfOf \in [Voters -> Turfs]
  /\ {MaxStatuses, MaxLinks, MaxLogs, MaxFaults} \subseteq Nat

VARIABLES
  task,        (* task[t]: the row of tasks                                *)
  linked,      (* linked[t]: the voters of t in task_voters                *)
  contacted,   (* contacted[t]: those with is_contacted                    *)
  logs,        (* voters with a stored contact log                         *)
  unpublished, (* unpublished[v]: logs of v stored, event not yet sent     *)
  queue,       (* queue[v]: deliveries of events about v that wait         *)
  worker,      (* worker[w]: the event in hand and what is left of it      *)
  request,     (* request[r]: the task a list was just linked to           *)
  writer,      (* writer[t]: who wrote the row of t last                   *)
  blind,       (* blind[t]: workers that looked t up before its last cancel *)
  count        (* how often each bounded event has happened                *)

vars == <<task, linked, contacted, logs, unpublished, queue, worker, request, writer,
          blind, count>>

Statuses == {"open", "in_progress", "completed", "cancelled"}
Active == {"open", "in_progress"}
Entities == Voters \cup Turfs \cup {Nobody}
Exists(t) == task[t].status \in Statuses

Idle == [pc |-> "idle", voter |-> Nobody, left |-> {}, task |-> NoTask,
         done |-> 0, total |-> 0, overtaken |-> FALSE]

Faults == {"unpublished", "lookup", "mark", "recalculate", "reset", "redelivered", "killed"}
Events == Faults \cup {"fault", "status", "link", "log"}

Counted(event, limit) == /\ count[event] < limit
                         /\ count' = [count EXCEPT ![event] = @ + 1]
Fails(fault) == /\ count["fault"] < MaxFaults
                /\ count' = [count EXCEPT !["fault"] = @ + 1, ![fault] = @ + 1]

Init ==
  /\ task = [t \in Tasks |-> [status |-> "none", entity |-> Nobody, completed |-> 0, pct |-> 0]]
  /\ linked = [t \in Tasks |-> {}]
  /\ contacted = [t \in Tasks |-> {}]
  /\ logs = {}
  /\ unpublished = [v \in Voters |-> 0]
  /\ queue = [v \in Voters |-> 0]
  /\ worker = [w \in Workers |-> Idle]
  /\ request = [r \in Requests |-> NoTask]
  /\ writer = [t \in Tasks |-> "nobody"]
  /\ blind = [t \in Tasks |-> {}]
  /\ count = [event \in Events |-> 0]

-----------------------------------------------------------------------------
(* The office.                                                             *)

CreateTask(t, status, entity) ==
  /\ task[t].status = "none"
  /\ task' = [task EXCEPT ![t] = [@ EXCEPT !.status = status, !.entity = entity]]
  /\ UNCHANGED <<linked, contacted, logs, unpublished, queue, worker, request, writer,
                 blind, count>>

(* Whatever the status was.                                                *)
UpdateTaskStatus(t, status) ==
  /\ Exists(t)
  /\ Counted("status", MaxStatuses)
  /\ task' = [task EXCEPT ![t].status = status]
  /\ writer' = [writer EXCEPT ![t] = "user"]
  /\ blind' = IF status = "cancelled"
              THEN [blind EXCEPT ![t] = {w \in Workers : t \in worker[w].left}]
              ELSE blind
  /\ UNCHANGED <<linked, contacted, logs, unpublished, queue, worker, request>>

(* The rows of task_voters go with the task.                               *)
DeleteTask(t) ==
  /\ Exists(t)
  /\ Counted("status", MaxStatuses)
  /\ task' = [task EXCEPT ![t].status = "deleted"]
  /\ linked' = [linked EXCEPT ![t] = {}]
  /\ contacted' = [contacted EXCEPT ![t] = {}]
  /\ UNCHANGED <<logs, unpublished, queue, worker, request, writer, blind>>

(* LinkTaskVoters: the copy fails as a whole when a voter is linked already; *)
(* the progress is set to zero by a second statement.                      *)
InsertTaskVoters(r, t, S) ==
  /\ request[r] = NoTask
  /\ Exists(t) /\ S \cap linked[t] = {}
  /\ Counted("link", MaxLinks)
  /\ linked' = [linked EXCEPT ![t] = @ \cup S]
  /\ request' = [request EXCEPT ![r] = t]
  /\ UNCHANGED <<task, contacted, logs, unpublished, queue, worker, writer, blind>>

UpdateTaskProgress(r) ==
  LET t == request[r]
  IN  /\ t # NoTask
      /\ request' = [request EXCEPT ![r] = NoTask]
      /\ IF Exists(t)
         THEN /\ task' = [task EXCEPT ![t] = [@ EXCEPT !.completed = 0, !.pct = 0]]
              /\ writer' = [writer EXCEPT ![t] = "link"]
         ELSE UNCHANGED <<task, writer>>
      /\ UNCHANGED <<linked, contacted, logs, unpublished, queue, worker, blind, count>>

ResetFails(r) ==
  /\ request[r] # NoTask
  /\ Fails("reset")
  /\ request' = [request EXCEPT ![r] = NoTask]
  /\ UNCHANGED <<task, linked, contacted, logs, unpublished, queue, worker, writer, blind>>

-----------------------------------------------------------------------------
(* A contact log is pushed; its repetition stores nothing and is announced *)
(* again.                                                                  *)
UpsertContactLog(v) ==
  /\ Counted("log", MaxLogs)
  /\ logs' = logs \cup {v}
  /\ unpublished' = [unpublished EXCEPT ![v] = @ + 1]
  /\ UNCHANGED <<task, linked, contacted, queue, worker, request, writer, blind>>

PublishContactLog(v) ==
  /\ unpublished[v] > 0
  /\ unpublished' = [unpublished EXCEPT ![v] = @ - 1]
  /\ queue' = [queue EXCEPT ![v] = @ + 1]
  /\ UNCHANGED <<task, linked, contacted, logs, worker, request, writer, blind, count>>

(* A warning in the log: the push succeeds without its event.              *)
PublishFails(v) ==
  /\ unpublished[v] > 0
  /\ Fails("unpublished")
  /\ unpublished' = [unpublished EXCEPT ![v] = @ - 1]
  /\ UNCHANGED <<task, linked, contacted, logs, queue, worker, request, writer, blind>>

-----------------------------------------------------------------------------
(* The worker.                                                             *)

TakeEvent(w, v) ==
  /\ worker[w].pc = "idle" /\ queue[v] > 0
  /\ queue' = [queue EXCEPT ![v] = @ - 1]
  /\ worker' = [worker EXCEPT ![w] = [Idle EXCEPT !.pc = "lookup", !.voter = v]]
  /\ UNCHANGED <<task, linked, contacted, logs, unpublished, request, writer, blind, count>>

(* The task is about the voter or the turf of an event.                    *)
About(t, v) == task[t].entity \in {v, TurfOf[v]}

(* Mutant: cancelled and completed tasks are found as well.                *)
LinkedTasksOfAnyStatus(v) ==
  {t \in Tasks : Exists(t) /\ (v \in linked[t] \/ About(t, v))}

(* Mutant: a task in progress is no longer found.                          *)
LinkedOpenTasks(v) ==
  {t \in Tasks : task[t].status = "open" /\ (v \in linked[t] \/ About(t, v))}

LinkedTasks(v) ==
  {t \in Tasks : task[t].status \in Active /\ (v \in linked[t] \/ About(t, v))}

(* The event is acknowledged when no task is left.                         *)
WorkOff(w, left) ==
  worker' = [worker EXCEPT ![w] =
               IF left = {} THEN Idle ELSE [Idle EXCEPT !.pc = "mark", !.voter = worker[w].voter, !.left = left]]

GetTasksLinkedToVoter(w) ==
  /\ worker[w].pc = "lookup"
  /\ WorkOff(w, LinkedTasks(worker[w].voter))
  /\ UNCHANGED <<task, linked, contacted, logs, unpublished, queue, request, writer, blind,
                 count>>

Return(w) == /\ queue' = [queue EXCEPT ![worker[w].voter] = @ + 1]
             /\ worker' = [worker EXCEPT ![w] = Idle]

(* The event is refused and comes back.                                    *)
LookupFails(w) ==
  /\ worker[w].pc = "lookup"
  /\ Fails("lookup")
  /\ Return(w)
  /\ UNCHANGED <<task, linked, contacted, logs, unpublished, request, writer, blind>>

(* w has marked its voter on t, beside whoever is just recalculating t.    *)
Marked(w, t) ==
  [u \in Workers |->
     IF u = w THEN [worker[w] EXCEPT !.pc = "recalculate", !.task = t]
              ELSE [worker[u] EXCEPT !.overtaken = @ \/ (worker[u].pc = "write" /\ worker[u].task = t)]]

(* Mutant: the statement forgets the voter.                                *)
MarkEveryTaskVoter(w, t) ==
  /\ worker[w].pc = "mark" /\ t \in worker[w].left
  /\ contacted' = [contacted EXCEPT ![t] = linked[t]]
  /\ worker' = Marked(w, t)
  /\ UNCHANGED <<task, linked, logs, unpublished, queue, request, writer, blind, count>>

(* An update: a voter that is not on the list stays off it.                *)
MarkTaskVoterContacted(w, t) ==
  /\ worker[w].pc = "mark" /\ t \in worker[w].left
  /\ contacted' = [contacted EXCEPT ![t] = @ \cup ({worker[w].voter} \cap linked[t])]
  /\ worker' = Marked(w, t)
  /\ UNCHANGED <<task, linked, logs, unpublished, queue, request, writer, blind, count>>

(* A warning in the log: on with the next task.                            *)
MarkFails(w, t) ==
  /\ worker[w].pc = "mark" /\ t \in worker[w].left
  /\ Fails("mark")
  /\ WorkOff(w, worker[w].left \ {t})
  /\ UNCHANGED <<task, linked, contacted, logs, unpublished, queue, request, writer, blind>>

(* Mutant: the quotient is forgotten.                                      *)
Undivided(part, whole) == part * 100

Percent(part, whole) == (part * 100) \div whole

CountTaskVoters(w) ==
  LET t == worker[w].task
  IN  /\ worker[w].pc = "recalculate"
      /\ worker' = [worker EXCEPT ![w] =
                      [@ EXCEPT !.pc = "write", !.done = Cardinality(contacted[t]),
                                !.total = Cardinality(linked[t])]]
      /\ UNCHANGED <<task, linked, contacted, logs, unpublished, queue, request, writer, blind,
                     count>>

(* Mutant: one more voter, instead of the number of the voters.            *)
CountOneMore(t, done, total) ==
  [task[t] EXCEPT !.completed = @ + 1,
                  !.pct = Percent(done, total),
                  !.status = IF done >= total THEN "completed" ELSE @]

(* The new row of t, whatever its status was.                              *)
Recalculated(t, done, total) ==
  [task[t] EXCEPT !.completed = done,
                  !.pct = Percent(done, total),
                  !.status = IF done >= total THEN "completed" ELSE @]

RecalculateTaskProgress(w) ==
  LET t == worker[w].task
  IN  /\ worker[w].pc = "write"
      /\ IF worker[w].total > 0 /\ Exists(t)
         THEN /\ task' = [task EXCEPT ![t] = Recalculated(t, worker[w].done, worker[w].total)]
              /\ writer' = [writer EXCEPT ![t] = IF worker[w].overtaken THEN "overtaken" ELSE "worker"]
         ELSE UNCHANGED <<task, writer>>
      /\ blind' = [blind EXCEPT ![t] = @ \ {w}]
      /\ WorkOff(w, worker[w].left \ {t})
      /\ UNCHANGED <<linked, contacted, logs, unpublished, queue, request, count>>

(* A warning in the log: the progress stays what it was.                   *)
RecalculateFails(w) ==
  /\ worker[w].pc = "recalculate"
  /\ Fails("recalculate")
  /\ blind' = [blind EXCEPT ![worker[w].task] = @ \ {w}]
  /\ WorkOff(w, worker[w].left \ {worker[w].task})
  /\ UNCHANGED <<task, linked, contacted, logs, unpublished, queue, request, writer>>

(* The acknowledgement is late or lost: the event is delivered again.      *)
Redeliver(w) ==
  /\ worker[w].pc # "idle"
  /\ Fails("redelivered")
  /\ queue' = [queue EXCEPT ![worker[w].voter] = @ + 1]
  /\ UNCHANGED <<task, linked, contacted, logs, unpublished, worker, request, writer, blind>>

(* The worker's process dies: the queue delivers its event again.          *)
Kill(w) ==
  /\ worker[w].pc # "idle"
  /\ Fails("killed")
  /\ Return(w)
  /\ blind' = [t \in Tasks |-> blind[t] \ {w}]
  /\ UNCHANGED <<task, linked, contacted, logs, unpublished, request, writer>>

-----------------------------------------------------------------------------
Office ==
  \/ \E t \in Tasks :
       \/ \E status \in Statuses : \/ \E entity \in Entities :
                                          CreateTask(t, status, entity)
                                   \/ UpdateTaskStatus(t, status)
       \/ DeleteTask(t)
       \/ \E r \in Requests, S \in SUBSET Voters : InsertTaskVoters(r, t, S)
  \/ \E r \in Requests : UpdateTaskProgress(r) \/ ResetFails(r)

Push == \E v \in Voters : UpsertContactLog(v) \/ PublishContactLog(v) \/ PublishFails(v)

Handle(w) ==
  \/ GetTasksLinkedToVoter(w)
  \/ \E t \in Tasks : MarkTaskVoterContacted(w, t)
  \/ CountTaskVoters(w) \/ RecalculateTaskProgress(w)

WorkerFault(w) ==
  \/ LookupFails(w)
  \/ \E t \in Tasks : MarkFails(w, t)
  \/ RecalculateFails(w)
  \/ Redeliver(w)
  \/ Kill(w)

Next ==
  \/ Office
  \/ Push
  \/ \E w \in Workers : \/ \E v \in Voters : TakeEvent(w, v)
                         \/ Handle(w)
                         \/ WorkerFault(w)

Spec == Init /\ [][Next]_vars

(* The queue delivers every event, and a worker goes on with what it has.  *)
FairSpec ==
  /\ Spec
  /\ \A v \in Voters : WF_vars(\E w \in Workers : TakeEvent(w, v))
  /\ \A w \in Workers : WF_vars(Handle(w))
-----------------------------------------------------------------------------
(* Properties.                                                             *)

(* The types of all variables; the schema checks the percentage.           *)
TypeOK ==
  /\ task \in [Tasks -> [status : Statuses \cup {"none", "deleted"},
                         entity : Entities, completed : Nat, pct : 0 .. 100]]
  /\ linked \in [Tasks -> SUBSET Voters]
  /\ contacted \in [Tasks -> SUBSET Voters]
  /\ logs \subseteq Voters
  /\ unpublished \in [Voters -> Nat]
  /\ queue \in [Voters -> Nat]
  /\ worker \in [Workers -> [pc : {"idle", "lookup", "mark", "recalculate", "write"},
                            voter : Voters \cup {Nobody}, left : SUBSET Tasks,
                            task : Tasks \cup {NoTask}, done : Nat, total : Nat,
                            overtaken : BOOLEAN]]
  /\ request \in [Requests -> Tasks \cup {NoTask}]
  /\ writer \in [Tasks -> {"nobody", "user", "link", "worker", "overtaken"}]
  /\ blind \in [Tasks -> SUBSET Workers]
  /\ count \in [Events -> Nat]

(* A voter counts as contacted on a task only if the voter is on the       *)
(* task's list and a contact log was stored.                               *)
ContactedWereLogged == \A t \in Tasks : contacted[t] \subseteq linked[t] \cap logs

(* Nobody is between marking a voter and recalculating.                    *)
Settled(t) == \A w \in Workers : worker[w].task # t

(* However events repeat, workers interleave or die, a row a worker wrote  *)
(* last shows exactly the contacted voters, and a task whose every voter   *)
(* is contacted is completed.  Excepted: another worker marked a voter of  *)
(* the task between the count and the write, or a recalculation failed or  *)
(* its worker died, which only the next one makes up for.                  *)
ProgressIsExact ==
  count["recalculate"] + count["killed"] = 0 =>
    \A t \in Tasks :
      (Exists(t) /\ Settled(t) /\ writer[t] = "worker") =>
        /\ task[t].completed = Cardinality(contacted[t])
        /\ contacted[t] = linked[t] => task[t].status = "completed"

(* The recalculation is "idempotent, race-safe" (task_worker.go): whichever*)
(* worker wrote a row last, once nobody recalculates it the row shows the  *)
(* contacted voters.                                                       *)
RecalculationIsRaceSafe ==
  count["recalculate"] + count["killed"] = 0 =>
    \A t \in Tasks :
      (Exists(t) /\ Settled(t) /\ writer[t] \in {"worker", "overtaken"}) =>
        task[t].completed = Cardinality(contacted[t])

(* A cancelled task is completed behind the user's back only by a worker   *)
(* that looked it up before it was cancelled.                              *)
CancelStands ==
  [][\A t \in Tasks :
       (task[t].status = "cancelled" /\ writer'[t] \in {"worker", "overtaken"} /\ task'[t].status = "completed")
         => blind[t] # {}]_vars

(* A published contact reaches the list of an active task, whatever is     *)
(* redelivered or killed, unless the mark itself fails, the task ends or   *)
(* the voter's list goes.                                                  *)
ContactsAreCounted ==
  \A t \in Tasks, v \in Voters :
    (queue[v] > 0 /\ v \in linked[t] /\ task[t].status \in Active)
      ~> (v \in contacted[t] \/ task[t].status \notin Active \/ count["mark"] > 0)
=============================================================================
