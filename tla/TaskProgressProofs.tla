------------------------- MODULE TaskProgressProofs -------------------------
(***************************************************************************)
(* Proofs about TaskProgress: its types, that a voter counts as contacted  *)
(* only where a contact log was stored, that the progress a worker wrote   *)
(* last is exact, and that a cancelled task is completed only by a worker  *)
(* that knew it before, for any tasks, voters, workers and bounds.         *)
(***************************************************************************)
EXTENDS TaskProgress, FiniteSetTheorems, TLAPS

TaskState == [status : Statuses \cup {"none", "deleted"},
              entity : Entities, completed : Nat, pct : 0 .. 100]

WorkerState == [pc : {"idle", "lookup", "mark", "recalculate", "write"},
                voter : Voters \cup {Nobody}, left : SUBSET Tasks,
                task : Tasks \cup {NoTask}, done : Nat, total : Nat,
                overtaken : BOOLEAN]

(* A worker with an event has a voter, and a task exactly between the mark *)
(* and the write.                                                          *)
EventInHand ==
  \A w \in Workers :
    /\ worker[w].pc # "idle" => worker[w].voter \in Voters
    /\ worker[w].pc \in {"recalculate", "write"} <=> worker[w].task \in Tasks

(* The list a worker counted held the voters it counted as contacted.      *)
CountedAtMostTotal == \A w \in Workers : worker[w].done <= worker[w].total

(* Whoever is contacted is on the list and was logged; so is whoever an    *)
(* event is about, wherever the event is.                                  *)
Announced == \/ \E v \in Voters : unpublished[v] > 0 /\ v \notin logs
             \/ \E v \in Voters : queue[v] > 0 /\ v \notin logs
             \/ \E w \in Workers : worker[w].pc # "idle" /\ worker[w].voter \notin logs

Logged == ContactedWereLogged /\ ~Announced

IInv == TypeOK /\ EventInHand /\ CountedAtMostTotal /\ Logged

-----------------------------------------------------------------------------
(* What the definitions return.                                            *)

LEMMA PercentInRange ==
  ASSUME NEW part \in Nat, NEW whole \in Nat, whole > 0, part <= whole
  PROVE  Percent(part, whole) \in 0 .. 100
  <1> DEFINE q == (part * 100) \div whole
  <1>1. part * 100 <= whole * 100 /\ part * 100 >= 0
    OBVIOUS
  <1>2. q \in Int /\ q >= 0
    BY <1>1
  <1>3. q * whole <= part * 100
    BY <1>1
  <1>4. q <= 100
    BY <1>1, <1>2, <1>3
  <1> QED  BY <1>2, <1>4 DEF Percent

LEMMA IdleState == Idle \in WorkerState
  BY DEF Idle, WorkerState

(* Rows with new values are rows.                                          *)
LEMMA RowType ==
  ASSUME NEW row \in TaskState
  PROVE  /\ \A status \in Statuses, entity \in Entities :
              [row EXCEPT !.status = status, !.entity = entity] \in TaskState
         /\ \A completed \in Nat, pct \in 0 .. 100 :
              [row EXCEPT !.completed = completed, !.pct = pct] \in TaskState
  BY DEF TaskState, Statuses

(* A worker's state after a mark, its own and another's.                   *)
LEMMA MarkedState ==
  ASSUME NEW state \in WorkerState, NEW t \in Tasks
  PROVE  LET new == [state EXCEPT !.pc = "recalculate", !.task = t]
         IN  /\ new \in WorkerState
             /\ new.pc = "recalculate" /\ new.task = t /\ new.voter = state.voter
             /\ new.done = state.done /\ new.total = state.total /\ new.left = state.left
  BY DEF WorkerState

LEMMA OvertakenState ==
  ASSUME NEW state \in WorkerState, NEW overtaken \in BOOLEAN
  PROVE  LET new == [state EXCEPT !.overtaken = overtaken]
         IN  /\ new \in WorkerState /\ new.overtaken = overtaken
             /\ new.pc = state.pc /\ new.task = state.task /\ new.voter = state.voter
             /\ new.done = state.done /\ new.total = state.total /\ new.left = state.left
  BY DEF WorkerState

(* The row a recalculation writes.                                         *)
LEMMA RecalculatedRow ==
  ASSUME task \in [Tasks -> TaskState], NEW t \in Tasks, Exists(t),
         NEW done \in Nat, NEW total \in Nat, total > 0, done <= total
  PROVE  /\ Recalculated(t, done, total) \in TaskState
         /\ Recalculated(t, done, total).completed = done
         /\ done >= total => Recalculated(t, done, total).status = "completed"
         /\ Recalculated(t, done, total).status \in Statuses
  <1> DEFINE pct == Percent(done, total)
             status == IF done >= total THEN "completed" ELSE task[t].status
  <1>1. /\ task[t] \in TaskState /\ pct \in 0 .. 100
        /\ status \in Statuses
        /\ done >= total => status = "completed"
    BY PercentInRange DEF Exists, Statuses
  <1>2. Recalculated(t, done, total) =
          [task[t] EXCEPT !.completed = done, !.pct = pct, !.status = status]
    BY DEF Recalculated
  <1> HIDE DEF pct, status
  <1> DEFINE row == task[t]
             new == [row EXCEPT !.completed = done, !.pct = pct, !.status = status]
  <1>3. row \in TaskState
    BY <1>1
  <1> HIDE DEF row
  <1>4. new \in TaskState /\ new.completed = done /\ new.status = status
    BY <1>1, <1>3 DEF TaskState, Statuses
  <1> HIDE DEF new
  <1> QED  BY <1>1, <1>2, <1>4 DEF new, row

(* A list of voters is finite, and so is every part of it.                 *)
LEMMA ListsAreFinite ==
  ASSUME NEW S \in SUBSET Voters, NEW T \in SUBSET S
  PROVE  /\ Cardinality(S) \in Nat /\ Cardinality(T) \in Nat
         /\ Cardinality(T) <= Cardinality(S)
         /\ Cardinality(T) = Cardinality(S) => T = S
  BY TaskAssumption, FS_Subset, FS_CardinalityType

(* A step of the event counter keeps its type.                             *)
LEMMA CountType ==
  ASSUME count \in [Events -> Nat],
         \/ UNCHANGED count
         \/ \E event \in Events, limit \in Nat : Counted(event, limit)
         \/ \E fault \in Faults : Fails(fault)
  PROVE  count' \in [Events -> Nat]
  BY DEF Counted, Fails, Events, Faults

-----------------------------------------------------------------------------
(* The invariant, action by action.                                        *)

LEMMA InitIInv == Init => IInv
  <1> SUFFICES ASSUME Init PROVE IInv
    OBVIOUS
  <1>1. TypeOK
    BY IdleState DEF Init, TypeOK, Statuses, Entities, WorkerState
  <1>2. EventInHand /\ CountedAtMostTotal
    BY TaskAssumption DEF Init, EventInHand, CountedAtMostTotal, Idle
  <1>3. Logged
    BY DEF Init, Logged, Announced, ContactedWereLogged, Idle
  <1> QED  BY <1>1, <1>2, <1>3 DEF IInv

(* What users do: the workers and the queue stay as they are.              *)
LEMMA OfficeIInv ==
  ASSUME IInv, Office
  PROVE  IInv'
  <1>1. /\ task \in [Tasks -> TaskState] /\ worker \in [Workers -> WorkerState]
        /\ linked \in [Tasks -> SUBSET Voters] /\ contacted \in [Tasks -> SUBSET Voters]
        /\ request \in [Requests -> Tasks \cup {NoTask}]
        /\ writer \in [Tasks -> {"nobody", "user", "link", "worker", "overtaken"}]
        /\ blind \in [Tasks -> SUBSET Workers]
        /\ count \in [Events -> Nat]
    BY DEF IInv, TypeOK, TaskState, WorkerState
  <1>2. UNCHANGED <<logs, unpublished, queue, worker>>
    BY DEF Office, CreateTask, UpdateTaskStatus, DeleteTask, InsertTaskVoters,
           UpdateTaskProgress, ResetFails
  <1>3. EventInHand' /\ CountedAtMostTotal' /\ ~Announced'
    BY <1>2 DEF IInv, Logged, EventInHand, CountedAtMostTotal, Announced
  <1>4. ASSUME task' \in [Tasks -> TaskState],
               linked' \in [Tasks -> SUBSET Voters], contacted' \in [Tasks -> SUBSET Voters],
               request' \in [Requests -> Tasks \cup {NoTask}],
               writer' \in [Tasks -> {"nobody", "user", "link", "worker", "overtaken"}],
               blind' \in [Tasks -> SUBSET Workers], count' \in [Events -> Nat],
               \A t \in Tasks : contacted'[t] \subseteq contacted[t] \cap linked'[t]
        PROVE  IInv'
    <2>1. TypeOK'
      BY <1>2, <1>4 DEF IInv, TypeOK, TaskState
    <2>2. ContactedWereLogged'
      BY <1>2, <1>4 DEF IInv, Logged, ContactedWereLogged
    <2> QED  BY <1>3, <2>1, <2>2 DEF IInv, Logged
  <1>5. \A t \in Tasks : contacted[t] \subseteq linked[t]
    BY DEF IInv, Logged, ContactedWereLogged
  <1>6. ASSUME NEW t \in Tasks, NEW status \in Statuses, NEW entity \in Entities,
               CreateTask(t, status, entity)
        PROVE  IInv'
    <2>1. task' \in [Tasks -> TaskState]
      <3> DEFINE new == [task[t] EXCEPT !.status = status, !.entity = entity]
      <3>1. new \in TaskState
        BY <1>1, RowType
      <3>2. task' = [task EXCEPT ![t] = new]
        BY <1>6 DEF CreateTask
      <3> HIDE DEF new
      <3> QED  BY <1>1, <3>1, <3>2
    <2> QED  BY <1>1, <1>4, <1>5, <1>6, <2>1 DEF CreateTask
  <1>7. ASSUME NEW t \in Tasks, NEW status \in Statuses, UpdateTaskStatus(t, status)
        PROVE  IInv'
    <2>1. task' \in [Tasks -> TaskState]
      BY <1>1, <1>7 DEF UpdateTaskStatus, TaskState
    <2>2. count' \in [Events -> Nat]
      BY <1>1, <1>7, TaskAssumption, CountType DEF UpdateTaskStatus, Events
    <2>3. blind' \in [Tasks -> SUBSET Workers]
      BY <1>1, <1>7 DEF UpdateTaskStatus
    <2>4. writer' \in [Tasks -> {"nobody", "user", "link", "worker", "overtaken"}]
      BY <1>1, <1>7 DEF UpdateTaskStatus
    <2>5. UNCHANGED <<linked, contacted, request>>
      BY <1>7 DEF UpdateTaskStatus
    <2> QED  BY <1>1, <1>4, <1>5, <2>1, <2>2, <2>3, <2>4, <2>5
  <1>8. ASSUME NEW t \in Tasks, DeleteTask(t)
        PROVE  IInv'
    <2>1. task' \in [Tasks -> TaskState]
      BY <1>1, <1>8 DEF DeleteTask, TaskState
    <2>2. count' \in [Events -> Nat]
      BY <1>1, <1>8, TaskAssumption, CountType DEF DeleteTask, Events
    <2>3. /\ linked' = [linked EXCEPT ![t] = {}] /\ contacted' = [contacted EXCEPT ![t] = {}]
          /\ UNCHANGED <<request, writer, blind>>
      BY <1>8 DEF DeleteTask
    <2> QED  BY <1>1, <1>4, <1>5, <2>1, <2>2, <2>3
  <1>9. ASSUME NEW t \in Tasks, NEW r \in Requests, NEW S \in SUBSET Voters,
               InsertTaskVoters(r, t, S)
        PROVE  IInv'
    <2>1. count' \in [Events -> Nat]
      BY <1>1, <1>9, TaskAssumption, CountType DEF InsertTaskVoters, Events
    <2>2. /\ linked' = [linked EXCEPT ![t] = @ \cup S] /\ request' = [request EXCEPT ![r] = t]
          /\ UNCHANGED <<task, contacted, writer, blind>>
      BY <1>9 DEF InsertTaskVoters
    <2> QED  BY <1>1, <1>4, <1>5, <2>1, <2>2
  <1>10. ASSUME NEW r \in Requests, UpdateTaskProgress(r)
         PROVE  IInv'
    <2>1. request[r] \in Tasks
      BY <1>1, <1>10 DEF UpdateTaskProgress
    <2>2. task' \in [Tasks -> TaskState]
      <3> DEFINE t == request[r]
                 new == [task[t] EXCEPT !.completed = 0, !.pct = 0]
      <3>1. new \in TaskState
        <4>1. task[t] \in TaskState /\ 0 \in Nat /\ 0 \in 0 .. 100
          BY <1>1, <2>1
        <4> QED  BY <4>1, RowType, Zenon
      <3>2. UNCHANGED task \/ task' = [task EXCEPT ![t] = new]
        BY <1>10 DEF UpdateTaskProgress
      <3> HIDE DEF new
      <3> QED  BY <1>1, <3>1, <3>2
    <2>3. /\ request' \in [Requests -> Tasks \cup {NoTask}]
          /\ writer' \in [Tasks -> {"nobody", "user", "link", "worker", "overtaken"}]
          /\ UNCHANGED <<linked, contacted, blind, count>>
      BY <1>1, <1>10, <2>1 DEF UpdateTaskProgress
    <2> QED  BY <1>1, <1>4, <1>5, <2>2, <2>3
  <1>11. ASSUME NEW r \in Requests, ResetFails(r)
         PROVE  IInv'
    <2>1. count' \in [Events -> Nat]
      BY <1>1, <1>11, CountType DEF ResetFails, Faults
    <2> QED  BY <1>1, <1>4, <1>5, <1>11, <2>1 DEF ResetFails
  <1> QED  BY <1>6, <1>7, <1>8, <1>9, <1>10, <1>11 DEF Office

(* A log pushed, and its event published or not.                           *)
LEMMA PushIInv ==
  ASSUME IInv, Push
  PROVE  IInv'
  <1>1. /\ logs \subseteq Voters /\ unpublished \in [Voters -> Nat] /\ queue \in [Voters -> Nat]
        /\ count \in [Events -> Nat]
    BY DEF IInv, TypeOK
  <1>2. UNCHANGED <<task, linked, contacted, worker, request, writer, blind>>
    BY DEF Push, UpsertContactLog, PublishContactLog, PublishFails
  <1>3. EventInHand' /\ CountedAtMostTotal'
    BY <1>2 DEF IInv, EventInHand, CountedAtMostTotal
  <1>4. count' \in [Events -> Nat]
    BY <1>1, TaskAssumption, CountType
       DEF Push, UpsertContactLog, PublishContactLog, PublishFails, Events, Faults
  <1>5. PICK v \in Voters : UpsertContactLog(v) \/ PublishContactLog(v) \/ PublishFails(v)
    BY DEF Push
  <1>6. /\ logs' \subseteq Voters /\ unpublished' \in [Voters -> Nat]
        /\ queue' \in [Voters -> Nat]
    BY <1>1, <1>5 DEF UpsertContactLog, PublishContactLog, PublishFails
  <1>7. logs \subseteq logs'
    BY <1>5 DEF UpsertContactLog, PublishContactLog, PublishFails
  <1>8. /\ \A u \in Voters : unpublished'[u] > 0 => unpublished[u] > 0 \/ u \in logs'
        /\ \A u \in Voters : queue'[u] > 0 => queue[u] > 0 \/ unpublished[u] > 0
    BY <1>1, <1>5 DEF UpsertContactLog, PublishContactLog, PublishFails
  <1>9. TypeOK'
    BY <1>2, <1>4, <1>6 DEF IInv, TypeOK
  <1>10. Logged'
    BY <1>2, <1>7, <1>8 DEF IInv, Logged, Announced, ContactedWereLogged
  <1> QED  BY <1>3, <1>9, <1>10 DEF IInv

(* A worker that works off a list of tasks has a state, and no task.       *)
LEMMA WorkOffState ==
  ASSUME TypeOK, EventInHand, CountedAtMostTotal,
         NEW w \in Workers, worker[w].pc # "idle",
         NEW left \in SUBSET Tasks, WorkOff(w, left)
  PROVE  /\ worker' \in [Workers -> WorkerState]
         /\ EventInHand' /\ CountedAtMostTotal'
         /\ \A u \in Workers \ {w} : worker'[u] = worker[u]
         /\ worker'[w].task = NoTask
         /\ worker'[w].pc # "idle" => worker'[w].voter = worker[w].voter
         /\ worker'[w].left \subseteq left
  <1> DEFINE some == [Idle EXCEPT !.pc = "mark", !.voter = worker[w].voter, !.left = left]
             new == IF left = {} THEN Idle ELSE some
  <1>1. worker \in [Workers -> WorkerState] /\ worker[w].voter \in Voters
    BY DEF TypeOK, WorkerState, EventInHand
  <1>2. /\ some.pc = "mark" /\ some.voter = worker[w].voter /\ some.left = left
        /\ some.task = NoTask /\ some.done = 0 /\ some.total = 0
    BY DEF Idle
  <1>3. new \in WorkerState
    <2>1. ASSUME NEW i \in WorkerState, NEW v \in Voters
          PROVE  [i EXCEPT !.pc = "mark", !.voter = v, !.left = left] \in WorkerState
      BY DEF WorkerState
    <2>2. some \in WorkerState
      BY <1>1, <2>1, IdleState
    <2> QED  BY <2>2, IdleState
  <1>4. /\ new.task = NoTask /\ new.pc \in {"idle", "mark"} /\ new.done <= new.total
        /\ new.pc # "idle" => new.voter = worker[w].voter
        /\ new.left \subseteq left
    BY <1>2 DEF Idle
  <1>5. worker' = [worker EXCEPT ![w] = new]
    BY DEF WorkOff
  <1> HIDE DEF new
  <1>6. /\ worker' \in [Workers -> WorkerState] /\ worker'[w] = new
        /\ \A u \in Workers \ {w} : worker'[u] = worker[u]
    BY <1>1, <1>3, <1>5
  <1>7. EventInHand'
    BY <1>1, <1>4, <1>6, TaskAssumption DEF EventInHand
  <1>8. CountedAtMostTotal'
    BY <1>4, <1>6 DEF CountedAtMostTotal
  <1> QED  BY <1>4, <1>6, <1>7, <1>8

(* So has one that gives its event back.                                   *)
LEMMA ReturnState ==
  ASSUME TypeOK, EventInHand, CountedAtMostTotal,
         NEW w \in Workers, worker[w].pc # "idle", Return(w)
  PROVE  /\ worker' \in [Workers -> WorkerState] /\ queue' \in [Voters -> Nat]
         /\ EventInHand' /\ CountedAtMostTotal'
         /\ worker'[w] = Idle /\ \A u \in Workers \ {w} : worker'[u] = worker[u]
         /\ \A v \in Voters : queue'[v] > 0 => queue[v] > 0 \/ v = worker[w].voter
  <1>1. /\ worker \in [Workers -> WorkerState] /\ queue \in [Voters -> Nat]
        /\ worker[w].voter \in Voters
    BY DEF TypeOK, WorkerState, EventInHand
  <1>2. /\ worker' = [worker EXCEPT ![w] = Idle]
        /\ queue' = [queue EXCEPT ![worker[w].voter] = @ + 1]
    BY DEF Return
  <1>3. /\ worker' \in [Workers -> WorkerState]
        /\ worker'[w] = Idle /\ \A u \in Workers \ {w} : worker'[u] = worker[u]
    BY <1>1, <1>2, IdleState
  <1>4. /\ queue' \in [Voters -> Nat]
        /\ \A v \in Voters : queue'[v] > 0 => queue[v] > 0 \/ v = worker[w].voter
    BY <1>1, <1>2
  <1>5. Idle.pc = "idle" /\ Idle.task = NoTask /\ Idle.done <= Idle.total
    BY DEF Idle
  <1>6. EventInHand'
    BY <1>3, <1>5, TaskAssumption DEF EventInHand
  <1>7. CountedAtMostTotal'
    BY <1>3, <1>5 DEF CountedAtMostTotal
  <1> QED  BY <1>3, <1>4, <1>6, <1>7

(* What a step of a worker leaves alone, and what suffices for the rest.   *)
LEMMA WorkerStepIInv ==
  ASSUME IInv,
         UNCHANGED <<linked, logs, unpublished, request>>,
         task' \in [Tasks -> TaskState],
         contacted' \in [Tasks -> SUBSET Voters],
         \A t \in Tasks : contacted'[t] \subseteq contacted[t] \cup (linked[t] \cap logs),
         queue' \in [Voters -> Nat],
         \A v \in Voters : queue'[v] > 0 => v \in logs,
         worker' \in [Workers -> WorkerState],
         \A w \in Workers : worker'[w].pc # "idle" => worker'[w].voter \in logs,
         EventInHand', CountedAtMostTotal',
         writer' \in [Tasks -> {"nobody", "user", "link", "worker", "overtaken"}],
         blind' \in [Tasks -> SUBSET Workers],
         count' \in [Events -> Nat]
  PROVE  IInv'
  <1>1. TypeOK'
    BY DEF IInv, TypeOK, TaskState, WorkerState
  <1>2. ContactedWereLogged'
    BY DEF IInv, Logged, ContactedWereLogged
  <1>3. ~Announced'
    BY DEF IInv, Logged, Announced
  <1> QED  BY <1>1, <1>2, <1>3 DEF IInv, Logged

(* A task is worked off: nothing is marked.                                *)
LEMMA WorkOffIInv ==
  ASSUME IInv, NEW w \in Workers, worker[w].pc # "idle",
         NEW left \in SUBSET Tasks, WorkOff(w, left),
         UNCHANGED <<linked, contacted, logs, unpublished, queue, request>>,
         task' \in [Tasks -> TaskState],
         writer' \in [Tasks -> {"nobody", "user", "link", "worker", "overtaken"}],
         blind' \in [Tasks -> SUBSET Workers],
         count' \in [Events -> Nat]
  PROVE  IInv'
  <1>1. /\ worker' \in [Workers -> WorkerState] /\ EventInHand' /\ CountedAtMostTotal'
        /\ \A u \in Workers \ {w} : worker'[u] = worker[u]
        /\ worker'[w].pc # "idle" => worker'[w].voter = worker[w].voter
    BY WorkOffState DEF IInv
  <1>2. \A u \in Workers : worker'[u].pc # "idle" => worker'[u].voter \in logs
    BY <1>1 DEF IInv, Logged, Announced
  <1>3. \A v \in Voters : queue'[v] > 0 => v \in logs
    BY DEF IInv, Logged, Announced
  <1>4. contacted' \in [Tasks -> SUBSET Voters] /\ queue' \in [Voters -> Nat]
    BY DEF IInv, TypeOK
  <1>5. \A t \in Tasks : contacted'[t] \subseteq contacted[t] \cup (linked[t] \cap logs)
    OBVIOUS
  <1> QED  BY <1>1, <1>2, <1>3, <1>4, <1>5, WorkerStepIInv

LEMMA TakeEventIInv ==
  ASSUME IInv, NEW w \in Workers, NEW v \in Voters, TakeEvent(w, v)
  PROVE  IInv'
  <1> DEFINE new == [Idle EXCEPT !.pc = "lookup", !.voter = v]
  <1>1. /\ worker \in [Workers -> WorkerState] /\ queue \in [Voters -> Nat]
        /\ task \in [Tasks -> TaskState] /\ contacted \in [Tasks -> SUBSET Voters]
        /\ writer \in [Tasks -> {"nobody", "user", "link", "worker", "overtaken"}]
        /\ blind \in [Tasks -> SUBSET Workers] /\ count \in [Events -> Nat]
    BY DEF IInv, TypeOK, TaskState, WorkerState
  <1>2. /\ queue[v] > 0 /\ queue' = [queue EXCEPT ![v] = @ - 1]
        /\ worker' = [worker EXCEPT ![w] = new]
        /\ UNCHANGED <<task, linked, contacted, logs, unpublished, request, writer, blind, count>>
    BY DEF TakeEvent
  <1>3. /\ new.pc = "lookup" /\ new.voter = v /\ new.task = NoTask /\ new.done <= new.total
    BY DEF Idle
  <1>4. new \in WorkerState
    <2>1. ASSUME NEW i \in WorkerState
          PROVE  [i EXCEPT !.pc = "lookup", !.voter = v] \in WorkerState
      BY DEF WorkerState
    <2> QED  BY <2>1, IdleState
  <1> HIDE DEF new
  <1>5. /\ worker' \in [Workers -> WorkerState] /\ worker'[w] = new
        /\ \A u \in Workers \ {w} : worker'[u] = worker[u]
    BY <1>1, <1>2, <1>4
  <1>6. EventInHand'
    BY <1>3, <1>5, TaskAssumption DEF IInv, EventInHand
  <1>7. CountedAtMostTotal'
    BY <1>3, <1>5 DEF IInv, CountedAtMostTotal
  <1>8. queue' \in [Voters -> Nat] /\ \A u \in Voters : queue'[u] > 0 => queue[u] > 0
    BY <1>1, <1>2
  <1>9. \A u \in Voters : queue[u] > 0 => u \in logs
    BY DEF IInv, Logged, Announced
  <1>10. \A u \in Workers : worker'[u].pc # "idle" => worker'[u].voter \in logs
    BY <1>2, <1>3, <1>5, <1>9 DEF IInv, Logged, Announced
  <1>11. \A t \in Tasks : contacted'[t] \subseteq contacted[t] \cup (linked[t] \cap logs)
    BY <1>2
  <1> QED  BY <1>1, <1>2, <1>5, <1>6, <1>7, <1>8, <1>9, <1>10, <1>11, WorkerStepIInv

(* A mark changes the worker that made it, and tells those it overtook.    *)
LEMMA MarkedWorkers ==
  ASSUME worker \in [Workers -> WorkerState],
         NEW w \in Workers, NEW t \in Tasks, worker' = Marked(w, t)
  PROVE  /\ worker' \in [Workers -> WorkerState]
         /\ worker'[w].pc = "recalculate" /\ worker'[w].task = t
         /\ worker'[w].voter = worker[w].voter /\ worker'[w].left = worker[w].left
         /\ worker'[w].done = worker[w].done /\ worker'[w].total = worker[w].total
         /\ \A u \in Workers \ {w} :
              /\ worker'[u].pc = worker[u].pc /\ worker'[u].voter = worker[u].voter
              /\ worker'[u].task = worker[u].task /\ worker'[u].done = worker[u].done
              /\ worker'[u].total = worker[u].total /\ worker'[u].left = worker[u].left
              /\ ~worker'[u].overtaken =>
                   ~worker[u].overtaken /\ ~(worker[u].pc = "write" /\ worker[u].task = t)
  <1>1. /\ worker'[w] \in WorkerState
        /\ worker'[w].pc = "recalculate" /\ worker'[w].task = t
        /\ worker'[w].voter = worker[w].voter /\ worker'[w].left = worker[w].left
        /\ worker'[w].done = worker[w].done /\ worker'[w].total = worker[w].total
    <2> DEFINE new == [worker[w] EXCEPT !.pc = "recalculate", !.task = t]
    <2>1. worker[w] \in WorkerState
      OBVIOUS
    <2>2. /\ new \in WorkerState
          /\ new.pc = "recalculate" /\ new.task = t /\ new.voter = worker[w].voter
          /\ new.left = worker[w].left
          /\ new.done = worker[w].done /\ new.total = worker[w].total
      BY <2>1, MarkedState, Zenon
    <2>3. worker'[w] = new
      BY DEF Marked
    <2> HIDE DEF new
    <2> QED  BY <2>2, <2>3
  <1>2. ASSUME NEW u \in Workers, u # w
        PROVE  /\ worker'[u] \in WorkerState
               /\ worker'[u].pc = worker[u].pc /\ worker'[u].voter = worker[u].voter
               /\ worker'[u].task = worker[u].task /\ worker'[u].done = worker[u].done
               /\ worker'[u].total = worker[u].total /\ worker'[u].left = worker[u].left
               /\ ~worker'[u].overtaken =>
                    ~worker[u].overtaken /\ ~(worker[u].pc = "write" /\ worker[u].task = t)
    <2> DEFINE flag == worker[u].overtaken \/ (worker[u].pc = "write" /\ worker[u].task = t)
    <2>1. worker[u] \in WorkerState
      OBVIOUS
    <2>2. flag \in BOOLEAN
      OBVIOUS
    <2>3. worker'[u] = [worker[u] EXCEPT !.overtaken = flag]
      BY <1>2, Zenon DEF Marked
    <2>4. ~flag => ~worker[u].overtaken /\ ~(worker[u].pc = "write" /\ worker[u].task = t)
      OBVIOUS
    <2> HIDE DEF flag
    <2> DEFINE new == [worker[u] EXCEPT !.overtaken = flag]
    <2>5. /\ new \in WorkerState /\ new.overtaken = flag
          /\ new.pc = worker[u].pc /\ new.voter = worker[u].voter
          /\ new.task = worker[u].task /\ new.done = worker[u].done
          /\ new.total = worker[u].total /\ new.left = worker[u].left
      BY <2>1, <2>2, OvertakenState, Zenon
    <2>6. worker'[u] = new
      BY <2>3
    <2> HIDE DEF new
    <2> QED  BY <2>4, <2>5, <2>6
  <1>3. worker' \in [Workers -> WorkerState]
    BY <1>1, <1>2 DEF Marked
  <1> QED  BY <1>1, <1>2, <1>3

LEMMA MarkIInv ==
  ASSUME IInv, NEW w \in Workers, NEW t \in Tasks, MarkTaskVoterContacted(w, t)
  PROVE  IInv'
  <1>1. /\ worker \in [Workers -> WorkerState] /\ queue \in [Voters -> Nat]
        /\ task \in [Tasks -> TaskState] /\ contacted \in [Tasks -> SUBSET Voters]
        /\ linked \in [Tasks -> SUBSET Voters]
        /\ writer \in [Tasks -> {"nobody", "user", "link", "worker", "overtaken"}]
        /\ blind \in [Tasks -> SUBSET Workers] /\ count \in [Events -> Nat]
    BY DEF IInv, TypeOK, TaskState, WorkerState
  <1>2. /\ worker[w].pc = "mark"
        /\ contacted' = [contacted EXCEPT ![t] = @ \cup ({worker[w].voter} \cap linked[t])]
        /\ worker' = Marked(w, t)
        /\ UNCHANGED <<task, linked, logs, unpublished, queue, request, writer, blind, count>>
    BY DEF MarkTaskVoterContacted
  <1>3. worker[w].voter \in logs
    BY <1>2 DEF IInv, Logged, Announced
  <1>4. /\ contacted' \in [Tasks -> SUBSET Voters]
        /\ \A s \in Tasks : contacted'[s] \subseteq contacted[s] \cup (linked[s] \cap logs)
    BY <1>1, <1>2, <1>3
  <1>5. /\ worker' \in [Workers -> WorkerState]
        /\ worker'[w].pc = "recalculate" /\ worker'[w].task = t
        /\ worker'[w].voter = worker[w].voter
        /\ worker'[w].done = worker[w].done /\ worker'[w].total = worker[w].total
        /\ \A u \in Workers \ {w} :
             /\ worker'[u].pc = worker[u].pc /\ worker'[u].voter = worker[u].voter
             /\ worker'[u].task = worker[u].task /\ worker'[u].done = worker[u].done
             /\ worker'[u].total = worker[u].total
    BY <1>1, <1>2, MarkedWorkers
  <1>6. EventInHand'
    BY <1>2, <1>5 DEF IInv, EventInHand
  <1>7. CountedAtMostTotal'
    BY <1>5 DEF IInv, CountedAtMostTotal
  <1>8. \A u \in Workers : worker'[u].pc # "idle" => worker'[u].voter \in logs
    BY <1>2, <1>5 DEF IInv, Logged, Announced
  <1>9. \A v \in Voters : queue'[v] > 0 => v \in logs
    BY <1>2 DEF IInv, Logged, Announced
  <1> QED  BY <1>1, <1>2, <1>4, <1>5, <1>6, <1>7, <1>8, <1>9, WorkerStepIInv

(* A count changes nothing but the worker that makes it.                   *)
LEMMA CountedWorkers ==
  ASSUME worker \in [Workers -> WorkerState], EventInHand,
         contacted \in [Tasks -> SUBSET Voters], linked \in [Tasks -> SUBSET Voters],
         ContactedWereLogged,
         NEW w \in Workers, CountTaskVoters(w)
  PROVE  /\ worker[w].task \in Tasks
         /\ worker' \in [Workers -> WorkerState]
         /\ worker'[w].pc = "write" /\ worker'[w].task = worker[w].task
         /\ worker'[w].voter = worker[w].voter
         /\ worker'[w].done = Cardinality(contacted[worker[w].task])
         /\ worker'[w].total = Cardinality(linked[worker[w].task])
         /\ worker'[w].done <= worker'[w].total
         /\ \A u \in Workers \ {w} : worker'[u] = worker[u]
  <1> DEFINE state == worker[w]
             t == state.task
             done == Cardinality(contacted[t])
             total == Cardinality(linked[t])
             new == [state EXCEPT !.pc = "write", !.done = done, !.total = total]
  <1>1. t \in Tasks /\ state \in WorkerState
    BY DEF CountTaskVoters, EventInHand
  <1>2. contacted[t] \subseteq linked[t] /\ linked[t] \in SUBSET Voters
    BY <1>1 DEF ContactedWereLogged
  <1>3. done \in Nat /\ total \in Nat /\ done <= total
    BY <1>2, ListsAreFinite
  <1>4. worker' = [worker EXCEPT ![w] = new]
    BY DEF CountTaskVoters
  <1> HIDE DEF done, total, state
  <1>5. /\ new \in WorkerState /\ new.pc = "write" /\ new.done = done /\ new.total = total
        /\ new.task = t /\ new.voter = state.voter
    BY <1>1, <1>3 DEF WorkerState
  <1> HIDE DEF new
  <1>6. /\ worker' \in [Workers -> WorkerState] /\ worker'[w] = new
        /\ \A u \in Workers \ {w} : worker'[u] = worker[u]
    BY <1>4, <1>5
  <1> QED  BY <1>1, <1>3, <1>5, <1>6 DEF done, total, state

LEMMA CountIInv ==
  ASSUME IInv, NEW w \in Workers, CountTaskVoters(w)
  PROVE  IInv'
  <1>1. /\ worker \in [Workers -> WorkerState] /\ queue \in [Voters -> Nat]
        /\ task \in [Tasks -> TaskState] /\ contacted \in [Tasks -> SUBSET Voters]
        /\ linked \in [Tasks -> SUBSET Voters]
        /\ writer \in [Tasks -> {"nobody", "user", "link", "worker", "overtaken"}]
        /\ blind \in [Tasks -> SUBSET Workers] /\ count \in [Events -> Nat]
    BY DEF IInv, TypeOK, TaskState, WorkerState
  <1>2. /\ worker[w].pc = "recalculate"
        /\ UNCHANGED <<task, linked, contacted, logs, unpublished, queue, request, writer,
                       blind, count>>
    BY DEF CountTaskVoters
  <1>3. /\ worker' \in [Workers -> WorkerState]
        /\ worker'[w].pc = "write" /\ worker'[w].task \in Tasks
        /\ worker'[w].voter = worker[w].voter /\ worker'[w].done <= worker'[w].total
        /\ \A u \in Workers \ {w} : worker'[u] = worker[u]
    BY <1>1, CountedWorkers DEF IInv, Logged
  <1>4. EventInHand'
    BY <1>2, <1>3 DEF IInv, EventInHand
  <1>5. CountedAtMostTotal'
    BY <1>3 DEF IInv, CountedAtMostTotal
  <1>6. \A u \in Workers : worker'[u].pc # "idle" => worker'[u].voter \in logs
    BY <1>2, <1>3 DEF IInv, Logged, Announced
  <1>7. \A v \in Voters : queue'[v] > 0 => v \in logs
    BY <1>2 DEF IInv, Logged, Announced
  <1>8. \A s \in Tasks : contacted'[s] \subseteq contacted[s] \cup (linked[s] \cap logs)
    BY <1>2
  <1> QED  BY <1>1, <1>2, <1>3, <1>4, <1>5, <1>6, <1>7, <1>8, WorkerStepIInv

LEMMA RecalculateIInv ==
  ASSUME IInv, NEW w \in Workers, RecalculateTaskProgress(w)
  PROVE  IInv'
  <1> DEFINE t == worker[w].task
  <1>1. /\ worker \in [Workers -> WorkerState]
        /\ task \in [Tasks -> TaskState]
        /\ writer \in [Tasks -> {"nobody", "user", "link", "worker", "overtaken"}]
        /\ blind \in [Tasks -> SUBSET Workers] /\ count \in [Events -> Nat]
    BY DEF IInv, TypeOK, TaskState, WorkerState
  <1>2. worker[w].pc = "write" /\ t \in Tasks
    BY DEF RecalculateTaskProgress, IInv, EventInHand
  <1>3. /\ worker[w].done \in Nat /\ worker[w].total \in Nat
        /\ worker[w].left \in SUBSET Tasks
        /\ worker[w].done <= worker[w].total
    BY <1>1 DEF WorkerState, IInv, CountedAtMostTotal
  <1>4. task' \in [Tasks -> TaskState]
    <2>1. CASE worker[w].total > 0 /\ Exists(t)
      <3> DEFINE new == Recalculated(t, worker[w].done, worker[w].total)
      <3>1. new \in TaskState
        BY <1>1, <1>2, <1>3, <2>1, RecalculatedRow
      <3>2. task' = [task EXCEPT ![t] = new]
        BY <2>1 DEF RecalculateTaskProgress
      <3> HIDE DEF new
      <3> QED  BY <1>1, <3>1, <3>2
    <2>2. CASE ~(worker[w].total > 0 /\ Exists(t))
      BY <1>1, <2>2 DEF RecalculateTaskProgress
    <2> QED  BY <2>1, <2>2
  <1>5. /\ writer' \in [Tasks -> {"nobody", "user", "link", "worker", "overtaken"}]
        /\ blind' \in [Tasks -> SUBSET Workers] /\ count' \in [Events -> Nat]
    BY <1>1 DEF RecalculateTaskProgress
  <1>6. /\ WorkOff(w, worker[w].left \ {t})
        /\ UNCHANGED <<linked, contacted, logs, unpublished, queue, request>>
    BY DEF RecalculateTaskProgress
  <1>7. worker[w].left \ {t} \in SUBSET Tasks
    BY <1>3
  <1> QED  BY <1>2, <1>4, <1>5, <1>6, <1>7, WorkOffIInv

LEMMA LookupIInv ==
  ASSUME IInv, NEW w \in Workers, GetTasksLinkedToVoter(w)
  PROVE  IInv'
  <1>1. /\ worker[w].pc # "idle" /\ WorkOff(w, LinkedTasks(worker[w].voter))
        /\ UNCHANGED <<task, linked, contacted, logs, unpublished, queue, request, writer,
                       blind, count>>
    BY DEF GetTasksLinkedToVoter
  <1>2. LinkedTasks(worker[w].voter) \in SUBSET Tasks
    BY DEF LinkedTasks
  <1>3. /\ task \in [Tasks -> TaskState]
        /\ writer \in [Tasks -> {"nobody", "user", "link", "worker", "overtaken"}]
        /\ blind \in [Tasks -> SUBSET Workers] /\ count \in [Events -> Nat]
    BY DEF IInv, TypeOK, TaskState
  <1> QED  BY <1>1, <1>2, <1>3, WorkOffIInv

(* What goes wrong in a worker.                                            *)
LEMMA FaultIInv ==
  ASSUME IInv, NEW w \in Workers, WorkerFault(w)
  PROVE  IInv'
  <1>1. /\ worker \in [Workers -> WorkerState] /\ queue \in [Voters -> Nat]
        /\ task \in [Tasks -> TaskState] /\ contacted \in [Tasks -> SUBSET Voters]
        /\ writer \in [Tasks -> {"nobody", "user", "link", "worker", "overtaken"}]
        /\ blind \in [Tasks -> SUBSET Workers] /\ count \in [Events -> Nat]
        /\ TypeOK /\ EventInHand /\ CountedAtMostTotal
    BY DEF IInv, TypeOK, TaskState, WorkerState
  <1>2. /\ worker[w].pc # "idle" => worker[w].voter \in Voters \cap logs
        /\ \A v \in Voters : queue[v] > 0 => v \in logs
        /\ \A u \in Workers : worker[u].pc # "idle" => worker[u].voter \in logs
    BY DEF IInv, EventInHand, Logged, Announced
  <1>3. count' \in [Events -> Nat]
    BY <1>1, CountType
       DEF WorkerFault, LookupFails, MarkFails, RecalculateFails, Redeliver, Kill, Faults
  <1>4. CASE LookupFails(w) \/ Kill(w)
    <2>1. /\ worker[w].pc # "idle" /\ Return(w)
          /\ UNCHANGED <<task, linked, contacted, logs, unpublished, request, writer>>
          /\ blind' \in [Tasks -> SUBSET Workers]
      BY <1>1, <1>4 DEF LookupFails, Kill
    <2>2. /\ worker' \in [Workers -> WorkerState] /\ queue' \in [Voters -> Nat]
          /\ EventInHand' /\ CountedAtMostTotal'
          /\ worker'[w] = Idle /\ \A u \in Workers \ {w} : worker'[u] = worker[u]
          /\ \A v \in Voters : queue'[v] > 0 => queue[v] > 0 \/ v = worker[w].voter
      BY <1>1, <2>1, ReturnState
    <2>3. \A v \in Voters : queue'[v] > 0 => v \in logs
      BY <1>2, <2>1, <2>2
    <2>4. \A u \in Workers : worker'[u].pc # "idle" => worker'[u].voter \in logs
      BY <1>2, <2>2 DEF Idle
    <2>5. \A s \in Tasks : contacted'[s] \subseteq contacted[s] \cup (linked[s] \cap logs)
      BY <2>1
    <2> QED  BY <1>1, <1>3, <2>1, <2>2, <2>3, <2>4, <2>5, WorkerStepIInv
  <1>5. ASSUME NEW t \in Tasks, MarkFails(w, t)
        PROVE  IInv'
    <2>1. /\ worker[w].pc # "idle" /\ WorkOff(w, worker[w].left \ {t})
          /\ UNCHANGED <<task, linked, contacted, logs, unpublished, queue, request, writer, blind>>
      BY <1>5 DEF MarkFails
    <2>2. worker[w].left \ {t} \in SUBSET Tasks
      BY <1>1 DEF WorkerState
    <2> QED  BY <1>1, <1>3, <2>1, <2>2, WorkOffIInv
  <1>6. CASE RecalculateFails(w)
    <2>1. /\ worker[w].pc = "recalculate" /\ WorkOff(w, worker[w].left \ {worker[w].task})
          /\ UNCHANGED <<task, linked, contacted, logs, unpublished, queue, request, writer>>
          /\ blind' = [blind EXCEPT ![worker[w].task] = @ \ {w}]
      BY <1>6 DEF RecalculateFails
    <2>2. worker[w].left \ {worker[w].task} \in SUBSET Tasks
      BY <1>1 DEF WorkerState
    <2>3. blind' \in [Tasks -> SUBSET Workers]
      BY <1>1, <2>1
    <2> QED  BY <1>1, <1>3, <2>1, <2>2, <2>3, WorkOffIInv
  <1>7. CASE Redeliver(w)
    <2>1. /\ worker[w].pc # "idle" /\ queue' = [queue EXCEPT ![worker[w].voter] = @ + 1]
          /\ UNCHANGED <<task, linked, contacted, logs, unpublished, worker, request, writer, blind>>
      BY <1>7 DEF Redeliver
    <2>2. queue' \in [Voters -> Nat] /\ \A v \in Voters : queue'[v] > 0 => v \in logs
      BY <1>1, <1>2, <2>1
    <2>3. EventInHand' /\ CountedAtMostTotal'
      BY <1>1, <2>1 DEF EventInHand, CountedAtMostTotal
    <2>4. \A s \in Tasks : contacted'[s] \subseteq contacted[s] \cup (linked[s] \cap logs)
      BY <2>1
    <2> QED  BY <1>1, <1>2, <1>3, <2>1, <2>2, <2>3, <2>4, WorkerStepIInv
  <1> QED  BY <1>4, <1>5, <1>6, <1>7 DEF WorkerFault

LEMMA NextIInv == IInv /\ [Next]_vars => IInv'
  <1> SUFFICES ASSUME IInv, [Next]_vars PROVE IInv'
    OBVIOUS
  <1>1. CASE Office
    BY <1>1, OfficeIInv
  <1>2. CASE Push
    BY <1>2, PushIInv
  <1>3. ASSUME NEW w \in Workers, \E v \in Voters : TakeEvent(w, v)
        PROVE  IInv'
    BY <1>3, TakeEventIInv
  <1>4. ASSUME NEW w \in Workers, Handle(w)
        PROVE  IInv'
    BY <1>4, LookupIInv, MarkIInv, CountIInv, RecalculateIInv DEF Handle
  <1>5. ASSUME NEW w \in Workers, WorkerFault(w)
        PROVE  IInv'
    BY <1>5, FaultIInv
  <1>6. CASE UNCHANGED vars
    BY <1>6 DEF vars, IInv, TypeOK, EventInHand, CountedAtMostTotal, Logged, Announced,
                ContactedWereLogged
  <1> QED  BY <1>1, <1>2, <1>3, <1>4, <1>5, <1>6 DEF Next

-----------------------------------------------------------------------------
(* The theorems.                                                           *)

(* Every variable has its type in every reachable state; in particular the *)
(* percentage never exceeds 100, which the schema checks.                  *)
THEOREM TaskTypeCorrect == Spec => []TypeOK
  <1>1. IInv => TypeOK
    BY DEF IInv
  <1> QED  BY InitIInv, NextIInv, <1>1, PTL DEF Spec

(* Whatever is redelivered, killed, linked or deleted meanwhile, a voter   *)
(* counts as contacted on a task only while on its list and with a stored  *)
(* contact log.                                                            *)
THEOREM ContactsWereLogged == Spec => []ContactedWereLogged
  <1>1. IInv => ContactedWereLogged
    BY DEF IInv, Logged
  <1> QED  BY InitIInv, NextIInv, <1>1, PTL DEF Spec

-----------------------------------------------------------------------------
(* That a row a worker wrote last is exact.                                *)

NoLoss == count["recalculate"] + count["killed"] = 0

Exact(t) == /\ task[t].completed = Cardinality(contacted[t])
            /\ contacted[t] = linked[t] => task[t].status = "completed"

(* Whoever is going to write the row of t.                                 *)
Counting(w, t) == /\ worker[w].task = t
                  /\ \/ worker[w].pc = "recalculate"
                     \/ worker[w].pc = "write" /\ worker[w].total > 0

(* No worker knows a task before it is created.                            *)
NewIsUntouched ==
  \A t \in Tasks : task[t].status = "none" =>
    /\ writer[t] = "nobody"
    /\ \A w \in Workers : worker[w].task # t /\ t \notin worker[w].left

(* What a worker counted is what there is: lists only grow, and a mark     *)
(* tells the workers it overtakes.                                         *)
CountIsCurrent ==
  \A w \in Workers, t \in Tasks :
    (worker[w].pc = "write" /\ worker[w].task = t /\ Exists(t)) =>
      /\ worker[w].total <= Cardinality(linked[t])
      /\ ~worker[w].overtaken => worker[w].done = Cardinality(contacted[t])

(* A worker writes the row of a task with a list only.                     *)
WrittenHasList ==
  \A t \in Tasks : Exists(t) /\ writer[t] = "worker" => linked[t] # {}

WrittenIsExact ==
  \A t \in Tasks :
    NoLoss /\ Exists(t) /\ writer[t] = "worker" => Exact(t) \/ \E w \in Workers : Counting(w, t)

EInv == NewIsUntouched /\ CountIsCurrent /\ WrittenHasList /\ WrittenIsExact

(* Faults are never forgotten.                                             *)
LEMMA LossStays ==
  ASSUME TypeOK, [Next]_vars
  PROVE  NoLoss' => NoLoss
  <1> DEFINE Grows == /\ count'["recalculate"] \in Nat /\ count'["killed"] \in Nat
                      /\ count'["recalculate"] >= count["recalculate"]
                      /\ count'["killed"] >= count["killed"]
  <1>1. count \in [Events -> Nat] /\ {"recalculate", "killed"} \subseteq Events
    BY DEF TypeOK, Events, Faults
  <1>2. UNCHANGED count => Grows
    BY <1>1
  <1>3. ASSUME NEW event \in {"status", "link", "log"}, NEW limit, Counted(event, limit)
        PROVE  Grows
    BY <1>1, <1>3 DEF Counted, Events
  <1>4. ASSUME NEW fault \in Faults, Fails(fault)
        PROVE  Grows
    BY <1>1, <1>4 DEF Fails, Events, Faults
  <1> HIDE DEF Grows
  <1>5. ASSUME Office PROVE Grows
    <2>1. ASSUME NEW t \in Tasks, NEW status, NEW entity,
                 \/ CreateTask(t, status, entity) \/ UpdateTaskStatus(t, status) \/ DeleteTask(t)
          PROVE  Grows
      BY <1>2, <1>3, <2>1 DEF CreateTask, UpdateTaskStatus, DeleteTask
    <2>2. ASSUME NEW r \in Requests, NEW t \in Tasks, NEW S, InsertTaskVoters(r, t, S)
          PROVE  Grows
      BY <1>3, <2>2 DEF InsertTaskVoters
    <2>3. ASSUME NEW r \in Requests, UpdateTaskProgress(r) \/ ResetFails(r)
          PROVE  Grows
      <3>1. UNCHANGED count \/ Fails("reset")
        BY <2>3 DEF UpdateTaskProgress, ResetFails
      <3> QED  BY <1>2, <1>4, <3>1 DEF Faults
    <2> QED  BY <1>5, <2>1, <2>2, <2>3 DEF Office
  <1>6. ASSUME Push PROVE Grows
    <2>1. PICK v \in Voters : UpsertContactLog(v) \/ PublishContactLog(v) \/ PublishFails(v)
      BY <1>6 DEF Push
    <2>2. UNCHANGED count \/ Counted("log", MaxLogs) \/ Fails("unpublished")
      BY <2>1 DEF UpsertContactLog, PublishContactLog, PublishFails
    <2> QED  BY <1>2, <1>3, <1>4, <2>2 DEF Faults
  <1>7. ASSUME NEW w \in Workers, (\E v \in Voters : TakeEvent(w, v)) \/ Handle(w)
        PROVE  Grows
    <2>1. UNCHANGED count
      BY <1>7 DEF TakeEvent, Handle, GetTasksLinkedToVoter, MarkTaskVoterContacted,
                  CountTaskVoters, RecalculateTaskProgress
    <2> QED  BY <1>2, <2>1
  <1>8. ASSUME NEW w \in Workers, WorkerFault(w)
        PROVE  Grows
    <2>1. \E fault \in Faults : Fails(fault)
      BY <1>8 DEF WorkerFault, LookupFails, MarkFails, RecalculateFails, Redeliver, Kill, Faults
    <2> QED  BY <1>4, <2>1
  <1>9. ASSUME UNCHANGED vars PROVE Grows
    <2>1. UNCHANGED count
      BY <1>9 DEF vars
    <2> QED  BY <1>2, <2>1
  <1>10. Grows
    <2>1. ASSUME NEW w \in Workers,
                 (\E v \in Voters : TakeEvent(w, v)) \/ Handle(w) \/ WorkerFault(w)
          PROVE  Grows
      BY <1>7, <1>8, <2>1
    <2> QED  BY <1>5, <1>6, <1>9, <2>1 DEF Next
  <1> QED  BY <1>1, <1>10 DEF NoLoss, Grows

LEMMA InitEInv == Init => EInv
  <1> SUFFICES ASSUME Init PROVE EInv
    OBVIOUS
  <1>1. /\ \A t \in Tasks : task[t].status = "none" /\ writer[t] = "nobody"
        /\ \A w \in Workers : worker[w].pc = "idle" /\ worker[w].task = NoTask
                              /\ worker[w].left = {}
    BY DEF Init, Idle
  <1> QED  BY <1>1, TaskAssumption
             DEF EInv, NewIsUntouched, CountIsCurrent, WrittenHasList, WrittenIsExact

(* A step that leaves the tables alone, in which at most one worker that   *)
(* was not counting, or whose count is lost, takes or gives up an event.   *)
LEMMA MoveEInv ==
  ASSUME IInv, EInv, NoLoss' => NoLoss,
         UNCHANGED <<task, linked, contacted, writer>>,
         NEW w \in Workers, \A u \in Workers \ {w} : worker'[u] = worker[u],
         worker'[w].pc \notin {"recalculate", "write"}, worker'[w].task = NoTask,
         \A t \in worker'[w].left : t \in worker[w].left \/ task[t].status # "none",
         worker[w].pc \notin {"recalculate", "write"} \/ ~NoLoss'
  PROVE  EInv'
  <1>1. NewIsUntouched'
    BY TaskAssumption DEF EInv, NewIsUntouched
  <1>2. CountIsCurrent'
    BY DEF EInv, CountIsCurrent, Exists
  <1>3. WrittenHasList'
    BY DEF EInv, WrittenHasList, Exists
  <1>4. WrittenIsExact'
    <2> SUFFICES ASSUME NEW t \in Tasks, NoLoss', Exists(t)', writer'[t] = "worker"
                 PROVE  Exact(t)' \/ \E u \in Workers : Counting(u, t)'
      BY DEF WrittenIsExact
    <2>1. Exact(t) \/ \E u \in Workers : Counting(u, t)
      BY DEF EInv, WrittenIsExact, Exists
    <2>2. Exact(t) => Exact(t)'
      BY DEF Exact
    <2>3. ASSUME NEW u \in Workers, Counting(u, t) PROVE Counting(u, t)'
      BY <2>3 DEF Counting
    <2> QED  BY <2>1, <2>2, <2>3
  <1> QED  BY <1>1, <1>2, <1>3, <1>4 DEF EInv

(* A step that leaves tables and workers alone.                            *)
LEMMA StillEInv ==
  ASSUME EInv, NoLoss' => NoLoss, UNCHANGED <<task, linked, contacted, writer, worker>>
  PROVE  EInv'
  <1>1. NewIsUntouched' /\ CountIsCurrent' /\ WrittenHasList'
    BY DEF EInv, NewIsUntouched, CountIsCurrent, WrittenHasList, Exists
  <1>2. WrittenIsExact'
    BY DEF EInv, WrittenIsExact, Exists, Exact, Counting
  <1> QED  BY <1>1, <1>2 DEF EInv

(* What users do to the row and the list of one task.                      *)
LEMMA OfficeEInv ==
  ASSUME IInv, EInv, NoLoss' => NoLoss, Office
  PROVE  EInv'
  <1>1. /\ task \in [Tasks -> TaskState] /\ writer \in [Tasks -> {"nobody", "user", "link", "worker", "overtaken"}]
        /\ linked \in [Tasks -> SUBSET Voters] /\ contacted \in [Tasks -> SUBSET Voters]
        /\ request \in [Requests -> Tasks \cup {NoTask}]
        /\ \A t \in Tasks : contacted[t] \subseteq linked[t]
    BY DEF IInv, TypeOK, TaskState, Logged, ContactedWereLogged
  <1>2. UNCHANGED worker
    BY DEF Office, CreateTask, UpdateTaskStatus, DeleteTask, InsertTaskVoters,
           UpdateTaskProgress, ResetFails
  (* t changes alone; a row that was written over is no longer a worker's. *)
  <1>3. ASSUME NEW t \in Tasks,
               \A s \in Tasks \ {t} : /\ task'[s] = task[s] /\ writer'[s] = writer[s]
                                      /\ linked'[s] = linked[s] /\ contacted'[s] = contacted[s],
               task'[t].status # "none",
               Exists(t)' => /\ writer'[t] # "worker"
                             /\ linked'[t] = linked[t] /\ contacted'[t] = contacted[t]
                             /\ Exists(t) \/ \A w \in Workers : worker[w].task # t
        PROVE  EInv'
    <2>1. NewIsUntouched'
      BY <1>2, <1>3 DEF EInv, NewIsUntouched
    <2>2. CountIsCurrent'
      BY <1>2, <1>3 DEF EInv, CountIsCurrent, Exists
    <2>3. WrittenHasList'
      BY <1>3 DEF EInv, WrittenHasList, Exists
    <2>4. WrittenIsExact'
      BY <1>2, <1>3 DEF EInv, WrittenIsExact, Exists, Exact, Counting
    <2> QED  BY <2>1, <2>2, <2>3, <2>4 DEF EInv
  <1>4. ASSUME NEW t \in Tasks, NEW status \in Statuses, NEW entity \in Entities,
               CreateTask(t, status, entity)
        PROVE  EInv'
    <2>1. /\ task[t].status = "none"
          /\ task' = [task EXCEPT ![t] = [task[t] EXCEPT !.status = status, !.entity = entity]]
          /\ UNCHANGED <<linked, contacted, writer>>
      BY <1>4 DEF CreateTask
    <2>2. task'[t].status = status /\ \A s \in Tasks \ {t} : task'[s] = task[s]
      BY <1>1, <2>1 DEF TaskState
    <2>3. writer[t] = "nobody" /\ \A w \in Workers : worker[w].task # t
      BY <2>1 DEF EInv, NewIsUntouched
    <2>4. status # "none"
      BY DEF Statuses
    <2> QED  BY <1>3, <2>1, <2>2, <2>3, <2>4
  <1>5. ASSUME NEW t \in Tasks, NEW status \in Statuses, UpdateTaskStatus(t, status)
        PROVE  EInv'
    <2>1. /\ Exists(t) /\ UNCHANGED <<linked, contacted>>
          /\ task'[t].status = status /\ \A s \in Tasks \ {t} : task'[s] = task[s]
          /\ writer'[t] = "user" /\ \A s \in Tasks \ {t} : writer'[s] = writer[s]
      BY <1>1, <1>5 DEF UpdateTaskStatus, TaskState
    <2>2. status # "none"
      BY DEF Statuses
    <2> QED  BY <1>3, <2>1, <2>2
  <1>6. ASSUME NEW t \in Tasks, DeleteTask(t)
        PROVE  EInv'
    <2>1. /\ UNCHANGED writer
          /\ task'[t].status = "deleted" /\ \A s \in Tasks \ {t} : task'[s] = task[s]
          /\ \A s \in Tasks \ {t} : linked'[s] = linked[s] /\ contacted'[s] = contacted[s]
      BY <1>1, <1>6 DEF DeleteTask, TaskState
    <2>2. ~Exists(t)'
      BY <2>1 DEF Exists, Statuses
    <2> QED  BY <1>3, <2>1, <2>2
  <1>7. ASSUME NEW t \in Tasks, NEW r \in Requests, NEW S \in SUBSET Voters,
               InsertTaskVoters(r, t, S)
        PROVE  EInv'
    <2>1. /\ UNCHANGED <<task, contacted, writer>>
          /\ linked'[t] = linked[t] \cup S /\ \A s \in Tasks \ {t} : linked'[s] = linked[s]
          /\ S \cap linked[t] = {}
      BY <1>1, <1>7 DEF InsertTaskVoters
    <2>2. NewIsUntouched' /\ WrittenHasList'
      BY <1>2, <2>1 DEF EInv, NewIsUntouched, WrittenHasList, Exists
    <2>3. /\ Cardinality(linked[t]) \in Nat /\ Cardinality(linked'[t]) \in Nat
          /\ Cardinality(linked[t]) <= Cardinality(linked'[t])
      BY <1>1, <2>1, ListsAreFinite
    <2>4. CountIsCurrent'
      <3> SUFFICES ASSUME NEW w \in Workers, NEW s \in Tasks,
                          worker[w].pc = "write", worker[w].task = s, Exists(s)
                   PROVE  /\ worker[w].total <= Cardinality(linked'[s])
                          /\ ~worker[w].overtaken => worker[w].done = Cardinality(contacted[s])
        BY <1>2, <2>1 DEF CountIsCurrent, Exists
      <3>1. /\ worker[w].total <= Cardinality(linked[s])
            /\ ~worker[w].overtaken => worker[w].done = Cardinality(contacted[s])
        BY DEF EInv, CountIsCurrent
      <3>2. worker[w].total \in Nat
        BY DEF IInv, TypeOK
      <3>3. CASE s = t
        BY <2>3, <3>1, <3>2, <3>3
      <3>4. CASE s # t
        <4>1. linked'[s] = linked[s]
          BY <2>1, <3>4
        <4> QED  BY <3>1, <4>1
      <3> QED  BY <3>3, <3>4
    <2>5. WrittenIsExact'
      <3> SUFFICES ASSUME NEW s \in Tasks, NoLoss', Exists(s)', writer'[s] = "worker"
                   PROVE  Exact(s)' \/ \E w \in Workers : Counting(w, s)'
        BY DEF WrittenIsExact
      <3>1. Exact(s) \/ \E w \in Workers : Counting(w, s)
        BY <2>1 DEF EInv, WrittenIsExact, Exists
      <3>2. Exact(s) => Exact(s)'
        BY <1>1, <2>1 DEF Exact
      <3>3. \A w \in Workers : Counting(w, s) => Counting(w, s)'
        BY <1>2 DEF Counting
      <3> QED  BY <3>1, <3>2, <3>3
    <2> QED  BY <2>2, <2>4, <2>5 DEF EInv
  <1>8. ASSUME NEW r \in Requests, UpdateTaskProgress(r)
        PROVE  EInv'
    <2> DEFINE t == request[r]
    <2>1. t \in Tasks /\ UNCHANGED <<linked, contacted>>
      BY <1>1, <1>8 DEF UpdateTaskProgress
    <2>2. CASE Exists(t)
      <3>1. /\ task' = [task EXCEPT ![t] = [task[t] EXCEPT !.completed = 0, !.pct = 0]]
            /\ writer' = [writer EXCEPT ![t] = "link"]
        BY <1>8, <2>2 DEF UpdateTaskProgress
      <3>2. /\ task'[t].status = task[t].status /\ \A s \in Tasks \ {t} : task'[s] = task[s]
            /\ writer'[t] = "link" /\ \A s \in Tasks \ {t} : writer'[s] = writer[s]
        BY <1>1, <2>1, <3>1 DEF TaskState
      <3>3. task[t].status # "none"
        BY <2>2 DEF Exists, Statuses
      <3> QED  BY <1>3, <2>1, <2>2, <3>2, <3>3
    <2>3. CASE ~Exists(t)
      BY <1>2, <1>8, <2>1, <2>3, StillEInv DEF UpdateTaskProgress
    <2> QED  BY <2>2, <2>3
  <1>9. ASSUME NEW r \in Requests, ResetFails(r)
        PROVE  EInv'
    BY <1>9, StillEInv DEF ResetFails
  <1> QED  BY <1>4, <1>5, <1>6, <1>7, <1>8, <1>9 DEF Office

LEMMA MarkEInv ==
  ASSUME IInv, EInv, NEW w \in Workers, NEW t \in Tasks, MarkTaskVoterContacted(w, t)
  PROVE  EInv'
  <1>1. /\ worker \in [Workers -> WorkerState] /\ contacted \in [Tasks -> SUBSET Voters]
    BY DEF IInv, TypeOK, WorkerState
  <1>2. /\ worker[w].pc = "mark" /\ t \in worker[w].left /\ worker' = Marked(w, t)
        /\ \A s \in Tasks \ {t} : contacted'[s] = contacted[s]
        /\ UNCHANGED <<task, linked, writer, count>>
    BY <1>1 DEF MarkTaskVoterContacted
  <1>3. /\ worker'[w].pc = "recalculate" /\ worker'[w].task = t
        /\ worker'[w].left = worker[w].left
        /\ \A u \in Workers \ {w} :
             /\ worker'[u].pc = worker[u].pc /\ worker'[u].task = worker[u].task
             /\ worker'[u].done = worker[u].done /\ worker'[u].total = worker[u].total
             /\ worker'[u].left = worker[u].left
             /\ ~worker'[u].overtaken =>
                  ~worker[u].overtaken /\ ~(worker[u].pc = "write" /\ worker[u].task = t)
    BY <1>1, <1>2, MarkedWorkers
  <1>4. NewIsUntouched'
    BY <1>2, <1>3 DEF EInv, NewIsUntouched
  <1>5. CountIsCurrent'
    <2> SUFFICES ASSUME NEW u \in Workers, NEW s \in Tasks,
                        worker'[u].pc = "write", worker'[u].task = s, Exists(s)
                 PROVE  /\ worker'[u].total <= Cardinality(linked[s])
                        /\ ~worker'[u].overtaken => worker'[u].done = Cardinality(contacted'[s])
      BY <1>2 DEF CountIsCurrent, Exists
    <2>1. u # w /\ worker[u].pc = "write" /\ worker[u].task = s
      BY <1>3
    <2>2. /\ worker[u].total <= Cardinality(linked[s])
          /\ ~worker[u].overtaken => worker[u].done = Cardinality(contacted[s])
      BY <2>1 DEF EInv, CountIsCurrent
    <2>3. worker'[u].total <= Cardinality(linked[s])
      BY <1>3, <2>1, <2>2
    <2>4. ~worker'[u].overtaken => s # t /\ ~worker[u].overtaken
      BY <1>3, <2>1
    <2> QED  BY <1>2, <1>3, <2>1, <2>2, <2>3, <2>4
  <1>6. WrittenHasList'
    BY <1>2 DEF EInv, WrittenHasList, Exists
  <1>7. WrittenIsExact'
    <2> SUFFICES ASSUME NEW s \in Tasks, NoLoss', Exists(s)', writer'[s] = "worker"
                 PROVE  Exact(s)' \/ \E u \in Workers : Counting(u, s)'
      BY DEF WrittenIsExact
    <2>1. CASE s = t
      BY <1>3, <2>1 DEF Counting
    <2>2. CASE s # t
      <3>1. Exact(s) \/ \E u \in Workers : Counting(u, s)
        BY <1>2 DEF EInv, WrittenIsExact, Exists, NoLoss
      <3>2. Exact(s) => Exact(s)'
        BY <1>2, <2>2 DEF Exact
      <3>3. ASSUME NEW u \in Workers, Counting(u, s) PROVE Counting(u, s)'
        BY <1>2, <1>3, <3>3 DEF Counting
      <3> QED  BY <3>1, <3>2, <3>3
    <2> QED  BY <2>1, <2>2
  <1> QED  BY <1>4, <1>5, <1>6, <1>7 DEF EInv

LEMMA CountEInv ==
  ASSUME IInv, EInv, NEW w \in Workers, CountTaskVoters(w)
  PROVE  EInv'
  <1> DEFINE t == worker[w].task
  <1>1. /\ worker[w].pc = "recalculate"
        /\ UNCHANGED <<task, linked, contacted, writer, count>>
    BY DEF CountTaskVoters
  <1>2. /\ t \in Tasks
        /\ worker'[w].pc = "write" /\ worker'[w].task = t
        /\ worker'[w].done = Cardinality(contacted[t])
        /\ worker'[w].total = Cardinality(linked[t])
        /\ \A u \in Workers \ {w} : worker'[u] = worker[u]
    BY CountedWorkers DEF IInv, TypeOK, WorkerState, Logged
  <1>3. worker'[w].left = worker[w].left
    BY DEF CountTaskVoters, IInv, TypeOK
  <1>4. NewIsUntouched'
    BY <1>1, <1>2, <1>3 DEF EInv, NewIsUntouched
  <1>5. linked[t] \in SUBSET Voters
    BY <1>2 DEF IInv, TypeOK
  <1>6. Cardinality(linked[t]) \in Nat /\ (linked[t] # {} => Cardinality(linked[t]) > 0)
    BY <1>5, TaskAssumption, FS_Subset, FS_CardinalityType, FS_EmptySet
  <1>7. CountIsCurrent'
    <2> SUFFICES ASSUME NEW u \in Workers, NEW s \in Tasks,
                        worker'[u].pc = "write", worker'[u].task = s, Exists(s)
                 PROVE  /\ worker'[u].total <= Cardinality(linked[s])
                        /\ ~worker'[u].overtaken => worker'[u].done = Cardinality(contacted[s])
      BY <1>1 DEF CountIsCurrent, Exists
    <2>1. CASE u = w
      BY <1>2, <1>6, <2>1
    <2>2. CASE u # w
      BY <1>2, <2>2 DEF EInv, CountIsCurrent
    <2> QED  BY <2>1, <2>2
  <1>8. WrittenHasList'
    BY <1>1 DEF EInv, WrittenHasList, Exists
  <1>9. WrittenIsExact'
    <2> SUFFICES ASSUME NEW s \in Tasks, NoLoss, Exists(s), writer[s] = "worker"
                 PROVE  Exact(s)' \/ \E u \in Workers : Counting(u, s)'
      BY <1>1 DEF WrittenIsExact, Exists, NoLoss
    <2>1. Exact(s) \/ \E u \in Workers : Counting(u, s)
      BY DEF EInv, WrittenIsExact
    <2>2. Exact(s) => Exact(s)'
      BY <1>1 DEF Exact
    <2>3. ASSUME NEW u \in Workers, Counting(u, s) PROVE Counting(u, s)'
      <3>1. CASE u = w
        <4>1. linked[s] # {} /\ s = t
          BY <2>3, <3>1 DEF EInv, WrittenHasList, Counting
        <4> QED  BY <1>2, <1>6, <3>1, <4>1 DEF Counting
      <3>2. CASE u # w
        BY <1>2, <2>3, <3>2 DEF Counting
      <3> QED  BY <3>1, <3>2
    <2> QED  BY <2>1, <2>2, <2>3
  <1> QED  BY <1>4, <1>7, <1>8, <1>9 DEF EInv

(* The write: what was counted is what there is, unless the worker was     *)
(* overtaken.                                                              *)
LEMMA RecalculateEInv ==
  ASSUME IInv, EInv, NEW w \in Workers, RecalculateTaskProgress(w)
  PROVE  EInv'
  <1> DEFINE t == worker[w].task
  <1>1. /\ worker \in [Workers -> WorkerState] /\ task \in [Tasks -> TaskState]
        /\ writer \in [Tasks -> {"nobody", "user", "link", "worker", "overtaken"}]
        /\ linked \in [Tasks -> SUBSET Voters] /\ contacted \in [Tasks -> SUBSET Voters]
        /\ \A s \in Tasks : contacted[s] \subseteq linked[s]
    BY DEF IInv, TypeOK, TaskState, WorkerState, Logged, ContactedWereLogged
  <1>2. /\ worker[w].pc = "write" /\ t \in Tasks
        /\ UNCHANGED <<linked, contacted, count>>
    BY DEF RecalculateTaskProgress, IInv, EventInHand
  <1>3. /\ worker[w].done \in Nat /\ worker[w].total \in Nat
        /\ worker[w].left \ {t} \in SUBSET Tasks
        /\ worker[w].done <= worker[w].total
    BY <1>1 DEF WorkerState, IInv, CountedAtMostTotal
  <1>4. /\ \A u \in Workers \ {w} : worker'[u] = worker[u]
        /\ worker'[w].task = NoTask /\ worker'[w].left \subseteq worker[w].left
        /\ worker'[w].pc \notin {"recalculate", "write"}
    <2>1. WorkOff(w, worker[w].left \ {t})
      BY DEF RecalculateTaskProgress
    <2>2. /\ \A u \in Workers \ {w} : worker'[u] = worker[u]
          /\ worker'[w].task = NoTask /\ worker'[w].left \subseteq worker[w].left \ {t}
          /\ EventInHand'
      BY <1>2, <1>3, <2>1, WorkOffState DEF IInv
    <2>3. worker'[w].pc \notin {"recalculate", "write"}
      BY <2>2, TaskAssumption DEF EventInHand
    <2> QED  BY <2>2, <2>3
  <1>5. CASE ~(worker[w].total > 0 /\ Exists(t))
    <2>1. UNCHANGED <<task, writer>>
      BY <1>5 DEF RecalculateTaskProgress
    <2>2. NewIsUntouched' /\ WrittenHasList' /\ CountIsCurrent'
      BY <1>2, <1>4, <2>1, TaskAssumption
         DEF EInv, NewIsUntouched, WrittenHasList, CountIsCurrent, Exists
    <2>3. WrittenIsExact'
      <3> SUFFICES ASSUME NEW s \in Tasks, NoLoss, Exists(s), writer[s] = "worker"
                   PROVE  Exact(s)' \/ \E u \in Workers : Counting(u, s)'
        BY <1>2, <2>1 DEF WrittenIsExact, Exists, NoLoss
      <3>1. Exact(s) \/ \E u \in Workers : Counting(u, s)
        BY DEF EInv, WrittenIsExact
      <3>2. Exact(s) => Exact(s)'
        BY <1>2, <2>1 DEF Exact
      <3>3. ASSUME NEW u \in Workers, Counting(u, s) PROVE Counting(u, s)'
        <4>1. u # w
          BY <1>2, <1>3, <1>5, <3>3 DEF Counting
        <4> QED  BY <1>4, <3>3, <4>1 DEF Counting
      <3> QED  BY <3>1, <3>2, <3>3
    <2> QED  BY <2>2, <2>3 DEF EInv
  <1>6. CASE worker[w].total > 0 /\ Exists(t)
    <2> DEFINE new == Recalculated(t, worker[w].done, worker[w].total)
    <2>1. /\ new.completed = worker[w].done /\ new.status \in Statuses
          /\ worker[w].done >= worker[w].total => new.status = "completed"
      BY <1>1, <1>2, <1>3, <1>6, RecalculatedRow
    <2>2. /\ task' = [task EXCEPT ![t] = new]
          /\ writer' = [writer EXCEPT ![t] = IF worker[w].overtaken THEN "overtaken" ELSE "worker"]
      BY <1>6 DEF RecalculateTaskProgress
    <2> HIDE DEF new
    <2>3. /\ task'[t] = new /\ \A s \in Tasks \ {t} : task'[s] = task[s] /\ writer'[s] = writer[s]
          /\ writer'[t] = "worker" => ~worker[w].overtaken
      BY <1>1, <1>2, <2>2
    <2>4. worker[w].total <= Cardinality(linked[t])
      BY <1>2, <1>6 DEF EInv, CountIsCurrent
    <2>5. linked[t] # {}
      <3>1. linked[t] = {} => Cardinality(linked[t]) = 0
        BY FS_EmptySet
      <3> QED  BY <1>3, <1>6, <2>4, <3>1
    <2>6. NewIsUntouched'
      <3>1. "none" \notin Statuses
        BY DEF Statuses
      <3> QED  BY <1>2, <1>4, <2>1, <2>3, <3>1, TaskAssumption DEF EInv, NewIsUntouched
    <2>7. CountIsCurrent'
      <3> SUFFICES ASSUME NEW u \in Workers, NEW s \in Tasks,
                          worker'[u].pc = "write", worker'[u].task = s, Exists(s)'
                   PROVE  /\ worker'[u].total <= Cardinality(linked[s])
                          /\ ~worker'[u].overtaken => worker'[u].done = Cardinality(contacted[s])
        BY <1>2 DEF CountIsCurrent
      <3>1. u # w /\ Exists(s)
        BY <1>4, <1>6, <2>3 DEF Exists
      <3> QED  BY <1>4, <3>1 DEF EInv, CountIsCurrent
    <2>8. WrittenHasList'
      BY <1>2, <2>3, <2>5 DEF EInv, WrittenHasList, Exists
    <2>9. WrittenIsExact'
      <3> SUFFICES ASSUME NEW s \in Tasks, NoLoss, Exists(s)', writer'[s] = "worker"
                   PROVE  Exact(s)' \/ \E u \in Workers : Counting(u, s)'
        BY <1>2 DEF WrittenIsExact, NoLoss
      <3>1. CASE s = t
        <4>1. worker[w].done = Cardinality(contacted[t])
          BY <1>2, <1>6, <2>3, <3>1 DEF EInv, CountIsCurrent
        <4>2. task'[t].completed = Cardinality(contacted'[t])
          BY <1>2, <2>1, <2>3, <4>1
        <4>3. contacted'[t] = linked'[t] => task'[t].status = "completed"
          <5>1. contacted[t] = linked[t] => worker[w].done >= worker[w].total
            BY <1>3, <2>4, <4>1
          <5> QED  BY <1>2, <2>1, <2>3, <5>1
        <4> QED  BY <3>1, <4>2, <4>3 DEF Exact
      <3>2. CASE s # t
        <4>1. Exact(s) \/ \E u \in Workers : Counting(u, s)
          BY <2>3, <3>2 DEF EInv, WrittenIsExact, Exists
        <4>2. Exact(s) => Exact(s)'
          BY <1>2, <2>3, <3>2 DEF Exact
        <4>3. ASSUME NEW u \in Workers, Counting(u, s) PROVE Counting(u, s)'
          BY <1>4, <3>2, <4>3 DEF Counting
        <4> QED  BY <4>1, <4>2, <4>3
      <3> QED  BY <3>1, <3>2
    <2> QED  BY <2>6, <2>7, <2>8, <2>9 DEF EInv
  <1> QED  BY <1>5, <1>6

(* Events are taken, looked up, dropped or given back.                     *)
LEMMA MovesEInv ==
  ASSUME IInv, EInv, NoLoss' => NoLoss, NEW w \in Workers,
         \/ \E v \in Voters : TakeEvent(w, v)
         \/ GetTasksLinkedToVoter(w)
         \/ WorkerFault(w)
  PROVE  EInv'
  <1>1. /\ worker \in [Workers -> WorkerState] /\ count \in [Events -> Nat]
        /\ TypeOK /\ EventInHand /\ CountedAtMostTotal
    BY DEF IInv, TypeOK, WorkerState
  (* What every such move comes to. *)
  <1>2. ASSUME UNCHANGED <<task, linked, contacted, writer>>,
               worker[w].pc # "idle", NEW left \in SUBSET Tasks, WorkOff(w, left),
               \A t \in left : t \in worker[w].left \/ task[t].status # "none",
               worker[w].pc \notin {"recalculate", "write"} \/ ~NoLoss'
        PROVE  EInv'
    <2>1. /\ \A u \in Workers \ {w} : worker'[u] = worker[u]
          /\ worker'[w].task = NoTask /\ worker'[w].left \subseteq left /\ EventInHand'
      BY <1>1, <1>2, WorkOffState
    <2>2. worker'[w].pc \notin {"recalculate", "write"}
      BY <2>1, TaskAssumption DEF EventInHand
    <2> QED  BY <1>2, <2>1, <2>2, MoveEInv
  <1>3. ASSUME UNCHANGED <<task, linked, contacted, writer>>,
               worker[w].pc # "idle", Return(w),
               worker[w].pc \notin {"recalculate", "write"} \/ ~NoLoss'
        PROVE  EInv'
    <2>1. worker'[w] = Idle /\ \A u \in Workers \ {w} : worker'[u] = worker[u]
      BY <1>1, <1>3, ReturnState
    <2>2. worker'[w].pc = "idle" /\ worker'[w].task = NoTask /\ worker'[w].left = {}
      BY <2>1 DEF Idle
    <2> QED  BY <1>3, <2>1, <2>2, MoveEInv
  <1>4. ASSUME NEW fault \in {"recalculate", "killed"}, Fails(fault)
        PROVE  ~NoLoss'
    BY <1>1, <1>4 DEF Fails, NoLoss, Events, Faults
  <1>5. ASSUME NEW v \in Voters, TakeEvent(w, v)
        PROVE  EInv'
    <2> DEFINE new == [Idle EXCEPT !.pc = "lookup", !.voter = v]
    <2>1. /\ worker[w].pc = "idle" /\ worker' = [worker EXCEPT ![w] = new]
          /\ UNCHANGED <<task, linked, contacted, writer>>
      BY <1>5 DEF TakeEvent
    <2>2. new.pc = "lookup" /\ new.task = NoTask /\ new.left = {}
      BY DEF Idle
    <2> HIDE DEF new
    <2>3. worker'[w] = new /\ \A u \in Workers \ {w} : worker'[u] = worker[u]
      BY <1>1, <2>1
    <2> QED  BY <2>1, <2>2, <2>3, MoveEInv
  <1>6. ASSUME GetTasksLinkedToVoter(w)
        PROVE  EInv'
    <2>1. /\ worker[w].pc = "lookup" /\ WorkOff(w, LinkedTasks(worker[w].voter))
          /\ UNCHANGED <<task, linked, contacted, writer>>
      BY <1>6 DEF GetTasksLinkedToVoter
    <2>2. /\ LinkedTasks(worker[w].voter) \in SUBSET Tasks
          /\ \A t \in LinkedTasks(worker[w].voter) : task[t].status # "none"
      BY DEF LinkedTasks, Active
    <2> QED  BY <1>2, <2>1, <2>2
  <1>7. ASSUME LookupFails(w) \/ Kill(w)
        PROVE  EInv'
    <2>1. /\ UNCHANGED <<task, linked, contacted, writer>>
          /\ worker[w].pc # "idle" /\ Return(w)
          /\ worker[w].pc = "lookup" \/ Fails("killed")
      BY <1>7 DEF LookupFails, Kill
    <2> QED  BY <1>3, <1>4, <2>1
  <1>8. ASSUME NEW t \in Tasks, MarkFails(w, t)
        PROVE  EInv'
    <2>1. /\ UNCHANGED <<task, linked, contacted, writer>>
          /\ worker[w].pc = "mark" /\ WorkOff(w, worker[w].left \ {t})
      BY <1>8 DEF MarkFails
    <2>2. worker[w].left \ {t} \in SUBSET Tasks
      BY <1>1 DEF WorkerState
    <2> QED  BY <1>2, <2>1, <2>2
  <1>9. ASSUME RecalculateFails(w)
        PROVE  EInv'
    <2>1. /\ UNCHANGED <<task, linked, contacted, writer>>
          /\ worker[w].pc = "recalculate" /\ WorkOff(w, worker[w].left \ {worker[w].task})
          /\ Fails("recalculate")
      BY <1>9 DEF RecalculateFails
    <2>2. worker[w].left \ {worker[w].task} \in SUBSET Tasks
      BY <1>1 DEF WorkerState
    <2> QED  BY <1>2, <1>4, <2>1, <2>2
  <1>10. ASSUME Redeliver(w)
         PROVE  EInv'
    BY <1>10, StillEInv DEF Redeliver
  <1> QED  BY <1>5, <1>6, <1>7, <1>8, <1>9, <1>10 DEF WorkerFault

LEMMA NextEInv == IInv /\ EInv /\ [Next]_vars => EInv'
  <1> SUFFICES ASSUME IInv, EInv, [Next]_vars PROVE EInv'
    OBVIOUS
  <1>1. NoLoss' => NoLoss
    BY LossStays DEF IInv
  <1>2. CASE Office
    BY <1>1, <1>2, OfficeEInv
  <1>3. CASE Push
    <2>1. UNCHANGED <<task, linked, contacted, writer, worker>>
      BY <1>3 DEF Push, UpsertContactLog, PublishContactLog, PublishFails
    <2> QED  BY <1>1, <2>1, StillEInv
  <1>4. ASSUME NEW w \in Workers,
               (\E v \in Voters : TakeEvent(w, v)) \/ Handle(w) \/ WorkerFault(w)
        PROVE  EInv'
    BY <1>1, <1>4, MovesEInv, MarkEInv, CountEInv, RecalculateEInv DEF Handle
  <1>5. CASE UNCHANGED vars
    BY <1>1, <1>5, StillEInv DEF vars
  <1> QED  BY <1>2, <1>3, <1>4, <1>5 DEF Next

(* However events repeat and workers interleave, a row a worker wrote last *)
(* shows exactly the contacted voters once nobody is recalculating, unless *)
(* a mark overtook the write or a recalculation was lost.                  *)
THEOREM ProgressHolds == Spec => []ProgressIsExact
  <1>1. EInv => ProgressIsExact
    <2> SUFFICES ASSUME EInv, NoLoss, NEW t \in Tasks, Exists(t), Settled(t), writer[t] = "worker"
                 PROVE  Exact(t)
      BY DEF ProgressIsExact, NoLoss, Exact
    <2>1. \A w \in Workers : ~Counting(w, t)
      BY DEF Settled, Counting
    <2> QED  BY <2>1 DEF EInv, WrittenIsExact
  <1> QED  BY InitIInv, NextIInv, InitEInv, NextEInv, <1>1, PTL DEF Spec

-----------------------------------------------------------------------------
(* That only who looked a task up before its cancellation completes it.    *)

(* The task a worker is at is one of those it looked up; it looked up      *)
(* tasks that exist, and the cancelled ones before they were cancelled.    *)
LookedUp ==
  \A w \in Workers : \A t \in Tasks :
    /\ worker[w].task = t => t \in worker[w].left
    /\ t \in worker[w].left => task[t].status # "none"
    /\ (t \in worker[w].left /\ task[t].status = "cancelled") => w \in blind[t]

LEMMA InitLookedUp == Init => LookedUp
  BY TaskAssumption DEF Init, LookedUp, Idle

(* The office cancels a task before the workers that have looked it up,    *)
(* and what it creates nobody has looked up.                               *)
LEMMA OfficeLookedUp ==
  ASSUME IInv, LookedUp, Office
  PROVE  LookedUp'
  <1>t. task \in [Tasks -> TaskState] /\ blind \in [Tasks -> SUBSET Workers]
    BY DEF IInv, TypeOK, TaskState
  <1>s. ASSUME UNCHANGED <<worker, blind>>,
               \A t \in Tasks : task'[t].status \in {task[t].status, "deleted"}
        PROVE  LookedUp'
    BY <1>s DEF LookedUp
  <1>1. ASSUME NEW t \in Tasks, NEW status \in Statuses, NEW entity \in Entities,
               CreateTask(t, status, entity)
        PROVE  LookedUp'
    <2>1. UNCHANGED <<worker, blind>> /\ task[t].status = "none"
      BY <1>1 DEF CreateTask
    <2>2. \A u \in Tasks \ {t} : task'[u] = task[u]
      BY <1>1, <1>t DEF CreateTask
    <2>3. \A w \in Workers : t \notin worker[w].left
      BY <2>1 DEF LookedUp
    <2> QED  BY <2>1, <2>2, <2>3 DEF LookedUp
  <1>2. ASSUME NEW t \in Tasks, NEW status \in Statuses, UpdateTaskStatus(t, status)
        PROVE  LookedUp'
    <2>1. /\ worker' = worker
          /\ task' = [task EXCEPT ![t].status = status]
          /\ blind' = IF status = "cancelled"
                      THEN [blind EXCEPT ![t] = {w \in Workers : t \in worker[w].left}]
                      ELSE blind
      BY <1>2 DEF UpdateTaskStatus
    <2>2. /\ task'[t].status = status /\ status # "none"
          /\ \A u \in Tasks \ {t} : task'[u] = task[u]
      BY <1>t, <2>1 DEF TaskState, Statuses
    <2>3. /\ \A u \in Tasks \ {t} : blind'[u] = blind[u]
          /\ status = "cancelled" => blind'[t] = {w \in Workers : t \in worker[w].left}
      BY <1>t, <2>1
    <2> QED  BY <2>1, <2>2, <2>3 DEF LookedUp
  <1>3. ASSUME NEW t \in Tasks, DeleteTask(t) PROVE LookedUp'
    <2>1. UNCHANGED <<worker, blind>> /\ task' = [task EXCEPT ![t].status = "deleted"]
      BY <1>3 DEF DeleteTask
    <2>2. \A u \in Tasks : task'[u].status \in {task[u].status, "deleted"}
      BY <1>t, <2>1 DEF TaskState
    <2> QED  BY <1>s, <2>1, <2>2
  <1>4. ASSUME NEW t \in Tasks, NEW r \in Requests, NEW S \in SUBSET Voters,
               InsertTaskVoters(r, t, S)
        PROVE  LookedUp'
    BY <1>s, <1>4 DEF InsertTaskVoters
  <1>5. ASSUME NEW r \in Requests, UpdateTaskProgress(r) PROVE LookedUp'
    <2>1. PICK t : t = request[r]
      OBVIOUS
    <2>a. PICK row : row = [task[t] EXCEPT !.completed = 0, !.pct = 0]
      OBVIOUS
    <2>2. UNCHANGED <<worker, blind>> /\ (task' = task \/ task' = [task EXCEPT ![t] = row])
      BY <1>5, <2>1, <2>a DEF UpdateTaskProgress
    <2>b. t \in Tasks => row.status = task[t].status
      BY <1>t, <2>a DEF TaskState
    <2>3. \A u \in Tasks : task'[u].status = task[u].status
      BY <1>t, <2>2, <2>b
    <2> QED  BY <1>s, <2>2, <2>3
  <1>6. ASSUME NEW r \in Requests, ResetFails(r) PROVE LookedUp'
    BY <1>s, <1>6 DEF ResetFails
  <1> QED  BY <1>1, <1>2, <1>3, <1>4, <1>5, <1>6 DEF Office

(* A worker that has worked off a task need no longer be known as blind.   *)
LEMMA FewerLookedUp ==
  ASSUME LookedUp, NEW w \in Workers,
         \A u \in Workers \ {w} : worker'[u] = worker[u],
         worker'[w].task = NoTask,
         \A t \in Tasks : t \in worker'[w].left =>
           t \in worker[w].left /\ (w \in blind[t] => w \in blind'[t]),
         \A t \in Tasks : blind[t] \ {w} \subseteq blind'[t],
         \A t \in Tasks : task'[t].status # task[t].status => task'[t].status = "completed"
  PROVE  LookedUp'
  BY TaskAssumption DEF LookedUp

LEMMA WorkerLookedUp ==
  ASSUME IInv, LookedUp, NEW w \in Workers,
         (\E v \in Voters : TakeEvent(w, v)) \/ Handle(w) \/ WorkerFault(w)
  PROVE  LookedUp'
  <1>t. /\ task \in [Tasks -> TaskState] /\ blind \in [Tasks -> SUBSET Workers]
        /\ worker \in [Workers -> WorkerState]
        /\ TypeOK /\ EventInHand /\ CountedAtMostTotal
    BY DEF IInv, TypeOK, TaskState, WorkerState
  <1>o. ASSUME NEW left \in SUBSET Tasks, worker[w].pc # "idle", WorkOff(w, left)
        PROVE  /\ \A u \in Workers \ {w} : worker'[u] = worker[u]
               /\ worker'[w].task = NoTask /\ worker'[w].left \subseteq left
    BY <1>o, <1>t, WorkOffState
  <1>i. worker' = [worker EXCEPT ![w] = Idle]
          => /\ \A u \in Workers \ {w} : worker'[u] = worker[u]
             /\ worker'[w].task = NoTask /\ worker'[w].left = {}
    BY <1>t DEF Idle
  <1>1. ASSUME NEW v \in Voters, TakeEvent(w, v) PROVE LookedUp'
    <2>1. PICK n : n = [Idle EXCEPT !.pc = "lookup", !.voter = v]
      OBVIOUS
    <2>2. n.task = NoTask /\ n.left = {}
      BY <2>1 DEF Idle
    <2>3. worker' = [worker EXCEPT ![w] = n] /\ task' = task /\ blind' = blind
      BY <1>1, <2>1 DEF TakeEvent
    <2>4. worker'[w] = n /\ \A u \in Workers \ {w} : worker'[u] = worker[u]
      BY <1>t, <2>3
    <2> QED  BY <2>2, <2>3, <2>4, FewerLookedUp
  <1>2. ASSUME GetTasksLinkedToVoter(w) PROVE LookedUp'
    <2>1. /\ WorkOff(w, LinkedTasks(worker[w].voter)) /\ worker[w].pc # "idle"
          /\ task' = task /\ blind' = blind
      BY <1>2 DEF GetTasksLinkedToVoter
    <2>2. /\ LinkedTasks(worker[w].voter) \subseteq Tasks
          /\ \A t \in LinkedTasks(worker[w].voter) : task[t].status \in Active
      BY DEF LinkedTasks
    <2>3. /\ \A u \in Workers \ {w} : worker'[u] = worker[u]
          /\ worker'[w].task = NoTask
          /\ \A t \in worker'[w].left : task[t].status \in Active
      BY <1>o, <2>1, <2>2
    <2> QED  BY <2>1, <2>3, TaskAssumption DEF LookedUp, Active
  <1>3. ASSUME NEW t \in Tasks, MarkTaskVoterContacted(w, t) PROVE LookedUp'
    <2>1. t \in worker[w].left /\ worker' = Marked(w, t) /\ task' = task /\ blind' = blind
      BY <1>3 DEF MarkTaskVoterContacted
    <2>2. /\ worker'[w].task = t /\ worker'[w].left = worker[w].left
          /\ \A u \in Workers \ {w} :
               worker'[u].task = worker[u].task /\ worker'[u].left = worker[u].left
      BY <1>t, <2>1, MarkedWorkers
    <2> QED  BY <2>1, <2>2 DEF LookedUp
  <1>4. ASSUME NEW t \in Tasks, MarkFails(w, t) PROVE LookedUp'
    <2>1. /\ WorkOff(w, worker[w].left \ {t}) /\ worker[w].pc # "idle"
          /\ task' = task /\ blind' = blind
      BY <1>4 DEF MarkFails
    <2>2. worker[w].left \ {t} \subseteq Tasks
      BY <1>t DEF WorkerState
    <2>3. /\ \A u \in Workers \ {w} : worker'[u] = worker[u]
          /\ worker'[w].task = NoTask /\ worker'[w].left \subseteq worker[w].left \ {t}
      BY <1>o, <2>1, <2>2
    <2> QED  BY <2>1, <2>3, FewerLookedUp
  <1>5. ASSUME CountTaskVoters(w) PROVE LookedUp'
    <2>1. PICK done, total :
            worker' = [worker EXCEPT ![w] =
                        [worker[w] EXCEPT !.pc = "write", !.done = done, !.total = total]]
      BY <1>5 DEF CountTaskVoters
    <2>2. /\ worker'[w].task = worker[w].task /\ worker'[w].left = worker[w].left
          /\ \A u \in Workers \ {w} : worker'[u] = worker[u]
      BY <1>t, <2>1 DEF WorkerState
    <2>3. task' = task /\ blind' = blind
      BY <1>5 DEF CountTaskVoters
    <2> QED  BY <2>2, <2>3 DEF LookedUp
  <1>6. ASSUME RecalculateTaskProgress(w) PROVE LookedUp'
    <2>1. PICK t : t = worker[w].task
      OBVIOUS
    <2>2. /\ WorkOff(w, worker[w].left \ {t}) /\ worker[w].pc = "write"
          /\ blind' = [blind EXCEPT ![t] = blind[t] \ {w}]
          /\ \/ task' = task
             \/ task' = [task EXCEPT ![t] = Recalculated(t, worker[w].done, worker[w].total)]
      BY <1>6, <2>1 DEF RecalculateTaskProgress
    <2>3. t \in Tasks /\ worker[w].left \ {t} \subseteq Tasks
      BY <1>t, <2>1, <2>2 DEF EventInHand, WorkerState
    <2>4. /\ \A u \in Workers \ {w} : worker'[u] = worker[u]
          /\ worker'[w].task = NoTask /\ worker'[w].left \subseteq worker[w].left \ {t}
      BY <1>o, <2>2, <2>3
    <2>5. Recalculated(t, worker[w].done, worker[w].total).status \in {task[t].status, "completed"}
      BY <1>t, <2>3 DEF Recalculated, TaskState
    <2>6. \A u \in Tasks : task'[u].status # task[u].status => task'[u].status = "completed"
      BY <1>t, <2>2, <2>3, <2>5
    <2>7. /\ \A u \in Tasks : blind[u] \ {w} \subseteq blind'[u]
          /\ \A u \in Tasks \ {t} : blind'[u] = blind[u]
      BY <1>t, <2>2, <2>3
    <2> QED  BY <2>4, <2>6, <2>7, FewerLookedUp
  <1>7. ASSUME LookupFails(w) PROVE LookedUp'
    <2>1. worker' = [worker EXCEPT ![w] = Idle] /\ task' = task /\ blind' = blind
      BY <1>7 DEF LookupFails, Return
    <2> QED  BY <1>i, <2>1, FewerLookedUp
  <1>8. ASSUME RecalculateFails(w) PROVE LookedUp'
    <2>1. PICK t : t = worker[w].task
      OBVIOUS
    <2>2. /\ WorkOff(w, worker[w].left \ {t}) /\ worker[w].pc # "idle"
          /\ blind' = [blind EXCEPT ![t] = blind[t] \ {w}] /\ task' = task
      BY <1>8, <2>1 DEF RecalculateFails
    <2>3. worker[w].left \ {t} \subseteq Tasks
      BY <1>t DEF WorkerState
    <2>4. /\ \A u \in Workers \ {w} : worker'[u] = worker[u]
          /\ worker'[w].task = NoTask /\ worker'[w].left \subseteq worker[w].left \ {t}
      BY <1>o, <2>2, <2>3
    <2>5. /\ \A u \in Tasks : blind[u] \ {w} \subseteq blind'[u]
          /\ \A u \in Tasks \ {t} : blind'[u] = blind[u]
      BY <1>t, <2>2
    <2> QED  BY <2>2, <2>4, <2>5, FewerLookedUp
  <1>9. ASSUME Redeliver(w) PROVE LookedUp'
    BY <1>9 DEF Redeliver, LookedUp
  <1>10. ASSUME Kill(w) PROVE LookedUp'
    <2>1. /\ worker' = [worker EXCEPT ![w] = Idle] /\ task' = task
          /\ blind' = [t \in Tasks |-> blind[t] \ {w}]
      BY <1>10 DEF Kill, Return
    <2> QED  BY <1>i, <2>1, FewerLookedUp
  <1> QED
    BY <1>1, <1>2, <1>3, <1>4, <1>5, <1>6, <1>7, <1>8, <1>9, <1>10 DEF Handle, WorkerFault

LEMMA NextLookedUp == IInv /\ LookedUp /\ [Next]_vars => LookedUp'
  <1>1. Push => UNCHANGED <<task, worker, blind>>
    BY DEF Push, UpsertContactLog, PublishContactLog, PublishFails
  <1>2. UNCHANGED vars => UNCHANGED <<task, worker, blind>>
    BY DEF vars
  <1>3. LookedUp /\ UNCHANGED <<task, worker, blind>> => LookedUp'
    BY DEF LookedUp
  <1> QED  BY <1>1, <1>2, <1>3, OfficeLookedUp, WorkerLookedUp DEF Next

(* A worker that completes a cancelled task is one that looked it up       *)
(* before it was cancelled, with any users, lists, repetitions and kills.  *)
THEOREM CancellationStands == Spec => CancelStands
  <1> DEFINE Stands == \A t \in Tasks :
               (task[t].status = "cancelled" /\ writer'[t] \in {"worker", "overtaken"}
                  /\ task'[t].status = "completed")
                 => blind[t] # {}
  <1>1. IInv /\ LookedUp /\ [Next]_vars => [Stands]_vars
    <2> SUFFICES ASSUME IInv, LookedUp, Next, NEW t \in Tasks,
                        task[t].status = "cancelled", writer'[t] \in {"worker", "overtaken"},
                        task'[t].status = "completed"
                 PROVE  blind[t] # {}
      OBVIOUS
    <2>t. /\ task \in [Tasks -> TaskState]
          /\ writer \in [Tasks -> {"nobody", "user", "link", "worker", "overtaken"}]
      BY DEF IInv, TypeOK, TaskState
    <2>1. ASSUME Office PROVE FALSE
      <3>1. ASSUME NEW u \in Tasks, NEW status \in Statuses, NEW entity \in Entities,
                   CreateTask(u, status, entity)
            PROVE  FALSE
        BY <2>t, <3>1 DEF CreateTask
      <3>2. ASSUME NEW u \in Tasks, NEW status \in Statuses, UpdateTaskStatus(u, status)
            PROVE  FALSE
        BY <2>t, <3>2 DEF UpdateTaskStatus
      <3>3. ASSUME NEW u \in Tasks, DeleteTask(u) PROVE FALSE
        <4>1. task' = [task EXCEPT ![u].status = "deleted"]
          BY <3>3 DEF DeleteTask
        <4> QED  BY <2>t, <4>1 DEF TaskState
      <3>4. ASSUME NEW r \in Requests, UpdateTaskProgress(r) PROVE FALSE
        <4>1. PICK u : u = request[r]
          OBVIOUS
        <4>2. PICK row : row = [task[u] EXCEPT !.completed = 0, !.pct = 0]
          OBVIOUS
        <4>3. task' = task \/ task' = [task EXCEPT ![u] = row]
          BY <3>4, <4>1, <4>2 DEF UpdateTaskProgress
        <4>4. u \in Tasks => row.status = task[u].status
          BY <2>t, <4>2 DEF TaskState
        <4> QED  BY <2>t, <4>3, <4>4
      <3> QED  BY <2>1, <3>1, <3>2, <3>3, <3>4 DEF Office, InsertTaskVoters, ResetFails
    <2>2. ~Push
      BY DEF Push, UpsertContactLog, PublishContactLog, PublishFails
    <2>3. ASSUME NEW w \in Workers, RecalculateTaskProgress(w) PROVE blind[t] # {}
      <3>1. PICK u : u = worker[w].task
        OBVIOUS
      <3>2. /\ worker[w].pc = "write"
            /\ \/ task' = task
               \/ task' = [task EXCEPT ![u] = Recalculated(u, worker[w].done, worker[w].total)]
        BY <2>3, <3>1 DEF RecalculateTaskProgress
      <3>3. t = u
        BY <2>t, <3>2
      <3> QED  BY <3>1, <3>3 DEF LookedUp
    <2>4. ASSUME NEW w \in Workers,
                 (\E v \in Voters : TakeEvent(w, v)) \/ Handle(w) \/ WorkerFault(w)
          PROVE  task' = task \/ RecalculateTaskProgress(w)
      BY <2>4 DEF TakeEvent, Handle, GetTasksLinkedToVoter, MarkTaskVoterContacted, CountTaskVoters,
                  WorkerFault, LookupFails, MarkFails, RecalculateFails, Redeliver, Kill
    <2> QED  BY <2>1, <2>2, <2>3, <2>4 DEF Next
  <1>2. [][Stands]_vars => CancelStands
    BY PTL DEF CancelStands
  <1> HIDE DEF Stands
  <1> QED  BY InitIInv, NextIInv, InitLookedUp, NextLookedUp, <1>1, <1>2, PTL DEF Spec
=============================================================================
