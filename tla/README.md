# A TLA+ development of Navigators

Navigators is a canvassing system: a Go server over PostgreSQL and NATS
(`src/navigators-go`) and a Flutter app with an offline database
(`src/navigators-flutter`). Field workers ("navigators") knock on doors and
phone voters without a connection; the app keeps what they record in an outbox,
pushes it when it can and pulls the rows of the navigator's turfs. The office
sends text messages and campaigns through a queue and a worker.

This directory models the parts where the order of steps decides whether work is
lost, doubled or stale, checks them with TLC on small instances and proves the
safety properties of every part, and that push synchronisation implements its
abstract specification, with TLAPS for every value of the constants. `PROJECT.json` maps each definition to the lines it models.

## Inventory

| Part | State | Operations | Hard behaviour | What makes it correct |
|---|---|---|---|---|
| Outbox (`sync_dao.dart`, `sync_operations.dart`) | rows with status and retry count | write with outbox, select, mark, reset, fail, delete | statements of two isolates interleave | entity and row are written together; creation order |
| Push engine (`sync_engine.dart`, `push_sync.dart`, `sync_scheduler.dart`) | position in a cycle, the batch it holds, a per-object lock | push loop, retry, push of a removed turf | two isolates, lost calls, killed isolates, retries | nothing is dropped before it is stored, no row is stranded, dead letters wait |
| Push endpoint (`sync_service.go`, `sync_handler.go`) | entity tables, `sync_received_operations` | look up, process, record | failure between two statements, repeated batches, requests that outlive their client | an operation is stored once and reported truthfully |
| Pull (`pull_sync.dart`, `sync_engine.dart`, `sync_service.go`, `turf_scope.go`) | local rows, one cursor per feed, turf assignments on both sides | manifest, turf reassignment, pages, upserts, cursor | rows change under the pull, kills between two writes, two isolates, turfs gained and lost | the cursor tells the truth; rows of the navigator's turfs arrive; lost turfs leave no voter |
| Text messages (`sms_*.go`, `suppression_service.go`) | campaign row, NATS queue, suppression list | launch, pause, cancel, send, STOP and START | check-then-write races, redelivery, crash between send and acknowledgement | STOP takes effect; a campaign ends, and not before its last voter |
| Inbound texts, delivery statuses (`sms_webhook_handler.go`, `sms_worker.go`) | two NATS streams, message rows, suppression list | webhooks, consumers, keywords, changes by administrators | overtaking calls, redelivery, a status before its row, lost publications | the last word of a voter stands; a text's row tells how it ended |
| Tasks (`task_service.go`, `task_worker.go`) | tasks, linked voters, progress | create, set status, delete, link, contact, recalculate | workers against each other, cancellation and linking; redelivery | progress is exact; a cancelled task stays cancelled |
| Import, geocoding (`import_service.go`, `geocode_service.go`) | job status, staging rows, geocode status | confirm, parse, stage, merge; batch loop | background goroutine, crash, double confirmation, shared staging rows | every job ends, its report adds up; every voter leaves "pending" |
| Events, call scripts, training (`event_*.go`, `call_script_*.go`, `volunteer_service.go`, three feeds of `pull_sync.dart`) | rows on both sides, a cursor per feed | create, edit, withdraw, answer an invitation; pull | edits that read first, withdrawal instead of deletion, fields that server and client name or default differently | copies are current up to the cursor, versions do not go back, what is cancelled is hidden |
| Sessions, users, reset (`session.go`, `admin_service.go`, `password_reset.go`) | users, refresh tokens | time out, deactivate, reset | two statements without a transaction | no live token of a deactivated user |
| Event reminders (`event_worker.go`) | a stream without consumers | | | |
| Turfs, walk lists, voters, tags, notes, surveys, analytics, export, volunteers, audit | tables | single statements or queries | | |
| User interface, map tiles, notifications | widgets, files | | | |
| Conflict resolver (`conflict_resolver.dart`) | none | never called | | |

How they interact: the app calls the server over Connect RPC (push batches, pull
pages, the manifest); the app's screens and both engines share one SQLite
database; the server's handlers share PostgreSQL; handlers and webhooks publish
to NATS and the workers (SMS, tasks, events) consume. The repository has no test
of any of this (its one test is the Flutter template's widget test), so the
comments, the migrations and the documents under `.planning/` say what is meant.

## Modules

    SyncOutbox            the outbox table and its statements, as operators
      FieldClient         devices and their engines (app and background isolate)
      PushServer          the push endpoint and its tables
        PushSync          both, and the calls between them; properties
          MCPushSync      instances for TLC
          PushSyncProofs  theorems
    FieldDelivery         what push synchronisation promises (abstract)
    PullSync              the pull of one device against a changing server
      MCPullSync
      PullSyncProofs
    CatalogSync           events with RSVPs, call scripts and training materials
      MCCatalogSync
      CatalogSyncProofs
    SmsOutreach           single texts, campaigns, the queue, STOP and START
      MCSmsOutreach
      SmsOutreachProofs
    SmsWebhooks           inbound texts and delivery statuses
      MCSmsWebhooks
      SmsWebhooksProofs
    TaskProgress          tasks and the worker that counts their contacts
      MCTaskProgress
      TaskProgressProofs
    VoterImport           import jobs and the geocoding of voters
      MCVoterImport
      VoterImportProofs
    NumberLemmas          greatest numbers: a lemma of the proofs about the two pulls

Definitions marked "Mutant" are plausible mistakes, kept beside the definition
they replace; no specification uses them. Replacing the definition by the mutant
makes TLC report the property `PROJECT.json` pairs it with.

### SyncOutbox, FieldClient: the device

`outbox[d]` is the table `sync_operations` of device `d`: a function from the
rows' autoincremented ids to `[status, retries]`. As ids grow with insertion,
the order by `created_at` is the order of ids. `local[d]` is the sequence
of entities the device has recorded; entity `i` was written in the transaction
that inserted row `i` (`writeWithOutbox`). Field work is what the screens can
produce: a door knock with its disposition, survey and note; a phone call with
its disposition and note; notes on voters and tasks. The parts of one visit are
transactions of their own (`session[d]` is what is left of it).

`engine[e]` is where the engine of isolate `e` is in `runSyncCycle`: select a
batch, mark it, wait for the answer, delete what was processed, fail what was
refused one statement at a time, reset the rest, loop; then the retry phase,
select and reset. Steps are the code between two awaits, so two isolates
interleave wherever Dart lets them. The branch for a removed turf, which pushes
the turf's operations ahead of the loop, is `SelectForTurf` to `FinishTurf`;
operations of one visit belong to one turf. The turf comparison itself is in
PullSync. `KillIsolate` loses an engine's memory and keeps the database.
`RetryDeadLetter` and `DismissDeadLetter` are the two buttons of the sync screen.

### PushServer, PushSync: the server and the whole

A request works its operations off in order, three statements each: `LookUp` in
`sync_received_operations`, `Process`, `Record`. `Process` has the schema's
answer: the CHECK on `contact_logs.outcome`, the foreign key of a survey response
to its log, and the primary keys under which a repetition is a no-op
(`RowsAfterInsert`; a task note has no such key). A failing statement reports the
operation as an error, and so does one whose write took effect although its answer
was lost (`WriteInDoubt`); a failing record is swallowed. A request whose client is
gone goes on or stops at any point (`Abandon`).

PushSync adds the calls: `SendBatch`, `ReceiveAnswer`, `LoseCall` (the client
gives up at any point of the request's progress), `Kill`. An operation's
entity on the server is identified by device and index (its UUID), its record in
`received` by the row id alone, as the code keys it.

### FieldDelivery: the promise

Work is held, stored or gone. A device releases only work that is stored; giving
up is the user's; only recorded work is stored. `ImplementsDelivery` states that
PushSync implements it, with `held` the outbox rows, `stored` the server's
entities and `gone` the work whose row has left the outbox.

### PullSync

Two turf-scoped feeds, voters and contact logs; the other feeds run through the
same loop. A server transaction takes its stamp when it begins and becomes
visible when it commits, so stamps may become visible out of order; one statement
may stamp several voters. A contact log is stamped by the server just before its
INSERT: the time the client sends has no zone and cannot be parsed. Pages are what
`ORDER BY stamp LIMIT n` may return.

A contact log names its turf; a voter lies in the turfs whose boundaries contain it,
`inside[r]`: none, one or several, and `UpdateTurfBoundary` changes them without a
new stamp. The query joins voters to turfs, so a page holds a voter once for each of
its assigned turfs, and the device's copy names the last of them (`label`). The server
scopes a pull to the turfs assigned at that moment. A voter imported without a year
of birth (`Undated`) cannot be scanned: a page that would hold it is an error
(`ScanFails`), now and at every later attempt. A cycle fetches the
manifest, drops lost turfs (voters, then assignment), inserts gained ones, then
pulls feed after feed: read the cursor, ask, upsert, save the cursor. Failed
calls and kills come between any two steps. `device[r]` is the stamp of the copy.

### SmsOutreach

`campaign` is the row of `sms_campaigns`; `request[r]` a launch or pause between
its statements, which check the status first and write it later. A launch counts its
targets in one statement (`CountTargets`) and reads them again page by page
(`ListTargets`), with LIMIT and OFFSET over an order by name: `place[v]` is a
voter's place in that order, which voters of one name share, and 0 without a phone;
`ImportVoter` changes it meanwhile. So pages may repeat and skip voters, and the jobs
need not be as many as the total. `stream` are the voters of the jobs as they were
published, `jobs[n]` the deliveries of the n-th job that are not acknowledged;
`sender[s]` a single text of a navigator or the job the worker holds. `HasClaims` is
the fact that decides the campaign's fate: the suppression check needs a user's claims
and the worker runs in the server's own context. A blocked, refused or sent job is
counted, then the counters are read, then perhaps 'completed' is written, each a
statement of its own. `tried` and `late` are history: the jobs that were counted, and
a sender's texts to a voter since the voter's STOP.

Message rows, contact logs, templates, 10DLC and quiet hours do not change what
the properties see: a quiet-hours refusal ends a text as a failed check does.

### SmsWebhooks

The other direction, at the granularity of single events. `said[x]` is what the
voter at phone `x` wrote or what the provider reports about text `x`; `calls` the
webhook calls under way, which overtake each other; `queue` and `worker` the two
streams and their consumers. The inbound consumer looks the number up (an
unknown one is dropped), inserts the text and, if it is a keyword, changes the
suppression list; the status consumer updates the row of the text. Row and
report race, since `SendP2P` inserts the row after the provider has accepted the
text. A failing insert or update is refused (`Nak`) and delivered again, before or
after what was fetched already. `ChangeList` is the administrators' access to the
list. `newest`, `muddled` and `byStaff` are history: which sources had an event lost
or taken after a newer one, and whose entry was last written by staff.

The code does not promise more than the properties claim. A failed
publication is answered 200 and lost; a failed lookup counts as an unknown number; a
failed change of the list is acknowledged; and a household's phone suppresses
whichever owner the query yields first, which is why the properties speak of numbers
with one owner. A voter has one number (the column `phone`, which the lookup compares
as a whole); `WebhookAssumption` says so.

### TaskProgress

`task[t]` is a row of `tasks`, `linked` and `contacted` are its voters in
`task_voters`. A pushed contact log is stored and then announced (`unpublished`,
`queue`); a worker takes an event, looks up the active tasks that know the voter,
marks the voter on each and recalculates. A task knows the voters on its list and those in
the turf it is linked to (`TurfOf`), which need not be on the list. Recalculation is one statement, but the
database counts as of the statement's start and writes when the row is free, so it is
two steps (`CountTaskVoters`, `RecalculateTaskProgress`), as `InsertTaskVoters` and its reset
(`UpdateTaskProgress`) are two statements. Between them users set statuses, delete
and link. `writer`, `blind` and a worker's `overtaken` are history.

Two facts of the code shape the properties: a recalculation writes the status
without looking at 'cancelled' (task_worker.go:136), so `CancelStands` excepts
workers that looked the task up before; and two overlapping recalculations may leave
the older count, although a comment (task_worker.go:160) calls the statement
race-safe, so `ProgressIsExact` excepts a row that an overtaken worker wrote, and
`RecalculationIsRaceSafe`, which does not, is violated (see Findings).

### VoterImport

A job goes from upload through confirmation, parsing, staging and merge to its
report; `runner[r]` is a confirmation and the goroutine it starts, which then
geocodes whatever the company has without a place. Two confirmations of one job
both pass the status check and copy the rows twice, which the merge refuses
(`OncePerVoter`: `ON CONFLICT DO UPDATE` may not touch a row twice); `staged[j]` tells
the rows of the two apart by the goroutine that copied them. Lines are
valid, without a last name, or unreadable; a broken download ends early (CVR) or
never (L2: the reader is asked again forever, `endless`). `Crash` loses the goroutines,
and nothing starts them again. `confirmed` and `blind` are history.

### CatalogSync

Three feeds that are not scoped by turf and two behaviours of their own. An editor
may read a row before the statement that writes it (a script's next version, an
event's state), so two editors overlap. A page of events is followed by a second
query, the RSVPs since the same cursor, cut to a page without saying so. Nothing is
deleted: what is withdrawn is pulled once more and hidden. Scripts are pulled only
while the device has turfs.

An answer is proto3 JSON, of which the client reads the fields it knows by name.
`SentAs` and `FieldsRead` are the two sets of names: RSVPs are sent as `rsvps` and read
as `eventRsvps`, materials as `materials` and read as `trainingMaterials`, so neither
reaches a device, while the events' cursor passes the RSVPs. `FromJson` is what the
client makes of a row: a false `isActive` is left out of the JSON and read as true, so
a withdrawn script arrives as an active one; an event's cancellation is a status and
arrives. The properties of the passing run are about what does travel; three
configurations show what does not (see Findings). A voter that cannot be read (PullSync)
ends the cycle before the events: `turfs = "unreadable"`.

## Runs

| Run | Question | States |
|---|---|---|
| push-one-engine | Under every refusal, one lost call, one failed statement and one removed turf: is work kept until stored (`DroppedWasStored`), stored once (`OneRowPerFailure`; a task note, whose row has an id of its own, at most once more per failure), sent in order (`InCreationOrder`), do dead letters wait for the user (`DeadLettersWait`), is FieldDelivery implemented (`ImplementsDelivery`), and does acceptable work arrive behind work that is refused (`AcceptableWorkArrives`)? | 226,862 |
| push-two-isolates | Do two engines on one outbox leave a row in progress that nobody holds (`NoStrandedRow`), drop what is not stored (`DroppedWasStored`), and does every operation settle (`EveryOperationSettles`), with faults as above and one kill? | 351,974 |
| push-two-devices | Violation of `DroppedWasStored`: the operation ids of two devices collide. | |
| pull-one-engine | With turfs that overlap, are drawn anew, lost and gained, a voter that cannot be read, a failed call and a kill: is everything up to the cursor on the device (`NothingBehindCursor`), do lost turfs leave no voter (`VotersOfOwnTurfs`), do rows arrive (`RowsArrive`)? | 437,896 |
| pull-new-turf | Violation of `GainedTurfIsPulled`: a gained turf is pulled from the old cursor. | |
| sms-campaign | Two administrators at once and an import: is a campaign completed only when all were tried (`CompletedMeansAllTried`), does it leave 'sending' (`CampaignSettles`)? | 236,217 |
| sms-texts | After STOP, at most the text already checked leaves each sender (`StopTakesEffect`); is a campaign completed only when all were tried, whatever statement or publication fails (`CompletedMeansAllTried`)? | 2,584,032 |
| sms-nothing-sent | Violation of `FailedForAReason`: every campaign text is blocked. | |
| sms-webhooks | Does a voter's last keyword stand (`LastWordStands`) and a STOP take effect in the end (`StopIsHeeded`), does a row tell how its text ended (`RowTellsDelivery`), over lost calls, redelivery and a crash? | 984,842 |
| tasks | Is a contact always one that was logged (`ContactedWereLogged`), progress exact (`ProgressIsExact`), a cancellation respected (`CancelStands`), is each contact counted in the end (`ContactsAreCounted`)? | 821,952 |
| import | Does 'complete' mean merged (`CompleteMeansMerged`), does the report add up (`ReportAddsUp`), do places stay (`PlacesStay`), do jobs end (`JobsEnd`), is every voter tried (`VotersAreTried`)? | 254,758 |
| catalog | Are copies current up to the cursor (`CopiesAreCurrent`), do versions go forward (`VersionsGoForward`), is a cancelled event hidden in the end (`CancelledEventIsHidden`)? | 936,730 |

### Findings

The three violations of the runs are disagreements between the code and its own
comments, documents or schema; `PROJECT.json` quotes the lines under "findings". Nine
more are counterexamples of the same modules, each on the smallest instance that has it.
They have a configuration each, to be run as `tlc -config <file> <module>`:

| Configuration, module | Violated | What happens |
|---|---|---|
| `MCPushNoteTwice.cfg`, MCPushSync | `ResendIsNoOp` | one lost call: a task note is stored twice, though a repetition is said to be a no-op |
| `MCPushDoubleSend.cfg`, MCPushSync | `NoDoubleSend` | two isolates send one operation, though the mark is said to prevent it |
| `MCPullUndated.cfg`, MCPullSync | `UpdatedVotersAreReturned` | one voter without a year of birth ends every later pull |
| `MCPullTwoEngines.cfg`, MCPullSync | `RowsArrive` | an older page over a newer one, with the newer cursor |
| `MCSmsSameName.cfg`, MCSmsOutreach | `EveryTargetIsTried` | two targets of one name at a page's end: one gets two jobs, the other none, and the campaign is completed |
| `MCTaskRace.cfg`, MCTaskProgress | `RecalculationIsRaceSafe` | the older of two counts is written last |
| `MCCatalogRsvps.cfg`, MCCatalogSync | `RsvpsAreNotLost` | no RSVP reaches a device |
| `MCCatalogMaterials.cfg`, MCCatalogSync | `MaterialsArrive` | no training material reaches a device |
| `MCCatalogWithdrawn.cfg`, MCCatalogSync | `WithdrawnScriptIsHidden` | a withdrawn script stays shown |

Where such a fact stands in the way of a property of a passing run, the property
excepts exactly it, and says so in its comment.

### Bounds and why they suffice

* Two operations per device are the least for order, foreign keys and work that waits
  behind refused work; one suffices where the question is the life of a single row under
  two engines. `BatchSize` 1 makes the loop turn; a turf's push takes both rows in one
  batch.
* `MaxRetry` 2 instead of 5: a first failure, a retry, and the limit. `RetryCap`
  bounds how often the user revives a dead letter.
* One fault of each kind: each violation found needs at most one; two or three
  faults interleave with each other only through a row's retry count. The kill is in
  the run with two isolates.
* Two calls at a time: the live one and an orphan of a lost one.
* Pull: page size 1 makes every feed take several pages and cuts a page between the two
  turfs of one voter; two transactions let a row change while it is pulled, or a late one
  become visible; the two safety properties are also theorems for any bounds.
* SMS: two voters make "all but one" differ from "all" and a page's end fall between
  them; two requests race; two texts, two keywords and two navigators give a text before,
  during and after STOP. Failures, redelivery and crashes are in sms-texts only, since
  `CampaignSettles` excuses a campaign after a failure.
* Webhooks: three events give STOP, START and a report, or a keyword and two changes;
  one known and one unknown number; one text; one fault.
* Tasks: two workers on one task with two voters are the least for an overtaken
  count; one list lets links and their reset fall into a recalculation, two logs let a
  voter be counted twice; one status, one fault.
* Import: two jobs and two runners (of one job or of two), three files of
  five lines that hold every kind of line and a household under one key, batches and
  Google's limit of one, one fault.
* Catalog: three statements, two editors, pages of one; two events make the feed take
  two pages; one fault, late statement or change of turfs.

### Fairness

* Engines: a cycle is started on resume, on reconnection and by the periodic
  background task (`sync_scheduler.dart`), and runs on; hence weak fairness of an
  engine's own steps. That a call is answered or fails is an assumption: the code
  sets no timeout. Nothing forces field work, dead-letter buttons, faults or kills.
* Server: a request that was received is worked off.
* Pull: weak fairness of the cycle's own steps, none of the server's changes.
* SMS, tasks, import: a request, a goroutine and a consumer's loop run on, and a
  webhook call that has arrived is handled; crashes, faults, users and the provider
  are not forced.
* Catalog: weak fairness of the pull, as above; nobody is forced to write.

`AcceptableWorkArrives` and `RowsArrive` carry their premises in the formula
(fewer failures than retries; an orderly server: no late or shared stamps, no
gained turf and none drawn anew; rows the server can read). `EveryOperationSettles`
excuses a killed isolate, whose rows nothing takes up again.
`CampaignSettles` excuses a campaign once something failed or a target was lost; so do
`ContactsAreCounted`, `JobsEnd`, `VotersAreTried` and `StopIsHeeded`, each only for the
faults after which the code takes nothing up again.

## Proofs

Each theorem holds for every interleaving, all bounds and every value of the constants that
the modules' named assumptions allow (`PushAssumption`, `ImportAssumption`, ...; some ask
for finitely many voters, rows or lines) and, where said, from a premise of its own. An invariant that is not
inductive is proved from a stronger one, which TLC checked before it was proved.

### Push (`PushSyncProofs`)

| Theorem | Premise | Inductive invariant |
|---|---|---|
| `TypeCorrect`: `TypeOK` | | itself |
| `DroppedKnown`: a device drops only what is stored, recorded by its id, or dismissed | | `DeliveryInv` |
| `NothingLostOnOneDevice`: `DroppedWasStored` | one device | `DeliveryInv` |
| `PushImplementsDelivery`: `ImplementsDelivery` | one device | `WrittenInv` |
| `NoRowStranded`: `NoStrandedRow` | | `RowsInv` |
| `StoredInOrder`: `InCreationOrder` | one device, one isolate | `OrderInv` |
| `UuidStoredOnce`: what carries the client's UUID has one row | | `OneRowInv` |
| `RowsPerFailure`: `OneRowPerFailure` | one isolate per device | `CountedInv` |
| `DeadLettersWaitForUser`: `DeadLettersWait` | one isolate per device | `SelectionsHold` |

* `DeliveryInv` is a chain, since whether a row is deleted rightly depends on the answer,
  the answer on the received ids, and these on what was stored: what is received was
  stored by some device (`ReceivedStored`); an answer reports only what is received
  or stored (`AnswersTrue`); an engine holds a request of its own device
  (`AnswersOwn`). "Some device" becomes "this device" only when there is one.
* `WrittenInv` adds that batches, requests and the server hold only what was
  recorded. With it every action of PushSync maps to one of FieldDelivery or to a
  stutter, shown group by group: recording to recording, a request's write to storing,
  deletions after an answer to releasing, the user's dismissal to giving up.
* `RowsInv` adds that refusals are left only while an engine works through an answer, and
  not during the push of a removed turf, whose end resets the batch alone.
* `OrderInv`: as long as nothing failed, `Due` work (acceptable, not stored) waits in the
  outbox untried (`DueRowsWait`); batches and requests leave out no older due work
  (`BatchesInOrder`, `RequestsInOrder`); what a request refuses is unacceptable
  (`RefusedForGood`) and an answer names all it was asked (`AnswersNameAll`).
* `CountedInv` counts for every operation its rows, the requests that may still store it
  and whether its engine will send it again: together at most one more than there were
  failures. A repetition is sent only after its predecessor was lost, and the failure pays
  for it. `AwaitedInv` ties an answer to one waiting engine.
* `SelectionsHold`: what an engine has selected is still what it selected it as.

The premises are needed. Two devices lose work by the collision of ids
(push-two-devices) and, with it, the order. Two isolates of one device select the same
rows: TLC then finds counterexamples to `InCreationOrder`, to `OneRowPerFailure` and to
`DeadLettersWait`, and that is what the lock `_isSyncing`, which guards one isolate only,
does not exclude.

### Pull (`PullSyncProofs`)

* `PullTypeCorrect`: types and bounds, for any number of engines; an engine that saves a
  cursor has a page that is not empty, so that the page has a last stamp.
* `VotersStayOwn`: `OneEngineAtATime => (Spec => []VotersOfOwnTurfs)`, from `OwnInv`:
  the device's copies name its own turfs (`Own`), and `Engaged` says what the engine
  holds at each place of its cycle: the manifest covers the navigator's turfs, what is
  being dropped is not the navigator's, and when it pulls the device knows all of these
  turfs.
* `NothingIsSkipped`: `OneEngineAtATime => (Spec => []NothingBehindCursor)`. Two
  invariants on an orderly server. `SiteInv`: a copy names a turf its row lies in
  (`Labelled`), and so do the rows in the engine's hand (`Named`); what is dropped is a
  lost turf (`Dropping`), so a voter of one turf goes only with that turf.
  `CursorInv` (`Tracked`): a commit gives one row a stamp beyond all others (`Clock`),
  hence beyond every cursor and page (`NotAhead`, `PageNotAhead`); a page holds whatever
  the device lacks up to the page's last stamp (`PageIsComplete`), which is where equal
  stamps would break it; and the cursor is saved after the page is stored
  (`PageIsStored`).

Two engines share one cursor and may store an older page over a newer row; so
`OneEngineAtATime` is a premise of the last two.

### Texts (`SmsOutreachProofs`, `SmsWebhooksProofs`)

* `SmsTypeCorrect`: the types; inductive with `JobInHand` (the worker's job is one of
  the published and not acknowledged), which keeps `jobs` natural.
* `StopHolds`: `Spec => []StopTakesEffect`. The invariant `OneLateText` adds to the bound
  that a sender past the check, not yet sent, has had no late text.
* `CompletionIsRight`: `Spec => []CompletedMeansAllTried`. While the campaign was
  launched at most once, no job came twice, nobody crashed and the targets stayed as they
  were (`Quiet`), two invariants hold. `LaunchInv` is about a total counted first and
  pages read later: the total counts the targets (`TotalsCountTargets`), one request
  publishes at a time (`OnePublisher`), a page's k-th position holds a voter with fewer
  than k targets before it and at least k up to it (`Fits`, `PagesInOrder`), and so do the
  jobs, of which there are never more than targets, once there are as many
  (`PublisherInOrder`, `JobsInOrder`): a voter with a name of its own has had its job, as
  no other fits its position.
  `WorkInv` is about the worker: the counters never exceed the jobs tried
  (`CountedWereTried`), a job is delivered once and tried once. The premise that no other
  target has the voter's name is needed: MCSmsSameName.cfg is the counterexample.
* `TypeCorrect` of the webhooks: `TypeInv` adds where events are (`Streamed`: a stream holds
  events of its sources; `Placed`: the voter in the consumer's hand owns the number) and
  that no source says more than was counted, without which events have no type.
* `LastWordIsHeeded`: `Spec => []LastWordStands`. `OrderInv`: unless a source is muddled,
  everything after its newest event is still on its way, and what the consumer holds is the
  newest. Hence nothing that comes later can undo what `HeedInv` says of a keyword that is
  through: the list agrees with it, or a later one has been taken up. That a
  number has one owner and a voter one number keeps other phones out.
* `RowKeepsUp`: `Spec => []RowTellsDelivery`, from `OrderInv` and `RowInv`: a status
  that is through stands in the row, or a later one has been taken up.

Both rest on two lemmas about every step: `FlowStep` (a step carries all events on, or takes
one up) and `LeavesHand` (an event leaves the consumer's hand only by a handled
statement, back into the stream, or by muddling its source).

### Tasks (`TaskProgressProofs`)

* `TaskTypeCorrect` and `ContactsWereLogged`: with `EventInHand`, `CountedAtMostTotal` (a
  percentage stays within 100 because contacted voters are linked) and `Logged` (an event
  is about a voter with a stored log, wherever it is).
* `ProgressHolds`: `Spec => []ProgressIsExact`. `EInv`: an untouched task has no
  contacts; a count not overtaken is still the count (`CountIsCurrent`); a row a worker
  wrote is exact while nobody is at the task (`WrittenIsExact`).
* `CancellationStands`: `Spec => CancelStands`. `LookedUp`: a worker is at a task it looked
  up, and a cancelled task in its list was looked up before it was cancelled.

### Import (`VoterImportProofs`)

* `TypeCorrect`: a goroutine that imports has a job that was started (`JobsHeld`), and staging
  tables are finite, so that their rows can be counted.
* `PlacesAreKept`: `Spec => PlacesStay`. `HeldInv`: whoever holds a voter that has a place
  held it when the voter got it.
* `CompleteIsMerged`: `Spec => []CompleteMeansMerged`. `MergeInv`: while no download and no
  copy broke, a goroutine carries all rows of its file, and they stay staged until the
  job's voters are merged, by it or by another confirmation's goroutine (`Carries`).
* `ReportIsComplete`: `Spec => []ReportAddsUp`. `ReportInv` keeps a ledger per job: before
  it is confirmed nothing is staged; while it is confirmed once, one goroutine works on it
  and what is staged are that goroutine's rows (`Keeps`).

### Catalog (`CatalogSyncProofs`)

* `CatalogTypeCorrect`: the types; inductive with `HasPage` and `NoRsvps`: no answer
  puts an RSVP into the engine's hand.
* `CopiesStayCurrent`: `Spec => []CopiesAreCurrent`. No stamp is taken twice (`Stamped`);
  until a statement is late, no cursor and no page is ahead of the server's rows, so a row
  that changes now gets beyond them (`Behindhand`); a page asked for from the cursor (`FromCursor`) holds every
  row up to its last stamp (`PageComplete`), the device has it before the cursor is saved
  (`PageStored`), and up to the cursor the device has every row as `FromJson` reads it
  (`CursorsTrue`).
* `DevicesGoForward`: `Spec => VersionsGoForward`. A script is in one request's hand and
  that request has counted the next version (`OneHolder`, `NextVersions`); a version is on
  the server before a page and on a page before the device (`ServerFirst`).

### Only model-checked

The liveness properties: `EveryOperationSettles`, `AcceptableWorkArrives`, `RowsArrive`,
`CampaignSettles`, `StopIsHeeded`, `ContactsAreCounted`, `JobsEnd`, `VotersAreTried` and
`CancelledEventIsHidden`. They need fairness and ENABLED, which the installed provers do not
treat. The violations are counterexamples and have nothing to prove. Every other
property of a run is a theorem.

## Assumptions and what is not modelled

* `created_at` of outbox rows follows their ids. It has a resolution of a second;
  rows of the same second may be selected in another order.
* Statements on the local database do not fail; its transactions are atomic.
* Push and pull are phases of one cycle but share no state except the turfs; each is
  modelled with the other left out. At most one turf is pushed ahead per cycle.
* Pull is that of a navigator (turf scope). Deletions, deactivated forms and the
  wider scopes of team leads and administrators are left out.
* The first download screen drives the pull loops turf by turf over the shared
  cursor and takes no lock; it is listed as a hazard, not modelled.
* A crash of the server during a push ends requests at any point (`Abandon`); the
  push endpoint keeps nothing in memory between requests.
* Two engines share one pull cursor: pull-one-engine and the pull theorems are about one
  engine, MCPullTwoEngines.cfg about two.
* Turf membership is a set of turfs per voter, changed by redrawn boundaries; the spatial
  join that computes it (`ST_Contains`) is not modelled. That an import or a geocoding
  moves a voter is left out.
* Tasks: assignments and notes are single-row writes. Import: parsing and field
  mapping are reduced to the kinds of lines. Catalog: check-ins, attendance lists and
  downloads are left out. Webhooks: the campaign counters of a delivery status are left
  out, since no text of a campaign exists.
* Sessions, refresh tokens and password reset: tokens are issued and revoked by a
  platform library outside this repository, and nothing here shows its guarantees.
* The conflict resolver has no caller. Single-statement services, queries,
  formatting, the user interface and generated code (two thirds of the lines of
  the server) are not modelled.

## Plan

1. Proofs: what of `InCreationOrder` and `OneRowPerFailure` survives two isolates on one
   outbox; abstract specifications of the webhooks and of an import, and that the
   detailed modules implement them.
2. Pull: the download screen as a second actor on the shared cursor; deletions and
   deactivated forms.
