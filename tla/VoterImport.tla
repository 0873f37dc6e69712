----------------------------- MODULE VoterImport -----------------------------
(***************************************************************************)
(* Import of voter files and geocoding of the voters.  A confirmed upload  *)
(* is parsed, staged and merged by a goroutine of the server, which then   *)
(* geocodes every voter of the company that has no place yet: a batch goes *)
(* to the Census geocoder, what it does not match to Google, voter by      *)
(* voter.  Jobs, staging rows and voters are shared by all such goroutines. *)
(* A step is one statement, one file or one call of a geocoder.            *)
(***************************************************************************)
EXTENDS Integers, FiniteSets, Functions

CONSTANTS
  Jobs,
  Runners,      (* confirmations and the goroutines they start             *)
  Lines,        (* lines of voter files                                    *)
  KeyOf,        (* KeyOf[l]: the dedup key of line l, or one of the next   *)
  NoKey,        (* a line without last name: a row that is not valid       *)
  NoRow,        (* a line the tab reader cannot parse: no row              *)
  Files,        (* the files that may be uploaded                          *)
  NoJob,        (* no job                                                  *)
  BatchSize,    (* voters of a geocoding batch, 10,000                     *)
  GoogleLimit,  (* maxGoogleCost, 500; 0 without a Google client           *)
  MaxConfirms,  (* bound: uploads confirmed                                *)
  MaxFaults     (* bound: faults of every kind together                    *)

Keys == Range(KeyOf) \ {NoKey, NoRow}

ASSUME ImportAssumption ==
  /\ DOMAIN KeyOf = Lines /\ IsFiniteSet(Lines)
  /\ Files \subseteq [source : {"cvr", "l2"}, lines : SUBSET Lines, mapping : BOOLEAN]
  /\ \A f \in Files : f.source = "cvr" => \A l \in f.lines : KeyOf[l] # NoRow
  /\ NoJob \notin Jobs
  /\ BatchSize \in Nat \ {0}
  /\ {GoogleLimit, MaxConfirms, MaxFaults} \subseteq Nat

VARIABLES
  file,      (* file[j]: the file of job j                                 *)
  job,       (* job[j]: its row of import_jobs                             *)
  staged,    (* staged[j]: the rows of job j in import_staging, <<r, l>>    *)
             (* for line l as goroutine r copied it, which it does once    *)
  place,     (* place[k]: geocode_status of the voter with key k           *)
  runner,    (* runner[r]: where a confirmation or its goroutine is        *)
  confirmed, (* confirmed[j]: how often j was set to 'parsing'             *)
  blind,     (* blind[k]: runners that held k when it was placed           *)
  count      (* how often each bounded event has happened                  *)

vars == <<file, job, staged, place, runner, confirmed, blind, count>>

Faults == {"request", "download", "read", "copy", "statement", "failjob", "fetch", "update",
           "crash"}
Events == Faults \cup {"fault", "confirm"}

Fails(fault) == /\ count["fault"] < MaxFaults
                /\ count' = [count EXCEPT !["fault"] = @ + 1, ![fault] = @ + 1]

Report(status, total, parsed, merged, skipped, errors) ==
  [status |-> status, total |-> total, parsed |-> parsed, merged |-> merged,
   skipped |-> skipped, errors |-> errors]

NoFile == [source |-> "none", lines |-> {}, mapping |-> TRUE]

Idle == [pc |-> "idle", job |-> NoJob, rows |-> {}, errors |-> 0, merged |-> 0, skipped |-> 0,
         matched |-> {}, unmatched |-> {}, google |-> 0]

Init ==
  /\ file = [j \in Jobs |-> NoFile]
  /\ job = [j \in Jobs |-> Report("none", 0, 0, 0, 0, 0)]
  /\ staged = [j \in Jobs |-> {}]
  /\ place = [k \in Keys |-> "none"]
  /\ runner = [r \in Runners |-> Idle]
  /\ confirmed = [j \in Jobs |-> 0]
  /\ blind = [k \in Keys |-> {}]
  /\ count = [event \in Events |-> 0]

At(r, pc) == runner[r].pc = pc
Goto(r, pc) == runner' = [runner EXCEPT ![r].pc = pc]
Stop(r) == runner' = [runner EXCEPT ![r] = Idle]

-----------------------------------------------------------------------------
(* The requests.                                                           *)

StartImport(j, f) ==
  /\ job[j].status = "none"
  /\ job' = [job EXCEPT ![j].status = "pending"]
  /\ file' = [file EXCEPT ![j] = f]
  /\ UNCHANGED <<staged, place, runner, confirmed, blind, count>>

(* ConfirmUploadAndProcess reads the status first and writes it later.     *)
ConfirmUpload(r, j) ==
  /\ At(r, "idle")
  /\ job[j].status = "pending"
  /\ count["confirm"] < MaxConfirms
  /\ count' = [count EXCEPT !["confirm"] = @ + 1]
  /\ runner' = [runner EXCEPT ![r] = [Idle EXCEPT !.pc = "accepted", !.job = j]]
  /\ UNCHANGED <<file, job, staged, place, confirmed, blind>>

StartParsing(r) ==
  LET j == runner[r].job
  IN  /\ At(r, "accepted")
      /\ job' = [job EXCEPT ![j] = Report("parsing", 0, 0, 0, 0, 0)]
      /\ confirmed' = [confirmed EXCEPT ![j] = @ + 1]
      /\ Goto(r, "mapping")
      /\ UNCHANGED <<file, staged, place, blind, count>>

RequestFails(r) ==
  /\ At(r, "accepted")
  /\ Fails("request")
  /\ Stop(r)
  /\ UNCHANGED <<file, job, staged, place, confirmed, blind>>

(* With a mapping it cannot read the request ends, and the job stays       *)
(* 'parsing'.                                                              *)
ParseFieldMapping(r) ==
  /\ At(r, "mapping")
  /\ IF file[runner[r].job].mapping THEN Goto(r, "download") ELSE Stop(r)
  /\ UNCHANGED <<file, job, staged, place, confirmed, blind, count>>

-----------------------------------------------------------------------------
(* processImport.                                                          *)

Without(S, kinds) == {l \in S : KeyOf[l] \notin kinds}

(* A line without last name counts as an error and stays a row.            *)
ParseFile(r) ==
  LET lines == file[runner[r].job].lines
  IN  /\ At(r, "download")
      /\ runner' = [runner EXCEPT ![r] =
                      [@ EXCEPT !.pc = "staging", !.rows = Without(lines, {NoRow}),
                                !.errors = Cardinality(lines \ Without(lines, {NoRow, NoKey}))]]
      /\ UNCHANGED <<file, job, staged, place, confirmed, blind, count>>

DownloadFails(r) ==
  /\ At(r, "download")
  /\ Fails("download")
  /\ Goto(r, "fail")
  /\ UNCHANGED <<file, job, staged, place, confirmed, blind>>

(* The download breaks off: the line scanner notes an error and the import *)
(* goes on with what it has; the tab reader asks for the next line forever. *)
ReadFails(r) ==
  LET f == file[runner[r].job]
  IN  /\ At(r, "download")
      /\ Fails("read")
      /\ IF f.source = "l2"
         THEN Goto(r, "endless")
         ELSE \E S \in SUBSET f.lines :
                runner' = [runner EXCEPT ![r] =
                             [@ EXCEPT !.pc = "staging", !.rows = S,
                                       !.errors = 1 + Cardinality(S \ Without(S, {NoKey}))]]
      /\ UNCHANGED <<file, job, staged, place, confirmed, blind>>

WriteReport(r, status) ==
  LET total == Cardinality(runner[r].rows)
  IN  job' = [job EXCEPT ![runner[r].job] =
                Report(status, total, total - runner[r].errors, runner[r].merged,
                       runner[r].skipped, runner[r].errors)]

WriteStaging(r) ==
  /\ At(r, "staging")
  /\ WriteReport(r, "staging")
  /\ Goto(r, IF runner[r].rows = {} THEN "merging" ELSE "copy")
  /\ UNCHANGED <<file, staged, place, confirmed, blind, count>>

BulkCopyStaging(r) ==
  /\ At(r, "copy")
  /\ staged' = [staged EXCEPT ![runner[r].job] = @ \cup ({r} \X runner[r].rows)]
  /\ Goto(r, "merging")
  /\ UNCHANGED <<file, job, place, confirmed, blind, count>>

CopyFails(r) ==
  /\ At(r, "copy")
  /\ Fails("copy")
  /\ Goto(r, "discard")
  /\ UNCHANGED <<file, job, staged, place, confirmed, blind>>

(* All rows of the job go, whoever copied them.                            *)
CleanupStaging(r) ==
  /\ runner[r].pc \in {"discard", "cleanup"}
  /\ staged' = [staged EXCEPT ![runner[r].job] = {}]
  /\ runner' = [runner EXCEPT ![r] =
                  IF At(r, "discard") THEN [@ EXCEPT !.pc = "fail"]
                                      ELSE [Idle EXCEPT !.pc = "fetch"]]
  /\ UNCHANGED <<file, job, place, confirmed, blind, count>>

CleanupFails(r) ==
  /\ At(r, "cleanup")
  /\ Fails("statement")
  /\ runner' = [runner EXCEPT ![r] = [Idle EXCEPT !.pc = "fetch"]]
  /\ UNCHANGED <<file, job, staged, place, confirmed, blind>>

WriteMerging(r) ==
  /\ At(r, "merging")
  /\ WriteReport(r, "merging")
  /\ Goto(r, "merge")
  /\ UNCHANGED <<file, staged, place, confirmed, blind, count>>

ValidRows(j) == {row \in staged[j] : KeyOf[row[2]] # NoKey}

(* One INSERT ... ON CONFLICT DO UPDATE may not touch a voter twice.       *)
OncePerVoter(j) ==
  \A row, other \in ValidRows(j) : KeyOf[row[2]] = KeyOf[other[2]] => row = other

(* Mutant: the rows are merged before any was staged.                      *)
MergeNothing(r) ==
  /\ At(r, "merge")
  /\ Goto(r, "count")
  /\ UNCHANGED <<file, job, staged, place, confirmed, blind, count>>

(* Mutant: a statement that fails leaves the job as it is.                 *)
MergeOrGiveUp(r) ==
  LET j == runner[r].job
  IN  /\ At(r, "merge")
      /\ IF OncePerVoter(j)
         THEN /\ place' = [k \in Keys |->
                             IF place[k] = "none" /\ \E row \in ValidRows(j) : KeyOf[row[2]] = k
                             THEN "pending" ELSE place[k]]
              /\ Goto(r, "count")
         ELSE Stop(r) /\ UNCHANGED place
      /\ UNCHANGED <<file, job, staged, confirmed, blind, count>>

(* A voter the company has already keeps its place.                        *)
MergeStagingToVoters(r) ==
  LET j == runner[r].job
  IN  /\ At(r, "merge")
      /\ IF OncePerVoter(j)
         THEN /\ place' = [k \in Keys |->
                             IF place[k] = "none" /\ \E row \in ValidRows(j) : KeyOf[row[2]] = k
                             THEN "pending" ELSE place[k]]
              /\ Goto(r, "count")
         ELSE Goto(r, "fail") /\ UNCHANGED place
      /\ UNCHANGED <<file, job, staged, confirmed, blind, count>>

(* Mutant: the rows are counted after the staging table was emptied.       *)
CountTooLate(r) ==
  /\ At(r, "count")
  /\ runner' = [runner EXCEPT ![r] = [@ EXCEPT !.pc = "complete", !.merged = 0, !.skipped = 0]]
  /\ UNCHANGED <<file, job, staged, place, confirmed, blind, count>>

CountStagingRows(r) ==
  LET j == runner[r].job
      valid == Cardinality(ValidRows(j))
  IN  /\ At(r, "count")
      /\ runner' = [runner EXCEPT ![r] =
                      [@ EXCEPT !.pc = "complete", !.merged = valid,
                                !.skipped = Cardinality(staged[j]) - valid]]
      /\ UNCHANGED <<file, job, staged, place, confirmed, blind, count>>

Complete(r) ==
  /\ At(r, "complete")
  /\ WriteReport(r, "complete")
  /\ Goto(r, "cleanup")
  /\ UNCHANGED <<file, staged, place, confirmed, blind, count>>

StatementFails(r) ==
  /\ runner[r].pc \in {"staging", "merging", "merge", "count", "complete"}
  /\ Fails("statement")
  /\ Goto(r, "fail")
  /\ UNCHANGED <<file, job, staged, place, confirmed, blind>>

FailJob(r) ==
  /\ At(r, "fail")
  /\ job' = [job EXCEPT ![runner[r].job] = Report("failed", 0, 0, 0, 0, 0)]
  /\ Stop(r)
  /\ UNCHANGED <<file, staged, place, confirmed, blind, count>>

FailJobFails(r) ==
  /\ At(r, "fail")
  /\ Fails("failjob")
  /\ Stop(r)
  /\ UNCHANGED <<file, job, staged, place, confirmed, blind>>

-----------------------------------------------------------------------------
(* ProcessUngeocoded.                                                      *)

Batch(S) == {B \in SUBSET S : Cardinality(B) = BatchSize \/ (B = S /\ Cardinality(S) < BatchSize)}

(* Mutant: voters with a place are fetched as well as those without.       *)
UngeocodedOrNot == {k \in Keys : place[k] \in {"pending", "success"}}

Ungeocoded == {k \in Keys : place[k] = "pending"}

(* The batch, and the Census geocoder's answer after at most three tries:  *)
(* what it matched, or nothing when every try failed.                      *)
GetUngeocoded(r) ==
  /\ At(r, "fetch")
  /\ IF Ungeocoded = {} THEN Stop(r) ELSE
       \E B \in Batch(Ungeocoded) : \E M \in SUBSET B :
         runner' = [runner EXCEPT ![r] =
                      [@ EXCEPT !.pc = "update", !.matched = M, !.unmatched = B \ M]]
  /\ UNCHANGED <<file, job, staged, place, confirmed, blind, count>>

FetchFails(r) ==
  /\ At(r, "fetch")
  /\ Fails("fetch")
  /\ Stop(r)
  /\ UNCHANGED <<file, job, staged, place, confirmed, blind>>

Holds(r, k) == k \in runner[r].matched \cup runner[r].unmatched

(* Mutant: Google is asked past the limit.                                 *)
WorkOffUnlimited(r, k) ==
  /\ At(r, "update")
  /\ IF k \in runner[r].matched
     THEN runner' = [runner EXCEPT ![r].matched = @ \ {k}]
     ELSE /\ runner[r].matched = {} /\ k \in runner[r].unmatched
          /\ runner' = [runner EXCEPT ![r].unmatched = @ \ {k}, ![r].google = @ + 1]

(* The step that works off voter k: the matched ones come first.           *)
WorkOff(r, k) ==
  /\ At(r, "update")
  /\ IF k \in runner[r].matched
     THEN runner' = [runner EXCEPT ![r].matched = @ \ {k}]
     ELSE /\ runner[r].matched = {} /\ k \in runner[r].unmatched
          /\ runner' = [runner EXCEPT ![r].unmatched = @ \ {k},
                                       ![r].google = IF @ < GoogleLimit THEN @ + 1 ELSE @]

(* The Census geocoder matched the voter, or Google finds it.              *)
UpdateVoterGeocode(r, k) ==
  /\ WorkOff(r, k)
  /\ k \in runner[r].matched \/ runner[r].google < GoogleLimit
  /\ place' = [place EXCEPT ![k] = "success"]
  /\ blind' = [blind EXCEPT ![k] = {q \in Runners \ {r} : Holds(q, k)}]
  /\ UNCHANGED <<file, job, staged, confirmed, count>>

(* Google does not find the voter or may not be asked any more.            *)
UpdateVoterGeocodeFailure(r, k) ==
  /\ WorkOff(r, k)
  /\ k \notin runner[r].matched
  /\ place' = [place EXCEPT ![k] = "failed"]
  /\ UNCHANGED <<file, job, staged, confirmed, blind, count>>

(* A line in the log, or none at all.                                      *)
UpdateFails(r, k) ==
  /\ WorkOff(r, k)
  /\ Fails("update")
  /\ UNCHANGED <<file, job, staged, place, confirmed, blind>>

(* Mutant: one batch and no more.                                          *)
StopAfterBatch(r) ==
  /\ At(r, "update") /\ runner[r].matched = {} /\ runner[r].unmatched = {}
  /\ Stop(r)
  /\ UNCHANGED <<file, job, staged, place, confirmed, blind, count>>

NextBatch(r) ==
  /\ At(r, "update") /\ runner[r].matched = {} /\ runner[r].unmatched = {}
  /\ Goto(r, "fetch")
  /\ UNCHANGED <<file, job, staged, place, confirmed, blind, count>>

-----------------------------------------------------------------------------
(* The server goes down: its goroutines are gone and not started again.    *)
Crash ==
  /\ \E r \in Runners : ~At(r, "idle")
  /\ Fails("crash")
  /\ runner' = [r \in Runners |-> Idle]
  /\ UNCHANGED <<file, job, staged, place, confirmed, blind>>

Run(r) ==
  \/ StartParsing(r) \/ ParseFieldMapping(r)
  \/ ParseFile(r) \/ WriteStaging(r) \/ BulkCopyStaging(r) \/ CleanupStaging(r)
  \/ WriteMerging(r) \/ MergeStagingToVoters(r) \/ CountStagingRows(r) \/ Complete(r)
  \/ FailJob(r)
  \/ GetUngeocoded(r) \/ NextBatch(r)
  \/ \E k \in Keys : UpdateVoterGeocode(r, k) \/ UpdateVoterGeocodeFailure(r, k)

Fault(r) ==
  \/ RequestFails(r) \/ DownloadFails(r) \/ ReadFails(r) \/ CopyFails(r) \/ CleanupFails(r)
  \/ StatementFails(r) \/ FailJobFails(r) \/ FetchFails(r)
  \/ \E k \in Keys : UpdateFails(r, k)

Next ==
  \/ \E j \in Jobs : \/ \E f \in Files : StartImport(j, f)
                 \/ \E r \in Runners : ConfirmUpload(r, j)
  \/ \E r \in Runners : Run(r) \/ Fault(r)
  \/ Crash

Spec == Init /\ [][Next]_vars

(* Goroutines run on.                                                      *)
FairSpec == Spec /\ \A r \in Runners : WF_vars(Run(r))
-----------------------------------------------------------------------------
(* Properties.                                                             *)

(* The types of all variables; parsed_rows may fall below zero.            *)
TypeOK ==
  /\ file \in [Jobs -> Files \cup {NoFile}]
  /\ job \in [Jobs -> [status : {"none", "pending", "parsing", "staging", "merging", "complete",
                                 "failed"},
                       total : Nat, parsed : Int, merged : Nat, skipped : Nat, errors : Nat]]
  /\ staged \in [Jobs -> SUBSET (Runners \X Lines)]
  /\ place \in [Keys -> {"none", "pending", "success", "failed"}]
  /\ runner \in [Runners ->
       [pc : {"idle", "accepted", "mapping", "download", "endless", "staging", "copy", "discard",
              "merging", "merge", "count", "complete", "cleanup", "fail", "fetch", "update"},
        job : Jobs \cup {NoJob}, rows : SUBSET Lines, errors : Nat, merged : Nat, skipped : Nat,
        matched : SUBSET Keys, unmatched : SUBSET Keys, google : 0 .. GoogleLimit]]
  /\ confirmed \in [Jobs -> Nat]
  /\ blind \in [Keys -> SUBSET Runners]
  /\ count \in [Events -> Nat]

ValidKeys(j) == {KeyOf[l] : l \in Without(file[j].lines, {NoKey, NoRow})}

(* A job is complete only when every valid line of its file has become a   *)
(* voter, even when its upload is confirmed twice; a download that broke   *)
(* off or a copy that failed beside another confirmation's is excepted.    *)
CompleteMeansMerged ==
  count["read"] + count["copy"] = 0 =>
    \A j \in Jobs : job[j].status = "complete" => \A k \in ValidKeys(j) : place[k] # "none"

(* The report of a job confirmed once adds up: every row of the file was   *)
(* merged or skipped.                                                      *)
ReportAddsUp ==
  \A j \in Jobs :
    (job[j].status = "complete" /\ confirmed[j] = 1) =>
      job[j].merged + job[j].skipped = job[j].total

(* A voter with a place loses it only to a goroutine that had fetched the  *)
(* voter before.                                                           *)
PlacesStay ==
  [][\A k \in Keys : (place[k] = "success" /\ place'[k] # "success") => blind[k] # {}]_vars

(* A started import ends as complete or failed, whatever statement, copy   *)
(* or download fails; a crash, a failure that cannot be recorded, a        *)
(* download that breaks off and a mapping nobody can read are excepted.    *)
Excused(j) == \/ count["crash"] + count["failjob"] + count["read"] > 0
              \/ ~file[j].mapping

JobsEnd ==
  \A j \in Jobs : job[j].status \in {"parsing", "staging", "merging"}
                    ~> (job[j].status \in {"complete", "failed"} \/ Excused(j))

(* Every voter an import leaves pending is tried, unless a fetch or the    *)
(* server fails or the job ended as failed after the merge.                *)
VotersAreTried ==
  \A k \in Keys : place[k] = "pending"
    ~> (place[k] # "pending" \/ count["crash"] + count["fetch"] > 0
          \/ \E j \in Jobs : job[j].status = "failed")
=============================================================================
