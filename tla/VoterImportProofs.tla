-------------------------- MODULE VoterImportProofs --------------------------
(***************************************************************************)
(* Proofs about VoterImport, for every set of jobs, goroutines and files,  *)
(* finite or not: only the lines of a file are finitely many.              *)
(***************************************************************************)
EXTENDS VoterImport, FiniteSetTheorems, TLAPS

Unstarted == {"idle", "fetch", "update"}

(* A goroutine that imports has a job, which was started; staging tables   *)
(* are finite.                                                             *)
JobsHeld ==
  /\ \A r \in Runners : runner[r].pc \in Unstarted <=> runner[r].job = NoJob
  /\ \A r \in Runners : runner[r].pc \notin Unstarted => job[runner[r].job].status # "none"
  /\ \A j \in Jobs : IsFiniteSet(staged[j])

TypeInv == TypeOK /\ JobsHeld

(* A batch is split into what the Census geocoder matched and what it did  *)
(* not, and whoever holds a voter that has a place held it when it got it. *)
HeldInv ==
  \A q \in Runners :
    /\ runner[q].matched \cap runner[q].unmatched = {}
    /\ \A k \in Keys : (place[k] = "success" /\ Holds(q, k)) => q \in blind[k]

Unbroken == count["read"] + count["copy"] = 0

Merged(j) == \A k \in ValidKeys(j) : place[k] # "none"

(* Without a broken download or copy: a goroutine has all rows of its file, *)
(* they stay staged until the job's voters are merged, by it or another    *)
(* goroutine, and the table is emptied only after that.                    *)
Carries(r) ==
  /\ runner[r].pc # "discard"
  /\ runner[r].pc \in {"staging", "copy", "merging", "merge"}
       => runner[r].rows = Without(file[runner[r].job].lines, {NoRow})
  /\ runner[r].pc \in {"merging", "merge"}
       => \/ {r} \X runner[r].rows \subseteq staged[runner[r].job]
          \/ Merged(runner[r].job)
  /\ runner[r].pc \in {"count", "complete", "cleanup"} => Merged(runner[r].job)

MergeInv ==
  Unbroken => /\ \A j \in Jobs : job[j].status = "complete" => Merged(j)
              /\ \A r \in Runners : Carries(r)

Works(r, j) == runner[r].job = j /\ runner[r].pc # "accepted"

AddsUp(j) == job[j].status = "complete" => job[j].merged + job[j].skipped = job[j].total

(* The staged rows of goroutine r's job are those of r.                    *)
Keeps(r) ==
  /\ runner[r].pc \in {"mapping", "download", "staging", "copy"} => staged[runner[r].job] = {}
  /\ runner[r].pc \in {"merging", "merge", "count"}
       => staged[runner[r].job] = {r} \X runner[r].rows
  /\ runner[r].pc = "complete"
       => runner[r].merged + runner[r].skipped = Cardinality(runner[r].rows)

(* A job nobody parses has no rows; one that was confirmed once has a      *)
(* single goroutine, and the staged rows are its rows.                     *)
Ledger(j) ==
  /\ confirmed[j] = 0 => /\ staged[j] = {}
                         /\ job[j].status # "complete"
                         /\ \A r \in Runners : ~Works(r, j)
  /\ confirmed[j] = 1 => /\ AddsUp(j)
                         /\ \A r \in Runners : Works(r, j) => Keeps(r)
                         /\ \A r, q \in Runners : Works(r, j) /\ Works(q, j) => q = r

ReportInv == \A j \in Jobs : Ledger(j)
-----------------------------------------------------------------------------
(* Types.                                                                  *)

Stages == {"idle", "accepted", "mapping", "download", "endless", "staging", "copy", "discard",
           "merging", "merge", "count", "complete", "cleanup", "fail", "fetch", "update"}

RunnerType ==
  [pc : Stages, job : Jobs \cup {NoJob}, rows : SUBSET Lines, errors : Nat, merged : Nat,
   skipped : Nat, matched : SUBSET Keys, unmatched : SUBSET Keys, google : 0 .. GoogleLimit]

Stati == {"none", "pending", "parsing", "staging", "merging", "complete", "failed"}

JobType ==
  [status : Stati, total : Nat, parsed : Int, merged : Nat, skipped : Nat, errors : Nat]

LEMMA TypeParts ==
  TypeOK <=>
    /\ file \in [Jobs -> Files \cup {NoFile}]
    /\ job \in [Jobs -> JobType]
    /\ staged \in [Jobs -> SUBSET (Runners \X Lines)]
    /\ place \in [Keys -> {"none", "pending", "success", "failed"}]
    /\ runner \in [Runners -> RunnerType]
    /\ confirmed \in [Jobs -> Nat]
    /\ blind \in [Keys -> SUBSET Runners]
    /\ count \in [Events -> Nat]
BY DEF TypeOK, JobType, RunnerType, Stages, Stati

LEMMA FiniteLines ==
  ASSUME NEW S \in SUBSET Lines
  PROVE  IsFiniteSet(S) /\ Cardinality(S) \in Nat
BY ImportAssumption, FS_Subset, FS_CardinalityType

(* One copy for each row of a goroutine.                                   *)
LEMMA CopiesFinite ==
  ASSUME NEW r, NEW S \in SUBSET Lines
  PROVE  IsFiniteSet({r} \X S) /\ Cardinality({r} \X S) = Cardinality(S)
<1>1. IsFiniteSet(S) /\ Cardinality(S) \in Nat
  BY FiniteLines
<1>2. IsFiniteSet({r}) /\ Cardinality({r}) = 1
  BY FS_Singleton
<1>3. IsFiniteSet({r} \X S) /\ Cardinality({r} \X S) = Cardinality({r}) * Cardinality(S)
  BY <1>1, <1>2, FS_Product
<1> QED
  BY <1>1, <1>2, <1>3

LEMMA FilesHaveLines ==
  ASSUME file \in [Jobs -> Files \cup {NoFile}], NEW j \in Jobs
  PROVE  file[j].lines \in SUBSET Lines
BY ImportAssumption DEF NoFile

LEMMA FaultsAreCounted ==
  ASSUME NEW fault \in Faults, Fails(fault), count \in [Events -> Nat]
  PROVE  /\ count' \in [Events -> Nat]
         /\ \A event \in Events : count'[event] >= count[event]
         /\ count'[fault] = count[fault] + 1
BY DEF Fails, Faults, Events

LEMMA IdleType == Idle \in RunnerType
BY ImportAssumption DEF Idle, RunnerType, Stages

LEMMA ReportType ==
  ASSUME NEW status \in Stati, NEW total \in Nat, NEW parsed \in Int, NEW merged \in Nat,
         NEW skipped \in Nat, NEW errors \in Nat
  PROVE  Report(status, total, parsed, merged, skipped, errors) \in JobType
BY DEF Report, JobType

LEMMA TypeInit == Init => TypeInv
<1> SUFFICES ASSUME Init PROVE TypeInv
  OBVIOUS
<1>1. TypeOK
  BY ImportAssumption, IdleType, ReportType, TypeParts DEF Init, Stati, NoFile
<1>2. JobsHeld
  BY FS_EmptySet DEF Init, JobsHeld, Idle, Unstarted
<1> QED
  BY <1>1, <1>2 DEF TypeInv

(* What a step of goroutine r leaves of the goroutines: the others stay, r  *)
(* keeps its job until it is done with it.                                 *)
Moves(r) ==
  /\ runner' \in [Runners -> RunnerType]
  /\ \A q \in Runners \ {r} : runner'[q] = runner[q]
  /\ runner'[r].pc \in Unstarted <=> runner'[r].job = NoJob
  /\ runner'[r].job \in {runner[r].job, NoJob}

LEMMA HeldJobs ==
  ASSUME TypeInv, NEW r \in Runners, runner[r].pc \notin Unstarted
  PROVE  runner[r].job \in Jobs /\ job[runner[r].job].status # "none"
<1>1. runner[r].job \in Jobs \cup {NoJob}
  BY TypeParts DEF TypeInv, RunnerType
<1> QED
  BY <1>1 DEF TypeInv, JobsHeld

LEMMA GotoMoves ==
  ASSUME TypeInv, NEW r \in Runners, NEW pc \in Stages, Goto(r, pc),
         runner[r].pc \in Unstarted <=> pc \in Unstarted
  PROVE  /\ Moves(r)
         /\ runner'[r] = [runner[r] EXCEPT !.pc = pc]
         /\ runner'[r].pc = pc
         /\ runner'[r].job = runner[r].job /\ runner'[r].rows = runner[r].rows
         /\ runner'[r].merged = runner[r].merged /\ runner'[r].skipped = runner[r].skipped
         /\ runner'[r].matched = runner[r].matched /\ runner'[r].unmatched = runner[r].unmatched
<1>1. runner \in [Runners -> RunnerType]
  BY TypeParts DEF TypeInv
<1>2. runner[r] \in RunnerType /\ [runner[r] EXCEPT !.pc = pc] \in RunnerType
  BY <1>1 DEF RunnerType
<1>3. runner' = [runner EXCEPT ![r] = [runner[r] EXCEPT !.pc = pc]]
  BY DEF Goto
<1>4. runner[r].pc \in Unstarted <=> runner[r].job = NoJob
  BY DEF TypeInv, JobsHeld
<1>5. /\ runner'[r] = [runner[r] EXCEPT !.pc = pc]
      /\ runner' \in [Runners -> RunnerType]
      /\ \A q \in Runners \ {r} : runner'[q] = runner[q]
  BY <1>1, <1>2, <1>3
<1>6. /\ runner'[r].pc = pc
      /\ runner'[r].job = runner[r].job /\ runner'[r].rows = runner[r].rows
      /\ runner'[r].merged = runner[r].merged /\ runner'[r].skipped = runner[r].skipped
      /\ runner'[r].matched = runner[r].matched /\ runner'[r].unmatched = runner[r].unmatched
  BY <1>2, <1>5 DEF RunnerType
<1> QED
  BY <1>4, <1>5, <1>6 DEF Moves

LEMMA StopMoves ==
  ASSUME TypeInv, NEW r \in Runners, NEW pc \in Unstarted,
         runner' = [runner EXCEPT ![r] = [Idle EXCEPT !.pc = pc]]
  PROVE  /\ Moves(r)
         /\ runner'[r].pc = pc
         /\ runner'[r].job = NoJob
         /\ runner'[r].matched = {} /\ runner'[r].unmatched = {}
<1>1. runner \in [Runners -> RunnerType]
  BY TypeParts DEF TypeInv
<1>2. [Idle EXCEPT !.pc = pc] \in RunnerType
  BY IdleType DEF RunnerType, Stages, Unstarted
<1>3. /\ runner'[r] = [Idle EXCEPT !.pc = pc]
      /\ runner' \in [Runners -> RunnerType]
      /\ \A q \in Runners \ {r} : runner'[q] = runner[q]
  BY <1>1, <1>2
<1>4. /\ runner'[r].pc = pc
      /\ runner'[r].job = NoJob
      /\ runner'[r].matched = {} /\ runner'[r].unmatched = {}
  BY <1>3 DEF Idle
<1> QED
  BY <1>3, <1>4 DEF Moves

LEMMA IdleStops ==
  ASSUME NEW r \in Runners, Stop(r)
  PROVE  /\ runner' = [runner EXCEPT ![r] = [Idle EXCEPT !.pc = "idle"]]
         /\ "idle" \in Unstarted
BY DEF Stop, Idle, Unstarted

(* What the reports do to the jobs.                                        *)
Reports ==
  /\ job' \in [Jobs -> JobType]
  /\ \A j \in Jobs : job[j].status # "none" => job'[j].status # "none"

LEMMA JobIsReported ==
  ASSUME TypeInv, NEW j \in Jobs, NEW report \in JobType, report.status # "none",
         job' = [job EXCEPT ![j] = report]
  PROVE  /\ Reports
         /\ job'[j] = report
         /\ \A i \in Jobs \ {j} : job'[i] = job[i]
<1>1. job \in [Jobs -> JobType]
  BY TypeParts DEF TypeInv
<1> QED
  BY <1>1 DEF Reports

LEMMA ReportIsWritten ==
  ASSUME TypeInv, NEW r \in Runners, runner[r].job \in Jobs,
         NEW status \in Stati \ {"none"}, WriteReport(r, status)
  PROVE  /\ Reports
         /\ \A i \in Jobs \ {runner[r].job} : job'[i] = job[i]
         /\ job'[runner[r].job].status = status
         /\ job'[runner[r].job].total = Cardinality(runner[r].rows)
         /\ job'[runner[r].job].merged = runner[r].merged
         /\ job'[runner[r].job].skipped = runner[r].skipped
<1> DEFINE total == Cardinality(runner[r].rows)
<1>1. runner[r] \in RunnerType
  BY TypeParts DEF TypeInv
<1>2. /\ runner[r].rows \in SUBSET Lines /\ runner[r].errors \in Nat
      /\ runner[r].merged \in Nat /\ runner[r].skipped \in Nat
  BY <1>1 DEF RunnerType
<1>3. total \in Nat
  BY <1>2, FiniteLines
<1>4. PICK report : report = Report(status, total, total - runner[r].errors, runner[r].merged,
                                    runner[r].skipped, runner[r].errors)
  OBVIOUS
<1>5. total - runner[r].errors \in Int
  BY <1>2, <1>3
<1>6. report \in JobType
  BY <1>2, <1>3, <1>4, <1>5, ReportType
<1>7. /\ report.status = status /\ report.total = total
      /\ report.merged = runner[r].merged /\ report.skipped = runner[r].skipped
  BY <1>4 DEF Report
<1>8. job' = [job EXCEPT ![runner[r].job] = report]
  BY <1>4 DEF WriteReport
<1> QED
  BY <1>6, <1>7, <1>8, JobIsReported DEF Stati

LEMMA JobsStayHeld ==
  ASSUME TypeInv, NEW r \in Runners, Moves(r), Reports, \A j \in Jobs : IsFiniteSet(staged'[j])
  PROVE  JobsHeld'
<1>1. runner \in [Runners -> RunnerType] /\ NoJob \notin Jobs
  BY ImportAssumption, TypeParts DEF TypeInv
<1>2. JobsHeld
  BY DEF TypeInv
<1>3. ASSUME NEW q \in Runners
      PROVE  /\ runner'[q].pc \in Unstarted <=> runner'[q].job = NoJob
             /\ runner'[q].pc \notin Unstarted => job'[runner'[q].job].status # "none"
  <2>1. /\ runner[q].pc \in Unstarted <=> runner[q].job = NoJob
        /\ runner[q].pc \notin Unstarted => job[runner[q].job].status # "none"
    BY <1>2 DEF JobsHeld
  <2>2. runner[q].job \in Jobs \cup {NoJob}
    BY <1>1 DEF RunnerType
  <2>3. runner'[q].pc \in Unstarted <=> runner'[q].job = NoJob
    BY <2>1 DEF Moves
  <2>4. runner'[q].job \in {runner[q].job, NoJob}
    BY DEF Moves
  <2> QED
    BY <2>1, <2>2, <2>3, <2>4 DEF Reports
<1> QED
  BY <1>3 DEF JobsHeld

LEMMA TypesStay ==
  ASSUME TypeInv, NEW r \in Runners, Moves(r), Reports,
         file' = file,
         staged' \in [Jobs -> SUBSET (Runners \X Lines)],
         \A j \in Jobs : IsFiniteSet(staged'[j]),
         place' \in [Keys -> {"none", "pending", "success", "failed"}],
         confirmed' \in [Jobs -> Nat], blind' \in [Keys -> SUBSET Runners],
         count' \in [Events -> Nat]
  PROVE  TypeInv'
<1>1. JobsHeld'
  BY JobsStayHeld
<1>2. TypeOK'
  BY DEF TypeInv, TypeOK, Moves, Reports, RunnerType, JobType, Stages, Stati
<1> QED
  BY <1>1, <1>2 DEF TypeInv

LEMMA ParseFileMoves ==
  ASSUME TypeInv, NEW r \in Runners, ParseFile(r)
  PROVE  /\ Moves(r)
         /\ runner'[r].pc = "staging" /\ runner'[r].job = runner[r].job
         /\ runner'[r].rows = Without(file[runner[r].job].lines, {NoRow})
         /\ runner'[r].matched = runner[r].matched /\ runner'[r].unmatched = runner[r].unmatched
<1> DEFINE lines == file[runner[r].job].lines
           errors == Cardinality(lines \ Without(lines, {NoRow, NoKey}))
<1>1. runner \in [Runners -> RunnerType] /\ runner[r].job \in Jobs
  BY HeldJobs, TypeParts DEF TypeInv, ParseFile, At, Unstarted
<1>2. lines \in SUBSET Lines
  BY <1>1, FilesHaveLines, TypeParts DEF TypeInv
<1>3. /\ Without(lines, {NoRow}) \in SUBSET Lines
      /\ lines \ Without(lines, {NoRow, NoKey}) \in SUBSET Lines
  BY <1>2 DEF Without
<1>4. errors \in Nat
  BY <1>3, FiniteLines
<1>5. PICK n : n = [runner[r] EXCEPT !.pc = "staging", !.rows = Without(lines, {NoRow}),
                                     !.errors = errors]
  OBVIOUS
<1>6. runner' = [runner EXCEPT ![r] = n]
  BY <1>5 DEF ParseFile
<1> HIDE DEF errors, lines
<1>7. /\ n \in RunnerType /\ n.pc = "staging" /\ n.job = runner[r].job
      /\ n.rows = Without(lines, {NoRow})
      /\ n.matched = runner[r].matched /\ n.unmatched = runner[r].unmatched
  BY <1>1, <1>3, <1>4, <1>5 DEF RunnerType, Stages
<1> QED
  BY <1>1, <1>6, <1>7, ImportAssumption DEF Moves, Unstarted, lines

LEMMA ReadFailsMoves ==
  ASSUME TypeInv, NEW r \in Runners, ReadFails(r)
  PROVE  /\ Moves(r)
         /\ runner'[r].pc \in {"endless", "staging"} /\ runner'[r].job = runner[r].job
         /\ runner'[r].matched = runner[r].matched /\ runner'[r].unmatched = runner[r].unmatched
<1>1. runner \in [Runners -> RunnerType] /\ runner[r].job \in Jobs
  BY HeldJobs, TypeParts DEF TypeInv, ReadFails, At, Unstarted
<1>2. CASE file[runner[r].job].source = "l2"
  BY <1>2, GotoMoves DEF ReadFails, At, Stages, Unstarted
<1>3. CASE file[runner[r].job].source # "l2"
  <2>1. PICK S \in SUBSET file[runner[r].job].lines :
          runner' = [runner EXCEPT ![r] =
                       [@ EXCEPT !.pc = "staging", !.rows = S,
                                 !.errors = 1 + Cardinality(S \ Without(S, {NoKey}))]]
    BY <1>3 DEF ReadFails
  <2> DEFINE errors == 1 + Cardinality(S \ Without(S, {NoKey}))
  <2>2. S \in SUBSET Lines /\ S \ Without(S, {NoKey}) \in SUBSET Lines
    BY <1>1, FilesHaveLines, TypeParts DEF TypeInv
  <2>3. errors \in Nat
    BY <2>2, FiniteLines
  <2>4. PICK n : n = [runner[r] EXCEPT !.pc = "staging", !.rows = S, !.errors = errors]
    OBVIOUS
  <2>5. runner' = [runner EXCEPT ![r] = n]
    BY <2>1, <2>4
  <2> HIDE DEF errors
  <2>6. /\ n \in RunnerType /\ n.pc = "staging" /\ n.job = runner[r].job
        /\ n.matched = runner[r].matched /\ n.unmatched = runner[r].unmatched
    BY <1>1, <2>2, <2>3, <2>4 DEF RunnerType, Stages
  <2> QED
    BY <1>1, <2>5, <2>6, ImportAssumption DEF Moves, Unstarted
<1> QED
  BY <1>2, <1>3

LEMMA WriteStagingMoves ==
  ASSUME TypeInv, NEW r \in Runners, WriteStaging(r)
  PROVE  /\ Moves(r)
         /\ runner'[r].pc = IF runner[r].rows = {} THEN "merging" ELSE "copy"
         /\ runner'[r].job = runner[r].job /\ runner'[r].rows = runner[r].rows
         /\ runner'[r].matched = runner[r].matched /\ runner'[r].unmatched = runner[r].unmatched
<1>1. PICK pc : pc = IF runner[r].rows = {} THEN "merging" ELSE "copy"
  OBVIOUS
<1>2. pc \in Stages /\ pc \notin Unstarted /\ Goto(r, pc) /\ runner[r].pc \notin Unstarted
  BY <1>1 DEF WriteStaging, At, Stages, Unstarted
<1> QED
  BY <1>1, <1>2, GotoMoves

LEMMA CleanupMoves ==
  ASSUME TypeInv, NEW r \in Runners, CleanupStaging(r)
  PROVE  /\ Moves(r)
         /\ \/ runner'[r].pc = "fail" /\ runner'[r].job = runner[r].job
                 /\ runner'[r].matched = runner[r].matched
                 /\ runner'[r].unmatched = runner[r].unmatched
            \/ runner'[r].pc = "fetch" /\ runner'[r].job = NoJob
                 /\ runner'[r].matched = {} /\ runner'[r].unmatched = {}
<1>1. CASE At(r, "discard")
  <2>1. Goto(r, "fail")
    BY <1>1 DEF CleanupStaging, Goto
  <2> QED
    BY <1>1, <2>1, GotoMoves DEF At, Stages, Unstarted
<1>2. CASE ~At(r, "discard")
  BY <1>2, StopMoves DEF CleanupStaging, Unstarted
<1> QED
  BY <1>1, <1>2

LEMMA CountMoves ==
  ASSUME TypeInv, NEW r \in Runners, CountStagingRows(r)
  PROVE  /\ Moves(r)
         /\ runner'[r].pc = "complete" /\ runner'[r].job = runner[r].job
         /\ runner'[r].rows = runner[r].rows
         /\ runner'[r].merged + runner'[r].skipped = Cardinality(staged[runner[r].job])
         /\ runner'[r].matched = runner[r].matched /\ runner'[r].unmatched = runner[r].unmatched
<1> DEFINE valid == Cardinality(ValidRows(runner[r].job))
           all == Cardinality(staged[runner[r].job])
<1>1. runner \in [Runners -> RunnerType] /\ runner[r].job \in Jobs
  BY HeldJobs, TypeParts DEF TypeInv, CountStagingRows, At, Unstarted
<1>2. IsFiniteSet(staged[runner[r].job])
  BY <1>1 DEF TypeInv, JobsHeld
<1>3. ValidRows(runner[r].job) \in SUBSET staged[runner[r].job]
  BY DEF ValidRows
<1>4. valid \in Nat /\ all \in Nat /\ valid <= all
  BY <1>2, <1>3, FS_Subset, FS_CardinalityType
<1>5. PICK n : n = [runner[r] EXCEPT !.pc = "complete", !.merged = valid, !.skipped = all - valid]
  OBVIOUS
<1>6. runner' = [runner EXCEPT ![r] = n]
  BY <1>5 DEF CountStagingRows
<1> HIDE DEF valid, all
<1>7. all - valid \in Nat /\ valid + (all - valid) = all
  BY <1>4
<1>8. /\ n \in RunnerType /\ n.pc = "complete" /\ n.job = runner[r].job
      /\ n.rows = runner[r].rows /\ n.merged = valid /\ n.skipped = all - valid
      /\ n.matched = runner[r].matched /\ n.unmatched = runner[r].unmatched
  BY <1>1, <1>4, <1>5, <1>7 DEF RunnerType, Stages
<1> QED
  BY <1>1, <1>6, <1>7, <1>8, ImportAssumption DEF Moves, Unstarted, all

LEMMA FetchMoves ==
  ASSUME TypeInv, NEW r \in Runners, GetUngeocoded(r)
  PROVE  /\ Moves(r)
         /\ runner'[r].job = NoJob
         /\ \/ runner'[r].matched = {} /\ runner'[r].unmatched = {}
            \/ /\ runner'[r].matched \cap runner'[r].unmatched = {}
               /\ runner'[r].matched \cup runner'[r].unmatched \subseteq Ungeocoded
<1>1. runner \in [Runners -> RunnerType]
  BY TypeParts DEF TypeInv
<1>2. runner[r].pc = "fetch" /\ runner[r].job = NoJob
  BY DEF GetUngeocoded, At, TypeInv, JobsHeld, Unstarted
<1>3. CASE Ungeocoded = {}
  BY <1>3, IdleStops, StopMoves DEF GetUngeocoded
<1>4. CASE Ungeocoded # {}
  <2>1. PICK B \in Batch(Ungeocoded) : \E M \in SUBSET B :
          runner' = [runner EXCEPT ![r] =
                       [@ EXCEPT !.pc = "update", !.matched = M, !.unmatched = B \ M]]
    BY <1>4 DEF GetUngeocoded
  <2>2. PICK M \in SUBSET B :
          runner' = [runner EXCEPT ![r] =
                       [@ EXCEPT !.pc = "update", !.matched = M, !.unmatched = B \ M]]
    BY <2>1
  <2>3. B \subseteq Ungeocoded /\ Ungeocoded \subseteq Keys
    BY DEF Batch, Ungeocoded
  <2>4. PICK n : n = [runner[r] EXCEPT !.pc = "update", !.matched = M, !.unmatched = B \ M]
    OBVIOUS
  <2>5. runner' = [runner EXCEPT ![r] = n]
    BY <2>2, <2>4
  <2>6. /\ n \in RunnerType /\ n.pc = "update" /\ n.job = NoJob
        /\ n.matched = M /\ n.unmatched = B \ M
    BY <1>1, <1>2, <2>3, <2>4 DEF RunnerType, Stages
  <2> QED
    BY <1>1, <1>2, <2>3, <2>5, <2>6 DEF Moves, Unstarted
<1> QED
  BY <1>3, <1>4

LEMMA WorkOffMoves ==
  ASSUME TypeInv, NEW r \in Runners, NEW k \in Keys, WorkOff(r, k)
  PROVE  /\ Moves(r)
         /\ Holds(r, k) /\ runner[r].job = NoJob /\ runner'[r].job = NoJob
         /\ \/ /\ k \in runner[r].matched
               /\ runner'[r].matched = runner[r].matched \ {k}
               /\ runner'[r].unmatched = runner[r].unmatched
            \/ /\ runner[r].matched = {} /\ runner'[r].matched = {}
               /\ runner'[r].unmatched = runner[r].unmatched \ {k}
<1>1. runner \in [Runners -> RunnerType] /\ runner[r] \in RunnerType
  BY TypeParts DEF TypeInv
<1>2. runner[r].pc = "update" /\ runner[r].job = NoJob
  BY DEF WorkOff, At, TypeInv, JobsHeld, Unstarted
<1>3. CASE k \in runner[r].matched
  <2>1. PICK n : n = [runner[r] EXCEPT !.matched = runner[r].matched \ {k}]
    OBVIOUS
  <2>2. runner' = [runner EXCEPT ![r] = n]
    BY <1>1, <1>3, <2>1 DEF WorkOff, RunnerType
  <2>3. /\ n \in RunnerType /\ n.pc = "update" /\ n.job = NoJob
        /\ n.matched = runner[r].matched \ {k} /\ n.unmatched = runner[r].unmatched
    BY <1>1, <1>2, <2>1 DEF RunnerType
  <2> QED
    BY <1>1, <1>2, <1>3, <2>2, <2>3 DEF Moves, Unstarted, Holds
<1>4. CASE k \notin runner[r].matched
  <2>1. PICK g : g = IF runner[r].google < GoogleLimit THEN runner[r].google + 1
                                                       ELSE runner[r].google
    OBVIOUS
  <2>2. runner[r].google \in 0 .. GoogleLimit /\ GoogleLimit \in Nat
    BY <1>1, ImportAssumption DEF RunnerType
  <2>3. g \in 0 .. GoogleLimit
    BY <2>1, <2>2
  <2>4. PICK n : n = [runner[r] EXCEPT !.unmatched = runner[r].unmatched \ {k}, !.google = g]
    OBVIOUS
  <2>5. runner' = [runner EXCEPT ![r] = n]
    BY <1>1, <1>4, <2>1, <2>4 DEF WorkOff, RunnerType
  <2>6. /\ n \in RunnerType /\ n.pc = "update" /\ n.job = NoJob
        /\ n.matched = runner[r].matched /\ n.unmatched = runner[r].unmatched \ {k}
    BY <1>1, <1>2, <2>3, <2>4 DEF RunnerType
  <2>7. runner[r].matched = {} /\ k \in runner[r].unmatched
    BY <1>4 DEF WorkOff
  <2> QED
    BY <1>1, <1>2, <2>5, <2>6, <2>7 DEF Moves, Unstarted, Holds
<1> QED
  BY <1>3, <1>4

LEMMA TypeStep == TypeInv /\ [Next]_vars => TypeInv'
<1> SUFFICES ASSUME TypeInv, [Next]_vars PROVE TypeInv'
  OBVIOUS
<1>t. /\ file \in [Jobs -> Files \cup {NoFile}]
      /\ job \in [Jobs -> JobType]
      /\ staged \in [Jobs -> SUBSET (Runners \X Lines)]
      /\ \A j \in Jobs : IsFiniteSet(staged[j])
      /\ place \in [Keys -> {"none", "pending", "success", "failed"}]
      /\ confirmed \in [Jobs -> Nat]
      /\ blind \in [Keys -> SUBSET Runners]
      /\ count \in [Events -> Nat]
  BY TypeParts DEF TypeInv, JobsHeld
<1>r. runner \in [Runners -> RunnerType] /\ NoJob \notin Jobs
  BY ImportAssumption, TypeParts DEF TypeInv
<1>h. JobsHeld
  BY DEF TypeInv
<1>j. \A r \in Runners : runner[r].pc \notin Unstarted => runner[r].job \in Jobs
  BY <1>r, <1>h DEF RunnerType, JobsHeld
<1>u. job' = job => Reports
  BY <1>t DEF Reports
<1>1. ASSUME NEW j \in Jobs, NEW f \in Files, StartImport(j, f)
     PROVE  TypeInv'
  <2>1. job' \in [Jobs -> JobType] /\ job'[j].status = "pending"
    BY <1>1, <1>t DEF StartImport, JobType, Stati
  <2>2. \A i \in Jobs : job[i].status # "none" => job'[i].status # "none"
    BY <1>1, <1>t DEF StartImport
  <2>3. file' \in [Jobs -> Files \cup {NoFile}]
    BY <1>1, <1>t DEF StartImport
  <2>4. TypeOK'
    BY <1>1, <2>1, <2>3 DEF StartImport, TypeInv, TypeOK, JobType, Stati
  <2>5. JobsHeld'
    BY <1>1, <1>h, <1>j, <2>2 DEF StartImport, JobsHeld
  <2> QED
    BY <2>4, <2>5 DEF TypeInv
<1>2. ASSUME NEW r \in Runners, NEW j \in Jobs, ConfirmUpload(r, j)
     PROVE  TypeInv'
  <2>1. PICK n : n = [Idle EXCEPT !.pc = "accepted", !.job = j]
    OBVIOUS
  <2>2. n \in RunnerType /\ n.pc = "accepted" /\ n.job = j
    BY <2>1, IdleType DEF Idle, RunnerType, Stages
  <2>3. runner' = [runner EXCEPT ![r] = n]
    BY <1>2, <2>1 DEF ConfirmUpload
  <2>4. count' \in [Events -> Nat]
    BY <1>2, <1>t DEF ConfirmUpload, Events
  <2>5. runner' \in [Runners -> RunnerType]
    BY <1>r, <2>2, <2>3
  <2>6. TypeOK'
    BY <1>2, <2>4, <2>5 DEF ConfirmUpload, TypeInv, TypeOK, RunnerType, Stages
  <2>7. JobsHeld'
    BY <1>2, <1>h, <1>r, <2>2, <2>3 DEF ConfirmUpload, JobsHeld, Unstarted
  <2> QED
    BY <2>6, <2>7 DEF TypeInv
<1>3. ASSUME NEW r \in Runners, StartParsing(r)
     PROVE  TypeInv'
  <2>1. Moves(r)
    BY <1>3, GotoMoves DEF StartParsing, At, Stages, Unstarted
  <2>2. Report("parsing", 0, 0, 0, 0, 0) \in JobType /\ Report("parsing", 0, 0, 0, 0, 0).status # "none"
    BY ReportType DEF Stati, Report
  <2>3. runner[r].job \in Jobs
    BY <1>3, <1>j DEF StartParsing, At, Unstarted
  <2>4. Reports
    BY <1>3, <2>2, <2>3, JobIsReported DEF StartParsing
  <2>5. confirmed' \in [Jobs -> Nat]
    BY <1>3, <1>t, <2>3 DEF StartParsing
  <2> QED
    BY <2>1, <2>4, <2>5, <1>3, <1>t, <1>u, TypesStay DEF StartParsing
<1>4. ASSUME NEW r \in Runners, RequestFails(r)
     PROVE  TypeInv'
  <2>1. Moves(r)
    BY <1>4, IdleStops, StopMoves DEF RequestFails
  <2>2. count' \in [Events -> Nat]
    BY <1>4, <1>t, FaultsAreCounted DEF RequestFails, Faults
  <2> QED
    BY <2>1, <2>2, <1>4, <1>t, <1>u, TypesStay DEF RequestFails
<1>5. ASSUME NEW r \in Runners, ParseFieldMapping(r)
     PROVE  TypeInv'
  <2>1. CASE file[runner[r].job].mapping
    <3>1. Moves(r)
      BY <1>5, <2>1, GotoMoves DEF ParseFieldMapping, At, Stages, Unstarted
    <3> QED
      BY <3>1, <1>5, <1>t, <1>u, TypesStay DEF ParseFieldMapping
  <2>2. CASE ~file[runner[r].job].mapping
    <3>1. Moves(r)
      BY <1>5, <2>2, IdleStops, StopMoves DEF ParseFieldMapping
    <3> QED
      BY <3>1, <1>5, <1>t, <1>u, TypesStay DEF ParseFieldMapping
  <2> QED
    BY <2>1, <2>2
<1>6. ASSUME NEW r \in Runners, ParseFile(r)
     PROVE  TypeInv'
  <2>1. Moves(r)
    BY <1>6, ParseFileMoves
  <2> QED
    BY <2>1, <1>6, <1>t, <1>u, TypesStay DEF ParseFile
<1>7. ASSUME NEW r \in Runners, DownloadFails(r)
     PROVE  TypeInv'
  <2>1. Moves(r)
    BY <1>7, GotoMoves DEF DownloadFails, At, Stages, Unstarted
  <2>2. count' \in [Events -> Nat]
    BY <1>7, <1>t, FaultsAreCounted DEF DownloadFails, Faults
  <2> QED
    BY <2>1, <2>2, <1>7, <1>t, <1>u, TypesStay DEF DownloadFails
<1>8. ASSUME NEW r \in Runners, ReadFails(r)
     PROVE  TypeInv'
  <2>1. Moves(r)
    BY <1>8, ReadFailsMoves
  <2>2. count' \in [Events -> Nat]
    BY <1>8, <1>t, FaultsAreCounted DEF ReadFails, Faults
  <2> QED
    BY <2>1, <2>2, <1>8, <1>t, <1>u, TypesStay DEF ReadFails
<1>9. ASSUME NEW r \in Runners, WriteStaging(r)
     PROVE  TypeInv'
  <2>1. Moves(r)
    BY <1>9, WriteStagingMoves
  <2>2. runner[r].job \in Jobs
    BY <1>9, <1>j DEF WriteStaging, At, Unstarted
  <2>3. Reports
    BY <1>9, <2>2, ReportIsWritten DEF WriteStaging, Stati
  <2> QED
    BY <2>1, <2>3, <1>9, <1>t, <1>u, TypesStay DEF WriteStaging
<1>10. ASSUME NEW r \in Runners, BulkCopyStaging(r)
     PROVE  TypeInv'
  <2>1. Moves(r)
    BY <1>10, GotoMoves DEF BulkCopyStaging, At, Stages, Unstarted
  <2>2. runner[r].rows \in SUBSET Lines /\ runner[r].job \in Jobs
    BY <1>10, <1>r, <1>j DEF RunnerType, BulkCopyStaging, At, Unstarted
  <2>3. IsFiniteSet({r} \X runner[r].rows)
    BY <2>2, CopiesFinite
  <2>4. IsFiniteSet(staged[runner[r].job] \cup ({r} \X runner[r].rows))
    BY <1>t, <2>2, <2>3, FS_Union
  <2>5. staged' \in [Jobs -> SUBSET (Runners \X Lines)]
    BY <1>10, <1>t, <2>2 DEF BulkCopyStaging
  <2>6. \A j \in Jobs : IsFiniteSet(staged'[j])
    BY <1>10, <1>t, <2>2, <2>4 DEF BulkCopyStaging
  <2> QED
    BY <2>1, <2>5, <2>6, <1>10, <1>t, <1>u, TypesStay DEF BulkCopyStaging
<1>11. ASSUME NEW r \in Runners, CopyFails(r)
     PROVE  TypeInv'
  <2>1. Moves(r)
    BY <1>11, GotoMoves DEF CopyFails, At, Stages, Unstarted
  <2>2. count' \in [Events -> Nat]
    BY <1>11, <1>t, FaultsAreCounted DEF CopyFails, Faults
  <2> QED
    BY <2>1, <2>2, <1>11, <1>t, <1>u, TypesStay DEF CopyFails
<1>12. ASSUME NEW r \in Runners, CleanupStaging(r)
     PROVE  TypeInv'
  <2>1. Moves(r)
    BY <1>12, CleanupMoves
  <2>2. staged' \in [Jobs -> SUBSET (Runners \X Lines)]
    BY <1>12, <1>t DEF CleanupStaging
  <2>3. \A j \in Jobs : IsFiniteSet(staged'[j])
    BY <1>12, <1>t, FS_EmptySet DEF CleanupStaging
  <2> QED
    BY <2>1, <2>2, <2>3, <1>12, <1>t, <1>u, TypesStay DEF CleanupStaging
<1>13. ASSUME NEW r \in Runners, CleanupFails(r)
     PROVE  TypeInv'
  <2>1. Moves(r)
    BY <1>13, StopMoves DEF CleanupFails, Unstarted
  <2>2. count' \in [Events -> Nat]
    BY <1>13, <1>t, FaultsAreCounted DEF CleanupFails, Faults
  <2> QED
    BY <2>1, <2>2, <1>13, <1>t, <1>u, TypesStay DEF CleanupFails
<1>14. ASSUME NEW r \in Runners, WriteMerging(r)
     PROVE  TypeInv'
  <2>1. Moves(r)
    BY <1>14, GotoMoves DEF WriteMerging, At, Stages, Unstarted
  <2>2. runner[r].job \in Jobs
    BY <1>14, <1>j DEF WriteMerging, At, Unstarted
  <2>3. Reports
    BY <1>14, <2>2, ReportIsWritten DEF WriteMerging, Stati
  <2> QED
    BY <2>1, <2>3, <1>14, <1>t, <1>u, TypesStay DEF WriteMerging
<1>15. ASSUME NEW r \in Runners, MergeStagingToVoters(r)
     PROVE  TypeInv'
  <2>1. Moves(r)
    BY <1>15, GotoMoves DEF MergeStagingToVoters, At, Stages, Unstarted
  <2>2. place' \in [Keys -> {"none", "pending", "success", "failed"}]
    BY <1>15, <1>t DEF MergeStagingToVoters
  <2> QED
    BY <2>1, <2>2, <1>15, <1>t, <1>u, TypesStay DEF MergeStagingToVoters
<1>16. ASSUME NEW r \in Runners, CountStagingRows(r)
     PROVE  TypeInv'
  <2>1. Moves(r)
    BY <1>16, CountMoves
  <2> QED
    BY <2>1, <1>16, <1>t, <1>u, TypesStay DEF CountStagingRows
<1>17. ASSUME NEW r \in Runners, Complete(r)
     PROVE  TypeInv'
  <2>1. Moves(r)
    BY <1>17, GotoMoves DEF Complete, At, Stages, Unstarted
  <2>2. runner[r].job \in Jobs
    BY <1>17, <1>j DEF Complete, At, Unstarted
  <2>3. Reports
    BY <1>17, <2>2, ReportIsWritten DEF Complete, Stati
  <2> QED
    BY <2>1, <2>3, <1>17, <1>t, <1>u, TypesStay DEF Complete
<1>18. ASSUME NEW r \in Runners, StatementFails(r)
     PROVE  TypeInv'
  <2>1. Moves(r)
    BY <1>18, GotoMoves DEF StatementFails, At, Stages, Unstarted
  <2>2. count' \in [Events -> Nat]
    BY <1>18, <1>t, FaultsAreCounted DEF StatementFails, Faults
  <2> QED
    BY <2>1, <2>2, <1>18, <1>t, <1>u, TypesStay DEF StatementFails
<1>19. ASSUME NEW r \in Runners, FailJob(r)
     PROVE  TypeInv'
  <2>1. Moves(r)
    BY <1>19, IdleStops, StopMoves DEF FailJob
  <2>2. Report("failed", 0, 0, 0, 0, 0) \in JobType /\ Report("failed", 0, 0, 0, 0, 0).status # "none"
    BY ReportType DEF Stati, Report
  <2>3. runner[r].job \in Jobs
    BY <1>19, <1>j DEF FailJob, At, Unstarted
  <2>4. Reports
    BY <1>19, <2>2, <2>3, JobIsReported DEF FailJob
  <2> QED
    BY <2>1, <2>4, <1>19, <1>t, <1>u, TypesStay DEF FailJob
<1>20. ASSUME NEW r \in Runners, FailJobFails(r)
     PROVE  TypeInv'
  <2>1. Moves(r)
    BY <1>20, IdleStops, StopMoves DEF FailJobFails
  <2>2. count' \in [Events -> Nat]
    BY <1>20, <1>t, FaultsAreCounted DEF FailJobFails, Faults
  <2> QED
    BY <2>1, <2>2, <1>20, <1>t, <1>u, TypesStay DEF FailJobFails
<1>21. ASSUME NEW r \in Runners, GetUngeocoded(r)
     PROVE  TypeInv'
  <2>1. Moves(r)
    BY <1>21, FetchMoves
  <2> QED
    BY <2>1, <1>21, <1>t, <1>u, TypesStay DEF GetUngeocoded
<1>22. ASSUME NEW r \in Runners, FetchFails(r)
     PROVE  TypeInv'
  <2>1. Moves(r)
    BY <1>22, IdleStops, StopMoves DEF FetchFails
  <2>2. count' \in [Events -> Nat]
    BY <1>22, <1>t, FaultsAreCounted DEF FetchFails, Faults
  <2> QED
    BY <2>1, <2>2, <1>22, <1>t, <1>u, TypesStay DEF FetchFails
<1>23. ASSUME NEW r \in Runners, NEW k \in Keys, UpdateVoterGeocode(r, k)
     PROVE  TypeInv'
  <2>1. Moves(r)
    BY <1>23, WorkOffMoves DEF UpdateVoterGeocode
  <2>2. place' \in [Keys -> {"none", "pending", "success", "failed"}]
    BY <1>23, <1>t DEF UpdateVoterGeocode
  <2>3. blind' \in [Keys -> SUBSET Runners]
    BY <1>23, <1>t DEF UpdateVoterGeocode
  <2> QED
    BY <2>1, <2>2, <2>3, <1>23, <1>t, <1>u, TypesStay DEF UpdateVoterGeocode
<1>24. ASSUME NEW r \in Runners, NEW k \in Keys, UpdateVoterGeocodeFailure(r, k)
     PROVE  TypeInv'
  <2>1. Moves(r)
    BY <1>24, WorkOffMoves DEF UpdateVoterGeocodeFailure
  <2>2. place' \in [Keys -> {"none", "pending", "success", "failed"}]
    BY <1>24, <1>t DEF UpdateVoterGeocodeFailure
  <2> QED
    BY <2>1, <2>2, <1>24, <1>t, <1>u, TypesStay DEF UpdateVoterGeocodeFailure
<1>25. ASSUME NEW r \in Runners, NEW k \in Keys, UpdateFails(r, k)
     PROVE  TypeInv'
  <2>1. Moves(r)
    BY <1>25, WorkOffMoves DEF UpdateFails
  <2>2. count' \in [Events -> Nat]
    BY <1>25, <1>t, FaultsAreCounted DEF UpdateFails, Faults
  <2> QED
    BY <2>1, <2>2, <1>25, <1>t, <1>u, TypesStay DEF UpdateFails
<1>26. ASSUME NEW r \in Runners, NextBatch(r)
     PROVE  TypeInv'
  <2>1. Moves(r)
    BY <1>26, GotoMoves DEF NextBatch, At, Stages, Unstarted
  <2> QED
    BY <2>1, <1>26, <1>t, <1>u, TypesStay DEF NextBatch
<1>27. CASE Crash
  <2>1. count' \in [Events -> Nat]
    BY <1>27, <1>t, FaultsAreCounted DEF Crash, Faults
  <2>2. runner' \in [Runners -> RunnerType]
    BY <1>27, IdleType DEF Crash
  <2>3. TypeOK'
    BY <1>27, <2>1, <2>2 DEF Crash, TypeInv, TypeOK, RunnerType, Stages
  <2>4. JobsHeld'
    BY <1>27, <1>h DEF Crash, JobsHeld, Idle, Unstarted
  <2> QED
    BY <2>3, <2>4 DEF TypeInv
<1>28. CASE UNCHANGED vars
  BY <1>28 DEF vars, TypeInv, TypeOK, JobsHeld
<1> QED
  BY <1>1, <1>2, <1>3, <1>4, <1>5, <1>6, <1>7, <1>8, <1>9, <1>10, <1>11, <1>12, <1>13, <1>14, <1>15, <1>16, <1>17, <1>18, <1>19, <1>20, <1>21, <1>22, <1>23, <1>24, <1>25, <1>26, <1>27, <1>28 DEF Next, Run, Fault

(* Every variable keeps its type.                                          *)
THEOREM TypesHold == Spec => []TypeInv
<1>1. Init => TypeInv
  BY TypeInit
<1>2. TypeInv /\ [Next]_vars => TypeInv'
  BY TypeStep
<1> QED
  BY <1>1, <1>2, PTL DEF Spec

THEOREM TypeCorrect == Spec => []TypeOK
BY TypesHold, PTL DEF TypeInv

-----------------------------------------------------------------------------
(* The steps of an import and those of geocoding.                          *)

Import(r) ==
  \/ StartParsing(r) \/ RequestFails(r) \/ ParseFieldMapping(r) \/ ParseFile(r)
  \/ DownloadFails(r) \/ ReadFails(r) \/ WriteStaging(r) \/ BulkCopyStaging(r) \/ CopyFails(r)
  \/ CleanupStaging(r) \/ CleanupFails(r) \/ WriteMerging(r) \/ MergeStagingToVoters(r)
  \/ CountStagingRows(r) \/ Complete(r) \/ StatementFails(r) \/ FailJob(r) \/ FailJobFails(r)

(* An import step takes no voters in hand and gives none a place.          *)
LEMMA ImportMoves ==
  ASSUME TypeInv, NEW r \in Runners, Import(r)
  PROVE  /\ Moves(r)
         /\ runner[r].pc \notin Unstarted
         /\ \/ /\ runner'[r].matched = runner[r].matched
               /\ runner'[r].unmatched = runner[r].unmatched
            \/ runner'[r].matched = {} /\ runner'[r].unmatched = {}
         /\ blind' = blind /\ file' = file
         /\ \A k \in Keys : /\ place'[k] = "success" => place[k] = "success"
                            /\ place[k] # "none" => place'[k] = place[k]
<1> DEFINE Goal == /\ Moves(r)
                   /\ runner[r].pc \notin Unstarted
                   /\ \/ /\ runner'[r].matched = runner[r].matched
                         /\ runner'[r].unmatched = runner[r].unmatched
                      \/ runner'[r].matched = {} /\ runner'[r].unmatched = {}
<1>1. ASSUME NEW pc \in Stages \ Unstarted, Goto(r, pc), runner[r].pc \notin Unstarted
      PROVE  Goal
  BY <1>1, GotoMoves
<1>2. ASSUME Stop(r), runner[r].pc \notin Unstarted PROVE Goal
  BY <1>2, IdleStops, StopMoves
<1>3. ASSUME StartParsing(r) \/ DownloadFails(r) \/ BulkCopyStaging(r) \/ CopyFails(r) \/ WriteMerging(r)
              \/ Complete(r) \/ StatementFails(r)
      PROVE  Goal
  <2>1. runner[r].pc \notin Unstarted
    BY <1>3 DEF StartParsing, DownloadFails, BulkCopyStaging, CopyFails, WriteMerging, Complete,
                StatementFails, At, Unstarted
  <2>2. \E pc \in Stages \ Unstarted : Goto(r, pc)
    BY <1>3 DEF StartParsing, DownloadFails, BulkCopyStaging, CopyFails, WriteMerging, Complete,
                StatementFails, Stages, Unstarted
  <2> QED
    BY <1>1, <2>1, <2>2
<1>4. ASSUME RequestFails(r) \/ FailJob(r) \/ FailJobFails(r) PROVE Goal
  BY <1>2, <1>4 DEF RequestFails, FailJob, FailJobFails, At, Unstarted
<1>5. ASSUME ParseFieldMapping(r) PROVE Goal
  BY <1>1, <1>2, <1>5 DEF ParseFieldMapping, At, Stages, Unstarted
<1>6. ASSUME ParseFile(r) PROVE Goal
  BY <1>6, ParseFileMoves DEF ParseFile, At, Unstarted
<1>7. ASSUME ReadFails(r) PROVE Goal
  BY <1>7, ReadFailsMoves DEF ReadFails, At, Unstarted
<1>8. ASSUME WriteStaging(r) PROVE Goal
  BY <1>8, WriteStagingMoves DEF WriteStaging, At, Unstarted
<1>9. ASSUME CleanupStaging(r) PROVE Goal
  BY <1>9, CleanupMoves DEF CleanupStaging, At, Unstarted
<1>10. ASSUME CleanupFails(r) PROVE Goal
  BY <1>10, StopMoves DEF CleanupFails, At, Unstarted
<1>11. ASSUME MergeStagingToVoters(r) PROVE Goal
  BY <1>1, <1>11 DEF MergeStagingToVoters, At, Stages, Unstarted
<1>12. ASSUME CountStagingRows(r) PROVE Goal
  BY <1>12, CountMoves DEF CountStagingRows, At, Unstarted
<1>13. Goal
  <2> HIDE DEF Goal
  <2> QED
    BY <1>3, <1>4, <1>5, <1>6, <1>7, <1>8, <1>9, <1>10, <1>11, <1>12 DEF Import
<1>14. blind' = blind /\ file' = file
  BY DEF Import, StartParsing, RequestFails, ParseFieldMapping, ParseFile, DownloadFails, ReadFails,
         WriteStaging, BulkCopyStaging, CopyFails, CleanupStaging, CleanupFails, WriteMerging,
         MergeStagingToVoters, CountStagingRows, Complete, StatementFails, FailJob, FailJobFails
<1>15. \/ place' = place
       \/ MergeStagingToVoters(r)
  BY DEF Import, StartParsing, RequestFails, ParseFieldMapping, ParseFile, DownloadFails, ReadFails,
         WriteStaging, BulkCopyStaging, CopyFails, CleanupStaging, CleanupFails, WriteMerging,
         CountStagingRows, Complete, StatementFails, FailJob, FailJobFails
<1>16. ASSUME MergeStagingToVoters(r), NEW k \in Keys
       PROVE  /\ place'[k] = "success" => place[k] = "success"
              /\ place[k] # "none" => place'[k] = place[k]
  BY <1>16 DEF MergeStagingToVoters
<1> QED
  BY <1>13, <1>14, <1>15, <1>16

Geocode(r) ==
  \/ GetUngeocoded(r) \/ FetchFails(r) \/ NextBatch(r)
  \/ \E k \in Keys : \/ UpdateVoterGeocode(r, k) \/ UpdateVoterGeocodeFailure(r, k)
                     \/ UpdateFails(r, k)

(* Geocoding leaves the jobs and their rows alone.                         *)
LEMMA GeocodeMoves ==
  ASSUME TypeInv, NEW r \in Runners, Geocode(r)
  PROVE  /\ Moves(r)
         /\ runner[r].job = NoJob /\ runner'[r].job = NoJob
         /\ file' = file /\ job' = job /\ staged' = staged /\ confirmed' = confirmed
         /\ \A k \in Keys : place[k] # "none" => place'[k] # "none"
<1>1. CASE GetUngeocoded(r)
  BY <1>1, FetchMoves DEF GetUngeocoded, At, TypeInv, JobsHeld, Unstarted
<1>2. CASE FetchFails(r)
  BY <1>2, IdleStops, StopMoves DEF FetchFails, At, TypeInv, JobsHeld, Unstarted
<1>3. CASE NextBatch(r)
  BY <1>3, GotoMoves DEF NextBatch, At, TypeInv, JobsHeld, Unstarted, Stages
<1>4. ASSUME NEW k \in Keys,
             UpdateVoterGeocode(r, k) \/ UpdateVoterGeocodeFailure(r, k) \/ UpdateFails(r, k)
      PROVE  /\ Moves(r)
             /\ runner[r].job = NoJob /\ runner'[r].job = NoJob
             /\ file' = file /\ job' = job /\ staged' = staged /\ confirmed' = confirmed
             /\ \A i \in Keys : place[i] # "none" => place'[i] # "none"
  <2>1. WorkOff(r, k)
    BY <1>4 DEF UpdateVoterGeocode, UpdateVoterGeocodeFailure, UpdateFails
  <2>2. place \in [Keys -> {"none", "pending", "success", "failed"}]
    BY TypeParts DEF TypeInv
  <2>3. /\ file' = file /\ job' = job /\ staged' = staged /\ confirmed' = confirmed
        /\ \A i \in Keys : place[i] # "none" => place'[i] # "none"
    BY <1>4, <2>2 DEF UpdateVoterGeocode, UpdateVoterGeocodeFailure, UpdateFails
  <2> QED
    BY <2>1, <2>3, WorkOffMoves
<1> QED
  BY <1>1, <1>2, <1>3, <1>4 DEF Geocode

LEMMA NextSplit ==
  ASSUME [Next]_vars
  PROVE  \/ \E j \in Jobs : \E f \in Files : StartImport(j, f)
         \/ \E r \in Runners : \E j \in Jobs : ConfirmUpload(r, j)
         \/ \E r \in Runners : Import(r) \/ Geocode(r)
         \/ Crash
         \/ UNCHANGED vars
BY DEF Next, Run, Fault, Import, Geocode

-----------------------------------------------------------------------------
(* Who holds a voter that has a place.                                     *)

LEMMA HeldInit == Init => HeldInv
BY DEF Init, HeldInv, Idle, Holds

LEMMA HandsKept ==
  ASSUME HeldInv, NEW r \in Runners, Moves(r), blind' = blind,
         \/ /\ runner'[r].matched = runner[r].matched
            /\ runner'[r].unmatched = runner[r].unmatched
         \/ runner'[r].matched = {} /\ runner'[r].unmatched = {},
         \A k \in Keys : place'[k] = "success" => place[k] = "success"
  PROVE  HeldInv'
BY DEF HeldInv, Moves, Holds

LEMMA HeldStep == TypeInv /\ HeldInv /\ [Next]_vars => HeldInv'
<1> SUFFICES ASSUME TypeInv, HeldInv, [Next]_vars PROVE HeldInv'
  OBVIOUS
<1>t. /\ runner \in [Runners -> RunnerType]
      /\ place \in [Keys -> {"none", "pending", "success", "failed"}]
      /\ blind \in [Keys -> SUBSET Runners]
  BY TypeParts DEF TypeInv
<1>1. ASSUME NEW j \in Jobs, NEW f \in Files, StartImport(j, f) PROVE HeldInv'
  BY <1>1 DEF StartImport, HeldInv, Holds
<1>2. ASSUME NEW r \in Runners, NEW j \in Jobs, ConfirmUpload(r, j) PROVE HeldInv'
  <2>1. /\ runner'[r].matched = {} /\ runner'[r].unmatched = {}
        /\ \A q \in Runners \ {r} : runner'[q] = runner[q]
        /\ place' = place /\ blind' = blind
    BY <1>2, <1>t DEF ConfirmUpload, Idle
  <2> QED
    BY <2>1 DEF HeldInv, Holds
<1>3. ASSUME NEW r \in Runners, Import(r) PROVE HeldInv'
  BY <1>3, ImportMoves, HandsKept
<1>4. ASSUME NEW r \in Runners, GetUngeocoded(r) PROVE HeldInv'
  <2>1. /\ Moves(r) /\ place' = place /\ blind' = blind
        /\ \/ runner'[r].matched = {} /\ runner'[r].unmatched = {}
           \/ /\ runner'[r].matched \cap runner'[r].unmatched = {}
              /\ runner'[r].matched \cup runner'[r].unmatched \subseteq Ungeocoded
    BY <1>4, FetchMoves DEF GetUngeocoded
  <2> QED
    BY <2>1 DEF HeldInv, Moves, Holds, Ungeocoded
<1>5. ASSUME NEW r \in Runners, FetchFails(r) PROVE HeldInv'
  BY <1>5, IdleStops, StopMoves, HandsKept DEF FetchFails
<1>6. ASSUME NEW r \in Runners, NextBatch(r) PROVE HeldInv'
  BY <1>6, GotoMoves, HandsKept DEF NextBatch, At, Stages, Unstarted
<1>7. ASSUME NEW r \in Runners, NEW k \in Keys, UpdateVoterGeocode(r, k) PROVE HeldInv'
  <2>1. /\ Moves(r)
        /\ \/ /\ k \in runner[r].matched
              /\ runner'[r].matched = runner[r].matched \ {k}
              /\ runner'[r].unmatched = runner[r].unmatched
           \/ /\ runner[r].matched = {} /\ runner'[r].matched = {}
              /\ runner'[r].unmatched = runner[r].unmatched \ {k}
    BY <1>7, WorkOffMoves DEF UpdateVoterGeocode
  <2>2. runner[r].matched \cap runner[r].unmatched = {}
    BY DEF HeldInv
  <2>3. /\ ~(k \in runner'[r].matched \cup runner'[r].unmatched)
        /\ runner'[r].matched \subseteq runner[r].matched
        /\ runner'[r].unmatched \subseteq runner[r].unmatched
    BY <2>1, <2>2
  <2>4. /\ blind'[k] = {q \in Runners \ {r} : Holds(q, k)}
        /\ \A i \in Keys \ {k} : place'[i] = place[i] /\ blind'[i] = blind[i]
    BY <1>7, <1>t DEF UpdateVoterGeocode
  <2>5. ASSUME NEW q \in Runners, NEW i \in Keys, place'[i] = "success", Holds(q, i)'
        PROVE  q \in blind'[i]
    <3>1. CASE i = k
      BY <2>1, <2>3, <2>4, <2>5, <3>1 DEF Holds, Moves
    <3>2. CASE i # k
      BY <2>1, <2>3, <2>4, <2>5, <3>2 DEF Holds, Moves, HeldInv
    <3> QED
      BY <3>1, <3>2
  <2>6. \A q \in Runners : runner'[q].matched \cap runner'[q].unmatched = {}
    BY <2>1, <2>3 DEF HeldInv, Moves
  <2> QED
    BY <2>5, <2>6 DEF HeldInv
<1>8. ASSUME NEW r \in Runners, NEW k \in Keys,
             UpdateVoterGeocodeFailure(r, k) \/ UpdateFails(r, k)
      PROVE  HeldInv'
  <2>1. WorkOff(r, k) /\ blind' = blind
    BY <1>8 DEF UpdateVoterGeocodeFailure, UpdateFails
  <2>2. /\ Moves(r)
        /\ runner'[r].matched \subseteq runner[r].matched
        /\ runner'[r].unmatched \subseteq runner[r].unmatched
    BY <2>1, WorkOffMoves
  <2>3. \A i \in Keys : place'[i] = "success" => place[i] = "success"
    BY <1>8, <1>t DEF UpdateVoterGeocodeFailure, UpdateFails
  <2> QED
    BY <2>1, <2>2, <2>3 DEF HeldInv, Moves, Holds
<1>9. CASE Crash
  BY <1>9 DEF Crash, HeldInv, Holds, Idle
<1>10. CASE UNCHANGED vars
  BY <1>10 DEF vars, HeldInv, Holds
<1> QED
  BY <1>1, <1>2, <1>3, <1>4, <1>5, <1>6, <1>7, <1>8, <1>9, <1>10, NextSplit DEF Geocode

LEMMA HoldersAreBlind == Spec => [](TypeInv /\ HeldInv)
<1>1. Init => TypeInv /\ HeldInv
  BY TypeInit, HeldInit
<1>2. TypeInv /\ HeldInv /\ [Next]_vars => (TypeInv /\ HeldInv)'
  BY TypeStep, HeldStep
<1> QED
  BY <1>1, <1>2, PTL DEF Spec

(* A voter's place is lost only to a goroutine that had fetched the voter  *)
(* before.                                                                 *)
LEMMA PlaceLost ==
  ASSUME TypeInv, HeldInv, [Next]_vars, NEW k \in Keys, place[k] = "success",
         place'[k] # "success"
  PROVE  blind[k] # {}
<1>t. place \in [Keys -> {"none", "pending", "success", "failed"}]
  BY TypeParts DEF TypeInv
<1>1. ASSUME NEW r \in Runners, Import(r) PROVE FALSE
  BY <1>1, ImportMoves
<1>2. ASSUME NEW r \in Runners, NEW i \in Keys, UpdateVoterGeocodeFailure(r, i)
      PROVE  blind[k] # {}
  <2>1. Holds(r, i)
    BY <1>2, WorkOffMoves DEF UpdateVoterGeocodeFailure
  <2>2. i = k
    BY <1>2, <1>t DEF UpdateVoterGeocodeFailure
  <2> QED
    BY <2>1, <2>2 DEF HeldInv
<1>3. ASSUME NEW r \in Runners, NEW i \in Keys, UpdateVoterGeocode(r, i) PROVE FALSE
  BY <1>3, <1>t DEF UpdateVoterGeocode
<1>4. \/ \E r \in Runners : Import(r)
      \/ \E r \in Runners, i \in Keys : \/ UpdateVoterGeocodeFailure(r, i)
                                      \/ UpdateVoterGeocode(r, i)
      \/ place' = place
  BY NextSplit DEF Geocode, StartImport, ConfirmUpload, GetUngeocoded, FetchFails, NextBatch,
                   UpdateFails, Crash, vars
<1> QED
  BY <1>1, <1>2, <1>3, <1>4

THEOREM PlacesAreKept == Spec => PlacesStay
<1>1. TypeInv /\ HeldInv /\ [Next]_vars
        => [\A k \in Keys : (place[k] = "success" /\ place'[k] # "success")
                             => blind[k] # {}]_vars
  BY PlaceLost
<1> QED
  BY <1>1, HoldersAreBlind, PTL DEF Spec, PlacesStay

-----------------------------------------------------------------------------
(* What is merged when a job is complete.                                  *)

LEMMA MergeInit == Init => MergeInv
BY DEF Init, MergeInv, Carries, Idle, Report

(* Nobody mends a broken download or copy.                                 *)
LEMMA FaultsStay ==
  ASSUME TypeInv, [Next]_vars
  PROVE  /\ count["read"] \in Nat /\ count["copy"] \in Nat
         /\ count'["read"] \in Nat /\ count'["copy"] \in Nat
         /\ count'["read"] >= count["read"] /\ count'["copy"] >= count["copy"]
<1>0. count'["read"] \in Nat /\ count'["copy"] \in Nat
  BY TypeStep DEF TypeInv, TypeOK, Events, Faults
<1>1. count \in [Events -> Nat]
  BY TypeParts DEF TypeInv
<1>2. count["read"] \in Nat /\ count["copy"] \in Nat
  BY <1>1 DEF Events, Faults
<1>3. ASSUME NEW fault \in Faults, Fails(fault)
      PROVE  count'["read"] >= count["read"] /\ count'["copy"] >= count["copy"]
  BY <1>1, <1>3, FaultsAreCounted DEF Events, Faults
<1>4. ASSUME NEW r \in Runners, NEW j \in Jobs, ConfirmUpload(r, j)
      PROVE  count'["read"] >= count["read"] /\ count'["copy"] >= count["copy"]
  BY <1>1, <1>2, <1>4 DEF ConfirmUpload, Events, Faults
<1>5. \/ count' = count
      \/ \E r \in Runners : \E j \in Jobs : ConfirmUpload(r, j)
      \/ \E fault \in Faults : Fails(fault)
  <2>1. ASSUME NEW r \in Runners, Import(r)
        PROVE  count' = count \/ \E fault \in Faults : Fails(fault)
    BY <2>1 DEF Import, StartParsing, RequestFails, ParseFieldMapping, ParseFile, DownloadFails,
         ReadFails, WriteStaging, BulkCopyStaging, CopyFails, CleanupStaging, CleanupFails,
         WriteMerging, MergeStagingToVoters, CountStagingRows, Complete, StatementFails, FailJob,
         FailJobFails, Faults
  <2>2. ASSUME NEW r \in Runners, Geocode(r)
        PROVE  count' = count \/ \E fault \in Faults : Fails(fault)
    BY <2>2 DEF Geocode, GetUngeocoded, FetchFails, NextBatch, UpdateVoterGeocode,
         UpdateVoterGeocodeFailure, UpdateFails, Faults
  <2>3. ASSUME Crash PROVE \E fault \in Faults : Fails(fault)
    BY <2>3 DEF Crash, Faults
  <2>4. ASSUME NEW j \in Jobs, NEW f \in Files, StartImport(j, f) PROVE count' = count
    BY <2>4 DEF StartImport
  <2>5. UNCHANGED vars => count' = count
    BY DEF vars
  <2> QED
    BY <2>1, <2>2, <2>3, <2>4, <2>5, NextSplit
<1> QED
  BY <1>0, <1>2, <1>3, <1>4, <1>5

LEMMA WasUnbroken ==
  ASSUME TypeInv, [Next]_vars, Unbroken'
  PROVE  /\ Unbroken
         /\ count'["read"] = count["read"] /\ count'["copy"] = count["copy"]
BY FaultsStay DEF Unbroken

LEMMA KeysOfFile ==
  ASSUME TypeInv, NEW j \in Jobs
  PROVE  ValidKeys(j) \subseteq Keys
<1>1. file[j].lines \in SUBSET Lines
  BY TypeParts, FilesHaveLines DEF TypeInv
<1> QED
  BY <1>1, ImportAssumption DEF ValidKeys, Without, Keys, Range

LEMMA MergedStays ==
  ASSUME TypeInv, NEW j \in Jobs, file'[j] = file[j], Merged(j),
         \A k \in Keys : place[k] # "none" => place'[k] # "none"
  PROVE  Merged(j)'
<1>1. ValidKeys(j)' = ValidKeys(j)
  BY DEF ValidKeys, Without
<1> QED
  BY <1>1, KeysOfFile DEF Merged

(* The other goroutines are not disturbed: rows leave a staging table only *)
(* when the job is merged.                                                 *)
LEMMA OthersCarry ==
  ASSUME TypeInv, NEW r \in Runners, Moves(r), file' = file,
         NEW q \in Runners \ {r}, Carries(q),
         \A j \in Jobs : staged[j] \subseteq staged'[j] \/ Merged(j),
         \A k \in Keys : place[k] # "none" => place'[k] # "none"
  PROVE  Carries(q)'
<1>1. runner'[q] = runner[q]
  BY DEF Moves
<1>2. runner[q].pc \notin Unstarted => runner[q].job \in Jobs
  BY HeldJobs
<1>4. PICK j : j = runner[q].job
  OBVIOUS
<1>5. runner'[q].job = j
  BY <1>1, <1>4
<1>6. /\ runner[q].pc \in {"merging", "merge"} => j \in Jobs
      /\ runner[q].pc \in {"count", "complete", "cleanup"} => j \in Jobs
  BY <1>2, <1>4 DEF Unstarted
<1>7. ASSUME j \in Jobs, Merged(j) PROVE Merged(j)'
  <2>1. file'[j] = file[j]
    OBVIOUS
  <2> QED
    BY <1>7, <2>1, MergedStays
<1>8. Merged(runner[q].job)' <=> Merged(j)'
  BY <1>5
<1> QED
  BY <1>1, <1>4, <1>5, <1>6, <1>7, <1>8 DEF Carries

(* One step of the import by r.                                            *)
LEMMA MergeKept ==
  ASSUME TypeInv, MergeInv, Unbroken, NEW r \in Runners, Moves(r), file' = file,
         \A j \in Jobs : staged[j] \subseteq staged'[j] \/ Merged(j),
         \A k \in Keys : place[k] # "none" => place'[k] # "none",
         \A j \in Jobs : job'[j].status = "complete" => job[j].status = "complete" \/ Merged(j),
         Carries(r)'
  PROVE  MergeInv'
<1>1. /\ \A j \in Jobs : job[j].status = "complete" => Merged(j)
      /\ \A q \in Runners : Carries(q)
  BY DEF MergeInv
<1>2. \A q \in Runners : Carries(q)'
  BY <1>1, OthersCarry
<1>3. ASSUME NEW j \in Jobs, job'[j].status = "complete" PROVE Merged(j)'
  <2>1. Merged(j)
    BY <1>1, <1>3
  <2> QED
    BY <2>1, MergedStays
<1> QED
  BY <1>2, <1>3 DEF MergeInv

(* At a place where a goroutine carries nothing.                           *)
LEMMA CarriesNothing ==
  ASSUME NEW r \in Runners,
         runner'[r].pc \notin {"discard", "staging", "copy", "merging", "merge", "count", "complete",
                              "cleanup"}
  PROVE  Carries(r)'
BY DEF Carries

(* The statement that merges leaves no valid line of the file out.         *)
LEMMA MergeMerges ==
  ASSUME TypeInv, NEW r \in Runners, MergeStagingToVoters(r), OncePerVoter(runner[r].job),
         Carries(r)
  PROVE  Merged(runner[r].job)'
<1>1. PICK j : j = runner[r].job
  OBVIOUS
<1>2. j \in Jobs
  BY <1>1, HeldJobs DEF MergeStagingToVoters, At, Unstarted
<1>3. /\ runner[r].rows = Without(file[j].lines, {NoRow})
      /\ \/ {r} \X runner[r].rows \subseteq staged[j]
         \/ Merged(j)
  BY <1>1 DEF Carries, MergeStagingToVoters, At
<1>4. place' = [k \in Keys |-> IF place[k] = "none" /\ \E row \in ValidRows(j) : KeyOf[row[2]] = k
                             THEN "pending" ELSE place[k]]
  BY <1>1 DEF MergeStagingToVoters
<1>5. file' = file
  BY DEF MergeStagingToVoters
<1>6. CASE Merged(j)
  <2>1. \A k \in Keys : place[k] # "none" => place'[k] # "none"
    BY <1>4
  <2>2. Merged(j)'
    BY <1>2, <1>5, <1>6, <2>1, MergedStays
  <2>3. runner'[r].job = j
    BY <1>1, GotoMoves DEF MergeStagingToVoters, At, Stages, Unstarted
  <2> QED
    BY <2>2, <2>3
<1>7. CASE {r} \X runner[r].rows \subseteq staged[j]
  <2>1. ASSUME NEW k \in ValidKeys(j) PROVE place'[k] # "none"
    <3>1. PICK l \in Without(file[j].lines, {NoKey, NoRow}) : KeyOf[l] = k
      BY <2>1 DEF ValidKeys
    <3>2. l \in runner[r].rows /\ KeyOf[l] # NoKey
      BY <1>3, <3>1 DEF Without
    <3>3. <<r, l>> \in ValidRows(j)
      BY <1>7, <3>2 DEF ValidRows
    <3>4. k \in Keys
      BY <1>2, <2>1, KeysOfFile
    <3> QED
      BY <1>4, <3>1, <3>3, <3>4
  <2>2. ValidKeys(j)' = ValidKeys(j)
    BY <1>5 DEF ValidKeys, Without
  <2>3. Merged(j)'
    BY <2>1, <2>2 DEF Merged
  <2>4. runner'[r].job = j
    BY <1>1, GotoMoves DEF MergeStagingToVoters, At, Stages, Unstarted
  <2> QED
    BY <2>3, <2>4
<1> QED
  BY <1>3, <1>6, <1>7

(* An import step while no download or copy broke.                         *)
LEMMA ImportMerges ==
  ASSUME TypeInv, MergeInv, Unbroken, [Next]_vars, Unbroken', NEW r \in Runners, Import(r)
  PROVE  MergeInv'
<1>t. /\ job \in [Jobs -> JobType] /\ staged \in [Jobs -> SUBSET (Runners \X Lines)]
      /\ runner \in [Runners -> RunnerType]
      /\ runner[r].job \in Jobs
  BY TypeParts, HeldJobs, ImportMoves DEF TypeInv
<1>c. Carries(r)
  BY DEF MergeInv
<1>m. /\ Moves(r) /\ file' = file
      /\ \A k \in Keys : place[k] # "none" => place'[k] # "none"
  BY ImportMoves
<1>n. count'["read"] = count["read"] /\ count'["copy"] = count["copy"] /\ count \in [Events -> Nat]
  BY WasUnbroken, TypeParts DEF TypeInv
<1>p. PICK j : j = runner[r].job
  OBVIOUS
<1>k. ASSUME Merged(j) PROVE Merged(j)'
  <2>1. file'[j] = file[j] /\ j \in Jobs
    BY <1>t, <1>m, <1>p
  <2> QED
    BY <1>k, <1>m, <2>1, MergedStays
<1> DEFINE
      Kept == /\ \A i \in Jobs : staged[i] \subseteq staged'[i] \/ Merged(i)
              /\ \A i \in Jobs : job'[i].status = "complete"
                                => job[i].status = "complete" \/ Merged(i)
<1>0. ASSUME Kept, Carries(r)' PROVE MergeInv'
  BY <1>0, <1>m, MergeKept
<1>1. ASSUME StartParsing(r) PROVE MergeInv'
  <2>1. Kept
    BY <1>1, <1>t DEF StartParsing, Report
  <2>2. runner'[r].pc = "mapping"
    BY <1>1, GotoMoves DEF StartParsing, At, Stages, Unstarted
  <2> QED
    BY <1>0, <2>1, <2>2, CarriesNothing
<1>2. ASSUME RequestFails(r) \/ FailJob(r) \/ FailJobFails(r) PROVE MergeInv'
  <2>1. Kept
    BY <1>2, <1>t DEF RequestFails, FailJob, FailJobFails, Report
  <2>2. runner'[r].pc = "idle"
    BY <1>2, IdleStops, StopMoves DEF RequestFails, FailJob, FailJobFails
  <2> QED
    BY <1>0, <2>1, <2>2, CarriesNothing
<1>3. ASSUME ParseFieldMapping(r) PROVE MergeInv'
  <2>1. Kept
    BY <1>3, <1>t DEF ParseFieldMapping
  <2>2. runner'[r].pc \in {"download", "idle"}
    BY <1>3, GotoMoves, IdleStops, StopMoves DEF ParseFieldMapping, At, Stages, Unstarted
  <2> QED
    BY <1>0, <2>1, <2>2, CarriesNothing
<1>4. ASSUME ParseFile(r) PROVE MergeInv'
  <2>1. Kept
    BY <1>4, <1>t DEF ParseFile
  <2>2. /\ runner'[r].pc = "staging" /\ runner'[r].job = runner[r].job
        /\ runner'[r].rows = Without(file[runner[r].job].lines, {NoRow})
    BY <1>4, ParseFileMoves
  <2>3. Carries(r)'
    BY <1>m, <2>2 DEF Carries, Without
  <2> QED
    BY <1>0, <2>1, <2>3
<1>5. ASSUME ReadFails(r) \/ CopyFails(r) PROVE MergeInv'
  <2>1. Fails("read") \/ Fails("copy")
    BY <1>5 DEF ReadFails, CopyFails
  <2>2. /\ Fails("read") => count'["read"] = count["read"] + 1
        /\ Fails("copy") => count'["copy"] = count["copy"] + 1
    BY <1>n, FaultsAreCounted DEF Faults
  <2>3. count["read"] \in Nat /\ count["copy"] \in Nat
    BY <1>n DEF Events, Faults
  <2> QED
    BY <1>n, <2>1, <2>2, <2>3
<1>6. ASSUME DownloadFails(r) \/ StatementFails(r) PROVE MergeInv'
  <2>1. Kept
    BY <1>6, <1>t DEF DownloadFails, StatementFails
  <2>2. runner'[r].pc = "fail"
    BY <1>6, GotoMoves DEF DownloadFails, StatementFails, At, Stages, Unstarted
  <2> QED
    BY <1>0, <2>1, <2>2, CarriesNothing
<1>7. ASSUME WriteStaging(r) PROVE MergeInv'
  <2>1. Kept
    BY <1>7, <1>t, ReportIsWritten DEF WriteStaging, Stati
  <2>2. /\ runner'[r].pc = IF runner[r].rows = {} THEN "merging" ELSE "copy"
        /\ runner'[r].job = runner[r].job /\ runner'[r].rows = runner[r].rows
    BY <1>7, WriteStagingMoves
  <2>3. runner[r].rows = Without(file[runner[r].job].lines, {NoRow})
    BY <1>7, <1>c DEF WriteStaging, At, Carries
  <2>4. Carries(r)'
    BY <1>m, <2>2, <2>3 DEF Carries, Without
  <2> QED
    BY <1>0, <2>1, <2>4
<1>8. ASSUME BulkCopyStaging(r) PROVE MergeInv'
  <2>1. Kept
    BY <1>8, <1>t DEF BulkCopyStaging
  <2>2. /\ runner'[r].pc = "merging"
        /\ runner'[r].job = runner[r].job /\ runner'[r].rows = runner[r].rows
    BY <1>8, GotoMoves DEF BulkCopyStaging, At, Stages, Unstarted
  <2>3. runner[r].rows = Without(file[runner[r].job].lines, {NoRow})
    BY <1>8, <1>c DEF BulkCopyStaging, At, Carries
  <2>4. {r} \X runner[r].rows \subseteq staged'[runner[r].job]
    BY <1>8, <1>t DEF BulkCopyStaging
  <2>5. Carries(r)'
    BY <1>m, <2>2, <2>3, <2>4 DEF Carries, Without
  <2> QED
    BY <1>0, <2>1, <2>5
<1>9. ASSUME CleanupStaging(r) PROVE MergeInv'
  <2>1. runner[r].pc = "cleanup" /\ Merged(j)
    BY <1>9, <1>c, <1>p DEF CleanupStaging, Carries
  <2>2. Kept
    BY <1>9, <1>t, <1>p, <2>1 DEF CleanupStaging
  <2>3. runner'[r].pc \in {"fail", "fetch"}
    BY <1>9, CleanupMoves
  <2> QED
    BY <1>0, <2>2, <2>3, CarriesNothing
<1>10. ASSUME CleanupFails(r) PROVE MergeInv'
  <2>1. Kept
    BY <1>10, <1>t DEF CleanupFails
  <2>2. runner'[r].pc = "fetch"
    BY <1>10, StopMoves DEF CleanupFails, Unstarted
  <2> QED
    BY <1>0, <2>1, <2>2, CarriesNothing
<1>11. ASSUME WriteMerging(r) PROVE MergeInv'
  <2>1. Kept
    BY <1>11, <1>t, ReportIsWritten DEF WriteMerging, Stati
  <2>2. /\ runner'[r].pc = "merge"
        /\ runner'[r].job = runner[r].job /\ runner'[r].rows = runner[r].rows
    BY <1>11, GotoMoves DEF WriteMerging, At, Stages, Unstarted
  <2>3. /\ runner[r].rows = Without(file[j].lines, {NoRow})
        /\ {r} \X runner[r].rows \subseteq staged[j] \/ Merged(j)
    BY <1>11, <1>c, <1>p DEF WriteMerging, At, Carries
  <2>4. {r} \X runner[r].rows \subseteq staged'[j] \/ Merged(j)'
    BY <1>11, <1>k, <2>3 DEF WriteMerging
  <2>5. runner'[r].job = j
    BY <1>p, <2>2
  <2>6. Carries(r)'
    BY <1>m, <2>2, <2>3, <2>4, <2>5 DEF Carries, Without
  <2> QED
    BY <1>0, <2>1, <2>6
<1>12. ASSUME MergeStagingToVoters(r), OncePerVoter(j) PROVE MergeInv'
  <2>1. Kept
    BY <1>12, <1>t DEF MergeStagingToVoters
  <2>2. runner'[r].pc = "count"
    BY <1>12, <1>p, GotoMoves DEF MergeStagingToVoters, At, Stages, Unstarted
  <2>3. Merged(runner[r].job)'
    BY <1>12, <1>c, <1>p, MergeMerges
  <2>4. Carries(r)'
    BY <2>2, <2>3 DEF Carries
  <2> QED
    BY <1>0, <2>1, <2>4
<1>13. ASSUME MergeStagingToVoters(r), ~OncePerVoter(j) PROVE MergeInv'
  <2>1. Kept
    BY <1>13, <1>t DEF MergeStagingToVoters
  <2>2. runner'[r].pc = "fail"
    BY <1>13, <1>p, GotoMoves DEF MergeStagingToVoters, At, Stages, Unstarted
  <2> QED
    BY <1>0, <2>1, <2>2, CarriesNothing
<1>14. ASSUME CountStagingRows(r) PROVE MergeInv'
  <2>1. Kept
    BY <1>14, <1>t DEF CountStagingRows
  <2>2. runner'[r].pc = "complete" /\ runner'[r].job = j
    BY <1>14, <1>p, CountMoves
  <2>3. Merged(j)
    BY <1>14, <1>c, <1>p DEF CountStagingRows, At, Carries
  <2>4. Carries(r)'
    BY <1>k, <2>2, <2>3 DEF Carries
  <2> QED
    BY <1>0, <2>1, <2>4
<1>15. ASSUME Complete(r) PROVE MergeInv'
  <2>1. Merged(j)
    BY <1>15, <1>c, <1>p DEF Complete, At, Carries
  <2>2. \A i \in Jobs \ {j} : job'[i] = job[i]
    BY <1>15, <1>t, <1>p, ReportIsWritten DEF Complete, Stati
  <2>3. Kept
    BY <1>15, <1>t, <2>1, <2>2 DEF Complete
  <2>4. runner'[r].pc = "cleanup" /\ runner'[r].job = j
    BY <1>15, <1>p, GotoMoves DEF Complete, At, Stages, Unstarted
  <2>5. Carries(r)'
    BY <1>k, <2>1, <2>4 DEF Carries
  <2> QED
    BY <1>0, <2>3, <2>5
<1> QED
  BY <1>1, <1>2, <1>3, <1>4, <1>5, <1>6, <1>7, <1>8, <1>9, <1>10, <1>11, <1>12, <1>13, <1>14,
     <1>15 DEF Import

LEMMA MergeStep == TypeInv /\ MergeInv /\ [Next]_vars => MergeInv'
<1> SUFFICES ASSUME TypeInv, MergeInv, [Next]_vars, Unbroken' PROVE MergeInv'
  BY DEF MergeInv
<1>t. /\ job \in [Jobs -> JobType] /\ file \in [Jobs -> Files \cup {NoFile}]
      /\ runner \in [Runners -> RunnerType]
  BY TypeParts DEF TypeInv
<1>u. Unbroken
  BY WasUnbroken
<1>m. /\ \A j \in Jobs : job[j].status = "complete" => Merged(j)
      /\ \A r \in Runners : Carries(r)
  BY <1>u DEF MergeInv
<1>1. ASSUME NEW j \in Jobs, NEW f \in Files, StartImport(j, f) PROVE MergeInv'
  <2>1. /\ \A i \in Jobs \ {j} : file'[i] = file[i] /\ job'[i] = job[i]
        /\ job'[j].status = "pending"
        /\ place' = place /\ runner' = runner /\ staged' = staged
    BY <1>1, <1>t DEF StartImport, JobType
  <2>2. \A i \in Jobs \ {j} : Merged(i)' <=> Merged(i)
    BY <2>1 DEF Merged, ValidKeys, Without
  <2>3. ASSUME NEW r \in Runners PROVE Carries(r)'
    <3>1. runner[r].job # j
      BY <1>1, HeldJobs, ImportAssumption DEF StartImport, TypeInv, JobsHeld
    <3>2. runner[r].pc \notin Unstarted => runner[r].job \in Jobs \ {j}
      BY <3>1, HeldJobs
    <3>3. PICK i : i = runner[r].job
      OBVIOUS
    <3>4. runner'[r] = runner[r] /\ runner'[r].job = i /\ Carries(r)
      BY <1>m, <2>1, <3>3
    <3>5. CASE runner[r].pc \in Unstarted
      BY <3>4, <3>5 DEF Carries, Unstarted
    <3>6. CASE runner[r].pc \notin Unstarted
      <4>1. i \in Jobs \ {j} /\ (Merged(i)' <=> Merged(i)) /\ file'[i] = file[i]
        BY <2>1, <2>2, <3>2, <3>3, <3>6
      <4> QED
        BY <2>1, <3>3, <3>4, <4>1 DEF Carries, Without
    <3> QED
      BY <3>5, <3>6
  <2>4. \A i \in Jobs : job'[i].status = "complete" => Merged(i)'
    BY <1>m, <2>1, <2>2
  <2> QED
    BY <2>3, <2>4 DEF MergeInv
<1>2. ASSUME NEW r \in Runners, NEW j \in Jobs, ConfirmUpload(r, j) PROVE MergeInv'
  <2>1. /\ file' = file /\ job' = job /\ place' = place /\ staged' = staged
        /\ runner'[r].pc = "accepted"
        /\ \A q \in Runners \ {r} : runner'[q] = runner[q]
    BY <1>2, <1>t DEF ConfirmUpload, Idle
  <2>2. \A q \in Runners : Carries(q)'
    BY <1>m, <2>1 DEF Carries, Merged, ValidKeys, Without
  <2>3. \A i \in Jobs : job'[i].status = "complete" => Merged(i)'
    BY <1>m, <2>1 DEF Merged, ValidKeys, Without
  <2> QED
    BY <2>2, <2>3 DEF MergeInv
<1>3. ASSUME NEW r \in Runners, Import(r) PROVE MergeInv'
  BY <1>3, <1>u, ImportMerges
<1>4. ASSUME NEW r \in Runners, Geocode(r) PROVE MergeInv'
  <2>1. /\ Moves(r) /\ runner'[r].job = NoJob
        /\ file' = file /\ job' = job /\ staged' = staged
        /\ \A k \in Keys : place[k] # "none" => place'[k] # "none"
    BY <1>4, GeocodeMoves
  <2>2. Carries(r)'
    BY <2>1, CarriesNothing DEF Moves, Unstarted
  <2>3. /\ \A j \in Jobs : staged[j] \subseteq staged'[j] \/ Merged(j)
        /\ \A j \in Jobs : job'[j].status = "complete" => job[j].status = "complete" \/ Merged(j)
    BY <2>1
  <2> QED
    BY <1>u, <2>1, <2>2, <2>3, MergeKept
<1>5. ASSUME file' = file, job' = job, place' = place, staged' = staged,
             runner' = runner \/ runner' = [r \in Runners |-> Idle]
      PROVE  MergeInv'
  <2>1. \A q \in Runners : Carries(q)'
    <3>1. CASE runner' = runner
      BY <1>5, <1>m, <3>1 DEF Carries, Merged, ValidKeys, Without
    <3>2. CASE runner' = [r \in Runners |-> Idle]
      BY <3>2 DEF Carries, Idle
    <3> QED
      BY <1>5, <3>1, <3>2
  <2>2. \A i \in Jobs : job'[i].status = "complete" => Merged(i)'
    BY <1>5, <1>m DEF Merged, ValidKeys, Without
  <2> QED
    BY <2>1, <2>2 DEF MergeInv
<1> QED
  BY <1>1, <1>2, <1>3, <1>4, <1>5, NextSplit DEF Crash, vars

(* A complete job has every valid line of its file in the voters.          *)
THEOREM CompleteIsMerged == Spec => []CompleteMeansMerged
<1>1. Init => TypeInv /\ MergeInv
  BY TypeInit, MergeInit
<1>2. TypeInv /\ MergeInv /\ [Next]_vars => (TypeInv /\ MergeInv)'
  BY TypeStep, MergeStep
<1>3. MergeInv => CompleteMeansMerged
  BY DEF MergeInv, CompleteMeansMerged, Unbroken, Merged
<1> QED
  BY <1>1, <1>2, <1>3, PTL DEF Spec

-----------------------------------------------------------------------------
(* The report of a job confirmed once.                                     *)

LEMMA LedgerInit == Init => ReportInv
<1> SUFFICES ASSUME Init, NEW j \in Jobs PROVE Ledger(j)
  BY DEF ReportInv
<1>1. /\ confirmed[j] = 0 /\ staged[j] = {} /\ job[j].status = "none"
      /\ \A r \in Runners : runner[r].job = NoJob
  BY DEF Init, Report, Idle
<1> QED
  BY <1>1, ImportAssumption DEF Ledger, Works

(* A job that is neither confirmed nor reported on nor staged, and that no *)
(* goroutine takes up, keeps its ledger.                                   *)
LEMMA LedgerStays ==
  ASSUME NEW j \in Jobs, Ledger(j), confirmed'[j] = confirmed[j], staged'[j] = staged[j],
         job'[j].status = "complete" => job'[j] = job[j],
         \A q \in Runners : runner'[q] = runner[q] \/ ~Works(q, j)'
  PROVE  Ledger(j)'
<1>1. \A q \in Runners : Works(q, j)' => runner'[q] = runner[q] /\ Works(q, j)
  BY DEF Works
<1>2. AddsUp(j) => AddsUp(j)'
  BY DEF AddsUp
<1>3. ASSUME NEW q \in Runners, Works(q, j)', Keeps(q) PROVE Keeps(q)'
  <2>1. runner'[q] = runner[q] /\ runner[q].job = j
    BY <1>1, <1>3 DEF Works
  <2> QED
    BY <1>3, <2>1 DEF Keeps
<1> QED
  BY <1>1, <1>2, <1>3 DEF Ledger

(* A step of goroutine r that works on its job.                            *)
LEMMA LedgerKept ==
  ASSUME TypeInv, ReportInv, NEW r \in Runners, Moves(r), NEW j \in Jobs, Works(r, j),
         confirmed' = confirmed,
         \A i \in Jobs \ {j} : staged'[i] = staged[i] /\ job'[i] = job[i],
         confirmed[j] = 1 /\ AddsUp(j) /\ Keeps(r)
           => AddsUp(j)' /\ (Works(r, j)' => Keeps(r)')
  PROVE  ReportInv'
<1>1. ASSUME NEW i \in Jobs \ {j} PROVE Ledger(i)'
  <2>1. \A q \in Runners : runner'[q] = runner[q] \/ ~Works(q, i)'
    BY ImportAssumption DEF Moves, Works
  <2> QED
    BY <2>1, LedgerStays DEF ReportInv
<1>2. Ledger(j)'
  <2>1. Ledger(j)
    BY DEF ReportInv
  <2>2. confirmed[j] # 0
    BY <2>1 DEF Ledger
  <2>3. ASSUME confirmed[j] = 1
        PROVE  /\ AddsUp(j)'
               /\ \A q \in Runners : Works(q, j)' => q = r /\ Keeps(q)'
    <3>1. /\ AddsUp(j) /\ Keeps(r)
          /\ \A q \in Runners : Works(q, j) => q = r
      BY <2>1, <2>3 DEF Ledger
    <3>2. \A q \in Runners \ {r} : Works(q, j)' <=> Works(q, j)
      BY DEF Moves, Works
    <3> QED
      BY <2>3, <3>1, <3>2
  <2> QED
    BY <2>2, <2>3 DEF Ledger
<1> QED
  BY <1>1, <1>2 DEF ReportInv

(* At a place where nothing is said about the rows.                        *)
LEMMA KeepsNothing ==
  ASSUME NEW r \in Runners,
         runner'[r].pc \notin {"mapping", "download", "staging", "copy", "merging", "merge", "count",
                              "complete"}
  PROVE  Keeps(r)'
BY DEF Keeps

LEMMA ImportReports ==
  ASSUME TypeInv, ReportInv, NEW r \in Runners, Import(r)
  PROVE  ReportInv'
<1>t. /\ job \in [Jobs -> JobType] /\ staged \in [Jobs -> SUBSET (Runners \X Lines)]
      /\ runner \in [Runners -> RunnerType] /\ confirmed \in [Jobs -> Nat]
      /\ runner[r].job \in Jobs
  BY TypeParts, HeldJobs, ImportMoves DEF TypeInv
<1>m. Moves(r)
  BY ImportMoves
<1>p. PICK j : j = runner[r].job
  OBVIOUS
<1>j. j \in Jobs
  BY <1>p, <1>t
<1> DEFINE
      Others == /\ confirmed' = confirmed
                /\ \A i \in Jobs \ {j} : staged'[i] = staged[i] /\ job'[i] = job[i]
<1>0. ASSUME runner[r].pc # "accepted", Others,
             confirmed[j] = 1 /\ AddsUp(j) /\ Keeps(r)
               => AddsUp(j)' /\ (Works(r, j)' => Keeps(r)')
      PROVE  ReportInv'
  <2>1. Works(r, j)
    BY <1>0, <1>p DEF Works
  <2> QED
    BY <1>0, <1>m, <1>j, <2>1, LedgerKept
<1>a. job' = job => (AddsUp(j) => AddsUp(j)')
  BY DEF AddsUp
<1>1. ASSUME StartParsing(r) PROVE ReportInv'
  <2>1. /\ runner'[r].pc = "mapping" /\ runner'[r].job = j
        /\ runner[r].pc = "accepted"
    BY <1>1, <1>p, GotoMoves DEF StartParsing, At, Stages, Unstarted
  <2>2. /\ confirmed' = [confirmed EXCEPT ![j] = @ + 1] /\ staged' = staged
        /\ job' = [job EXCEPT ![j] = Report("parsing", 0, 0, 0, 0, 0)]
    BY <1>1, <1>p DEF StartParsing
  <2>3. ASSUME NEW i \in Jobs \ {j} PROVE Ledger(i)'
    <3>1. \A q \in Runners : runner'[q] = runner[q] \/ ~Works(q, i)'
      BY <1>m, <2>1 DEF Moves, Works
    <3>2. confirmed'[i] = confirmed[i] /\ staged'[i] = staged[i] /\ job'[i] = job[i]
      BY <1>t, <1>j, <2>2
    <3> QED
      BY <3>1, <3>2, LedgerStays DEF ReportInv
  <2>4. Ledger(j)'
    <3>1. Ledger(j)
      BY <1>j DEF ReportInv
    <3>2. confirmed'[j] = confirmed[j] + 1 /\ confirmed[j] \in Nat
      BY <1>t, <1>j, <2>2
    <3>3. job'[j].status = "parsing"
      BY <1>t, <1>j, <2>2 DEF Report
    <3>4. CASE confirmed[j] = 0
      <4>1. staged'[j] = {} /\ \A q \in Runners : ~Works(q, j)
        BY <2>2, <3>1, <3>4 DEF Ledger
      <4>2. \A q \in Runners : Works(q, j)' => q = r
        BY <1>m, <4>1 DEF Moves, Works
      <4>3. Keeps(r)'
        BY <2>1, <4>1 DEF Keeps
      <4> QED
        BY <3>2, <3>3, <3>4, <4>2, <4>3 DEF Ledger, AddsUp
    <3>5. CASE confirmed[j] # 0
      BY <3>2, <3>5 DEF Ledger
    <3> QED
      BY <3>4, <3>5
  <2> QED
    BY <2>3, <2>4 DEF ReportInv
<1>2. ASSUME RequestFails(r) PROVE ReportInv'
  <2>1. runner'[r].job = NoJob
    BY <1>2, IdleStops, StopMoves DEF RequestFails
  <2>2. \A i \in Jobs : \A q \in Runners : runner'[q] = runner[q] \/ ~Works(q, i)'
    BY <1>m, <2>1, ImportAssumption DEF Moves, Works
  <2>3. confirmed' = confirmed /\ staged' = staged /\ job' = job
    BY <1>2 DEF RequestFails
  <2> QED
    BY <2>2, <2>3, LedgerStays DEF ReportInv
<1>3. ASSUME ParseFieldMapping(r) PROVE ReportInv'
  <2>1. /\ runner[r].pc = "mapping" /\ Others /\ job' = job /\ staged' = staged
    BY <1>3 DEF ParseFieldMapping, At
  <2>2. \/ runner'[r].pc = "download" /\ runner'[r].job = j
        \/ runner'[r].pc = "idle"
    BY <1>3, <1>p, GotoMoves, IdleStops, StopMoves DEF ParseFieldMapping, At, Stages, Unstarted
  <2>3. Keeps(r) => Keeps(r)'
    BY <1>p, <2>1, <2>2 DEF Keeps
  <2> QED
    BY <1>0, <1>a, <2>1, <2>3
<1>4. ASSUME ParseFile(r) \/ ReadFails(r) PROVE ReportInv'
  <2>1. runner[r].pc = "download" /\ Others /\ job' = job /\ staged' = staged
    BY <1>4 DEF ParseFile, ReadFails, At
  <2>2. runner'[r].pc \in {"staging", "endless"} /\ runner'[r].job = j
    BY <1>4, <1>p, ParseFileMoves, ReadFailsMoves
  <2>3. Keeps(r) => Keeps(r)'
    BY <1>p, <2>1, <2>2 DEF Keeps
  <2> QED
    BY <1>0, <1>a, <2>1, <2>3
<1>5. ASSUME DownloadFails(r) \/ CopyFails(r) \/ StatementFails(r) PROVE ReportInv'
  <2>1. runner[r].pc # "accepted" /\ Others /\ job' = job
    BY <1>5 DEF DownloadFails, CopyFails, StatementFails, At
  <2>2. runner'[r].pc \in {"fail", "discard"}
    BY <1>5, GotoMoves DEF DownloadFails, CopyFails, StatementFails, At, Stages, Unstarted
  <2> QED
    BY <1>0, <1>a, <2>1, <2>2, KeepsNothing
<1>6. ASSUME FailJob(r) PROVE ReportInv'
  <2>1. /\ runner[r].pc # "accepted" /\ confirmed' = confirmed /\ staged' = staged
        /\ job' = [job EXCEPT ![j] = Report("failed", 0, 0, 0, 0, 0)]
    BY <1>6, <1>p DEF FailJob, At
  <2>2. runner'[r].pc = "idle"
    BY <1>6, IdleStops, StopMoves DEF FailJob
  <2>3. Others /\ job'[j].status = "failed"
    BY <1>t, <1>j, <2>1 DEF Report
  <2> QED
    BY <1>0, <2>1, <2>2, <2>3, KeepsNothing DEF AddsUp
<1>7. ASSUME FailJobFails(r) PROVE ReportInv'
  <2>1. runner[r].pc # "accepted" /\ Others /\ job' = job
    BY <1>7 DEF FailJobFails, At
  <2>2. runner'[r].pc = "idle"
    BY <1>7, IdleStops, StopMoves DEF FailJobFails
  <2> QED
    BY <1>0, <1>a, <2>1, <2>2, KeepsNothing
<1>8. ASSUME WriteStaging(r) PROVE ReportInv'
  <2>1. /\ runner[r].pc = "staging" /\ confirmed' = confirmed /\ staged' = staged
        /\ WriteReport(r, "staging")
    BY <1>8 DEF WriteStaging, At
  <2>2. Others /\ job'[j].status = "staging"
    BY <1>t, <1>p, <2>1, ReportIsWritten DEF Stati
  <2>3. /\ runner'[r].pc = IF runner[r].rows = {} THEN "merging" ELSE "copy"
        /\ runner'[r].job = j /\ runner'[r].rows = runner[r].rows
    BY <1>8, <1>p, WriteStagingMoves
  <2>4. Keeps(r) => Keeps(r)'
    BY <1>p, <2>1, <2>3 DEF Keeps
  <2> QED
    BY <1>0, <2>1, <2>2, <2>4 DEF AddsUp
<1>9. ASSUME BulkCopyStaging(r) PROVE ReportInv'
  <2>1. /\ runner[r].pc = "copy" /\ confirmed' = confirmed /\ job' = job
        /\ staged' = [staged EXCEPT ![j] = @ \cup ({r} \X runner[r].rows)]
    BY <1>9, <1>p DEF BulkCopyStaging, At
  <2>2. Others
    BY <1>t, <1>j, <2>1
  <2>3. /\ runner'[r].pc = "merging"
        /\ runner'[r].job = j /\ runner'[r].rows = runner[r].rows
    BY <1>9, <1>p, GotoMoves DEF BulkCopyStaging, At, Stages, Unstarted
  <2>4. ASSUME Keeps(r) PROVE Keeps(r)'
    <3>1. staged[j] = {}
      BY <1>p, <2>1, <2>4 DEF Keeps
    <3>2. staged'[j] = {r} \X runner[r].rows
      BY <1>t, <1>j, <2>1, <3>1
    <3> QED
      BY <2>3, <3>2 DEF Keeps
  <2> QED
    BY <1>0, <1>a, <2>1, <2>2, <2>4
<1>10. ASSUME CleanupStaging(r) PROVE ReportInv'
  <2>1. /\ runner[r].pc # "accepted" /\ confirmed' = confirmed /\ job' = job
        /\ staged' = [staged EXCEPT ![j] = {}]
    BY <1>10, <1>p DEF CleanupStaging
  <2>2. Others
    BY <1>t, <1>j, <2>1
  <2>3. runner'[r].pc \in {"fail", "fetch"}
    BY <1>10, CleanupMoves
  <2> QED
    BY <1>0, <1>a, <2>1, <2>2, <2>3, KeepsNothing
<1>11. ASSUME CleanupFails(r) PROVE ReportInv'
  <2>1. runner[r].pc # "accepted" /\ Others /\ job' = job
    BY <1>11 DEF CleanupFails, At
  <2>2. runner'[r].pc = "fetch"
    BY <1>11, StopMoves DEF CleanupFails, Unstarted
  <2> QED
    BY <1>0, <1>a, <2>1, <2>2, KeepsNothing
<1>12. ASSUME WriteMerging(r) PROVE ReportInv'
  <2>1. /\ runner[r].pc = "merging" /\ confirmed' = confirmed /\ staged' = staged
        /\ WriteReport(r, "merging")
    BY <1>12 DEF WriteMerging, At
  <2>2. Others /\ job'[j].status = "merging"
    BY <1>t, <1>p, <2>1, ReportIsWritten DEF Stati
  <2>3. /\ runner'[r].pc = "merge"
        /\ runner'[r].job = j /\ runner'[r].rows = runner[r].rows
    BY <1>12, <1>p, GotoMoves DEF WriteMerging, At, Stages, Unstarted
  <2>4. Keeps(r) => Keeps(r)'
    BY <1>p, <2>1, <2>3 DEF Keeps
  <2> QED
    BY <1>0, <2>1, <2>2, <2>4 DEF AddsUp
<1>13. ASSUME MergeStagingToVoters(r) PROVE ReportInv'
  <2>1. runner[r].pc = "merge" /\ Others /\ job' = job /\ staged' = staged
    BY <1>13 DEF MergeStagingToVoters, At
  <2>2. /\ runner'[r].pc \in {"count", "fail"}
        /\ runner'[r].job = j /\ runner'[r].rows = runner[r].rows
    BY <1>13, <1>p, GotoMoves DEF MergeStagingToVoters, At, Stages, Unstarted
  <2>3. Keeps(r) => Keeps(r)'
    BY <1>p, <2>1, <2>2 DEF Keeps
  <2> QED
    BY <1>0, <1>a, <2>1, <2>3
<1>14. ASSUME CountStagingRows(r) PROVE ReportInv'
  <2>1. runner[r].pc = "count" /\ Others /\ job' = job /\ staged' = staged
    BY <1>14 DEF CountStagingRows, At
  <2>2. /\ runner'[r].pc = "complete" /\ runner'[r].job = j
        /\ runner'[r].rows = runner[r].rows
        /\ runner'[r].merged + runner'[r].skipped = Cardinality(staged[j])
    BY <1>14, <1>p, CountMoves
  <2>3. Cardinality({r} \X runner[r].rows) = Cardinality(runner[r].rows)
    BY <1>t, CopiesFinite DEF RunnerType
  <2>4. Keeps(r) => Keeps(r)'
    BY <1>p, <2>1, <2>2, <2>3 DEF Keeps
  <2> QED
    BY <1>0, <1>a, <2>1, <2>4
<1>15. ASSUME Complete(r) PROVE ReportInv'
  <2>1. /\ runner[r].pc = "complete" /\ confirmed' = confirmed /\ staged' = staged
        /\ WriteReport(r, "complete")
    BY <1>15 DEF Complete, At
  <2>2. /\ Others
        /\ job'[j].total = Cardinality(runner[r].rows)
        /\ job'[j].merged = runner[r].merged /\ job'[j].skipped = runner[r].skipped
    BY <1>t, <1>p, <2>1, ReportIsWritten DEF Stati
  <2>3. runner'[r].pc = "cleanup"
    BY <1>15, GotoMoves DEF Complete, At, Stages, Unstarted
  <2>4. Keeps(r) => AddsUp(j)'
    BY <2>1, <2>2 DEF Keeps, AddsUp
  <2> QED
    BY <1>0, <2>1, <2>2, <2>3, <2>4, KeepsNothing
<1> QED
  BY <1>1, <1>2, <1>3, <1>4, <1>5, <1>6, <1>7, <1>8, <1>9, <1>10, <1>11, <1>12, <1>13, <1>14,
     <1>15 DEF Import

LEMMA ReportStep == TypeInv /\ ReportInv /\ [Next]_vars => ReportInv'
<1> SUFFICES ASSUME TypeInv, ReportInv, [Next]_vars PROVE ReportInv'
  OBVIOUS
<1>t. /\ job \in [Jobs -> JobType] /\ runner \in [Runners -> RunnerType] /\ NoJob \notin Jobs
  BY TypeParts, ImportAssumption DEF TypeInv
<1>0. ASSUME confirmed' = confirmed, staged' = staged,
             \A i \in Jobs : job'[i].status = "complete" => job'[i] = job[i],
             \A i \in Jobs : \A q \in Runners : runner'[q] = runner[q] \/ ~Works(q, i)'
      PROVE  ReportInv'
  BY <1>0, LedgerStays DEF ReportInv
<1>1. ASSUME NEW j \in Jobs, NEW f \in Files, StartImport(j, f) PROVE ReportInv'
  <2>1. \A i \in Jobs : job'[i].status = "complete" => job'[i] = job[i]
    BY <1>1, <1>t DEF StartImport, JobType
  <2> QED
    BY <1>0, <1>1, <2>1 DEF StartImport
<1>2. ASSUME NEW r \in Runners, NEW j \in Jobs, ConfirmUpload(r, j) PROVE ReportInv'
  <2>1. \A q \in Runners : runner'[q] = runner[q] \/ runner'[q].pc = "accepted"
    BY <1>2, <1>t DEF ConfirmUpload, Idle
  <2> QED
    BY <1>0, <1>2, <2>1 DEF ConfirmUpload, Works
<1>3. ASSUME NEW r \in Runners, Import(r) PROVE ReportInv'
  BY <1>3, ImportReports
<1>4. ASSUME NEW r \in Runners, Geocode(r) PROVE ReportInv'
  <2>1. /\ Moves(r) /\ runner'[r].job = NoJob
        /\ job' = job /\ staged' = staged /\ confirmed' = confirmed
    BY <1>4, GeocodeMoves
  <2> QED
    BY <1>0, <1>t, <2>1 DEF Moves, Works
<1>5. CASE Crash
  BY <1>0, <1>t, <1>5 DEF Crash, Idle, Works
<1>6. CASE UNCHANGED vars
  BY <1>0, <1>6 DEF vars
<1> QED
  BY <1>1, <1>2, <1>3, <1>4, <1>5, <1>6, NextSplit

(* The report of a job confirmed once tells what became of every row.      *)
THEOREM ReportIsComplete == Spec => []ReportAddsUp
<1>1. Init => TypeInv /\ ReportInv
  BY TypeInit, LedgerInit
<1>2. TypeInv /\ ReportInv /\ [Next]_vars => (TypeInv /\ ReportInv)'
  BY TypeStep, ReportStep
<1>3. ReportInv => ReportAddsUp
  BY DEF ReportInv, Ledger, AddsUp, ReportAddsUp
<1> QED
  BY <1>1, <1>2, <1>3, PTL DEF Spec
=============================================================================
