------------------------------ MODULE PullSync ------------------------------
(***************************************************************************)
(* Pull synchronisation: a navigator's device copies the rows of its turfs *)
(* from the server.  Each feed (voters, contact logs) has one saved cursor *)
(* per device, the stamp of the last row pulled; a pull asks for rows with *)
(* a later stamp, a page at a time.  Before it pulls, a cycle compares the *)
(* device's turfs with the server's manifest, drops those it lost and adds *)
(* those it gained.  A contact log names its turf; a voter lies in every   *)
(* turf whose boundary contains it: none, one or several that overlap.     *)
(* Every step of a cycle is the code between two awaits.                   *)
(***************************************************************************)
EXTENDS Integers, Sequences, FiniteSets

CONSTANTS
  Engines,      (* isolates with a sync engine on the device's database    *)
  Turfs,
  Voters, Logs, (* the rows of the two feeds                               *)
  Home,         (* Home[r]: the turfs row r lies in at first               *)
  Undated,      (* voters imported without a year of birth                 *)
  StartTurfs,   (* the navigator's turfs at first                          *)
  PageSize,     (* batch_size, 500                                         *)
  MaxTime,      (* bound: transactions of the server                       *)
  MaxLate,      (* bound: commits after a later stamp became visible       *)
  MaxTies,      (* bound: statements that stamp several rows               *)
  MaxGains,     (* bound: turfs given to the navigator                     *)
  MaxLosses,    (* bound: turfs taken from the navigator                   *)
  MaxRedrawn,   (* bound: boundaries drawn anew                            *)
  MaxFails,     (* bound: calls that fail                                  *)
  MaxKills      (* bound: isolates killed                                  *)

Rows == Voters \cup Logs

ASSUME PullAssumption ==
  /\ Voters \cap Logs = {} /\ IsFiniteSet(Rows)
  /\ Home \in [Rows -> SUBSET Turfs]
  /\ Undated \subseteq Voters
  /\ StartTurfs \subseteq Turfs
  /\ PageSize \in Nat \ {0}
  /\ {MaxTime, MaxLate, MaxTies, MaxGains, MaxLosses, MaxRedrawn, MaxFails,
      MaxKills} \subseteq Nat

VARIABLES
  now,        (* the stamp of the latest transaction                       *)
  open,       (* transactions that have their stamp and have not committed *)
  stamp,      (* stamp[r]: updated_at or created_at of r, 0 while absent   *)
  inside,     (* inside[r]: the turfs row r lies in                        *)
  assigned,   (* turf_assignments of the navigator                         *)
  localTurfs, (* the device's table of the same name                       *)
  device,     (* device[r]: the stamp of the copy of r, 0 without one      *)
  label,      (* label[r]: the turf the copy names, {} without one         *)
  cursor,     (* cursor[f]: the saved cursor of feed f                     *)
  engine,     (* engine[e]: where engine e is in its cycle                 *)
  count       (* how often each bounded event has happened                 *)

serverVars == <<now, open, stamp, inside, assigned>>
deviceVars == <<localTurfs, device, label, cursor>>
vars == <<serverVars, deviceVars, engine, count>>

Feeds == <<"voters", "contact_logs">>
FeedOf(r) == IF r \in Voters THEN "voters" ELSE "contact_logs"
Times == 0 .. MaxTime
Page == UNION {[S -> Times] : S \in SUBSET Rows}
Names == UNION {[S -> Turfs] : S \in SUBSET Rows}
Nothing == [r \in {} |-> 0]

EngineState ==
  [pc : {"idle", "compare", "reassign", "turfs", "cursor", "ask", "answer", "save"},
   manifest : SUBSET Turfs, removed : SUBSET Turfs, dropping : SUBSET Turfs,
   added : SUBSET Turfs,
   feed : 1 .. Len(Feeds), since : Times, page : Page, names : Names, more : BOOLEAN]

Idle == [pc |-> "idle", manifest |-> {}, removed |-> {}, dropping |-> {}, added |-> {},
         feed |-> 1, since |-> 0, page |-> Nothing, names |-> Nothing, more |-> FALSE]

Events == {"late", "ties", "gains", "losses", "redrawn", "fails", "kills"}
Limit(event) == CASE event = "late"    -> MaxLate
                  [] event = "ties"    -> MaxTies
                  [] event = "gains"   -> MaxGains
                  [] event = "losses"  -> MaxLosses
                  [] event = "redrawn" -> MaxRedrawn
                  [] event = "fails"   -> MaxFails
                  [] event = "kills"   -> MaxKills

Counted(event) == /\ count[event] < Limit(event)
                  /\ count' = [count EXCEPT ![event] = @ + 1]

Init ==
  /\ now = 0
  /\ open = {}
  /\ stamp = [r \in Rows |-> 0]
  /\ inside = Home
  /\ assigned = StartTurfs
  /\ localTurfs = {}
  /\ device = [r \in Rows |-> 0]
  /\ label = [r \in Rows |-> {}]
  /\ cursor = [f \in {Feeds[i] : i \in DOMAIN Feeds} |-> 0]
  /\ engine = [e \in Engines |-> Idle]
  /\ count = [event \in Events |-> 0]

-----------------------------------------------------------------------------
(* The server.                                                             *)

(* A statement that writes voters takes the start of its transaction as    *)
(* their stamp (an import or a geocoding), a colleague's contact log the   *)
(* time at which its processor runs, before the INSERT: the time the       *)
(* client sends has no zone, which the processor cannot parse.             *)
Begin(S) ==
  /\ S # {} /\ (S \subseteq Voters \/ \E l \in Logs : S = {l} /\ stamp[l] = 0)
  /\ \A t \in open : S \cap t.rows = {}
  /\ now < MaxTime
  /\ now' = now + 1
  /\ open' = open \cup {[rows |-> S, stamp |-> now + 1]}
  /\ IF Cardinality(S) > 1 THEN Counted("ties") ELSE UNCHANGED count
  /\ UNCHANGED <<stamp, inside, assigned, deviceVars, engine>>

(* The rows become visible.                                                *)
Commit(t) ==
  /\ t \in open
  /\ open' = open \ {t}
  /\ stamp' = [r \in Rows |-> IF r \in t.rows THEN t.stamp ELSE stamp[r]]
  /\ IF \E r \in Rows : stamp[r] > t.stamp THEN Counted("late") ELSE UNCHANGED count
  /\ UNCHANGED <<now, inside, assigned, deviceVars, engine>>

AssignTurf(t) ==
  /\ t \notin assigned
  /\ Counted("gains")
  /\ assigned' = assigned \cup {t}
  /\ UNCHANGED <<now, open, stamp, inside, deviceVars, engine>>

UnassignTurf(t) ==
  /\ t \in assigned
  /\ Counted("losses")
  /\ assigned' = assigned \ {t}
  /\ UNCHANGED <<now, open, stamp, inside, deviceVars, engine>>

(* Turf t gets a new boundary; the voters keep their stamps.               *)
UpdateTurfBoundary(t) ==
  /\ Counted("redrawn")
  /\ \E S \in SUBSET Voters :
       inside' = [r \in Rows |-> IF r \in Logs THEN inside[r]
                                ELSE (inside[r] \ {t}) \cup (IF r \in S THEN {t} ELSE {})]
  /\ inside' # inside
  /\ UNCHANGED <<now, open, stamp, assigned, deviceVars, engine>>

(* What a pull asks for, a row once for each of its turfs: the server      *)
(* scopes a navigator's pull to the turfs assigned NOW and ignores those   *)
(* the client sends.                                                       *)
Behind(f, since) ==
  {p \in Rows \X assigned :
     FeedOf(p[1]) = f /\ p[2] \in inside[p[1]] /\ stamp[p[1]] > since}

(* Mutant: no ORDER BY.                                                    *)
AnyOf(found, n) ==
  {S \in SUBSET found : Cardinality(S) = n \/ (S = found /\ Cardinality(S) < n)}

(* ORDER BY stamp LIMIT n: equal stamps in any order.                      *)
First(found, n) ==
  {S \in SUBSET found :
     /\ Cardinality(S) = n \/ (S = found /\ Cardinality(S) < n)
     /\ \A a \in S, b \in found \ S : stamp[a[1]] <= stamp[b[1]]}

-----------------------------------------------------------------------------
(* Turf reassignment.                                                      *)

GetManifest(e) ==
  /\ engine[e].pc = "idle"
  /\ engine' = [engine EXCEPT ![e] = [Idle EXCEPT !.pc = "compare", !.manifest = assigned]]
  /\ UNCHANGED <<serverVars, deviceVars, count>>

(* The cycle goes on with the turfs it knows.                              *)
ManifestFails(e) ==
  /\ engine[e].pc = "idle"
  /\ Counted("fails")
  /\ engine' = [engine EXCEPT ![e] = [Idle EXCEPT !.pc = "turfs"]]
  /\ UNCHANGED <<serverVars, deviceVars>>

CompareTurfs(e) ==
  LET manifest == engine[e].manifest
  IN  /\ engine[e].pc = "compare"
      /\ engine' = [engine EXCEPT ![e] = [Idle EXCEPT !.pc = "reassign",
                                                      !.removed = localTurfs \ manifest,
                                                      !.added = manifest \ localTurfs]]
      /\ UNCHANGED <<serverVars, deviceVars, count>>

(* Mutant: the turf goes, its voters stay.                                 *)
KeepVoters(e) ==
  \E t \in engine[e].removed :
    /\ engine[e].pc = "reassign" /\ engine[e].dropping = {}
    /\ engine' = [engine EXCEPT ![e].removed = @ \ {t}, ![e].dropping = {t}]
    /\ UNCHANGED <<serverVars, deviceVars, count>>

(* A lost turf, after the push of its operations: the voters that name it  *)
(* are deleted, its contact logs stay.                                     *)
DeleteVotersForTurf(e) ==
  \E t \in engine[e].removed :
    /\ engine[e].pc = "reassign" /\ engine[e].dropping = {}
    /\ device' = [r \in Rows |-> IF r \in Voters /\ t \in label[r] THEN 0 ELSE device[r]]
    /\ label' = [r \in Rows |-> IF r \in Voters /\ t \in label[r] THEN {} ELSE label[r]]
    /\ engine' = [engine EXCEPT ![e].removed = @ \ {t}, ![e].dropping = {t}]
    /\ UNCHANGED <<serverVars, localTurfs, cursor, count>>

(* Then its assignment; the cursors stay as they are.                      *)
DeleteAssignment(e) ==
  /\ engine[e].pc = "reassign" /\ engine[e].dropping # {}
  /\ localTurfs' = localTurfs \ engine[e].dropping
  /\ engine' = [engine EXCEPT ![e].dropping = {}]
  /\ UNCHANGED <<serverVars, device, label, cursor, count>>

(* A gained turf.  The INSERT of one that another isolate has inserted     *)
(* throws, which ends the reassignment.                                    *)
InsertAssignment(e) ==
  \E t \in engine[e].added :
    /\ engine[e].pc = "reassign"
    /\ engine[e].removed \cup engine[e].dropping = {}
    /\ localTurfs' = localTurfs \cup {t}
    /\ engine' = [engine EXCEPT ![e].added = IF t \in localTurfs THEN {} ELSE @ \ {t}]
    /\ UNCHANGED <<serverVars, device, label, cursor, count>>

-----------------------------------------------------------------------------
(* Pulling.                                                                *)

(* The turf-scoped feeds are pulled only by a device that has a turf.      *)
GetTurfIds(e) ==
  /\ \/ engine[e].pc = "turfs"
     \/ /\ engine[e].pc = "reassign"
        /\ engine[e].removed \cup engine[e].dropping \cup engine[e].added = {}
  /\ engine' = [engine EXCEPT ![e] = IF localTurfs = {} THEN Idle
                                     ELSE [Idle EXCEPT !.pc = "cursor"]]
  /\ UNCHANGED <<serverVars, deviceVars, count>>

GetCursor(e) ==
  /\ engine[e].pc = "cursor"
  /\ engine' = [engine EXCEPT ![e].pc = "ask", ![e].since = cursor[Feeds[engine[e].feed]]]
  /\ UNCHANGED <<serverVars, deviceVars, count>>

(* Mutant: the cycle ends with its first feed.                             *)
EndCycle(s) == Idle

(* Mutant: the last feed is not noticed.                                   *)
FeedAfter(s) == [Idle EXCEPT !.pc = "cursor", !.feed = s.feed + 1]

(* The next feed of the cycle, or its end.                                 *)
NextFeed(s) ==
  IF s.feed = Len(Feeds) THEN Idle
  ELSE [Idle EXCEPT !.pc = "cursor", !.feed = s.feed + 1]

RowsOf(S) == {p[1] : p \in S}

(* The server runs the query for one row more than a page holds and reads  *)
(* what it fetched; the answer is on its way.  Of a voter that lies in two *)
(* turfs of the page the last one stays.                                   *)
PullPage(e) ==
  LET f == Feeds[engine[e].feed]
      since == engine[e].since
  IN  /\ engine[e].pc = "ask"
      /\ \E fetched \in First(Behind(f, since), PageSize + 1) :
           /\ RowsOf(fetched) \cap Undated = {}
           /\ \E S \in First(fetched, PageSize) : \E names \in [RowsOf(S) -> Turfs] :
                /\ \A r \in RowsOf(S) : <<r, names[r]>> \in S
                /\ engine' = [engine EXCEPT ![e] =
                     [@ EXCEPT !.pc = "answer", !.page = [r \in RowsOf(S) |-> stamp[r]],
                               !.names = names, !.more = S # fetched]]
      /\ UNCHANGED <<serverVars, deviceVars, count>>

(* A row without a year of birth cannot be read: this answer and every     *)
(* later one to the same question is an error.                             *)
ScanFails(e) ==
  /\ engine[e].pc = "ask"
  /\ \E fetched \in First(Behind(Feeds[engine[e].feed], engine[e].since), PageSize + 1) :
       RowsOf(fetched) \cap Undated # {}
  /\ engine' = [engine EXCEPT ![e] = Idle]
  /\ UNCHANGED <<serverVars, deviceVars, count>>

(* A failed call ends the cycle.                                           *)
PullFails(e) ==
  /\ engine[e].pc = "ask"
  /\ Counted("fails")
  /\ engine' = [engine EXCEPT ![e] = Idle]
  /\ UNCHANGED <<serverVars, deviceVars>>

EmptyPage(e) ==
  /\ engine[e].pc = "answer" /\ DOMAIN engine[e].page = {}
  /\ engine' = [engine EXCEPT ![e] = NextFeed(@)]
  /\ UNCHANGED <<serverVars, deviceVars, count>>

(* The rows of the answer replace the device's copies.                     *)
UpsertPage(e) ==
  LET page == engine[e].page
  IN  /\ engine[e].pc = "answer" /\ DOMAIN page # {}
      /\ device' = [r \in Rows |-> IF r \in DOMAIN page THEN page[r] ELSE device[r]]
      /\ label' = [r \in Rows |-> IF r \in DOMAIN page THEN {engine[e].names[r]} ELSE label[r]]
      /\ engine' = [engine EXCEPT ![e].pc = "save"]
      /\ UNCHANGED <<serverVars, localTurfs, cursor, count>>

(* next_cursor: the stamp of the last row of the page.                     *)
NextCursor(page) == CHOOSE s \in Times : /\ \E r \in DOMAIN page : page[r] = s
                                         /\ \A r \in DOMAIN page : page[r] <= s

UpdateCursor(e) ==
  LET feed == engine[e].feed
      next == NextCursor(engine[e].page)
  IN  /\ engine[e].pc = "save"
      /\ cursor' = [cursor EXCEPT ![Feeds[feed]] = next]
      /\ engine' = [engine EXCEPT ![e] =
                      IF @.more THEN [Idle EXCEPT !.pc = "ask", !.feed = feed, !.since = next]
                                ELSE NextFeed(@)]
      /\ UNCHANGED <<serverVars, localTurfs, device, label, count>>

(* The system kills the isolate.                                           *)
Kill(e) ==
  /\ engine[e].pc # "idle"
  /\ Counted("kills")
  /\ engine' = [engine EXCEPT ![e] = Idle]
  /\ UNCHANGED <<serverVars, deviceVars>>

-----------------------------------------------------------------------------
ServerStep ==
  \/ \E S \in SUBSET Rows : Begin(S)
  \/ \E t \in open : Commit(t)
  \/ \E t \in Turfs : AssignTurf(t) \/ UnassignTurf(t) \/ UpdateTurfBoundary(t)

Cycle(e) ==
  \/ GetManifest(e) \/ CompareTurfs(e)
  \/ DeleteVotersForTurf(e) \/ DeleteAssignment(e) \/ InsertAssignment(e)
  \/ GetTurfIds(e) \/ GetCursor(e) \/ PullPage(e) \/ ScanFails(e)
  \/ EmptyPage(e) \/ UpsertPage(e) \/ UpdateCursor(e)

Next ==
  \/ ServerStep
  \/ \E e \in Engines : Cycle(e) \/ ManifestFails(e) \/ PullFails(e) \/ Kill(e)

Spec == Init /\ [][Next]_vars

(* Cycles start again and again and run on.                                *)
FairSpec == Spec /\ \A e \in Engines : WF_vars(Cycle(e))
-----------------------------------------------------------------------------
(* Properties.                                                             *)

(* The types of all variables.                                             *)
TypeOK ==
  /\ now \in Times
  /\ open \subseteq [rows : SUBSET Rows, stamp : Times]
  /\ stamp \in [Rows -> Times]
  /\ inside \in [Rows -> SUBSET Turfs]
  /\ assigned \subseteq Turfs
  /\ localTurfs \subseteq Turfs
  /\ device \in [Rows -> Times]
  /\ label \in [Rows -> SUBSET Turfs]
  /\ cursor \in [{"voters", "contact_logs"} -> Times]
  /\ engine \in [Engines -> EngineState]
  /\ count \in [Events -> Nat]
  /\ \A event \in Events : count[event] <= Limit(event)

(* The server's history is kind to a cursor: rows become visible in the    *)
(* order of their stamps, each with its own, and no turf was gained or     *)
(* drawn anew.                                                             *)
Orderly == \A event \in {"late", "ties", "gains", "redrawn"} : count[event] = 0

(* A row of the navigator's turfs.  A turf that is taken costs the device  *)
(* the voters it shares with another.                                      *)
Wanted(r) == /\ inside[r] \cap assigned # {}
             /\ count["losses"] = 0 \/ \A t, u \in inside[r] : t = u

(* What the device has of an assigned turf is complete up to the cursor:   *)
(* pullAllVoters saves the cursor of a page only after the page's rows.    *)
NothingBehindCursor ==
  Orderly => \A r \in Rows :
    (Wanted(r) /\ stamp[r] <= cursor[FeedOf(r)]) => device[r] = stamp[r]

(* handleTurfReassignment leaves no voter of a turf it has dropped: while  *)
(* no call fails and no turf is gained, the device's voters name its own   *)
(* turfs only, whatever was lost, drawn anew or killed halfway.            *)
VotersOfOwnTurfs ==
  (count["gains"] = 0 /\ count["fails"] = 0) =>
    \A r \in Voters : label[r] \subseteq localTurfs

(* A voter the server cannot read is among those a pull may ask for: no    *)
(* feed from the voters on is pulled to its end.                           *)
Unreadable == \E v \in Undated : stamp[v] > 0 /\ inside[v] \cap assigned # {}

UpToDate(r) == device[r] = stamp[r] \/ ~Wanted(r)

(* On an orderly server the device catches up with every row of its turfs, *)
(* whatever fails on the way, while the server can read them.              *)
RowsArrive == \A r \in Rows : Orderly ~> (UpToDate(r) \/ Unreadable \/ ~Orderly)

(* What sync_service.go says of PullVoterUpdates: it returns the voters    *)
(* updated since the cursor in the user's turfs.                           *)
UpdatedVotersAreReturned == \A r \in Voters : Orderly ~> (UpToDate(r) \/ ~Orderly)

(* A gained turf brings its voters too (sync_engine.dart: full pull will   *)
(* happen via empty cursor).                                               *)
GainedTurfIsPulled ==
  \A r \in Voters : (Wanted(r) /\ stamp[r] > 0) ~> UpToDate(r)
=============================================================================
