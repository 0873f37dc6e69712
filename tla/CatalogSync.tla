---------------------------- MODULE CatalogSync ----------------------------
(***************************************************************************)
(* What every device of a company is to copy: call scripts, events with    *)
(* their RSVPs, and training materials.  Staff create, edit and withdraw   *)
(* them on the server, navigators answer invitations, and an engine pulls  *)
(* one feed after the other, a page at a time.  Nothing is deleted: what   *)
(* is withdrawn is sent once more.  An answer is proto3 JSON, of which the *)
(* client reads the fields it knows by name.  A step is one statement of   *)
(* the server or the device's code between two awaits.                     *)
(***************************************************************************)
EXTENDS Integers, Sequences, FiniteSets

CONSTANTS
  Scripts, Events, Materials,
  Users,       (* navigators who answer the invitation to an event         *)
  Editors,     (* requests that write                                      *)
  PageSize,    (* batch_size, 500                                          *)
  MaxTime,     (* bound: statements that write                             *)
  MaxTrouble   (* bound: statements overtaken by a later one, calls that   *)
               (* fail, isolates killed and turfs lost or gained, together *)

Items == Scripts \cup Events \cup Materials
Rows == Items \cup Users

ASSUME CatalogAssumption ==
  /\ Scripts \cap Events = {} /\ Scripts \cap Materials = {} /\ Events \cap Materials = {}
  /\ Users \cap Items = {}
  /\ IsFiniteSet(Rows)
  /\ PageSize \in Nat \ {0}
  /\ {MaxTime, MaxTrouble} \subseteq Nat

VARIABLES
  now,       (* the stamp of the latest statement                          *)
  row,       (* row[x]: the row of an item, or of a user's RSVP            *)
  editor,    (* editor[e]: a request that writes                           *)
  device,    (* device[x]: the device's copy of row x                      *)
  cursor,    (* cursor[f]: the saved cursor of feed f                      *)
  turfs,     (* the device has turfs, and their voters can be pulled       *)
  engine,    (* where the engine is in its cycle                           *)
  count      (* how often each bounded event has happened                  *)

serverVars == <<now, row, editor>>
deviceVars == <<device, cursor, turfs>>
vars == <<serverVars, deviceVars, engine, count>>

(* The engine's order: the first only while the device has turfs.          *)
Feeds == <<"scripts", "events", "materials">>
Feed(f) == CASE f = "scripts" -> Scripts [] f = "events" -> Events [] f = "materials" -> Materials

(* stamp: updated_at of an item, created_at of an RSVP.  shown: is_active, *)
(* is_published, not cancelled; of an RSVP: "going".                       *)
NoRow == [stamp |-> 0, shown |-> FALSE, version |-> 0]

AnyRow == [stamp : 0 .. MaxTime, shown : BOOLEAN, version : Nat]

(* "unreadable": a voter of the device's turfs fails every pull of voters. *)
TurfStates == {"none", "fine", "unreadable"}

NoPage == [x \in {} |-> NoRow]

NoRequest == [pc |-> "idle", kind |-> "none", on |-> {}, row |-> NoRow]
Idle == [pc |-> "idle", feed |-> 1, since |-> 0, page |-> NoPage, rsvps |-> NoPage,
         more |-> FALSE]

Happenings == {"late", "overlap", "turns", "faults"}
Counted(event) == /\ count["late"] + count["turns"] + count["faults"] < MaxTrouble
                  /\ count' = [count EXCEPT ![event] = @ + 1]

Init ==
  /\ now = 0
  /\ row = [x \in Rows |-> NoRow]
  /\ editor = [e \in Editors |-> NoRequest]
  /\ device = [x \in Rows |-> NoRow]
  /\ cursor = [f \in {Feeds[i] : i \in DOMAIN Feeds} |-> 0]
  /\ turfs \in {"none", "fine"}
  /\ engine = Idle
  /\ count = [event \in Happenings |-> 0]

-----------------------------------------------------------------------------
(* The server.  A request may read the row first; its statement takes its  *)
(* stamp when it starts and is seen by others when it ends.                *)

Exists(x) == row[x].stamp > 0
InHand(e, x) == editor[e].on = {x}

(* UpdateCallScriptFields.                                                 *)
GetCallScriptCurrentVersion(e, x, shown) ==
  /\ editor[e].pc = "idle" /\ x \in Scripts /\ Exists(x)
  /\ editor' = [editor EXCEPT ![e] =
                  [pc |-> "read", kind |-> "edit", on |-> {x},
                   row |-> [row[x] EXCEPT !.shown = shown, !.version = @ + 1]]]
  /\ count' = IF \E o \in Editors \ {e} : InHand(o, x)
              THEN [count EXCEPT !["overlap"] = 1] ELSE count
  /\ UNCHANGED <<now, row, deviceVars, engine>>

(* UpdateEvent refuses a cancelled event.                                  *)
GetEvent(e, x) ==
  /\ editor[e].pc = "idle" /\ x \in Events /\ Exists(x)
  /\ row[x].shown
  /\ editor' = [editor EXCEPT ![e] =
                  [pc |-> "read", kind |-> "edit", on |-> {x}, row |-> row[x]]]
  /\ UNCHANGED <<now, row, deviceVars, engine, count>>

(* Mutant: a withdrawal writes the version of a new row.                   *)
WrittenAnew(kind, x, edited) ==
  CASE kind = "create"               -> [edited EXCEPT !.shown = x \notin Materials, !.version = 1]
    [] kind = "withdraw"             -> [edited EXCEPT !.shown = FALSE]
    [] kind = "edit" /\ x \in Scripts -> edited
    [] OTHER                         -> [row[x] EXCEPT !.shown = edited.shown, !.version = @ + 1]

(* What one statement writes into row x: a new material is not published   *)
(* yet; a script's edit writes the version its request has counted, every  *)
(* other edit some new content.                                            *)
Written(kind, x, edited) ==
  CASE kind = "create"               -> [edited EXCEPT !.shown = x \notin Materials, !.version = 1]
    [] kind = "withdraw"             -> [row[x] EXCEPT !.shown = FALSE]
    [] kind = "edit" /\ x \in Scripts -> edited
    [] kind = "edit" /\ x \in Events  -> [row[x] EXCEPT !.version = @ + 1]
    [] OTHER                         -> [row[x] EXCEPT !.shown = edited.shown, !.version = @ + 1]

Start(e, kind, x, new) ==
  /\ now < MaxTime
  /\ now' = now + 1
  /\ editor' = [editor EXCEPT ![e] = [pc |-> "write", kind |-> kind, on |-> {x},
                                     row |-> [new EXCEPT !.stamp = now + 1]]]

(* Statements without a read before them.                                  *)
StartStatement(e, kind, x, shown) ==
  /\ editor[e].pc = "idle"
  /\ \/ kind = "create" /\ x \in Items /\ shown /\ ~Exists(x) /\ \A o \in Editors : ~InHand(o, x)
     \/ kind = "withdraw" /\ x \in Items /\ ~shown /\ Exists(x)
     \/ kind = "edit" /\ x \in Materials /\ Exists(x)
     \/ kind = "answer" /\ x \in Users /\ \E event \in Events : Exists(event)
  /\ Start(e, kind, x, [NoRow EXCEPT !.shown = shown])
  /\ count' = IF \E o \in Editors \ {e} : InHand(o, x)
              THEN [count EXCEPT !["overlap"] = 1] ELSE count
  /\ UNCHANGED <<row, deviceVars, engine>>

StartUpdate(e, x) ==
  /\ editor[e].pc = "read" /\ InHand(e, x)
  /\ Start(e, "edit", x, editor[e].row)
  /\ UNCHANGED <<row, deviceVars, engine, count>>

SameFeed(x) == IF x \in Events \cup Users THEN Events \cup Users
               ELSE IF x \in Scripts THEN Scripts ELSE Materials

(* Every statement stamps updated_at, but for a changed answer: an RSVP    *)
(* has its created_at only.                                                *)
Commit(e, x) ==
  LET r == editor[e]
  IN  /\ r.pc = "write" /\ InHand(e, x)
      /\ row' = [row EXCEPT ![x] =
                   [Written(r.kind, x, r.row) EXCEPT
                      !.stamp = IF x \in Users /\ Exists(x) THEN row[x].stamp
                                ELSE r.row.stamp]]
      /\ editor' = [editor EXCEPT ![e] = NoRequest]
      /\ IF \E y \in SameFeed(x) : row[y].stamp > r.row.stamp
         THEN Counted("late") ELSE UNCHANGED count
      /\ UNCHANGED <<now, deviceVars, engine>>

-----------------------------------------------------------------------------
(* A pull.                                                                 *)

Behind(S, since) == {x \in S : row[x].stamp > since}

(* Mutant: no ORDER BY.                                                    *)
UnorderedPages(S, since) ==
  LET found == Behind(S, since)
  IN  {P \in SUBSET found :
         Cardinality(P) = PageSize \/ (P = found /\ Cardinality(found) < PageSize)}

(* ORDER BY the stamp LIMIT PageSize.                                      *)
Pages(S, since) ==
  LET found == Behind(S, since)
  IN  {P \in SUBSET found :
         /\ Cardinality(P) = PageSize \/ (P = found /\ Cardinality(found) < PageSize)
         /\ \A x \in P, y \in found \ P : row[x].stamp <= row[y].stamp}

(* The field of the answer a row is sent in, and the fields the client     *)
(* looks up: what is sent under another name is not there for it.          *)
SentAs(x) ==
  CASE x \in Scripts   -> "callScripts"
    [] x \in Events    -> "events"
    [] x \in Users     -> "rsvps"
    [] x \in Materials -> "materials"
FieldsRead == {"callScripts", "events", "eventRsvps", "trainingMaterials"}
ReadFrom(P) == {x \in P : SentAs(x) \in FieldsRead}

(* JSON leaves out a field that is false, and a script without isActive is *)
(* read as an active one.  An event's status is a string.                  *)
FromJson(x) == IF x \in Scripts THEN [row[x] EXCEPT !.shown = TRUE] ELSE row[x]

Copy(P) == [x \in P |-> FromJson(x)]
LastStamp(page) == CHOOSE s \in 0 .. MaxTime :
                     /\ \E x \in DOMAIN page : page[x].stamp = s
                     /\ \A x \in DOMAIN page : page[x].stamp <= s

At(pc) == engine.pc = pc
CurrentFeed == Feeds[engine.feed]

(* Only this engine saves cursors, so reading one is no step of its own.   *)
PullFeed(i) == [Idle EXCEPT !.pc = "ask", !.feed = i, !.since = cursor[Feeds[i]]]

(* Mutant: the feeds of the turfs are always the last.                     *)
NextFeedForTurfs ==
  IF engine.feed = Len(Feeds) \/ CurrentFeed = "scripts" THEN Idle ELSE PullFeed(engine.feed + 1)

(* After the scripts come the feeds of the turfs, and a failure there ends *)
(* the cycle.                                                              *)
NextFeed ==
  IF engine.feed = Len(Feeds) \/ (CurrentFeed = "scripts" /\ turfs = "unreadable")
  THEN Idle ELSE PullFeed(engine.feed + 1)

StartPull ==
  /\ At("idle")
  /\ engine' = PullFeed(IF turfs = "none" THEN 2 ELSE 1)
  /\ UNCHANGED <<serverVars, deviceVars, count>>

(* A page in which the client finds nothing ends the feed.                 *)
PullPage ==
  /\ At("ask")
  /\ \E P \in Pages(Feed(CurrentFeed), engine.since) :
       engine' = IF ReadFrom(P) = {} THEN NextFeed ELSE
                   [engine EXCEPT !.pc = IF CurrentFeed = "events" THEN "rsvps" ELSE "upsert",
                                  !.page = Copy(ReadFrom(P)),
                                  !.more = P # Behind(Feed(CurrentFeed), engine.since)]
  /\ UNCHANGED <<serverVars, deviceVars, count>>

(* Mutant: the join yields events beside the RSVPs.                        *)
PullRsvpsAndEvents ==
  /\ At("rsvps")
  /\ \E P \in Pages(Users \cup Events, engine.since) :
       engine' = [engine EXCEPT !.pc = "upsert", !.rsvps = Copy(ReadFrom(P))]
  /\ UNCHANGED <<serverVars, deviceVars, count>>

(* The second statement of PullEvents: RSVPs created since the same        *)
(* cursor.                                                                 *)
PullEventRSVPsForEvents ==
  /\ At("rsvps")
  /\ \E P \in Pages(Users, engine.since) :
       engine' = [engine EXCEPT !.pc = "upsert", !.rsvps = Copy(ReadFrom(P))]
  /\ UNCHANGED <<serverVars, deviceVars, count>>

(* The page, then the RSVPs found in the answer.                           *)
UpsertPage ==
  /\ At("upsert")
  /\ device' = [x \in Rows |-> CASE x \in DOMAIN engine.page  -> engine.page[x]
                               [] x \in DOMAIN engine.rsvps -> engine.rsvps[x]
                               [] OTHER                     -> device[x]]
  /\ engine' = [engine EXCEPT !.pc = "save"]
  /\ UNCHANGED <<serverVars, cursor, turfs, count>>

UpdateCursor ==
  LET last == LastStamp(engine.page)
  IN  /\ At("save")
      /\ cursor' = [cursor EXCEPT ![CurrentFeed] = last]
      /\ engine' = IF engine.more THEN [Idle EXCEPT !.pc = "ask", !.feed = engine.feed, !.since = last]
                   ELSE NextFeed
      /\ UNCHANGED <<serverVars, device, turfs, count>>

(* A call fails, or the system kills the isolate: the rest of the cycle is *)
(* gone.                                                                   *)
BreakOff ==
  /\ ~At("idle")
  /\ Counted("faults")
  /\ engine' = Idle
  /\ UNCHANGED <<serverVars, deviceVars>>

(* The first turf is assigned or the last one taken; the turfs get their   *)
(* first voter without a year of birth, or lose the last one.              *)
TurnTurfs ==
  /\ Counted("turns")
  /\ turfs' \in TurfStates \ {turfs}
  /\ UNCHANGED <<serverVars, device, cursor, engine>>

-----------------------------------------------------------------------------
Server ==
  \E e \in Editors :
    \/ \E x \in Items : \/ \E shown \in BOOLEAN : GetCallScriptCurrentVersion(e, x, shown)
                      \/ GetEvent(e, x)
                      \/ StartUpdate(e, x)
    \/ \E x \in Rows, shown \in BOOLEAN, kind \in {"create", "withdraw", "edit", "answer"} :
         StartStatement(e, kind, x, shown)
    \/ \E x \in Rows : Commit(e, x)

Pull ==
  \/ StartPull \/ PullPage \/ PullEventRSVPsForEvents \/ UpsertPage \/ UpdateCursor

Next == Server \/ Pull \/ BreakOff \/ TurnTurfs

Spec == Init /\ [][Next]_vars

(* Cycles start again and again, and calls are answered.                   *)
FairSpec == Spec /\ WF_vars(Pull)
-----------------------------------------------------------------------------
(* Properties.                                                             *)

(* The types of all variables.                                             *)
TypeOK ==
  /\ now \in 0 .. MaxTime
  /\ row \in [Rows -> AnyRow]
  /\ editor \in [Editors -> [pc : {"idle", "read", "write"},
                            kind : {"none", "create", "withdraw", "edit", "answer"},
                            on : {{}} \cup {{x} : x \in Rows}, row : AnyRow]]
  /\ device \in [Rows -> AnyRow]
  /\ cursor \in [{Feeds[i] : i \in DOMAIN Feeds} -> 0 .. MaxTime]
  /\ turfs \in TurfStates
  /\ engine.pc \in {"idle", "ask", "rsvps", "upsert", "save"}
  /\ engine.feed \in DOMAIN Feeds /\ engine.since \in 0 .. MaxTime /\ engine.more \in BOOLEAN
  /\ DOMAIN engine.page \subseteq Items /\ DOMAIN engine.rsvps \subseteq Users
  /\ count \in [Happenings -> Nat]

(* Up to the cursor of a feed the device has every script and every event  *)
(* as it reads from the latest answer, however edits, kills and failed     *)
(* calls fall between page and cursor; excepted are late statements.       *)
CopiesAreCurrent ==
  count["late"] = 0 =>
    \A f \in {"scripts", "events"} : \A x \in Feed(f) :
      row[x].stamp \in 1 .. cursor[f] => device[x] = FromJson(x)

(* The version of a script on a device goes back only if two requests had  *)
(* the script in hand at once.                                             *)
VersionsGoForward ==
  [][count["overlap"] = 0 =>
       \A x \in Scripts : device'[x].version >= device[x].version]_vars

(* An event that is cancelled is in the end hidden on the device, unless a *)
(* statement was late or the voters of the device's turfs, which a cycle   *)
(* pulls before the events, cannot be pulled.                              *)
CancelledEventIsHidden ==
  \A x \in Events :
    (Exists(x) /\ ~row[x].shown)
      ~> (~device[x].shown \/ row[x].shown \/ count["late"] > 0 \/ turfs = "unreadable")

(* What call_script_service.go and call_scripts.sql say of a withdrawn     *)
(* script: the row is pulled again "so clients hide it".                   *)
WithdrawnScriptIsHidden ==
  \A x \in Scripts :
    (Exists(x) /\ ~row[x].shown /\ device[x].stamp = row[x].stamp) => ~device[x].shown

(* What sync.proto and event_rsvps.dart say of RSVPs ("synced from         *)
(* server"): those up to the cursor of the events are on the device.       *)
RsvpsAreNotLost ==
  count["late"] = 0 =>
    \A u \in Users : row[u].stamp \in 1 .. cursor["events"] => device[u].stamp = row[u].stamp

(* What sync.proto says of training materials: the published ones are      *)
(* pulled.                                                                 *)
MaterialsArrive ==
  \A x \in Materials :
    (Exists(x) /\ row[x].shown)
      ~> (device[x].shown \/ ~row[x].shown \/ count["late"] > 0 \/ turfs = "unreadable")
=============================================================================
