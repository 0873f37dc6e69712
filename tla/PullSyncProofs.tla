--------------------------- MODULE PullSyncProofs ---------------------------
(***************************************************************************)
(* Proofs about PullSync for a device with one sync engine at a time, any  *)
(* turfs, rows, page size and bounds: the types, that the device holds     *)
(* voters of its own turfs only, and that nothing of an assigned turf is   *)
(* missing behind the saved cursor.                                        *)
(***************************************************************************)
EXTENDS PullSync, NumberLemmas

(* Two engines share one cursor and overtake each other; the theorems are  *)
(* about the device the lock of the foreground isolate is meant to give.   *)
OneEngineAtATime == \A d, e \in Engines : d = e

FeedNames == {"voters", "contact_logs"}

LEMMA FeedsAre ==
  /\ Len(Feeds) = 2 /\ Feeds[1] = "voters" /\ Feeds[2] = "contact_logs"
  /\ \A i \in 1 .. Len(Feeds) : Feeds[i] \in FeedNames
  /\ {Feeds[i] : i \in DOMAIN Feeds} = FeedNames
  BY DEF Feeds, FeedNames

-----------------------------------------------------------------------------
(* What a step makes of the engine's state.                                *)

LEMMA IdleState == /\ Idle \in EngineState
                   /\ Idle.pc = "idle" /\ Idle.manifest = {} /\ Idle.removed = {}
                   /\ Idle.dropping = {} /\ Idle.added = {}
  <1>1. Nothing \in Page /\ Nothing \in Names
    <2>1. Nothing \in [{} -> Times] /\ Nothing \in [{} -> Turfs]
      BY DEF Nothing
    <2> QED  BY <2>1 DEF Page, Names
  <1>2. 0 \in Times /\ 1 \in 1 .. Len(Feeds)
    BY PullAssumption, FeedsAre DEF Times
  <1> QED  BY <1>1, <1>2 DEF Idle, EngineState

(* At "compare", "turfs", "reassign", "cursor" and "ask" after the idle    *)
(* state.                                                                  *)
LEMMA FreshState ==
  /\ \A manifest \in SUBSET Turfs :
       LET new == [Idle EXCEPT !.pc = "compare", !.manifest = manifest]
       IN  new \in EngineState /\ new.pc = "compare" /\ new.manifest = manifest
  /\ LET new == [Idle EXCEPT !.pc = "turfs"]
     IN  new \in EngineState /\ new.pc = "turfs"
  /\ LET new == [Idle EXCEPT !.pc = "cursor"]
     IN  new \in EngineState /\ new.pc = "cursor"
  <1> DEFINE i == Idle
  <1>1. i \in EngineState
    BY IdleState
  <1> HIDE DEF i
  <1>2. ASSUME NEW manifest \in SUBSET Turfs
        PROVE  LET new == [i EXCEPT !.pc = "compare", !.manifest = manifest]
               IN  new \in EngineState /\ new.pc = "compare" /\ new.manifest = manifest
    BY <1>1 DEF EngineState
  <1>3. ASSUME NEW pc \in {"turfs", "cursor"}
        PROVE  LET new == [i EXCEPT !.pc = pc]
               IN  new \in EngineState /\ new.pc = pc
    BY <1>1 DEF EngineState
  <1> QED  BY <1>2, <1>3, Zenon DEF i

LEMMA ReassignState ==
  ASSUME NEW removed \in SUBSET Turfs, NEW added \in SUBSET Turfs
  PROVE  LET new == [Idle EXCEPT !.pc = "reassign", !.removed = removed, !.added = added]
         IN  /\ new \in EngineState /\ new.pc = "reassign" /\ new.dropping = {}
             /\ new.removed = removed /\ new.added = added
  <1> DEFINE i == Idle
  <1>1. i \in EngineState /\ i.dropping = {}
    BY IdleState
  <1> HIDE DEF i
  <1>2. LET new == [i EXCEPT !.pc = "reassign", !.removed = removed, !.added = added]
        IN  /\ new \in EngineState /\ new.pc = "reassign" /\ new.dropping = {}
            /\ new.removed = removed /\ new.added = added
    BY <1>1 DEF EngineState
  <1> QED  BY <1>2 DEF i

LEMMA AskState ==
  ASSUME NEW feed \in 1 .. Len(Feeds), NEW since \in Times
  PROVE  LET new == [Idle EXCEPT !.pc = "ask", !.feed = feed, !.since = since]
         IN  new \in EngineState /\ new.pc = "ask" /\ new.feed = feed /\ new.since = since
  <1> DEFINE i == Idle
  <1>1. i \in EngineState
    BY IdleState
  <1> HIDE DEF i
  <1>2. LET new == [i EXCEPT !.pc = "ask", !.feed = feed, !.since = since]
        IN  new \in EngineState /\ new.pc = "ask" /\ new.feed = feed /\ new.since = since
    BY <1>1 DEF EngineState
  <1> QED  BY <1>2 DEF i

LEMMA NextFeedState ==
  ASSUME NEW state \in EngineState
  PROVE  /\ NextFeed(state) \in EngineState
         /\ NextFeed(state).pc \in {"idle", "cursor"}
  <1> DEFINE i == Idle
  <1>1. i \in EngineState /\ i.pc = "idle"
    BY IdleState
  <1>2. NextFeed(state) = IF state.feed = Len(Feeds) THEN i
                          ELSE [i EXCEPT !.pc = "cursor", !.feed = state.feed + 1]
    BY DEF NextFeed
  <1> HIDE DEF i
  <1>3. state.feed # Len(Feeds) => state.feed + 1 \in 1 .. Len(Feeds)
    BY FeedsAre DEF EngineState
  <1>4. ASSUME NEW feed \in 1 .. Len(Feeds)
        PROVE  LET new == [i EXCEPT !.pc = "cursor", !.feed = feed]
               IN  new \in EngineState /\ new.pc = "cursor"
    BY <1>1 DEF EngineState
  <1> QED  BY <1>1, <1>2, <1>3, <1>4

LEMMA PulledState ==
  ASSUME NEW state \in EngineState, NEW since \in Times
  PROVE  /\ LET new == [state EXCEPT !.pc = "ask", !.since = since]
            IN  /\ new \in EngineState /\ new.pc = "ask" /\ new.since = since
                /\ new.feed = state.feed
         /\ LET new == [state EXCEPT !.pc = "save"]
            IN  /\ new \in EngineState /\ new.pc = "save" /\ new.page = state.page
                /\ new.feed = state.feed /\ new.since = state.since
  <1>1. LET new == [state EXCEPT !.pc = "ask", !.since = since]
        IN  /\ new \in EngineState /\ new.pc = "ask" /\ new.since = since
            /\ new.feed = state.feed
    BY DEF EngineState
  <1>2. LET new == [state EXCEPT !.pc = "save"]
        IN  /\ new \in EngineState /\ new.pc = "save" /\ new.page = state.page
            /\ new.feed = state.feed /\ new.since = state.since
    BY DEF EngineState
  <1> QED  BY <1>1, <1>2

(* A page is a function on rows, and the last stamp of one that is not     *)
(* empty is the greatest of its stamps.                                    *)
LEMMA PageIsFunction ==
  ASSUME NEW page \in Page
  PROVE  page \in [DOMAIN page -> Times] /\ DOMAIN page \subseteq Rows
  BY DEF Page

LEMMA NextCursorIs ==
  ASSUME NEW page \in Page, DOMAIN page # {}
  PROVE  /\ NextCursor(page) \in Times
         /\ \E r \in DOMAIN page : page[r] = NextCursor(page)
         /\ \A r \in DOMAIN page : page[r] <= NextCursor(page)
  <1> DEFINE S == {page[r] : r \in DOMAIN page}
  <1>1. page \in [DOMAIN page -> Times] /\ MaxTime \in Nat
    BY PageIsFunction, PullAssumption
  <1>2. S \subseteq Nat /\ S # {} /\ \A k \in S : k <= MaxTime
    BY <1>1 DEF Times
  <1>3. IsFiniteSet(S)
    <2> HIDE DEF S
    <2> QED  BY <1>1, <1>2, FS_BoundedSetOfNaturals
  <1>4. PICK m \in S : \A k \in S : k <= m
    <2> HIDE DEF S
    <2> QED  BY <1>2, <1>3, GreatestExists
  <1>5. m \in Times /\ (\E r \in DOMAIN page : page[r] = m) /\ \A r \in DOMAIN page : page[r] <= m
    BY <1>1, <1>4
  <1> QED  BY <1>5 DEF NextCursor

LEMMA FirstIs ==
  ASSUME NEW found, NEW n, NEW S \in First(found, n)
  PROVE  S \subseteq found /\ \A a \in S, b \in found \ S : stamp[a[1]] <= stamp[b[1]]
  BY DEF First

LEMMA BehindIs ==
  ASSUME NEW f, NEW since
  PROVE  /\ \A p \in Behind(f, since) :
              /\ p = <<p[1], p[2]>> /\ p[1] \in Rows /\ p[2] \in assigned
              /\ FeedOf(p[1]) = f /\ p[2] \in inside[p[1]] /\ stamp[p[1]] > since
         /\ \A r \in Rows, t \in assigned :
              (FeedOf(r) = f /\ t \in inside[r] /\ stamp[r] > since)
                => <<r, t>> \in Behind(f, since)
  BY DEF Behind

(* The pairs of a page: of those a pull may ask for, the first ones.       *)
Leads(S, f, since) ==
  /\ S \subseteq Behind(f, since)
  /\ \A a \in S, b \in Behind(f, since) \ S : stamp[a[1]] <= stamp[b[1]]

LEMMA PagesAre ==
  ASSUME NEW f, NEW since, NEW fetched \in First(Behind(f, since), PageSize + 1),
         NEW S \in First(fetched, PageSize)
  PROVE  Leads(S, f, since) /\ RowsOf(S) \subseteq Rows
  <1>1. /\ fetched \subseteq Behind(f, since)
        /\ \A a \in fetched, b \in Behind(f, since) \ fetched : stamp[a[1]] <= stamp[b[1]]
    BY FirstIs
  <1>2. S \subseteq fetched /\ \A a \in S, b \in fetched \ S : stamp[a[1]] <= stamp[b[1]]
    BY FirstIs
  <1>3. RowsOf(S) \subseteq Rows
    BY <1>1, <1>2, BehindIs DEF RowsOf
  <1> QED  BY <1>1, <1>2, <1>3 DEF Leads

-----------------------------------------------------------------------------
(* What each action does, field by field.                                  *)

(* An engine that saves has a page, an answer names a turf for each row.   *)
SavesPage ==
  \A e \in Engines :
    /\ engine[e].pc = "save" => DOMAIN engine[e].page # {}
    /\ engine[e].pc = "answer" => DOMAIN engine[e].names = DOMAIN engine[e].page

IInv == TypeOK /\ SavesPage

LEMMA EngineUpdate ==
  ASSUME engine \in [Engines -> EngineState], NEW e \in Engines, NEW new \in EngineState,
         engine' = [engine EXCEPT ![e] = new]
  PROVE  /\ engine' \in [Engines -> EngineState] /\ engine'[e] = new
         /\ \A d \in Engines \ {e} : engine'[d] = engine[d]
  OBVIOUS

Moved(e) == /\ engine' \in [Engines -> EngineState]
            /\ \A d \in Engines \ {e} : engine'[d] = engine[d]

LEMMA IdleStep ==
  ASSUME IInv, NEW e \in Engines, ScanFails(e) \/ PullFails(e) \/ Kill(e)
  PROVE  Moved(e) /\ engine'[e].pc = "idle"
  BY IdleState, EngineUpdate DEF IInv, TypeOK, ScanFails, PullFails, Kill, Moved

LEMMA GetManifestStep ==
  ASSUME IInv, NEW e \in Engines, GetManifest(e)
  PROVE  Moved(e) /\ engine'[e].pc = "compare" /\ engine'[e].manifest = assigned
  <1> DEFINE new == [Idle EXCEPT !.pc = "compare", !.manifest = assigned]
  <1>1. new \in EngineState /\ new.pc = "compare" /\ new.manifest = assigned
    BY FreshState DEF IInv, TypeOK
  <1>2. engine' = [engine EXCEPT ![e] = new]
    BY DEF GetManifest
  <1> HIDE DEF new
  <1> QED  BY <1>1, <1>2, EngineUpdate DEF IInv, TypeOK, Moved

LEMMA ManifestFailsStep ==
  ASSUME IInv, NEW e \in Engines, ManifestFails(e)
  PROVE  Moved(e) /\ engine'[e].pc = "turfs"
  <1> DEFINE new == [Idle EXCEPT !.pc = "turfs"]
  <1>1. new \in EngineState /\ new.pc = "turfs"
    BY FreshState
  <1>2. engine' = [engine EXCEPT ![e] = new]
    BY DEF ManifestFails
  <1> HIDE DEF new
  <1> QED  BY <1>1, <1>2, EngineUpdate DEF IInv, TypeOK, Moved

LEMMA CompareStep ==
  ASSUME IInv, NEW e \in Engines, CompareTurfs(e)
  PROVE  /\ Moved(e) /\ engine[e].pc = "compare" /\ engine'[e].pc = "reassign"
         /\ engine'[e].removed = localTurfs \ engine[e].manifest
         /\ engine'[e].added = engine[e].manifest \ localTurfs
         /\ engine'[e].dropping = {}
  <1> DEFINE removed == localTurfs \ engine[e].manifest
             added == engine[e].manifest \ localTurfs
             new == [Idle EXCEPT !.pc = "reassign", !.removed = removed, !.added = added]
  <1>1. removed \in SUBSET Turfs /\ added \in SUBSET Turfs
    BY DEF IInv, TypeOK, EngineState
  <1>2. engine' = [engine EXCEPT ![e] = new]
    BY DEF CompareTurfs
  <1> HIDE DEF removed, added
  <1>3. /\ new \in EngineState /\ new.pc = "reassign" /\ new.dropping = {}
        /\ new.removed = removed /\ new.added = added
    BY <1>1, ReassignState, Zenon
  <1> HIDE DEF new
  <1>4. Moved(e) /\ engine'[e] = new
    BY <1>2, <1>3, EngineUpdate DEF IInv, TypeOK, Moved
  <1> QED  BY <1>3, <1>4 DEF CompareTurfs, removed, added

LEMMA DeleteVotersStep ==
  ASSUME IInv, NEW e \in Engines, DeleteVotersForTurf(e)
  PROVE  /\ Moved(e) /\ engine[e].pc = "reassign" /\ engine'[e].pc = "reassign"
         /\ engine[e].dropping = {}
         /\ \E t \in engine[e].removed :
              /\ engine'[e].removed = engine[e].removed \ {t} /\ engine'[e].dropping = {t}
              /\ device' = [r \in Rows |-> IF r \in Voters /\ t \in label[r] THEN 0
                                           ELSE device[r]]
              /\ label' = [r \in Rows |-> IF r \in Voters /\ t \in label[r] THEN {}
                                          ELSE label[r]]
         /\ engine'[e].added = engine[e].added
  <1>1. PICK t \in engine[e].removed :
          /\ engine[e].pc = "reassign" /\ engine[e].dropping = {}
          /\ device' = [r \in Rows |-> IF r \in Voters /\ t \in label[r] THEN 0 ELSE device[r]]
          /\ label' = [r \in Rows |-> IF r \in Voters /\ t \in label[r] THEN {} ELSE label[r]]
          /\ engine' = [engine EXCEPT ![e].removed = engine[e].removed \ {t},
                                      ![e].dropping = {t}]
    BY DEF DeleteVotersForTurf, IInv, TypeOK, EngineState
  <1> DEFINE state == engine[e]
             removed == state.removed \ {t}
             dropping == {t}
             new == [state EXCEPT !.removed = removed, !.dropping = dropping]
  <1>2. engine' = [engine EXCEPT ![e] = new]
    BY <1>1 DEF IInv, TypeOK, EngineState
  <1>3. state \in EngineState /\ removed \in SUBSET Turfs /\ dropping \in SUBSET Turfs
    BY DEF IInv, TypeOK, EngineState
  <1> HIDE DEF state, removed, dropping
  <1>4. /\ new \in EngineState /\ new.pc = state.pc /\ new.removed = removed
        /\ new.dropping = dropping /\ new.added = state.added
    BY <1>3 DEF EngineState
  <1> HIDE DEF new
  <1>5. Moved(e) /\ engine'[e] = new
    BY <1>2, <1>4, EngineUpdate DEF IInv, TypeOK, Moved
  <1> QED  BY <1>1, <1>4, <1>5 DEF state, removed, dropping

LEMMA DeleteAssignmentStep ==
  ASSUME IInv, NEW e \in Engines, DeleteAssignment(e)
  PROVE  /\ Moved(e) /\ engine[e].pc = "reassign" /\ engine'[e].pc = "reassign"
         /\ engine'[e].dropping = {} /\ engine'[e].removed = engine[e].removed
         /\ engine'[e].added = engine[e].added
  <1> DEFINE state == engine[e]
             dropping == {}
             new == [state EXCEPT !.dropping = dropping]
  <1>1. engine[e].pc = "reassign" /\ engine' = [engine EXCEPT ![e] = new]
    BY DEF DeleteAssignment, IInv, TypeOK, EngineState
  <1>2. state \in EngineState /\ dropping \in SUBSET Turfs
    BY DEF IInv, TypeOK
  <1> HIDE DEF state, dropping
  <1>3. /\ new \in EngineState /\ new.pc = state.pc /\ new.removed = state.removed
        /\ new.dropping = dropping /\ new.added = state.added
    BY <1>2 DEF EngineState
  <1> HIDE DEF new
  <1>4. Moved(e) /\ engine'[e] = new
    BY <1>1, <1>3, EngineUpdate DEF IInv, TypeOK, Moved
  <1> QED  BY <1>1, <1>3, <1>4 DEF state, dropping

LEMMA InsertAssignmentStep ==
  ASSUME IInv, NEW e \in Engines, InsertAssignment(e)
  PROVE  /\ Moved(e) /\ engine[e].pc = "reassign" /\ engine'[e].pc = "reassign"
         /\ engine'[e].dropping = {} /\ engine'[e].removed = {}
         /\ \E t \in engine[e].added :
              /\ localTurfs' = localTurfs \cup {t}
              /\ t \notin localTurfs => engine'[e].added = engine[e].added \ {t}
         /\ engine'[e].added \subseteq engine[e].added
  <1> DEFINE state == engine[e]
  <1>1. PICK t \in engine[e].added :
          /\ engine[e].pc = "reassign" /\ engine[e].removed = {} /\ engine[e].dropping = {}
          /\ localTurfs' = localTurfs \cup {t}
          /\ engine' = [engine EXCEPT ![e] =
                          [state EXCEPT !.added = IF t \in localTurfs THEN {} ELSE state.added \ {t}]]
    BY DEF InsertAssignment, IInv, TypeOK, EngineState
  <1> DEFINE added == IF t \in localTurfs THEN {} ELSE state.added \ {t}
             new == [state EXCEPT !.added = added]
  <1>2. engine' = [engine EXCEPT ![e] = new]
    BY <1>1
  <1>3. state \in EngineState /\ added \in SUBSET Turfs
    BY DEF IInv, TypeOK, EngineState
  <1> HIDE DEF state, added
  <1>4. /\ new \in EngineState /\ new.pc = state.pc /\ new.removed = state.removed
        /\ new.dropping = state.dropping /\ new.added = added
    BY <1>3 DEF EngineState
  <1> HIDE DEF new
  <1>5. Moved(e) /\ engine'[e] = new
    BY <1>2, <1>4, EngineUpdate DEF IInv, TypeOK, Moved
  <1> QED  BY <1>1, <1>4, <1>5 DEF state, added

LEMMA GetTurfIdsStep ==
  ASSUME IInv, NEW e \in Engines, GetTurfIds(e)
  PROVE  /\ Moved(e) /\ engine'[e].pc \in {"idle", "cursor"}
         /\ engine[e].pc \in {"turfs", "reassign"}
         /\ engine[e].pc = "reassign" => /\ engine[e].removed = {}
                                         /\ engine[e].dropping = {} /\ engine[e].added = {}
  <1> DEFINE next == IF localTurfs = {} THEN Idle ELSE [Idle EXCEPT !.pc = "cursor"]
  <1>1. next \in EngineState /\ next.pc \in {"idle", "cursor"}
    BY FreshState, IdleState
  <1>2. engine' = [engine EXCEPT ![e] = next]
    BY DEF GetTurfIds
  <1> HIDE DEF next
  <1>3. Moved(e) /\ engine'[e].pc \in {"idle", "cursor"}
    BY <1>1, <1>2, EngineUpdate DEF IInv, TypeOK, Moved
  <1> QED  BY <1>3 DEF GetTurfIds

LEMMA GetCursorStep ==
  ASSUME IInv, NEW e \in Engines, GetCursor(e)
  PROVE  /\ Moved(e) /\ engine[e].pc = "cursor" /\ engine'[e].pc = "ask"
         /\ engine'[e].feed = engine[e].feed /\ engine'[e].feed \in 1 .. Len(Feeds)
         /\ engine'[e].since = cursor[Feeds[engine'[e].feed]]
  <1> DEFINE state == engine[e]
             since == cursor[Feeds[state.feed]]
             new == [state EXCEPT !.pc = "ask", !.since = since]
  <1>1. engine[e].pc = "cursor" /\ engine' = [engine EXCEPT ![e] = new]
    BY DEF GetCursor, IInv, TypeOK, EngineState
  <1>2. state \in EngineState
    BY DEF IInv, TypeOK
  <1>3. state.feed \in 1 .. Len(Feeds) /\ since \in Times
    BY <1>2, FeedsAre DEF IInv, TypeOK, EngineState, FeedNames
  <1> HIDE DEF state, since
  <1>4. new \in EngineState /\ new.pc = "ask" /\ new.since = since /\ new.feed = state.feed
    BY <1>2, <1>3 DEF EngineState
  <1> HIDE DEF new
  <1>5. Moved(e) /\ engine'[e] = new
    BY <1>1, <1>4, EngineUpdate DEF IInv, TypeOK, Moved
  <1>6. since = cursor[Feeds[state.feed]] /\ state.feed = engine[e].feed
    BY DEF since, state
  <1> QED  BY <1>1, <1>3, <1>4, <1>5, <1>6

LEMMA PullPageStep ==
  ASSUME IInv, NEW e \in Engines, PullPage(e)
  PROVE  /\ Moved(e) /\ engine[e].pc = "ask" /\ engine'[e].pc = "answer"
         /\ engine'[e].feed = engine[e].feed /\ engine'[e].since = engine[e].since
         /\ engine[e].feed \in 1 .. Len(Feeds)
         /\ DOMAIN engine'[e].names = DOMAIN engine'[e].page
         /\ \E S : /\ Leads(S, Feeds[engine[e].feed], engine[e].since)
                   /\ engine'[e].page = [r \in RowsOf(S) |-> stamp[r]]
                   /\ \A r \in RowsOf(S) : <<r, engine'[e].names[r]>> \in S
  <1> DEFINE state == engine[e]
             f == Feeds[state.feed]
             since == state.since
  <1>1. engine[e].pc = "ask"
    BY DEF PullPage
  <1>2. PICK fetched \in First(Behind(f, since), PageSize + 1) :
          \E S \in First(fetched, PageSize) : \E names \in [RowsOf(S) -> Turfs] :
            /\ \A r \in RowsOf(S) : <<r, names[r]>> \in S
            /\ engine' = [engine EXCEPT ![e] =
                  [engine[e] EXCEPT !.pc = "answer", !.page = [r \in RowsOf(S) |-> stamp[r]],
                                    !.names = names, !.more = S # fetched]]
    BY DEF PullPage
  <1>3. PICK S \in First(fetched, PageSize) : \E names \in [RowsOf(S) -> Turfs] :
          /\ \A r \in RowsOf(S) : <<r, names[r]>> \in S
          /\ engine' = [engine EXCEPT ![e] =
                [engine[e] EXCEPT !.pc = "answer", !.page = [r \in RowsOf(S) |-> stamp[r]],
                                  !.names = names, !.more = S # fetched]]
    BY <1>2
  <1>4. PICK names \in [RowsOf(S) -> Turfs] :
          /\ \A r \in RowsOf(S) : <<r, names[r]>> \in S
          /\ engine' = [engine EXCEPT ![e] =
                [engine[e] EXCEPT !.pc = "answer", !.page = [r \in RowsOf(S) |-> stamp[r]],
                                  !.names = names, !.more = S # fetched]]
    BY <1>3
  <1>5. Leads(S, f, since) /\ RowsOf(S) \in SUBSET Rows
    BY PagesAre
  <1> DEFINE page == [r \in RowsOf(S) |-> stamp[r]]
             more == S # fetched
             new == [state EXCEPT !.pc = "answer", !.page = page, !.names = names, !.more = more]
  <1>6. engine' = [engine EXCEPT ![e] = new]
    BY <1>4
  <1>7. page \in [RowsOf(S) -> Times]
    BY <1>5 DEF IInv, TypeOK
  <1>8. state \in EngineState /\ more \in BOOLEAN /\ state.feed \in 1 .. Len(Feeds)
    BY DEF IInv, TypeOK, EngineState
  <1>9. Leads(S, Feeds[engine[e].feed], engine[e].since) /\ state = engine[e]
    BY <1>5
  <1>10. /\ page = [r \in RowsOf(S) |-> stamp[r]] /\ page \in Page /\ names \in Names
         /\ DOMAIN names = DOMAIN page
    BY <1>5, <1>7 DEF Page, Names
  <1> HIDE DEF state, page, more
  <1>11. /\ new \in EngineState /\ new.pc = "answer" /\ new.page = page /\ new.names = names
         /\ new.feed = state.feed /\ new.since = state.since
    BY <1>8, <1>10 DEF EngineState
  <1> HIDE DEF new, f, since
  <1>12. Moved(e) /\ engine'[e] = new
    BY <1>6, <1>11, EngineUpdate DEF IInv, TypeOK, Moved
  <1>13. /\ Leads(S, Feeds[engine[e].feed], engine[e].since)
         /\ engine'[e].page = [r \in RowsOf(S) |-> stamp[r]]
         /\ \A r \in RowsOf(S) : <<r, engine'[e].names[r]>> \in S
    BY <1>4, <1>9, <1>10, <1>11, <1>12
  <1> QED  BY <1>1, <1>8, <1>9, <1>10, <1>11, <1>12, <1>13

LEMMA EmptyPageStep ==
  ASSUME IInv, NEW e \in Engines, EmptyPage(e)
  PROVE  /\ Moved(e) /\ engine[e].pc = "answer" /\ engine'[e].pc \in {"idle", "cursor"}
  <1> DEFINE new == NextFeed(engine[e])
  <1>1. engine[e].pc = "answer" /\ engine' = [engine EXCEPT ![e] = new]
    BY DEF EmptyPage
  <1>2. new \in EngineState /\ new.pc \in {"idle", "cursor"}
    BY NextFeedState DEF IInv, TypeOK
  <1> HIDE DEF new
  <1> QED  BY <1>1, <1>2, EngineUpdate DEF IInv, TypeOK, Moved

LEMMA UpsertPageStep ==
  ASSUME IInv, NEW e \in Engines, UpsertPage(e)
  PROVE  /\ Moved(e) /\ engine[e].pc = "answer" /\ engine'[e].pc = "save"
         /\ engine'[e].feed = engine[e].feed /\ engine'[e].since = engine[e].since
         /\ engine'[e].page = engine[e].page /\ DOMAIN engine[e].page # {}
         /\ engine[e].feed \in 1 .. Len(Feeds) /\ engine[e].page \in Page
         /\ device' = [r \in Rows |-> IF r \in DOMAIN engine[e].page THEN engine[e].page[r]
                                      ELSE device[r]]
         /\ label' = [r \in Rows |-> IF r \in DOMAIN engine[e].page THEN {engine[e].names[r]}
                                     ELSE label[r]]
         /\ device' \in [Rows -> Times] /\ label' \in [Rows -> SUBSET Turfs]
  <1> DEFINE state == engine[e]
             page == state.page
             names == state.names
             new == [state EXCEPT !.pc = "save"]
  <1>1. /\ engine[e].pc = "answer" /\ DOMAIN page # {} /\ engine' = [engine EXCEPT ![e] = new]
        /\ device' = [r \in Rows |-> IF r \in DOMAIN page THEN page[r] ELSE device[r]]
        /\ label' = [r \in Rows |-> IF r \in DOMAIN page THEN {names[r]} ELSE label[r]]
    BY DEF UpsertPage, IInv, TypeOK, EngineState
  <1>2. state \in EngineState
    BY DEF IInv, TypeOK
  <1>3. state.feed \in 1 .. Len(Feeds) /\ page \in Page /\ names \in Names
    BY <1>2 DEF EngineState
  <1>4. device' \in [Rows -> Times]
    BY <1>1, <1>3, PageIsFunction DEF IInv, TypeOK
  <1>5. state = engine[e] /\ page = engine[e].page /\ names = engine[e].names
    OBVIOUS
  <1>8. label' \in [Rows -> SUBSET Turfs]
    <2>1. DOMAIN names = DOMAIN page
      BY <1>1 DEF IInv, SavesPage
    <2>2. \A r \in DOMAIN names : names[r] \in Turfs
      BY <1>3 DEF Names
    <2> QED  BY <1>1, <2>1, <2>2 DEF IInv, TypeOK
  <1> HIDE DEF state, page, names
  <1>6. /\ new \in EngineState /\ new.pc = "save" /\ new.page = state.page
        /\ new.feed = state.feed /\ new.since = state.since
    BY <1>2 DEF EngineState
  <1> HIDE DEF new
  <1>7. Moved(e) /\ engine'[e] = new
    BY <1>1, <1>6, EngineUpdate DEF IInv, TypeOK, Moved
  <1> QED  BY <1>1, <1>3, <1>4, <1>5, <1>6, <1>7, <1>8

LEMMA UpdateCursorStep ==
  ASSUME IInv, NEW e \in Engines, UpdateCursor(e)
  PROVE  LET feed == engine[e].feed
             next == NextCursor(engine[e].page)
         IN  /\ Moved(e) /\ engine[e].pc = "save"
             /\ feed \in 1 .. Len(Feeds) /\ engine[e].page \in Page
             /\ DOMAIN engine[e].page # {} /\ next \in Times
             /\ cursor' = [cursor EXCEPT ![Feeds[feed]] = next]
             /\ \/ /\ engine'[e].pc = "ask" /\ engine'[e].feed = feed
                   /\ engine'[e].since = next
                \/ engine'[e].pc \in {"idle", "cursor"}
  <1> DEFINE state == engine[e]
             feed == engine[e].feed
             next == NextCursor(engine[e].page)
             ask == [Idle EXCEPT !.pc = "ask", !.feed = feed, !.since = next]
             new == IF state.more THEN ask ELSE NextFeed(state)
  <1>1. /\ engine[e].pc = "save" /\ engine' = [engine EXCEPT ![e] = new]
        /\ cursor' = [cursor EXCEPT ![Feeds[feed]] = next]
    BY DEF UpdateCursor
  <1>2. /\ state \in EngineState /\ feed \in 1 .. Len(Feeds) /\ engine[e].page \in Page
        /\ DOMAIN engine[e].page # {}
    BY <1>1 DEF IInv, TypeOK, SavesPage, EngineState
  <1>3. next \in Times
    BY <1>2, NextCursorIs
  <1>4. NextFeed(state) \in EngineState /\ NextFeed(state).pc \in {"idle", "cursor"}
    BY <1>2, NextFeedState
  <1> HIDE DEF state, feed, next
  <1>5. ask \in EngineState /\ ask.pc = "ask" /\ ask.feed = feed /\ ask.since = next
    BY <1>2, <1>3, AskState, Zenon
  <1> HIDE DEF ask
  <1>6. /\ new \in EngineState
        /\ \/ new.pc = "ask" /\ new.feed = feed /\ new.since = next
           \/ new.pc \in {"idle", "cursor"}
    BY <1>4, <1>5
  <1> HIDE DEF new
  <1>7. Moved(e) /\ engine'[e] = new
    BY <1>1, <1>6, EngineUpdate DEF IInv, TypeOK, Moved
  <1> QED  BY <1>1, <1>2, <1>3, <1>6, <1>7 DEF feed, next

-----------------------------------------------------------------------------
(* The types.                                                              *)

CountOK == /\ count \in [Events -> Nat]
           /\ \A event \in Events : count[event] <= Limit(event)

(* A counted event stays within its bound, and counts only grow.           *)
LEMMA CountedStep ==
  ASSUME TypeOK, NEW event \in Events, Counted(event)
  PROVE  CountOK' /\ count'[event] > 0 /\ \A other \in Events : count[other] <= count'[other]
  <1>1. /\ count \in [Events -> Nat] /\ count[event] < Limit(event)
        /\ count' = [count EXCEPT ![event] = count[event] + 1]
        /\ \A other \in Events : count[other] <= Limit(other)
    BY DEF TypeOK, Counted
  <1>2. Limit(event) \in Nat
    BY PullAssumption DEF Limit, Events
  <1>3. count'[event] = count[event] + 1 /\ \A other \in Events \ {event} : count'[other] = count[other]
    BY <1>1
  <1>4. count' \in [Events -> Nat]
    BY <1>1
  <1>5. count[event] \in Nat
    BY <1>1
  <1>6. ASSUME NEW other \in Events
        PROVE  count'[other] <= Limit(other) /\ count[other] <= count'[other]
    <2>1. count[other] \in Nat /\ count[other] <= Limit(other)
      BY <1>1
    <2> QED  BY <1>1, <1>2, <1>3, <1>5, <2>1
  <1>7. \A other \in Events : (Limit(other))' = Limit(other)
    BY DEF Limit
  <1> QED  BY <1>3, <1>4, <1>5, <1>6, <1>7 DEF CountOK

LEMMA CountStep ==
  ASSUME IInv, [Next]_vars
  PROVE  CountOK' /\ \A event \in Events : count[event] <= count'[event]
  <1>1. \/ UNCHANGED count
        \/ \E event \in Events : Counted(event)
    BY DEF Next, vars, ServerStep, Begin, Commit, AssignTurf, UnassignTurf, UpdateTurfBoundary,
       Cycle, GetManifest, CompareTurfs, DeleteVotersForTurf, DeleteAssignment, InsertAssignment,
       GetTurfIds, GetCursor, PullPage, ScanFails, EmptyPage, UpsertPage, UpdateCursor,
       ManifestFails, PullFails, Kill, Events
  <1>2. CASE UNCHANGED count
    <2>1. count \in [Events -> Nat] /\ \A event \in Events : count[event] <= Limit(event)
      BY DEF IInv, TypeOK
    <2>2. \A event \in Events : (Limit(event))' = Limit(event)
      BY DEF Limit
    <2> QED  BY <1>2, <2>1, <2>2 DEF CountOK
  <1>3. CASE \E event \in Events : Counted(event)
    BY <1>3, CountedStep DEF IInv
  <1> QED  BY <1>1, <1>2, <1>3

LEMMA ServerTypes ==
  ASSUME IInv, ServerStep
  PROVE  /\ now' \in Times /\ open' \subseteq [rows : SUBSET Rows, stamp : Times]
         /\ stamp' \in [Rows -> Times] /\ assigned' \subseteq Turfs
         /\ inside' \in [Rows -> SUBSET Turfs]
         /\ UNCHANGED <<deviceVars, engine>>
  <1> USE DEF IInv, TypeOK
  <1>1. ASSUME NEW S \in SUBSET Rows, Begin(S) PROVE now' \in Times /\ open' \subseteq [rows : SUBSET Rows, stamp : Times]
    <2>1. now + 1 \in Times
      BY <1>1, PullAssumption DEF Begin, Times
    <2>2. [rows |-> S, stamp |-> now + 1] \in [rows : SUBSET Rows, stamp : Times]
      BY <2>1
    <2> QED  BY <1>1, <2>1, <2>2 DEF Begin
  <1>2. ASSUME NEW t \in open, Commit(t) PROVE stamp' \in [Rows -> Times]
    BY <1>2 DEF Commit
  <1>3. ASSUME NEW t \in Turfs, UpdateTurfBoundary(t) PROVE inside' \in [Rows -> SUBSET Turfs]
    BY <1>3 DEF UpdateTurfBoundary
  <1> QED  BY <1>1, <1>2, <1>3 DEF ServerStep, Begin, Commit, AssignTurf, UnassignTurf,
              UpdateTurfBoundary

LEMMA InvStep == IInv /\ [Next]_vars => IInv'
  <1> SUFFICES ASSUME IInv, [Next]_vars PROVE IInv'
    OBVIOUS
  <1> DEFINE Rest == /\ localTurfs' \subseteq Turfs /\ device' \in [Rows -> Times]
                     /\ label' \in [Rows -> SUBSET Turfs]
                     /\ cursor' \in [FeedNames -> Times]
                     /\ engine' \in [Engines -> EngineState] /\ SavesPage'
  <1>1. CountOK'
    BY CountStep
  <1>2. CASE UNCHANGED vars
    BY <1>1, <1>2 DEF IInv, TypeOK, SavesPage, vars, serverVars, deviceVars, CountOK
  <1>3. CASE ServerStep
    BY <1>1, <1>3, ServerTypes DEF IInv, TypeOK, SavesPage, deviceVars, CountOK
  <1>4. ASSUME NEW e \in Engines, Cycle(e) \/ ManifestFails(e) \/ PullFails(e) \/ Kill(e)
        PROVE  Rest /\ UNCHANGED serverVars
    <2> USE DEF IInv, TypeOK, deviceVars, FeedNames
    <2> DEFINE Plain == Moved(e) /\ engine'[e].pc \notin {"save", "answer"}
    <2>1. Plain => engine' \in [Engines -> EngineState] /\ SavesPage'
      BY DEF Moved, SavesPage
    <2>2. CASE GetManifest(e)
      BY <2>1, <2>2, GetManifestStep DEF GetManifest
    <2>3. CASE CompareTurfs(e)
      BY <2>1, <2>3, CompareStep DEF CompareTurfs
    <2>4. CASE DeleteVotersForTurf(e)
      <3>1. device' \in [Rows -> Times]
        <4>1. 0 \in Times
          BY PullAssumption DEF Times
        <4> QED  BY <2>4, <4>1 DEF DeleteVotersForTurf
      <3>2. label' \in [Rows -> SUBSET Turfs]
        BY <2>4 DEF DeleteVotersForTurf
      <3> QED  BY <2>1, <2>4, <3>1, <3>2, DeleteVotersStep DEF DeleteVotersForTurf
    <2>5. CASE DeleteAssignment(e)
      BY <2>1, <2>5, DeleteAssignmentStep DEF DeleteAssignment
    <2>6. CASE InsertAssignment(e)
      <3>1. engine[e].added \subseteq Turfs
        BY DEF EngineState
      <3> QED  BY <2>1, <2>6, <3>1, InsertAssignmentStep DEF InsertAssignment
    <2>7. CASE GetTurfIds(e)
      BY <2>1, <2>7, GetTurfIdsStep DEF GetTurfIds
    <2>8. CASE GetCursor(e)
      BY <2>1, <2>8, GetCursorStep DEF GetCursor
    <2>9. CASE PullPage(e)
      <3>1. SavesPage' /\ engine' \in [Engines -> EngineState]
        BY <2>9, PullPageStep DEF Moved, SavesPage
      <3> QED  BY <2>9, <3>1 DEF PullPage
    <2>10. CASE EmptyPage(e)
      BY <2>1, <2>10, EmptyPageStep DEF EmptyPage
    <2>11. CASE UpsertPage(e)
      <3>1. SavesPage' /\ engine' \in [Engines -> EngineState]
        BY <2>11, UpsertPageStep DEF Moved, SavesPage
      <3> QED  BY <2>11, <3>1, UpsertPageStep DEF UpsertPage
    <2>12. CASE UpdateCursor(e)
      <3>1. Feeds[engine[e].feed] \in FeedNames
        BY <2>12, UpdateCursorStep, FeedsAre
      <3> QED  BY <2>1, <2>12, <3>1, UpdateCursorStep DEF UpdateCursor
    <2>13. CASE ManifestFails(e)
      BY <2>1, <2>13, ManifestFailsStep DEF ManifestFails
    <2>14. CASE ScanFails(e) \/ PullFails(e) \/ Kill(e)
      BY <2>1, <2>14, IdleStep DEF ScanFails, PullFails, Kill
    <2> QED  BY <1>4, <2>2, <2>3, <2>4, <2>5, <2>6, <2>7, <2>8, <2>9, <2>10, <2>11, <2>12, <2>13,
                <2>14 DEF Cycle
  <1>5. ASSUME Rest, UNCHANGED serverVars PROVE IInv'
    BY <1>1, <1>5 DEF IInv, TypeOK, serverVars, CountOK, FeedNames
  <1> QED  BY <1>2, <1>3, <1>4, <1>5 DEF Next

LEMMA InvInit == Init => IInv
  <1> SUFFICES ASSUME Init PROVE IInv
    OBVIOUS
  <1>1. 0 \in Times /\ \A event \in Events : 0 <= Limit(event)
    BY PullAssumption DEF Times, Limit, Events
  <1>2. engine \in [Engines -> EngineState] /\ SavesPage
    BY IdleState DEF Init, SavesPage
  <1>3. cursor \in [FeedNames -> Times]
    BY <1>1, FeedsAre DEF Init
  <1> QED  BY <1>1, <1>2, <1>3, PullAssumption DEF Init, IInv, TypeOK, FeedNames

LEMMA InvHolds == Spec => []IInv
  BY InvInit, InvStep, PTL DEF Spec

(* Every reachable state has the declared types, with any engines.         *)
THEOREM PullTypeCorrect == Spec => []TypeOK
  <1>1. IInv => TypeOK
    BY DEF IInv
  <1> QED  BY <1>1, InvHolds, PTL

-----------------------------------------------------------------------------
(* Voters of own turfs.  What the engine holds at each place of its cycle  *)
(* while no turf is gained and no call fails: its manifest covers the      *)
(* navigator's turfs, what it drops is not the navigator's, and when it    *)
(* pulls the device has all of the navigator's turfs, so a page brings     *)
(* voters of these only.                                                   *)

Calm == count["gains"] = 0 /\ count["fails"] = 0

Own == \A r \in Voters : label[r] \subseteq localTurfs

Comparing(e) == engine[e].pc = "compare" => assigned \subseteq engine[e].manifest

Reassigning(e) ==
  engine[e].pc = "reassign" =>
    /\ assigned \subseteq localTurfs \cup engine[e].added
    /\ engine[e].added \cap localTurfs = {}
    /\ (engine[e].removed \cup engine[e].dropping) \cap assigned = {}
    /\ \A r \in Voters : label[r] \cap engine[e].dropping = {}

Pulling(e) ==
  engine[e].pc \in {"cursor", "ask", "answer", "save"} => assigned \subseteq localTurfs

Answered(e) ==
  engine[e].pc = "answer" =>
    \A r \in DOMAIN engine[e].page : engine[e].names[r] \in localTurfs

Engaged(e) == /\ engine[e].pc # "turfs"
              /\ Comparing(e) /\ Reassigning(e) /\ Pulling(e) /\ Answered(e)

OwnInv == Calm => Own /\ \A e \in Engines : Engaged(e)

LEMMA CalmBefore ==
  ASSUME IInv, [Next]_vars, Calm'
  PROVE  Calm
  <1>1. /\ count["gains"] <= count'["gains"] /\ count["fails"] <= count'["fails"]
        /\ count["gains"] \in Nat /\ count["fails"] \in Nat
    BY CountStep DEF IInv, TypeOK, Events
  <1> QED  BY <1>1 DEF Calm

(* A server's step that gives no turf.                                     *)
LEMMA OwnServer ==
  ASSUME IInv, Calm, Own, \A e \in Engines : Engaged(e), ServerStep, Calm'
  PROVE  Own' /\ \A e \in Engines : Engaged(e)'
  <1>1. UNCHANGED <<deviceVars, engine>>
    BY ServerTypes
  <1>2. assigned' \subseteq assigned
    <2>1. ASSUME NEW t \in Turfs, AssignTurf(t) PROVE FALSE
      <3>1. count'["gains"] > 0
        BY <2>1, CountedStep DEF IInv, AssignTurf, Events
      <3> QED  BY <3>1 DEF Calm
    <2> QED  BY <2>1 DEF ServerStep, Begin, Commit, UnassignTurf, UpdateTurfBoundary
  <1>3. Own'
    BY <1>1 DEF Own, deviceVars
  <1>4. ASSUME NEW e \in Engines PROVE Engaged(e)'
    <2>1. Engaged(e)
      OBVIOUS
    <2>2. UNCHANGED <<localTurfs, label, engine>>
      BY <1>1 DEF deviceVars
    <2> QED  BY <1>2, <2>1, <2>2 DEF Engaged, Comparing, Reassigning, Pulling, Answered
  <1> QED  BY <1>3, <1>4

(* A step of the engine.                                                   *)
LEMMA OwnEngine ==
  ASSUME IInv, Calm, Own, NEW e \in Engines, Engaged(e), Calm',
         Cycle(e) \/ ManifestFails(e) \/ PullFails(e) \/ Kill(e)
  PROVE  Own' /\ Engaged(e)'
  <1> USE DEF Engaged, Comparing, Reassigning, Pulling, Answered, Own
  <1>0. UNCHANGED assigned
    BY DEF Cycle, GetManifest, CompareTurfs, DeleteVotersForTurf, DeleteAssignment,
       InsertAssignment, GetTurfIds, GetCursor, PullPage, ScanFails, EmptyPage, UpsertPage, UpdateCursor,
       ManifestFails, PullFails, Kill, serverVars
  <1>1. CASE ManifestFails(e) \/ PullFails(e)
    <2>1. count'["fails"] > 0
      BY <1>1, CountedStep DEF IInv, ManifestFails, PullFails, Events
    <2> QED  BY <2>1 DEF Calm
  <1>2. CASE ScanFails(e) \/ Kill(e)
    BY <1>2, IdleStep DEF ScanFails, Kill, deviceVars
  <1>3. CASE GetManifest(e)
    BY <1>0, <1>3, GetManifestStep DEF GetManifest, deviceVars
  <1>4. CASE CompareTurfs(e)
    <2>1. UNCHANGED <<localTurfs, label>>
      BY <1>4 DEF CompareTurfs, deviceVars
    <2> QED  BY <1>0, <1>4, <2>1, CompareStep
  <1>5. CASE DeleteVotersForTurf(e)
    <2>1. PICK t \in engine[e].removed :
            /\ engine'[e].removed = engine[e].removed \ {t} /\ engine'[e].dropping = {t}
            /\ label' = [r \in Rows |-> IF r \in Voters /\ t \in label[r] THEN {} ELSE label[r]]
      BY <1>5, DeleteVotersStep
    <2>2. /\ engine[e].pc = "reassign" /\ engine'[e].pc = "reassign"
          /\ engine'[e].added = engine[e].added /\ UNCHANGED localTurfs
      BY <1>5, DeleteVotersStep DEF DeleteVotersForTurf
    <2>3. \A r \in Voters : label'[r] = IF t \in label[r] THEN {} ELSE label[r]
      BY <2>1 DEF Rows
    <2> QED  BY <1>0, <2>1, <2>2, <2>3
  <1>6. CASE DeleteAssignment(e)
    <2>1. /\ engine[e].pc = "reassign" /\ engine'[e].pc = "reassign"
          /\ engine'[e].dropping = {} /\ engine'[e].removed = engine[e].removed
          /\ engine'[e].added = engine[e].added
      BY <1>6, DeleteAssignmentStep
    <2>2. localTurfs' = localTurfs \ engine[e].dropping /\ UNCHANGED label
      BY <1>6 DEF DeleteAssignment
    <2> QED  BY <1>0, <2>1, <2>2
  <1>7. CASE InsertAssignment(e)
    <2>1. PICK t \in engine[e].added :
            /\ localTurfs' = localTurfs \cup {t}
            /\ t \notin localTurfs => engine'[e].added = engine[e].added \ {t}
      BY <1>7, InsertAssignmentStep
    <2>2. /\ engine[e].pc = "reassign" /\ engine'[e].pc = "reassign"
          /\ engine'[e].dropping = {} /\ engine'[e].removed = {} /\ UNCHANGED label
      BY <1>7, InsertAssignmentStep DEF InsertAssignment
    <2> QED  BY <1>0, <2>1, <2>2
  <1>8. CASE GetTurfIds(e)
    <2>1. UNCHANGED <<localTurfs, label>>
      BY <1>8 DEF GetTurfIds, deviceVars
    <2> QED  BY <1>0, <1>8, <2>1, GetTurfIdsStep
  <1>9. CASE GetCursor(e)
    BY <1>0, <1>9, GetCursorStep DEF GetCursor, deviceVars
  <1>10. CASE PullPage(e)
    <2>1. PICK S : /\ Leads(S, Feeds[engine[e].feed], engine[e].since)
                   /\ engine'[e].page = [r \in RowsOf(S) |-> stamp[r]]
                   /\ \A r \in RowsOf(S) : <<r, engine'[e].names[r]>> \in S
      BY <1>10, PullPageStep
    <2>2. \A p \in S : p[2] \in assigned
      BY <2>1, BehindIs DEF Leads
    <2>3. \A r \in DOMAIN engine'[e].page : engine'[e].names[r] \in assigned
      <3>1. ASSUME NEW r \in RowsOf(S) PROVE engine'[e].names[r] \in assigned
        <4>1. <<r, engine'[e].names[r]>>[2] \in assigned
          BY <2>1, <2>2, Zenon
        <4> QED  BY <4>1
      <3> QED  BY <2>1, <3>1
    <2>4. UNCHANGED <<localTurfs, label>> /\ engine[e].pc = "ask" /\ engine'[e].pc = "answer"
      BY <1>10, PullPageStep DEF PullPage, deviceVars
    <2> QED  BY <1>0, <2>3, <2>4
  <1>11. CASE EmptyPage(e)
    <2>1. UNCHANGED <<localTurfs, label>>
      BY <1>11 DEF EmptyPage, deviceVars
    <2> QED  BY <1>0, <1>11, <2>1, EmptyPageStep
  <1>12. CASE UpsertPage(e)
    <2>1. /\ engine[e].pc = "answer" /\ engine'[e].pc = "save" /\ UNCHANGED localTurfs
          /\ label' = [r \in Rows |-> IF r \in DOMAIN engine[e].page THEN {engine[e].names[r]}
                                      ELSE label[r]]
      BY <1>12, UpsertPageStep DEF UpsertPage
    <2>2. \A r \in Voters : label'[r] = IF r \in DOMAIN engine[e].page
                                        THEN {engine[e].names[r]} ELSE label[r]
      BY <2>1 DEF Rows
    <2>3. \A r \in DOMAIN engine[e].page : engine[e].names[r] \in localTurfs
      BY <2>1
    <2>4. Own'
      <3>1. ASSUME NEW r \in Voters PROVE label'[r] \subseteq localTurfs
        BY <2>2, <2>3
      <3> QED  BY <2>1, <3>1
    <2> QED  BY <1>0, <2>1, <2>4
  <1>13. CASE UpdateCursor(e)
    <2>1. engine[e].pc = "save" /\ engine'[e].pc \in {"ask", "idle", "cursor"}
      BY <1>13, UpdateCursorStep
    <2>2. UNCHANGED <<localTurfs, label>>
      BY <1>13 DEF UpdateCursor
    <2> QED  BY <1>0, <2>1, <2>2
  <1> QED  BY <1>1, <1>2, <1>3, <1>4, <1>5, <1>6, <1>7, <1>8, <1>9, <1>10, <1>11, <1>12,
              <1>13 DEF Cycle

LEMMA OwnStep == OneEngineAtATime /\ IInv /\ OwnInv /\ [Next]_vars => OwnInv'
  <1> SUFFICES ASSUME OneEngineAtATime, IInv, OwnInv, [Next]_vars, Calm'
               PROVE  Own' /\ \A e \in Engines : Engaged(e)'
    BY DEF OwnInv
  <1>1. Calm /\ Own /\ \A e \in Engines : Engaged(e)
    BY CalmBefore DEF OwnInv
  <1>2. CASE UNCHANGED vars
    BY <1>1, <1>2 DEF vars, deviceVars, serverVars, Own, Engaged, Comparing, Reassigning, Pulling,
       Answered
  <1>3. CASE ServerStep
    BY <1>1, <1>3, OwnServer
  <1>4. ASSUME NEW e \in Engines, Cycle(e) \/ ManifestFails(e) \/ PullFails(e) \/ Kill(e)
        PROVE  Own' /\ \A d \in Engines : Engaged(d)'
    <2>1. Own' /\ Engaged(e)'
      BY <1>1, <1>4, OwnEngine
    <2>2. \A d \in Engines : d = e
      BY DEF OneEngineAtATime
    <2> QED  BY <2>1, <2>2
  <1> QED  BY <1>2, <1>3, <1>4 DEF Next

LEMMA OwnInit == Init => OwnInv
  <1> SUFFICES ASSUME Init PROVE Own /\ \A e \in Engines : Engaged(e)
    BY DEF OwnInv
  <1>1. \A e \in Engines : engine[e].pc = "idle"
    BY IdleState DEF Init
  <1>2. \A r \in Voters : label[r] = {}
    BY DEF Init, Rows
  <1> QED  BY <1>1, <1>2 DEF Own, Engaged, Comparing, Reassigning, Pulling, Answered

(* With one engine, any number of lost turfs and kills: while no turf is   *)
(* gained and no call fails, the device's voters name its own turfs only   *)
(* (handleTurfReassignment and the pull after it).                         *)
THEOREM VotersStayOwn == OneEngineAtATime => (Spec => []VotersOfOwnTurfs)
  <1>1. OwnInv => VotersOfOwnTurfs
    BY DEF OwnInv, Calm, Own, VotersOfOwnTurfs
  <1>2. ASSUME OneEngineAtATime PROVE Spec => []VotersOfOwnTurfs
    <2>1. IInv /\ OwnInv /\ [Next]_vars => OwnInv'
      BY <1>2, OwnStep
    <2> QED  BY <1>1, <2>1, InvHolds, OwnInit, PTL DEF Spec
  <1> QED  BY <1>2

-----------------------------------------------------------------------------
(* What an orderly server's steps keep, and where the device's voters lie. *)

(* No row moves, no turf is gained, and no row is wanted anew.             *)
Lasting == /\ inside' = inside /\ assigned' \subseteq assigned
           /\ count'["losses"] = 0 => count["losses"] = 0
           /\ \A r \in Rows : Wanted(r)' => Wanted(r)

LEMMA OrderlyBefore ==
  ASSUME IInv, [Next]_vars, Orderly'
  PROVE  Orderly
  <1>1. ASSUME NEW event \in {"late", "ties", "gains", "redrawn"} PROVE count[event] = 0
    <2>1. count[event] <= count'[event] /\ count[event] \in Nat /\ count'[event] = 0
      BY CountStep DEF IInv, TypeOK, Events, Orderly
    <2> QED  BY <2>1
  <1> QED  BY <1>1 DEF Orderly

LEMMA OrderlyStep ==
  ASSUME IInv, [Next]_vars, Orderly'
  PROVE  Lasting
  <1>1. ASSUME NEW event \in {"gains", "redrawn"}, Counted(event) PROVE FALSE
    <2>1. count'[event] > 0
      BY <1>1, CountedStep DEF IInv, Events
    <2> QED  BY <2>1 DEF Orderly
  <1>2. inside' = inside /\ assigned' \subseteq assigned
    <2>1. CASE ServerStep
      BY <1>1, <2>1 DEF ServerStep, Begin, Commit, AssignTurf, UnassignTurf, UpdateTurfBoundary
    <2>2. CASE UNCHANGED vars
      BY <2>2 DEF vars, serverVars
    <2>3. ASSUME NEW e \in Engines, Cycle(e) \/ ManifestFails(e) \/ PullFails(e) \/ Kill(e)
          PROVE  UNCHANGED <<inside, assigned>>
      BY <2>3 DEF Cycle, GetManifest, CompareTurfs, DeleteVotersForTurf, DeleteAssignment,
         InsertAssignment, GetTurfIds, GetCursor, PullPage, ScanFails, EmptyPage, UpsertPage,
         UpdateCursor, ManifestFails, PullFails, Kill, serverVars
    <2> QED  BY <2>1, <2>2, <2>3 DEF Next
  <1>3. count'["losses"] = 0 => count["losses"] = 0
    <2>1. count["losses"] <= count'["losses"] /\ count["losses"] \in Nat
      BY CountStep DEF IInv, TypeOK, Events
    <2> QED  BY <2>1
  <1> QED  BY <1>2, <1>3 DEF Lasting, Wanted

(* What the device holds names turfs the row lies in; nothing assigned is  *)
(* dropped, and while no turf was taken nothing is dropped at all.         *)
Labelled == \A r \in Rows : label[r] \subseteq inside[r]

Named(e) ==
  engine[e].pc = "answer" =>
    \A r \in DOMAIN engine[e].page : engine[e].names[r] \in inside[r]

Dropping(e) ==
  /\ engine[e].pc = "compare" => assigned \subseteq engine[e].manifest
  /\ engine[e].pc = "reassign" => engine[e].removed \cap assigned = {}

Steady(e) ==
  count["losses"] = 0 =>
    /\ localTurfs \subseteq assigned
    /\ engine[e].pc = "compare" => engine[e].manifest \subseteq assigned
    /\ engine[e].pc = "reassign" => engine[e].removed = {} /\ engine[e].added \subseteq assigned

Sited == Labelled /\ \A e \in Engines : Named(e) /\ Dropping(e) /\ Steady(e)

SiteInv == Orderly => Sited

LEMMA SitedServer ==
  ASSUME IInv, Sited, ServerStep, Lasting
  PROVE  Sited'
  <1>1. UNCHANGED <<deviceVars, engine>>
    BY ServerTypes
  <1>2. count'["losses"] = 0 => assigned' = assigned
    <2>1. ASSUME NEW t \in Turfs, UnassignTurf(t) PROVE count'["losses"] > 0
      BY <2>1, CountedStep DEF IInv, UnassignTurf, Events
    <2>2. ASSUME NEW t \in Turfs, AssignTurf(t) PROVE FALSE
      BY <2>2 DEF AssignTurf, Lasting
    <2> QED  BY <2>1, <2>2 DEF ServerStep, Begin, Commit, UpdateTurfBoundary
  <1>3. Labelled'
    BY <1>1 DEF Sited, Labelled, Lasting, deviceVars
  <1>4. ASSUME NEW e \in Engines PROVE Named(e)' /\ Dropping(e)' /\ Steady(e)'
    <2>1. Named(e) /\ Dropping(e) /\ Steady(e)
      BY DEF Sited
    <2>2. UNCHANGED <<localTurfs, engine>>
      BY <1>1 DEF deviceVars
    <2>3. Named(e)' /\ Dropping(e)'
      BY <2>1, <2>2 DEF Named, Dropping, Lasting
    <2>4. Steady(e)'
      BY <1>2, <2>1, <2>2 DEF Steady, Lasting
    <2> QED  BY <2>3, <2>4
  <1> QED  BY <1>3, <1>4 DEF Sited

LEMMA SitedEngine ==
  ASSUME IInv, Sited, NEW e \in Engines, Lasting,
         Cycle(e) \/ ManifestFails(e) \/ PullFails(e) \/ Kill(e)
  PROVE  Labelled' /\ Named(e)' /\ Dropping(e)' /\ Steady(e)'
  <1> DEFINE Away == engine'[e].pc \notin {"compare", "reassign", "answer"}
  <1>0. /\ UNCHANGED assigned /\ inside' = inside /\ Labelled
        /\ Named(e) /\ Dropping(e) /\ Steady(e)
        /\ count'["losses"] = 0 => count["losses"] = 0
    BY DEF Sited, Lasting, Cycle, GetManifest, CompareTurfs, DeleteVotersForTurf,
       DeleteAssignment, InsertAssignment, GetTurfIds, GetCursor, PullPage, ScanFails, EmptyPage,
       UpsertPage, UpdateCursor, ManifestFails, PullFails, Kill, serverVars
  <1>1. ASSUME UNCHANGED <<localTurfs, label>>, Away
        PROVE  Labelled' /\ Named(e)' /\ Dropping(e)' /\ Steady(e)'
    BY <1>0, <1>1 DEF Labelled, Named, Dropping, Steady
  <1>2. CASE ManifestFails(e) \/ ScanFails(e) \/ PullFails(e) \/ Kill(e)
    BY <1>1, <1>2, ManifestFailsStep, IdleStep DEF ManifestFails, ScanFails, PullFails, Kill,
       deviceVars
  <1>3. CASE GetTurfIds(e) \/ EmptyPage(e)
    BY <1>1, <1>3, GetTurfIdsStep, EmptyPageStep DEF GetTurfIds, EmptyPage, deviceVars
  <1>4. CASE GetCursor(e)
    BY <1>1, <1>4, GetCursorStep DEF GetCursor, deviceVars
  <1>5. CASE UpdateCursor(e)
    <2>1. engine'[e].pc \in {"ask", "idle", "cursor"}
      BY <1>5, UpdateCursorStep
    <2> QED  BY <1>1, <1>5, <2>1 DEF UpdateCursor
  <1>6. CASE GetManifest(e)
    <2>1. /\ engine'[e].pc = "compare" /\ engine'[e].manifest = assigned
          /\ UNCHANGED <<localTurfs, label>>
      BY <1>6, GetManifestStep DEF GetManifest, deviceVars
    <2> QED  BY <1>0, <2>1 DEF Labelled, Named, Dropping, Steady
  <1>7. CASE CompareTurfs(e)
    <2>1. /\ engine[e].pc = "compare" /\ engine'[e].pc = "reassign"
          /\ engine'[e].removed = localTurfs \ engine[e].manifest
          /\ engine'[e].added = engine[e].manifest \ localTurfs
          /\ UNCHANGED <<localTurfs, label>>
      BY <1>7, CompareStep DEF CompareTurfs, deviceVars
    <2> QED  BY <1>0, <2>1 DEF Labelled, Named, Dropping, Steady
  <1>8. CASE DeleteVotersForTurf(e)
    <2>1. PICK t \in engine[e].removed :
            /\ engine'[e].removed = engine[e].removed \ {t}
            /\ label' = [r \in Rows |-> IF r \in Voters /\ t \in label[r] THEN {} ELSE label[r]]
      BY <1>8, DeleteVotersStep
    <2>2. /\ engine[e].pc = "reassign" /\ engine'[e].pc = "reassign"
          /\ engine'[e].added = engine[e].added /\ UNCHANGED localTurfs
      BY <1>8, DeleteVotersStep DEF DeleteVotersForTurf
    <2>3. Labelled'
      BY <1>0, <2>1 DEF Labelled
    <2> QED  BY <1>0, <2>1, <2>2, <2>3 DEF Named, Dropping, Steady
  <1>9. CASE DeleteAssignment(e)
    <2>1. /\ engine[e].pc = "reassign" /\ engine'[e].pc = "reassign"
          /\ engine'[e].removed = engine[e].removed /\ engine'[e].added = engine[e].added
          /\ localTurfs' \subseteq localTurfs /\ UNCHANGED label
      BY <1>9, DeleteAssignmentStep DEF DeleteAssignment
    <2> QED  BY <1>0, <2>1 DEF Labelled, Named, Dropping, Steady
  <1>10. CASE InsertAssignment(e)
    <2>1. PICK t \in engine[e].added : localTurfs' = localTurfs \cup {t}
      BY <1>10, InsertAssignmentStep
    <2>2. /\ engine[e].pc = "reassign" /\ engine'[e].pc = "reassign"
          /\ engine'[e].removed = {} /\ engine'[e].added \subseteq engine[e].added
          /\ UNCHANGED label
      BY <1>10, InsertAssignmentStep DEF InsertAssignment
    <2> QED  BY <1>0, <2>1, <2>2 DEF Labelled, Named, Dropping, Steady
  <1>11. CASE PullPage(e)
    <2>1. PICK S : /\ Leads(S, Feeds[engine[e].feed], engine[e].since)
                   /\ engine'[e].page = [r \in RowsOf(S) |-> stamp[r]]
                   /\ \A r \in RowsOf(S) : <<r, engine'[e].names[r]>> \in S
      BY <1>11, PullPageStep
    <2>2. \A p \in S : p[2] \in inside[p[1]]
      BY <2>1, BehindIs DEF Leads
    <2>3. ASSUME NEW r \in RowsOf(S) PROVE engine'[e].names[r] \in inside[r]
      <3>1. <<r, engine'[e].names[r]>>[2] \in inside[<<r, engine'[e].names[r]>>[1]]
        BY <2>1, <2>2, Zenon
      <3> QED  BY <3>1
    <2>4. Named(e)'
      BY <1>0, <2>1, <2>3 DEF Named
    <2>5. UNCHANGED <<localTurfs, label>> /\ engine'[e].pc = "answer"
      BY <1>11, PullPageStep DEF PullPage, deviceVars
    <2> QED  BY <1>0, <2>4, <2>5 DEF Labelled, Dropping, Steady
  <1>12. CASE UpsertPage(e)
    <2>1. /\ engine[e].pc = "answer" /\ engine'[e].pc = "save" /\ UNCHANGED localTurfs
          /\ label' = [r \in Rows |-> IF r \in DOMAIN engine[e].page THEN {engine[e].names[r]}
                                      ELSE label[r]]
      BY <1>12, UpsertPageStep DEF UpsertPage
    <2>2. Labelled'
      BY <1>0, <2>1 DEF Labelled, Named
    <2> QED  BY <1>0, <2>1, <2>2 DEF Named, Dropping, Steady
  <1> QED  BY <1>2, <1>3, <1>4, <1>5, <1>6, <1>7, <1>8, <1>9, <1>10, <1>11, <1>12 DEF Cycle

LEMMA SiteStep == OneEngineAtATime /\ IInv /\ SiteInv /\ [Next]_vars => SiteInv'
  <1> SUFFICES ASSUME OneEngineAtATime, IInv, SiteInv, [Next]_vars, Orderly'
               PROVE  Sited'
    BY DEF SiteInv
  <1>1. Sited /\ Lasting
    BY OrderlyBefore, OrderlyStep DEF SiteInv
  <1>2. CASE UNCHANGED vars
    BY <1>1, <1>2 DEF vars, serverVars, deviceVars, Sited, Labelled, Named, Dropping, Steady
  <1>3. CASE ServerStep
    BY <1>1, <1>3, SitedServer
  <1>4. ASSUME NEW e \in Engines, Cycle(e) \/ ManifestFails(e) \/ PullFails(e) \/ Kill(e)
        PROVE  Sited'
    <2>1. Labelled' /\ Named(e)' /\ Dropping(e)' /\ Steady(e)'
      BY <1>1, <1>4, SitedEngine
    <2>2. \A d \in Engines : d = e
      BY DEF OneEngineAtATime
    <2> QED  BY <2>1, <2>2 DEF Sited
  <1> QED  BY <1>2, <1>3, <1>4 DEF Next

LEMMA SiteInit == Init => SiteInv
  <1> SUFFICES ASSUME Init PROVE Sited
    BY DEF SiteInv
  <1>1. \A e \in Engines : engine[e].pc = "idle"
    BY IdleState DEF Init
  <1>2. localTurfs = {} /\ \A r \in Rows : label[r] = {}
    BY DEF Init
  <1> QED  BY <1>1, <1>2 DEF Sited, Labelled, Named, Dropping, Steady

-----------------------------------------------------------------------------
(* Nothing behind the cursor.  On an orderly server the stamps become      *)
(* visible one by one and in order, so a row that changes gets a stamp     *)
(* beyond every cursor and every page in hand; and a page holds whatever   *)
(* the device lacks up to the page's last stamp.                           *)

Clock ==
  /\ \A t \in open : /\ \E r \in Rows : t.rows = {r}
                     /\ 0 < t.stamp /\ t.stamp <= now
                     /\ \A r \in Rows : stamp[r] # t.stamp
  /\ \A t, u \in open : t.stamp = u.stamp => t = u
  /\ \A r \in Rows : stamp[r] <= now
  /\ \A r, q \in Rows : stamp[r] = stamp[q] /\ stamp[r] > 0 => r = q

(* The device's copies and the cursors are not ahead of the server.        *)
NotAhead ==
  /\ \A r \in Rows : device[r] <= stamp[r]
  /\ \A f \in FeedNames : cursor[f] = 0 \/ \E r \in Rows : cursor[f] <= stamp[r]

Covered ==
  \A r \in Rows : (Wanted(r) /\ stamp[r] <= cursor[FeedOf(r)]) => device[r] = stamp[r]

AtCursor(e) ==
  engine[e].pc \in {"ask", "answer"} => engine[e].since = cursor[Feeds[engine[e].feed]]

PageNotAhead(e) ==
  engine[e].pc \in {"answer", "save"} =>
    \A r \in DOMAIN engine[e].page : engine[e].page[r] <= stamp[r]

PageIsNew(e) ==
  engine[e].pc = "answer" =>
    \A r \in DOMAIN engine[e].page :
      FeedOf(r) = Feeds[engine[e].feed] /\ engine[e].since < engine[e].page[r]

(* A wanted row r of the feed engine e pulls, with a stamp up to that of   *)
(* row q in the page.                                                      *)
Within(e, r, q) == /\ FeedOf(r) = Feeds[engine[e].feed] /\ Wanted(r)
                   /\ stamp[r] <= engine[e].page[q]

PageIsComplete(e) ==
  engine[e].pc = "answer" =>
    \A r \in Rows, q \in DOMAIN engine[e].page :
      Within(e, r, q) => IF r \in DOMAIN engine[e].page THEN engine[e].page[r] = stamp[r]
                                                       ELSE device[r] = stamp[r]

PageIsStored(e) ==
  engine[e].pc = "save" =>
    \A r \in Rows, q \in DOMAIN engine[e].page : Within(e, r, q) => device[r] = stamp[r]

Tracks(e) == /\ AtCursor(e) /\ PageNotAhead(e) /\ PageIsNew(e)
             /\ PageIsComplete(e) /\ PageIsStored(e)

Tracked == Clock /\ NotAhead /\ Covered /\ \A e \in Engines : Tracks(e)

CursorInv == Orderly => Tracked

LEMMA SingleRow ==
  ASSUME NEW S \in SUBSET Rows, S # {}, ~(Cardinality(S) > 1)
  PROVE  \E r \in Rows : S = {r}
  <1>1. IsFiniteSet(S)
    BY PullAssumption, FS_Subset
  <1>2. Cardinality(S) \in Nat /\ Cardinality(S) # 0
    BY <1>1, FS_CardinalityType, FS_EmptySet
  <1>3. Cardinality(S) = 1
    BY <1>2
  <1> QED  BY <1>1, <1>3, FS_Singleton

LEMMA BeginClock ==
  ASSUME IInv, Clock, NEW S \in SUBSET Rows, Begin(S), Orderly'
  PROVE  Clock'
  <1>1. ~(Cardinality(S) > 1)
    <2>1. CASE Cardinality(S) > 1
      <3>1. count'["ties"] > 0
        BY <2>1, CountedStep DEF IInv, Begin, Events
      <3> QED  BY <3>1 DEF Orderly
    <2> QED  BY <2>1
  <1>2. PICK r \in Rows : S = {r}
    BY <1>1, SingleRow DEF Begin
  <1> DEFINE new == [rows |-> S, stamp |-> now + 1]
  <1>3. /\ now' = now + 1 /\ open' = open \cup {new} /\ stamp' = stamp /\ now \in Nat
        /\ stamp \in [Rows -> Nat]
    BY DEF Begin, IInv, TypeOK, Times
  <1>4. new.rows = {r} /\ new.stamp = now + 1
    BY <1>2
  <1>5. \A t \in open : t.stamp \in Nat
    BY DEF IInv, TypeOK, Times
  <1> HIDE DEF new
  <1>6. \A q \in Rows : stamp[q] # new.stamp /\ stamp[q] <= now'
    <2>1. ASSUME NEW q \in Rows PROVE stamp[q] # new.stamp /\ stamp[q] <= now'
      <3>1. stamp[q] <= now /\ stamp[q] \in Nat
        BY <1>3 DEF Clock
      <3> QED  BY <1>3, <1>4, <3>1
    <2> QED  BY <2>1
  <1>7. \A t \in open : t.stamp # new.stamp /\ t.stamp <= now'
    <2>1. ASSUME NEW t \in open PROVE t.stamp # new.stamp /\ t.stamp <= now'
      <3>1. t.stamp <= now /\ t.stamp \in Nat
        BY <1>5 DEF Clock
      <3> QED  BY <1>3, <1>4, <3>1
    <2> QED  BY <2>1
  <1>8. 0 < new.stamp /\ new.stamp <= now'
    BY <1>3, <1>4
  <1> QED  BY <1>3, <1>4, <1>6, <1>7, <1>8 DEF Clock

(* A commit gives one row a stamp beyond all others.                       *)
LEMMA CommitIsNewest ==
  ASSUME IInv, Clock, NEW t \in open, Commit(t), Orderly'
  PROVE  /\ t.stamp \in Nat /\ \A r \in Rows : stamp[r] < t.stamp
         /\ \E x \in Rows : /\ t.rows = {x} /\ stamp'[x] = t.stamp
                            /\ \A r \in Rows \ {x} : stamp'[r] = stamp[r]
  <1>1. t.stamp \in Nat /\ stamp \in [Rows -> Nat]
    BY DEF IInv, TypeOK, Times
  <1>2. ~ \E r \in Rows : stamp[r] > t.stamp
    <2>1. CASE \E r \in Rows : stamp[r] > t.stamp
      <3>1. count'["late"] > 0
        BY <2>1, CountedStep DEF IInv, Commit, Events
      <3> QED  BY <3>1 DEF Orderly
    <2> QED  BY <2>1
  <1>3. ASSUME NEW r \in Rows PROVE stamp[r] < t.stamp
    <2>1. stamp[r] # t.stamp /\ ~(stamp[r] > t.stamp) /\ stamp[r] \in Nat
      BY <1>1, <1>2 DEF Clock
    <2> QED  BY <1>1, <2>1
  <1>4. PICK x \in Rows : t.rows = {x}
    BY DEF Clock
  <1> QED  BY <1>1, <1>3, <1>4 DEF Commit

LEMMA CommitClock ==
  ASSUME IInv, Clock, NEW t \in open, Commit(t), Orderly'
  PROVE  Clock'
  <1>1. /\ t.stamp \in Nat /\ \A r \in Rows : stamp[r] < t.stamp
    BY CommitIsNewest
  <1>2. PICK x \in Rows : stamp'[x] = t.stamp /\ \A r \in Rows \ {x} : stamp'[r] = stamp[r]
    BY CommitIsNewest
  <1>3. open' = open \ {t} /\ now' = now
    BY DEF Commit
  <1>4. \A u \in open' : u.stamp # t.stamp
    BY <1>3 DEF Clock
  <1>5. ASSUME NEW r \in Rows PROVE stamp'[r] <= now'
    BY <1>2, <1>3 DEF Clock
  <1>6. ASSUME NEW r \in Rows, NEW q \in Rows, stamp'[r] = stamp'[q], stamp'[r] > 0 PROVE r = q
    <2>1. stamp[r] \in Nat /\ stamp[q] \in Nat /\ stamp[r] < t.stamp /\ stamp[q] < t.stamp
      BY <1>1 DEF IInv, TypeOK, Times
    <2> QED  BY <1>1, <1>2, <1>6, <2>1 DEF Clock
  <1> QED  BY <1>2, <1>3, <1>4, <1>5, <1>6 DEF Clock

(* The server's steps.  A row that gets a newer stamp lies beyond all      *)
(* cursors and pages; a turf that is taken asks less.                      *)
LEMMA TrackedCommit ==
  ASSUME IInv, Tracked, NEW t \in open, Commit(t), Orderly', Lasting
  PROVE  Tracked'
  <1> USE DEF Tracked
  <1>1. t.stamp \in Nat /\ \A r \in Rows : stamp[r] < t.stamp
    BY CommitIsNewest
  <1>2. PICK x \in Rows : stamp'[x] = t.stamp /\ \A r \in Rows \ {x} : stamp'[r] = stamp[r]
    BY CommitIsNewest
  <1>3. UNCHANGED <<assigned, localTurfs, device, cursor, engine>>
    BY DEF Commit, deviceVars
  <1>4. /\ \A r \in Rows : stamp[r] \in Nat /\ stamp'[r] \in Nat /\ device[r] \in Nat
        /\ \A f \in FeedNames : cursor[f] \in Nat
    BY <1>1, <1>2 DEF IInv, TypeOK, Times, FeedNames
  <1>5. \A r \in Rows : stamp[r] <= stamp'[r]
    BY <1>1, <1>2, <1>4
  <1>6. NotAhead'
    BY <1>3, <1>4, <1>5 DEF NotAhead
  <1>7. \A r \in Rows : FeedOf(r) \in FeedNames
    BY DEF FeedOf, FeedNames
  <1>8. \A f \in FeedNames : cursor[f] < t.stamp \/ cursor[f] = 0
    BY <1>1, <1>4 DEF NotAhead
  <1>9. t.stamp > 0
    BY DEF Clock
  <1>10. \A f \in FeedNames : cursor[f] < t.stamp
    BY <1>8, <1>9
  <1>11. Covered'
    <2>1. ASSUME NEW r \in Rows, Wanted(r)', stamp'[r] <= cursor[FeedOf(r)]
          PROVE  device[r] = stamp'[r]
      <3>1. r # x
        BY <1>1, <1>2, <1>4, <1>7, <1>10, <2>1
      <3> QED  BY <1>2, <2>1, <3>1 DEF Covered, Lasting
    <2> QED  BY <1>3, <2>1 DEF Covered, FeedOf
  <1>12. ASSUME NEW e \in Engines PROVE Tracks(e)'
    <2>1. Tracks(e)
      OBVIOUS
    <2>2. engine[e].page \in Page
      BY DEF IInv, TypeOK, EngineState
    <2>3. \A q \in DOMAIN engine[e].page : q \in Rows /\ engine[e].page[q] \in Nat
      BY <2>2, PageIsFunction DEF Times
    <2>4. PageNotAhead(e)'
      BY <1>3, <1>4, <1>5, <2>1, <2>3 DEF Tracks, PageNotAhead
    <2>5. ASSUME engine[e].pc \in {"answer", "save"}, NEW r \in Rows,
                 NEW q \in DOMAIN engine[e].page, Within(e, r, q)'
          PROVE  Within(e, r, q) /\ stamp'[r] = stamp[r]
      <3>1. engine[e].page[q] < t.stamp
        <4>1. engine[e].page[q] <= stamp[q] /\ stamp[q] < t.stamp
          BY <1>1, <2>1, <2>3, <2>5 DEF Tracks, PageNotAhead
        <4> QED  BY <1>1, <1>4, <2>3, <4>1
      <3>2. stamp'[r] <= engine[e].page[q]
        BY <1>3, <2>5 DEF Within
      <3>3. r # x
        BY <1>1, <1>2, <2>3, <3>1, <3>2
      <3> QED  BY <1>2, <1>3, <2>5, <3>3 DEF Within, FeedOf, Lasting
    <2>6. PageIsComplete(e)'
      <3>1. SUFFICES ASSUME engine[e].pc = "answer", NEW r \in Rows,
                            NEW q \in DOMAIN engine[e].page, Within(e, r, q)'
                     PROVE  IF r \in DOMAIN engine[e].page THEN engine[e].page[r] = stamp'[r]
                                                           ELSE device[r] = stamp'[r]
        BY <1>3 DEF PageIsComplete
      <3>2. Within(e, r, q) /\ stamp'[r] = stamp[r]
        BY <2>5, <3>1
      <3> QED  BY <2>1, <3>1, <3>2 DEF Tracks, PageIsComplete
    <2>7. PageIsStored(e)'
      <3>1. SUFFICES ASSUME engine[e].pc = "save", NEW r \in Rows,
                            NEW q \in DOMAIN engine[e].page, Within(e, r, q)'
                     PROVE  device[r] = stamp'[r]
        BY <1>3 DEF PageIsStored
      <3>2. Within(e, r, q) /\ stamp'[r] = stamp[r]
        BY <2>5, <3>1
      <3> QED  BY <2>1, <3>1, <3>2 DEF Tracks, PageIsStored
    <2>8. AtCursor(e)' /\ PageIsNew(e)'
      BY <1>3, <2>1 DEF Tracks, AtCursor, PageIsNew, FeedOf
    <2> QED  BY <2>4, <2>6, <2>7, <2>8 DEF Tracks
  <1>13. Clock'
    BY CommitClock
  <1> QED  BY <1>6, <1>11, <1>12, <1>13

(* What changes neither rows nor the device's state.                       *)
LEMMA TrackedQuiet ==
  ASSUME IInv, Tracked, UNCHANGED <<stamp, device, cursor, engine>>, Lasting, Clock'
  PROVE  Tracked'
  <1>1. NotAhead' /\ Covered'
    BY DEF Tracked, NotAhead, Covered, FeedOf, Lasting
  <1>2. ASSUME NEW e \in Engines PROVE Tracks(e)'
    <2>1. Tracks(e)
      BY DEF Tracked
    <2>2. \A r \in Rows, q \in DOMAIN engine[e].page : Within(e, r, q)' => Within(e, r, q)
      BY DEF Within, FeedOf, Lasting
    <2> QED  BY <2>1, <2>2 DEF Tracks, AtCursor, PageNotAhead, PageIsNew, PageIsComplete,
                PageIsStored, FeedOf
  <1> QED  BY <1>1, <1>2 DEF Tracked

LEMMA TrackedServer ==
  ASSUME IInv, Tracked, ServerStep, Orderly', Lasting
  PROVE  Tracked'
  <1>1. ASSUME NEW S \in SUBSET Rows, Begin(S) PROVE Tracked'
    <2>1. Clock'
      BY <1>1, BeginClock DEF Tracked
    <2> QED  BY <1>1, <2>1, TrackedQuiet DEF Begin, deviceVars
  <1>2. ASSUME NEW t \in open, Commit(t) PROVE Tracked'
    BY <1>2, TrackedCommit
  <1>3. ASSUME NEW t \in Turfs, AssignTurf(t) \/ UnassignTurf(t) \/ UpdateTurfBoundary(t)
        PROVE  Tracked'
    <2>1. UNCHANGED <<now, open, stamp, device, cursor, engine>>
      BY <1>3 DEF AssignTurf, UnassignTurf, UpdateTurfBoundary, deviceVars
    <2>2. Clock'
      BY <2>1 DEF Tracked, Clock
    <2> QED  BY <2>1, <2>2, TrackedQuiet
  <1> QED  BY <1>1, <1>2, <1>3 DEF ServerStep

(* Steps of the engine that leave rows, copies and cursors alone and have  *)
(* no page in hand afterwards.                                             *)
LEMMA TrackedRest ==
  ASSUME IInv, Tracked, NEW e \in Engines, UNCHANGED <<serverVars, device, cursor>>, Lasting,
         engine'[e].pc \notin {"ask", "answer", "save"}
  PROVE  (Clock /\ NotAhead /\ Covered)' /\ Tracks(e)'
  <1>1. (Clock /\ NotAhead /\ Covered)'
    BY DEF Tracked, Clock, NotAhead, Covered, serverVars, FeedOf, Lasting
  <1>2. AtCursor(e)' /\ PageNotAhead(e)' /\ PageIsNew(e)' /\ PageIsComplete(e)' /\ PageIsStored(e)'
    BY DEF AtCursor, PageNotAhead, PageIsNew, PageIsComplete, PageIsStored
  <1> QED  BY <1>1, <1>2 DEF Tracks

(* The answer holds what the device lacks up to its last stamp.            *)
LEMMA TrackedPullPage ==
  ASSUME IInv, Tracked, NEW e \in Engines, PullPage(e), Lasting
  PROVE  Tracks(e)'
  <1> DEFINE f == Feeds[engine[e].feed]
             since == engine[e].since
  <1>1. PICK S : Leads(S, f, since) /\ engine'[e].page = [r \in RowsOf(S) |-> stamp[r]]
    BY PullPageStep
  <1>2. /\ engine[e].pc = "ask" /\ engine'[e].pc = "answer"
        /\ engine'[e].feed = engine[e].feed /\ engine'[e].since = since
        /\ UNCHANGED <<stamp, device, cursor>>
    BY PullPageStep DEF PullPage, serverVars, deviceVars
  <1>3. since = cursor[f] /\ since \in Nat
    BY <1>2 DEF Tracked, Tracks, AtCursor, IInv, TypeOK, EngineState, Times
  <1>4. \A r \in RowsOf(S) : r \in Rows /\ FeedOf(r) = f /\ stamp[r] > since
    BY <1>1, BehindIs DEF Leads, RowsOf
  <1>5. DOMAIN engine'[e].page = RowsOf(S) /\ \A r \in RowsOf(S) : engine'[e].page[r] = stamp[r]
    BY <1>1
  <1>6. \A r \in Rows : stamp[r] \in Nat
    BY DEF IInv, TypeOK, Times
  <1>7. PageNotAhead(e)'
    BY <1>2, <1>4, <1>5, <1>6 DEF PageNotAhead
  <1>8. PageIsNew(e)'
    BY <1>2, <1>3, <1>4, <1>5, <1>6 DEF PageIsNew, FeedOf
  <1>9. PageIsComplete(e)'
    <2>1. SUFFICES ASSUME NEW r \in Rows, NEW q \in RowsOf(S), FeedOf(r) = f, Wanted(r),
                          stamp[r] <= stamp[q], r \notin RowsOf(S)
                   PROVE  device[r] = stamp[r]
      BY <1>2, <1>5 DEF PageIsComplete, Within, FeedOf, Lasting
    <2>2. CASE stamp[r] <= since
      BY <1>3, <2>1, <2>2 DEF Tracked, Covered
    <2>3. CASE ~(stamp[r] <= since)
      <3>1. stamp[r] > since /\ stamp[r] > 0
        BY <1>3, <1>6, <2>3
      <3>2. PICK t \in inside[r] \cap assigned : TRUE
        BY <2>1 DEF Wanted
      <3>3. <<r, t>> \in Behind(f, since) \ S
        <4>1. <<r, t>> \in Behind(f, since)
          BY <2>1, <3>1, <3>2, BehindIs
        <4>2. <<r, t>>[1] = r
          OBVIOUS
        <4> QED  BY <2>1, <4>1, <4>2 DEF RowsOf
      <3>4. PICK p \in S : p[1] = q
        BY DEF RowsOf
      <3>5. stamp[p[1]] <= stamp[<<r, t>>[1]]
        BY <1>1, <3>3 DEF Leads
      <3>6. stamp[q] <= stamp[r] /\ q \in Rows
        BY <1>4, <3>4, <3>5
      <3>7. stamp[q] = stamp[r]
        BY <1>6, <2>1, <3>6
      <3>8. r = q
        BY <3>1, <3>6, <3>7 DEF Tracked, Clock
      <3> QED  BY <2>1, <3>8
    <2> QED  BY <2>2, <2>3
  <1> QED  BY <1>2, <1>3, <1>7, <1>8, <1>9 DEF Tracks, AtCursor, PageIsStored

LEMMA TrackedUpsert ==
  ASSUME IInv, Tracked, NEW e \in Engines, UpsertPage(e), Lasting
  PROVE  (Clock /\ NotAhead /\ Covered)' /\ Tracks(e)'
  <1> DEFINE page == engine[e].page
             f == Feeds[engine[e].feed]
  <1>1. /\ engine[e].pc = "answer" /\ engine'[e].pc = "save"
        /\ engine'[e].feed = engine[e].feed /\ engine'[e].page = page
        /\ page \in Page /\ UNCHANGED <<now, open, stamp, cursor>>
        /\ device' = [r \in Rows |-> IF r \in DOMAIN page THEN page[r] ELSE device[r]]
    BY UpsertPageStep DEF UpsertPage, serverVars
  <1>2. /\ \A r \in Rows : stamp[r] \in Nat
        /\ \A r \in DOMAIN page : r \in Rows /\ page[r] \in Nat
    BY <1>1, PageIsFunction DEF IInv, TypeOK, Times
  <1>3. \A r \in Rows : device'[r] = IF r \in DOMAIN page THEN page[r] ELSE device[r]
    BY <1>1
  <1>4. \A r \in DOMAIN page : page[r] <= stamp[r]
    BY <1>1 DEF Tracked, Tracks, PageNotAhead
  <1>5. cursor[f] \in Nat /\ \A r \in DOMAIN page : FeedOf(r) = f /\ cursor[f] < page[r]
    <2>1. engine[e].since = cursor[f] /\ engine[e].since \in Nat
      BY <1>1 DEF Tracked, Tracks, AtCursor, IInv, TypeOK, EngineState, Times
    <2>2. \A r \in DOMAIN page : FeedOf(r) = f /\ engine[e].since < page[r]
      BY <1>1 DEF Tracked, Tracks, PageIsNew
    <2> QED  BY <2>1, <2>2
  <1> HIDE DEF page, f
  <1>6. NotAhead'
    BY <1>1, <1>3, <1>4 DEF Tracked, NotAhead
  <1>7. Covered'
    <2>1. ASSUME NEW r \in Rows, Wanted(r), stamp[r] <= cursor[FeedOf(r)]
          PROVE  device'[r] = stamp[r]
      <3>1. CASE r \in DOMAIN page
        <4>1. cursor[f] < page[r] /\ page[r] <= stamp[r] /\ stamp[r] <= cursor[f]
          BY <1>4, <1>5, <2>1, <3>1
        <4> QED  BY <1>2, <1>5, <3>1, <4>1
      <3>2. CASE r \notin DOMAIN page
        BY <1>3, <2>1, <3>2 DEF Tracked, Covered
      <3> QED  BY <3>1, <3>2
    <2> QED  BY <1>1, <2>1 DEF Covered, FeedOf, Lasting
  <1>8. PageIsStored(e)'
    <2>1. SUFFICES ASSUME NEW r \in Rows, NEW q \in DOMAIN page, Within(e, r, q)
                   PROVE  device'[r] = stamp[r]
      BY <1>1 DEF PageIsStored, Within, FeedOf, Lasting, page
    <2>2. IF r \in DOMAIN page THEN page[r] = stamp[r] ELSE device[r] = stamp[r]
      BY <1>1, <2>1 DEF Tracked, Tracks, PageIsComplete, page
    <2> QED  BY <1>3, <2>2
  <1>9. Clock'
    BY <1>1 DEF Tracked, Clock
  <1>10. PageNotAhead(e)'
    BY <1>1, <1>4 DEF PageNotAhead
  <1>11. AtCursor(e)' /\ PageIsNew(e)' /\ PageIsComplete(e)'
    BY <1>1 DEF AtCursor, PageIsNew, PageIsComplete
  <1> QED  BY <1>6, <1>7, <1>8, <1>9, <1>10, <1>11 DEF Tracks

LEMMA TrackedUpdate ==
  ASSUME IInv, Tracked, NEW e \in Engines, UpdateCursor(e), Lasting
  PROVE  (Clock /\ NotAhead /\ Covered)' /\ Tracks(e)'
  <1> DEFINE page == engine[e].page
             feed == engine[e].feed
             f == Feeds[feed]
             next == NextCursor(page)
  <1>1. /\ engine[e].pc = "save" /\ feed \in 1 .. Len(Feeds) /\ page \in Page
        /\ DOMAIN page # {} /\ cursor' = [cursor EXCEPT ![f] = next]
        /\ \/ engine'[e].pc = "ask" /\ engine'[e].feed = feed /\ engine'[e].since = next
           \/ engine'[e].pc \in {"idle", "cursor"}
        /\ UNCHANGED <<now, open, stamp, device>>
    BY UpdateCursorStep DEF UpdateCursor, serverVars
  <1>2. f \in FeedNames /\ cursor \in [FeedNames -> Times]
    BY <1>1, FeedsAre DEF IInv, TypeOK, FeedNames
  <1>3. cursor'[f] = next /\ \A g \in FeedNames \ {f} : cursor'[g] = cursor[g]
    BY <1>1, <1>2
  <1>4. PICK q \in DOMAIN page : page[q] = next
    BY <1>1, NextCursorIs
  <1>5. q \in Rows
    BY <1>1, PageIsFunction
  <1>6. page[q] <= stamp[q]
    BY <1>1 DEF Tracked, Tracks, PageNotAhead
  <1>7. \A r \in Rows : Within(e, r, q) => device[r] = stamp[r]
    BY <1>1 DEF Tracked, Tracks, PageIsStored
  <1>8. page = engine[e].page /\ f = Feeds[engine[e].feed] /\ feed = engine[e].feed
    OBVIOUS
  <1> HIDE DEF page, f, next, feed
  <1>9. NotAhead'
    BY <1>1, <1>3, <1>4, <1>5, <1>6 DEF Tracked, NotAhead
  <1>10. Covered'
    <2>1. ASSUME NEW r \in Rows, Wanted(r), stamp[r] <= cursor'[FeedOf(r)]
          PROVE  device[r] = stamp[r]
      <3>1. FeedOf(r) \in FeedNames
        BY DEF FeedOf, FeedNames
      <3>2. CASE FeedOf(r) = f
        <4>1. stamp[r] <= page[q]
          BY <1>3, <1>4, <2>1, <3>2
        <4> QED  BY <1>7, <1>8, <2>1, <3>2, <4>1 DEF Within
      <3>3. CASE FeedOf(r) # f
        BY <1>3, <2>1, <3>1, <3>3 DEF Tracked, Covered
      <3> QED  BY <3>2, <3>3
    <2> QED  BY <1>1, <2>1 DEF Covered, FeedOf, Lasting
  <1>11. Clock'
    BY <1>1 DEF Tracked, Clock
  <1>12. AtCursor(e)'
    <2>1. CASE engine'[e].pc = "ask" /\ engine'[e].feed = feed /\ engine'[e].since = next
      <3>1. Feeds[engine'[e].feed] = f
        BY <1>8, <2>1
      <3> QED  BY <1>3, <2>1, <3>1 DEF AtCursor, Feeds
    <2>2. CASE engine'[e].pc \in {"idle", "cursor"}
      BY <2>2 DEF AtCursor
    <2> QED  BY <1>1, <2>1, <2>2
  <1>13. engine'[e].pc \in {"ask", "idle", "cursor"}
    BY <1>1
  <1>14. PageNotAhead(e)' /\ PageIsNew(e)' /\ PageIsComplete(e)' /\ PageIsStored(e)'
    BY <1>13 DEF PageNotAhead, PageIsNew, PageIsComplete, PageIsStored
  <1> QED  BY <1>9, <1>10, <1>11, <1>12, <1>14 DEF Tracks

(* A wanted voter names no turf that is dropped: it lies in one turf only, *)
(* which is the navigator's, or nothing is dropped.                        *)
LEMMA TrackedDeleteVoters ==
  ASSUME IInv, Sited, Tracked, NEW e \in Engines, DeleteVotersForTurf(e), Lasting
  PROVE  (Clock /\ NotAhead /\ Covered)' /\ Tracks(e)'
  <1>1. PICK t \in engine[e].removed :
          device' = [r \in Rows |-> IF r \in Voters /\ t \in label[r] THEN 0 ELSE device[r]]
    BY DeleteVotersStep
  <1>2. /\ engine[e].pc = "reassign" /\ engine'[e].pc = "reassign"
        /\ UNCHANGED <<now, open, stamp, cursor>>
    BY DeleteVotersStep DEF DeleteVotersForTurf, serverVars
  <1>3. t \notin assigned /\ count["losses"] # 0
    BY <1>2 DEF Sited, Dropping, Steady
  <1>4. \A r \in Rows : stamp[r] \in Nat
    BY DEF IInv, TypeOK, Times
  <1>5. \A r \in Rows : device'[r] = IF r \in Voters /\ t \in label[r] THEN 0 ELSE device[r]
    BY <1>1
  <1>6. NotAhead'
    BY <1>2, <1>4, <1>5 DEF Tracked, NotAhead
  <1>7. Covered'
    <2>1. ASSUME NEW r \in Rows, Wanted(r) PROVE t \notin label[r]
      <3>1. label[r] \subseteq inside[r]
        BY DEF Sited, Labelled
      <3>2. PICK u \in inside[r] \cap assigned : \A v \in inside[r] : v = u
        BY <1>3, <2>1 DEF Wanted
      <3> QED  BY <1>3, <3>1, <3>2
    <2> QED  BY <1>2, <1>5, <2>1 DEF Tracked, Covered, FeedOf, Lasting
  <1>8. Clock'
    BY <1>2 DEF Tracked, Clock
  <1>9. AtCursor(e)' /\ PageNotAhead(e)' /\ PageIsNew(e)' /\ PageIsComplete(e)' /\ PageIsStored(e)'
    BY <1>2 DEF AtCursor, PageNotAhead, PageIsNew, PageIsComplete, PageIsStored
  <1> QED  BY <1>6, <1>7, <1>8, <1>9 DEF Tracks

LEMMA TrackedEngine ==
  ASSUME IInv, Sited, Tracked, NEW e \in Engines, Lasting,
         Cycle(e) \/ ManifestFails(e) \/ PullFails(e) \/ Kill(e)
  PROVE  (Clock /\ NotAhead /\ Covered)' /\ Tracks(e)'
  <1>1. CASE \/ ManifestFails(e) \/ ScanFails(e) \/ PullFails(e) \/ Kill(e)
             \/ GetTurfIds(e) \/ EmptyPage(e)
    <2>1. /\ engine'[e].pc \in {"turfs", "idle", "cursor"}
          /\ UNCHANGED <<serverVars, device, cursor>>
      BY <1>1, ManifestFailsStep, IdleStep, GetTurfIdsStep, EmptyPageStep
      DEF ManifestFails, ScanFails, PullFails, Kill, GetTurfIds, EmptyPage, deviceVars
    <2> QED  BY <2>1, TrackedRest
  <1>2. CASE GetManifest(e) \/ CompareTurfs(e) \/ DeleteAssignment(e) \/ InsertAssignment(e)
    <2>1. engine'[e].pc \in {"compare", "reassign"} /\ UNCHANGED <<serverVars, device, cursor>>
      BY <1>2, GetManifestStep, CompareStep, DeleteAssignmentStep, InsertAssignmentStep
      DEF GetManifest, CompareTurfs, DeleteAssignment, InsertAssignment, deviceVars
    <2> QED  BY <2>1, TrackedRest
  <1>3. CASE DeleteVotersForTurf(e)
    BY <1>3, TrackedDeleteVoters
  <1>4. CASE GetCursor(e)
    <2>1. /\ engine'[e].pc = "ask" /\ engine'[e].since = cursor[Feeds[engine'[e].feed]]
          /\ UNCHANGED <<now, open, stamp, device, cursor>>
      BY <1>4, GetCursorStep DEF GetCursor, serverVars, deviceVars
    <2>2. (Clock /\ NotAhead /\ Covered)'
      BY <2>1 DEF Tracked, Clock, NotAhead, Covered, FeedOf, Lasting
    <2> QED  BY <2>1, <2>2 DEF Tracks, AtCursor, PageNotAhead, PageIsNew, PageIsComplete,
                PageIsStored, Feeds
  <1>5. CASE PullPage(e)
    <2>1. UNCHANGED <<now, open, stamp, device, cursor>>
      BY <1>5 DEF PullPage, serverVars, deviceVars
    <2>2. (Clock /\ NotAhead /\ Covered)'
      BY <2>1 DEF Tracked, Clock, NotAhead, Covered, FeedOf, Lasting
    <2> QED  BY <1>5, <2>2, TrackedPullPage
  <1>6. CASE UpsertPage(e)
    BY <1>6, TrackedUpsert
  <1>7. CASE UpdateCursor(e)
    BY <1>7, TrackedUpdate
  <1> QED  BY <1>1, <1>2, <1>3, <1>4, <1>5, <1>6, <1>7 DEF Cycle

LEMMA CursorStep ==
  OneEngineAtATime /\ IInv /\ SiteInv /\ CursorInv /\ [Next]_vars => CursorInv'
  <1> SUFFICES ASSUME OneEngineAtATime, IInv, SiteInv, CursorInv, [Next]_vars, Orderly'
               PROVE  Tracked'
    BY DEF CursorInv
  <1>1. Tracked /\ Sited /\ Lasting
    BY OrderlyBefore, OrderlyStep DEF CursorInv, SiteInv
  <1>2. CASE UNCHANGED vars
    <2>1. UNCHANGED <<now, open, stamp, device, cursor, engine>>
      BY <1>2 DEF vars, serverVars, deviceVars
    <2>2. Clock'
      BY <1>1, <2>1 DEF Tracked, Clock
    <2> QED  BY <1>1, <2>1, <2>2, TrackedQuiet
  <1>3. CASE ServerStep
    BY <1>1, <1>3, TrackedServer
  <1>4. ASSUME NEW e \in Engines, Cycle(e) \/ ManifestFails(e) \/ PullFails(e) \/ Kill(e)
        PROVE  Tracked'
    <2>1. (Clock /\ NotAhead /\ Covered)' /\ Tracks(e)'
      BY <1>1, <1>4, TrackedEngine
    <2>2. \A d \in Engines : d = e
      BY DEF OneEngineAtATime
    <2> QED  BY <2>1, <2>2 DEF Tracked
  <1> QED  BY <1>2, <1>3, <1>4 DEF Next

LEMMA CursorInit == Init => CursorInv
  <1> SUFFICES ASSUME Init PROVE Tracked
    BY DEF CursorInv
  <1>1. /\ \A r \in Rows : stamp[r] = 0 /\ device[r] = 0
        /\ now = 0 /\ open = {} /\ \A f \in FeedNames : cursor[f] = 0
    BY FeedsAre DEF Init
  <1>2. Clock /\ NotAhead /\ Covered
    BY <1>1 DEF Clock, NotAhead, Covered
  <1>3. \A e \in Engines : engine[e].pc = "idle"
    BY IdleState DEF Init
  <1> QED  BY <1>2, <1>3 DEF Tracked, Tracks, AtCursor, PageNotAhead, PageIsNew, PageIsComplete,
              PageIsStored

(* With one engine and an orderly server, wherever the turfs lie, whatever *)
(* fails, is taken or is killed: no wanted row up to the saved cursor is   *)
(* missing or old on the device (pullAllVoters, pullAllContactLogs).       *)
THEOREM NothingIsSkipped == OneEngineAtATime => (Spec => []NothingBehindCursor)
  <1>1. CursorInv => NothingBehindCursor
    BY DEF CursorInv, Tracked, Covered, NothingBehindCursor
  <1>2. ASSUME OneEngineAtATime PROVE Spec => []NothingBehindCursor
    <2>1. IInv /\ SiteInv /\ [Next]_vars => SiteInv'
      BY <1>2, SiteStep
    <2>2. IInv /\ SiteInv /\ CursorInv /\ [Next]_vars => CursorInv'
      BY <1>2, CursorStep
    <2> QED  BY <1>1, <2>1, <2>2, InvHolds, SiteInit, CursorInit, PTL DEF Spec
  <1> QED  BY <1>2
=============================================================================
