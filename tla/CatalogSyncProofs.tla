------------------------- MODULE CatalogSyncProofs -------------------------
(***************************************************************************)
(* Proofs about CatalogSync, for any scripts, events, materials, users,    *)
(* editors, page size and bounds: the types, that a device has what its    *)
(* cursors claim, and that a script's version goes forward.                *)
(***************************************************************************)
EXTENDS CatalogSync, NumberLemmas

Times == 0 .. MaxTime
FeedNames == {"scripts", "events", "materials"}
Kinds == {"none", "create", "withdraw", "edit", "answer"}

(* Rows in hand, of items and of RSVPs.                                    *)
Copies(X) == UNION {[S -> AnyRow] : S \in SUBSET X}

EditorState == [pc : {"idle", "read", "write"}, kind : Kinds,
                on : {{}} \cup {{x} : x \in Rows}, row : AnyRow]

EngineState == [pc : {"idle", "ask", "rsvps", "upsert", "save"},
                feed : 1 .. Len(Feeds), since : Times, page : Copies(Items),
                rsvps : Copies(Users), more : BOOLEAN]

(* An engine past a question has a page; it never finds an RSVP.           *)
HasPage == engine.pc \notin {"idle", "ask"} => DOMAIN engine.page # {}
NoRsvps == DOMAIN engine.rsvps = {}

IInv == TypeOK /\ engine \in EngineState /\ HasPage /\ NoRsvps

-----------------------------------------------------------------------------
(* What the definitions return.                                            *)

LEMMA FeedsAre ==
  /\ Len(Feeds) = 3 /\ Feeds[1] = "scripts" /\ Feeds[2] = "events" /\ Feeds[3] = "materials"
  /\ \A i \in 1 .. Len(Feeds) : Feeds[i] \in FeedNames
  /\ {Feeds[i] : i \in DOMAIN Feeds} = FeedNames /\ DOMAIN Feeds = 1 .. 3
  /\ \A i, j \in 1 .. Len(Feeds) : Feeds[i] = Feeds[j] => i = j
  BY DEF Feeds, FeedNames

LEMMA FeedIsItems ==
  ASSUME NEW f \in FeedNames
  PROVE  Feed(f) \subseteq Items
  BY DEF Feed, FeedNames, Items

LEMMA NoRowType == NoRow \in AnyRow
  BY CatalogAssumption DEF NoRow, AnyRow

LEMMA IdleState ==
  /\ Idle \in EngineState /\ Idle.pc = "idle" /\ Idle.rsvps = NoPage /\ DOMAIN NoPage = {}
  <1>1. \A X : NoPage \in Copies(X)
    <2>1. NoPage \in [{} -> AnyRow]
      BY DEF NoPage
    <2> QED  BY <2>1 DEF Copies
  <1>2. 0 \in Times /\ 1 \in 1 .. Len(Feeds)
    BY CatalogAssumption, FeedsAre DEF Times
  <1>3. DOMAIN NoPage = {}
    BY DEF NoPage
  <1> QED  BY <1>1, <1>2, <1>3 DEF Idle, EngineState

LEMMA AskState ==
  ASSUME NEW feed \in 1 .. Len(Feeds), NEW since \in Times
  PROVE  LET new == [Idle EXCEPT !.pc = "ask", !.feed = feed, !.since = since]
         IN  /\ new \in EngineState /\ new.pc = "ask" /\ new.feed = feed /\ new.since = since
             /\ new.rsvps = NoPage
  <1> DEFINE i == Idle
  <1>1. i \in EngineState /\ i.rsvps = NoPage
    BY IdleState
  <1> HIDE DEF i
  <1>2. LET new == [i EXCEPT !.pc = "ask", !.feed = feed, !.since = since]
        IN  /\ new \in EngineState /\ new.pc = "ask" /\ new.feed = feed /\ new.since = since
            /\ new.rsvps = NoPage
    BY <1>1 DEF EngineState
  <1> QED  BY <1>2 DEF i

(* An engine that asks starts at its feed's cursor.                        *)
Asks(new) == /\ new \in EngineState /\ new.pc = "ask" /\ new.rsvps = NoPage
             /\ new.since = cursor[Feeds[new.feed]]
Asking == Asks(engine)

LEMMA PullFeedState ==
  ASSUME IInv, NEW i \in 1 .. Len(Feeds)
  PROVE  Asks(PullFeed(i)) /\ PullFeed(i).feed = i
  <1> DEFINE since == cursor[Feeds[i]]
  <1>1. since \in Times
    BY FeedsAre DEF IInv, TypeOK, Times
  <1>2. PullFeed(i) = [Idle EXCEPT !.pc = "ask", !.feed = i, !.since = since]
    BY DEF PullFeed
  <1>3. since = cursor[Feeds[i]]
    OBVIOUS
  <1> HIDE DEF since
  <1> DEFINE new == [Idle EXCEPT !.pc = "ask", !.feed = i, !.since = since]
  <1>4. /\ new \in EngineState /\ new.pc = "ask" /\ new.feed = i /\ new.since = since
        /\ new.rsvps = NoPage
    BY <1>1, AskState, Zenon
  <1> HIDE DEF new
  <1>5. PullFeed(i) = new
    BY <1>2 DEF new
  <1> QED  BY <1>3, <1>4, <1>5 DEF Asks

LEMMA NextFeedState ==
  ASSUME IInv
  PROVE  \/ NextFeed = Idle
         \/ Asks(NextFeed) /\ NextFeed.feed = engine.feed + 1
  <1>1. engine.feed \in 1 .. Len(Feeds)
    BY DEF IInv, EngineState
  <1>2. engine.feed # Len(Feeds) => engine.feed + 1 \in 1 .. Len(Feeds)
    BY <1>1, FeedsAre
  <1> QED  BY <1>2, PullFeedState DEF NextFeed

(* What is read from an answer has the stamp and the version of the row.   *)
LEMMA FromJsonIs ==
  ASSUME IInv, NEW x \in Rows
  PROVE  /\ FromJson(x) \in AnyRow
         /\ FromJson(x).stamp = row[x].stamp /\ FromJson(x).version = row[x].version
  <1> DEFINE r == row[x]
             active == [r EXCEPT !.shown = TRUE]
  <1>1. r \in AnyRow
    BY DEF IInv, TypeOK
  <1>2. FromJson(x) = IF x \in Scripts THEN active ELSE r
    BY DEF FromJson
  <1> HIDE DEF r
  <1>3. active \in AnyRow /\ active.stamp = r.stamp /\ active.version = r.version
    BY <1>1 DEF AnyRow
  <1> HIDE DEF active
  <1>4. /\ FromJson(x) \in AnyRow
        /\ FromJson(x).stamp = r.stamp /\ FromJson(x).version = r.version
    BY <1>1, <1>2, <1>3
  <1> QED  BY <1>4 DEF r

(* The client finds the whole page of a feed or nothing, and no RSVP.      *)
LEMMA ReadIs ==
  /\ \A f \in FeedNames : \A P \in SUBSET Feed(f) : ReadFrom(P) = P \/ ReadFrom(P) = {}
  /\ \A P \in SUBSET Users : ReadFrom(P) = {}
  <1>1. /\ Scripts \cap Events = {} /\ Scripts \cap Materials = {} /\ Events \cap Materials = {}
        /\ Users \cap Scripts = {} /\ Users \cap Events = {}
    BY CatalogAssumption DEF Items
  <1>2. /\ \A x \in Scripts : SentAs(x) \in FieldsRead
        /\ \A x \in Events : SentAs(x) \in FieldsRead
        /\ \A x \in Users : SentAs(x) \notin FieldsRead
        /\ \A x \in Materials : SentAs(x) = "materials" \/ SentAs(x) \in FieldsRead
    BY <1>1 DEF SentAs, FieldsRead
  <1>3. \A x \in Materials : x \notin Users => SentAs(x) = "materials"
    BY <1>1 DEF SentAs
  <1>4. \A x \in Materials : SentAs(x) \notin FieldsRead
    BY <1>3, CatalogAssumption DEF Items, FieldsRead
  <1>5. \A P \in SUBSET Materials : ReadFrom(P) = {}
    BY <1>4 DEF ReadFrom
  <1>6. \A P : P \in SUBSET Scripts \/ P \in SUBSET Events => ReadFrom(P) = P
    BY <1>2 DEF ReadFrom
  <1>7. \A P \in SUBSET Users : ReadFrom(P) = {}
    BY <1>2 DEF ReadFrom
  <1>8. Feed("scripts") = Scripts /\ Feed("events") = Events /\ Feed("materials") = Materials
    BY DEF Feed
  <1> QED  BY <1>5, <1>6, <1>7, <1>8 DEF FeedNames

LEMMA CopyType ==
  ASSUME IInv, NEW X \in SUBSET Rows, NEW P \in SUBSET X
  PROVE  /\ Copy(P) \in Copies(X) /\ DOMAIN Copy(P) = P
         /\ \A x \in P : Copy(P)[x] = FromJson(x)
  <1>1. \A x \in P : FromJson(x) \in AnyRow
    BY FromJsonIs
  <1>2. Copy(P) \in [P -> AnyRow]
    BY <1>1 DEF Copy
  <1> QED  BY <1>2 DEF Copies, Copy

LEMMA CopiesAre ==
  ASSUME NEW X, NEW page \in Copies(X)
  PROVE  DOMAIN page \subseteq X /\ page \in [DOMAIN page -> AnyRow]
  BY DEF Copies

LEMMA PagesAre ==
  ASSUME NEW S, NEW since, NEW P \in Pages(S, since)
  PROVE  /\ P \subseteq S /\ P \subseteq Behind(S, since)
         /\ Behind(S, since) \subseteq S
  BY DEF Pages, Behind

LEMMA LastStampIs ==
  ASSUME NEW page \in Copies(Items), DOMAIN page # {}
  PROVE  /\ LastStamp(page) \in Times
         /\ \E x \in DOMAIN page : page[x].stamp = LastStamp(page)
         /\ \A x \in DOMAIN page : page[x].stamp <= LastStamp(page)
  <1> DEFINE S == {page[x].stamp : x \in DOMAIN page}
  <1>1. page \in [DOMAIN page -> AnyRow] /\ MaxTime \in Nat
    BY CopiesAre, CatalogAssumption
  <1>2. \A x \in DOMAIN page : page[x].stamp \in 0 .. MaxTime
    BY <1>1 DEF AnyRow
  <1>3. S \subseteq Nat /\ S # {} /\ \A k \in S : k <= MaxTime
    BY <1>1, <1>2
  <1>4. IsFiniteSet(S)
    <2> HIDE DEF S
    <2> QED  BY <1>1, <1>3, FS_BoundedSetOfNaturals
  <1>5. PICK m \in S : \A k \in S : k <= m
    <2> HIDE DEF S
    <2> QED  BY <1>3, <1>4, GreatestExists
  <1>6. /\ m \in 0 .. MaxTime /\ \E x \in DOMAIN page : page[x].stamp = m
        /\ \A x \in DOMAIN page : page[x].stamp <= m
    BY <1>2, <1>5
  <1> QED  BY <1>6 DEF LastStamp, Times

-----------------------------------------------------------------------------
(* What each step of the engine does.                                      *)

(* The engine has gone on to another feed, or its cycle is over.           *)
GoesOn == engine' = Idle \/ (Asks(engine') /\ engine'.feed # engine.feed)

LEMMA NextFeedGoesOn ==
  ASSUME IInv, engine' = NextFeed
  PROVE  GoesOn
  <1>1. engine.feed \in Nat
    BY FeedsAre DEF IInv, EngineState
  <1>2. engine.feed + 1 # engine.feed
    BY <1>1
  <1> QED  BY <1>2, NextFeedState DEF GoesOn

LEMMA StartPullStep ==
  ASSUME IInv, StartPull
  PROVE  Asks(engine')
  <1>1. 1 \in 1 .. Len(Feeds) /\ 2 \in 1 .. Len(Feeds)
    BY FeedsAre
  <1> QED  BY <1>1, PullFeedState DEF StartPull

LEMMA PullPageStep ==
  ASSUME IInv, PullPage
  PROVE  /\ engine.pc = "ask"
         /\ \/ GoesOn
            \/ \E P \in Pages(Feed(CurrentFeed), engine.since) :
                 /\ P # {} /\ engine'.page = Copy(P) /\ DOMAIN engine'.page = P
                 /\ P \subseteq Feed(CurrentFeed) /\ Feed(CurrentFeed) \subseteq Items
                 /\ engine' \in EngineState
                 /\ engine'.pc = IF CurrentFeed = "events" THEN "rsvps" ELSE "upsert"
                 /\ engine'.feed = engine.feed /\ engine'.since = engine.since
                 /\ engine'.rsvps = engine.rsvps
  <1> USE DEF IInv
  <1>1. engine.pc = "ask"
    BY DEF PullPage, At
  <1>2. PICK P \in Pages(Feed(CurrentFeed), engine.since) :
          engine' = IF ReadFrom(P) = {} THEN NextFeed ELSE
                      [engine EXCEPT !.pc = IF CurrentFeed = "events" THEN "rsvps" ELSE "upsert",
                                     !.page = Copy(ReadFrom(P)),
                                     !.more = P # Behind(Feed(CurrentFeed), engine.since)]
    BY DEF PullPage
  <1>3. CASE ReadFrom(P) = {}
    BY <1>1, <1>2, <1>3, NextFeedGoesOn
  <1>4. CASE ReadFrom(P) # {}
    <2> DEFINE page == Copy(P)
               more == P # Behind(Feed(CurrentFeed), engine.since)
               pc == IF CurrentFeed = "events" THEN "rsvps" ELSE "upsert"
    <2>1. /\ P \subseteq Feed(CurrentFeed) /\ Feed(CurrentFeed) \subseteq Items
          /\ ReadFrom(P) = P
      <3>1. CurrentFeed \in FeedNames
        BY FeedsAre DEF CurrentFeed, EngineState
      <3>2. P \subseteq Feed(CurrentFeed) /\ Feed(CurrentFeed) \subseteq Items
        BY <3>1, PagesAre, FeedIsItems
      <3> QED  BY <1>4, <3>1, <3>2, ReadIs
    <2>2. page \in Copies(Items) /\ DOMAIN page = P
      BY <2>1, CopyType DEF Rows
    <2>3. /\ more \in BOOLEAN /\ pc \in {"rsvps", "upsert"} /\ page = Copy(P)
          /\ pc = IF CurrentFeed = "events" THEN "rsvps" ELSE "upsert"
      OBVIOUS
    <2>4. engine' = [engine EXCEPT !.pc = pc, !.page = page, !.more = more]
      BY <1>2, <1>4, <2>1
    <2> HIDE DEF page, more, pc
    <2>5. /\ engine' \in EngineState /\ engine'.pc = pc /\ engine'.page = page
          /\ engine'.feed = engine.feed /\ engine'.since = engine.since
          /\ engine'.rsvps = engine.rsvps
      BY <2>2, <2>3, <2>4 DEF EngineState
    <2> QED  BY <1>1, <1>4, <2>1, <2>2, <2>3, <2>5
  <1> QED  BY <1>3, <1>4

LEMMA PullRsvpsStep ==
  ASSUME IInv, PullEventRSVPsForEvents
  PROVE  /\ engine.pc = "rsvps" /\ engine' \in EngineState /\ engine'.pc = "upsert"
         /\ engine'.page = engine.page /\ engine'.feed = engine.feed
         /\ engine'.since = engine.since /\ NoRsvps'
         /\ UNCHANGED <<device, cursor, turfs, count>>
  <1>1. PICK P \in Pages(Users, engine.since) :
          engine' = [engine EXCEPT !.pc = "upsert", !.rsvps = Copy(ReadFrom(P))]
    BY DEF PullEventRSVPsForEvents
  <1>2. P \in SUBSET Users
    BY PagesAre
  <1>3. ReadFrom(P) = {}
    BY <1>2, ReadIs
  <1> DEFINE rsvps == Copy(ReadFrom(P))
  <1>4. rsvps \in Copies(Users) /\ DOMAIN rsvps = {}
    BY <1>3, CopyType DEF Rows
  <1>5. engine' = [engine EXCEPT !.pc = "upsert", !.rsvps = rsvps]
    BY <1>1
  <1> HIDE DEF rsvps
  <1>6. /\ engine' \in EngineState /\ engine'.pc = "upsert" /\ engine'.page = engine.page
        /\ engine'.feed = engine.feed /\ engine'.since = engine.since /\ engine'.rsvps = rsvps
    BY <1>4, <1>5 DEF IInv, EngineState
  <1> QED  BY <1>4, <1>6 DEF PullEventRSVPsForEvents, At, NoRsvps, deviceVars

(* What the device has after a page.                                       *)
Stores(page) == /\ device' \in [Rows -> AnyRow]
                /\ \A x \in Rows : device'[x] = IF x \in DOMAIN page THEN page[x] ELSE device[x]

LEMMA UpsertStep ==
  ASSUME IInv, UpsertPage
  PROVE  /\ engine' \in EngineState /\ engine'.page = engine.page /\ engine'.feed = engine.feed
         /\ engine'.rsvps = engine.rsvps /\ engine'.since = engine.since
         /\ engine.pc = "upsert" /\ engine'.pc = "save" /\ Stores(engine.page)
  <1>1. /\ engine.pc = "upsert" /\ engine' = [engine EXCEPT !.pc = "save"]
        /\ device' = [x \in Rows |-> CASE x \in DOMAIN engine.page  -> engine.page[x]
                                     [] x \in DOMAIN engine.rsvps -> engine.rsvps[x]
                                     [] OTHER                     -> device[x]]
    BY DEF UpsertPage, At
  <1>2. engine.page \in [DOMAIN engine.page -> AnyRow] /\ device \in [Rows -> AnyRow]
    BY CopiesAre DEF IInv, EngineState, TypeOK
  <1>3. device' = [x \in Rows |-> IF x \in DOMAIN engine.page THEN engine.page[x] ELSE device[x]]
    BY <1>1 DEF IInv, NoRsvps
  <1>4. Stores(engine.page)
    BY <1>2, <1>3 DEF Stores
  <1>5. /\ engine' \in EngineState /\ engine'.page = engine.page /\ engine'.feed = engine.feed
        /\ engine'.rsvps = engine.rsvps /\ engine'.since = engine.since /\ engine'.pc = "save"
    BY <1>1 DEF IInv, EngineState
  <1> QED  BY <1>1, <1>4, <1>5

LEMMA UpdateCursorStep ==
  ASSUME IInv, UpdateCursor
  PROVE  /\ engine.pc = "save" /\ DOMAIN engine.page # {} /\ CurrentFeed \in FeedNames
         /\ cursor' = [cursor EXCEPT ![CurrentFeed] = LastStamp(engine.page)]
         /\ LastStamp(engine.page) \in Times
         /\ engine' = Idle \/ Asking'
  <1> DEFINE last == LastStamp(engine.page)
             ask == [Idle EXCEPT !.pc = "ask", !.feed = engine.feed, !.since = last]
  <1>1. /\ engine.pc = "save" /\ cursor' = [cursor EXCEPT ![CurrentFeed] = last]
        /\ engine' = IF engine.more THEN ask ELSE NextFeed
    BY DEF UpdateCursor, At
  <1>2. engine.page \in Copies(Items) /\ DOMAIN engine.page # {} /\ engine.feed \in 1 .. Len(Feeds)
    BY <1>1 DEF IInv, HasPage, EngineState
  <1>3. last \in Times
    BY <1>2, LastStampIs
  <1>4. CurrentFeed \in FeedNames /\ cursor \in [FeedNames -> Times]
    BY <1>2, FeedsAre DEF CurrentFeed, IInv, TypeOK, Times
  <1>5. cursor'[CurrentFeed] = last /\ \A f \in FeedNames \ {CurrentFeed} : cursor'[f] = cursor[f]
    BY <1>1, <1>4
  <1> HIDE DEF last
  <1>6. /\ ask \in EngineState /\ ask.pc = "ask" /\ ask.feed = engine.feed /\ ask.since = last
        /\ ask.rsvps = NoPage
    BY <1>2, <1>3, AskState, Zenon
  <1> HIDE DEF ask
  <1>7. CASE engine.more
    <2>1. engine' = ask /\ Feeds[engine'.feed] = CurrentFeed
      BY <1>1, <1>6, <1>7 DEF CurrentFeed
    <2>2. engine' \in EngineState /\ engine'.pc = "ask" /\ engine'.rsvps = NoPage
          /\ engine'.since = cursor'[Feeds[engine'.feed]]
      BY <1>5, <1>6, <2>1
    <2> QED  BY <1>1, <1>2, <1>3, <1>4, <2>2 DEF Asking, Asks, last
  <1>8. CASE ~engine.more
    <2>1. GoesOn
      BY <1>1, <1>8, NextFeedGoesOn
    <2>2. CASE engine' = Idle
      BY <1>1, <1>2, <1>3, <1>4, <2>2 DEF last
    <2>3. CASE Asks(engine') /\ engine'.feed # engine.feed
      <3>1. engine'.feed \in 1 .. Len(Feeds)
        BY <2>3 DEF Asks, EngineState
      <3>2. Feeds[engine'.feed] \in FeedNames \ {CurrentFeed}
        BY <1>2, <2>3, <3>1, FeedsAre DEF CurrentFeed
      <3>3. engine' \in EngineState /\ engine'.pc = "ask" /\ engine'.rsvps = NoPage
            /\ engine'.since = cursor'[Feeds[engine'.feed]]
        BY <1>5, <2>3, <3>2 DEF Asks
      <3> QED  BY <1>1, <1>2, <1>3, <1>4, <3>3 DEF Asking, Asks, last
    <2> QED  BY <2>1, <2>2, <2>3 DEF GoesOn
  <1> QED  BY <1>7, <1>8

-----------------------------------------------------------------------------
(* What each step of an editor does.                                       *)

(* What a statement writes, but for its stamp.                             *)
LEMMA WrittenIs ==
  ASSUME IInv, NEW x \in Rows, NEW kind \in Kinds, NEW edited \in AnyRow
  PROVE  LET new == Written(kind, x, edited)
         IN  /\ new \in AnyRow
             /\ kind = "create" => new.version = 1
             /\ kind = "edit" /\ x \in Scripts => new.version = edited.version
             /\ kind # "create" /\ ~(kind = "edit" /\ x \in Scripts) =>
                  new.stamp = row[x].stamp /\ new.version >= row[x].version
  <1> DEFINE old == row[x]
             made == [edited EXCEPT !.shown = x \notin Materials, !.version = 1]
             hidden == [old EXCEPT !.shown = FALSE]
             changed == [old EXCEPT !.version = old.version + 1]
             other == [old EXCEPT !.shown = edited.shown, !.version = old.version + 1]
             new == Written(kind, x, edited)
  <1>1. /\ new = CASE kind = "create"                -> made
                 [] kind = "withdraw"              -> hidden
                 [] kind = "edit" /\ x \in Scripts -> edited
                 [] kind = "edit" /\ x \in Events  -> changed
                 [] OTHER                          -> other
    BY DEF Written
  <1>2. old \in AnyRow /\ old = row[x]
    BY DEF IInv, TypeOK
  <1>3. /\ old.version \in Nat /\ old.version + 1 \in Nat /\ edited.shown \in BOOLEAN
        /\ old.version + 1 >= old.version /\ old.version >= old.version
    BY <1>2 DEF AnyRow
  <1> HIDE DEF old, new
  <1>4. made \in AnyRow /\ made.version = 1
    <2> DEFINE shown == x \notin Materials
               one == 1
    <2>1. shown \in BOOLEAN /\ one \in Nat
      OBVIOUS
    <2>2. made = [edited EXCEPT !.shown = shown, !.version = one] /\ one = 1
      OBVIOUS
    <2> HIDE DEF shown, one, made
    <2>3. LET r == [edited EXCEPT !.shown = shown, !.version = one]
          IN  r \in AnyRow /\ r.version = one
      BY <2>1 DEF AnyRow
    <2> QED  BY <2>2, <2>3
  <1>5. hidden \in AnyRow /\ hidden.version = old.version /\ hidden.stamp = old.stamp
    BY <1>2 DEF AnyRow
  <1>6. changed \in AnyRow /\ changed.version = old.version + 1 /\ changed.stamp = old.stamp
    BY <1>2, <1>3 DEF AnyRow
  <1>7. other \in AnyRow /\ other.version = old.version + 1 /\ other.stamp = old.stamp
    BY <1>2, <1>3 DEF AnyRow
  <1> HIDE DEF made, hidden, changed, other
  <1>8. kind = "create" => new = made
    BY <1>1
  <1>9. kind = "withdraw" => new = hidden
    BY <1>1
  <1>10. kind = "edit" /\ x \in Scripts => new = edited
    BY <1>1, CatalogAssumption
  <1>11. kind # "create" /\ kind # "withdraw" /\ ~(kind = "edit" /\ x \in Scripts)
           => new = changed \/ new = other
    BY <1>1
  <1>12. new \in AnyRow
    BY <1>4, <1>5, <1>6, <1>7, <1>8, <1>9, <1>10, <1>11
  <1>13. kind # "create" /\ ~(kind = "edit" /\ x \in Scripts) =>
           new.stamp = old.stamp /\ new.version >= old.version
    BY <1>3, <1>5, <1>6, <1>7, <1>9, <1>11
  <1> QED  BY <1>2, <1>4, <1>8, <1>10, <1>12, <1>13 DEF new

(* Editor e gets new state new, the others keep theirs.                    *)
Becomes(e, new) == /\ new \in EditorState /\ editor'[e] = new
                   /\ editor' \in [Editors -> EditorState]
                   /\ \A o \in Editors \ {e} : editor'[o] = editor[o]

LEMMA EditorUpdate ==
  ASSUME IInv, NEW e \in Editors, NEW new \in EditorState, editor' = [editor EXCEPT ![e] = new]
  PROVE  Becomes(e, new)
  BY DEF IInv, TypeOK, Becomes, EditorState, Kinds

(* Only an overlap is noted.                                               *)
Overlaps(e, x) == \E o \in Editors \ {e} : InHand(o, x)
NotesOverlap(e, x) == count' = IF Overlaps(e, x) THEN [count EXCEPT !["overlap"] = 1] ELSE count

LEMMA ReadStep ==
  ASSUME IInv, NEW e \in Editors, NEW x \in Items, NEW shown \in BOOLEAN,
         GetCallScriptCurrentVersion(e, x, shown) \/ GetEvent(e, x)
  PROVE  \E new \in EditorState :
           /\ Becomes(e, new) /\ new.pc = "read" /\ new.kind = "edit" /\ new.on = {x}
           /\ Exists(x) /\ editor[e].pc = "idle" /\ UNCHANGED <<now, row, deviceVars, engine>>
           /\ \/ x \in Scripts /\ new.row.version = row[x].version + 1 /\ NotesOverlap(e, x)
              \/ x \in Events /\ UNCHANGED count
  <1>1. x \in Rows /\ row[x] \in AnyRow
    BY DEF Rows, IInv, TypeOK
  <1>2. CASE GetCallScriptCurrentVersion(e, x, shown)
    <2> DEFINE version == row[x].version + 1
               read == [row[x] EXCEPT !.shown = shown, !.version = version]
               new == [pc |-> "read", kind |-> "edit", on |-> {x}, row |-> read]
    <2>1. version \in Nat
      BY <1>1 DEF AnyRow
    <2>2. read \in AnyRow /\ read.version = version
      BY <1>1, <2>1 DEF AnyRow
    <2>3. editor' = [editor EXCEPT ![e] = new]
      BY <1>2 DEF GetCallScriptCurrentVersion
    <2>4. version = row[x].version + 1
      OBVIOUS
    <2> HIDE DEF read, version
    <2>5. new \in EditorState /\ new.row = read
      BY <1>1, <2>2 DEF EditorState, Kinds
    <2>6. Becomes(e, new)
      BY <2>3, <2>5, EditorUpdate
    <2> QED  BY <1>2, <2>2, <2>4, <2>5, <2>6 DEF GetCallScriptCurrentVersion, NotesOverlap, Overlaps
  <1>3. CASE GetEvent(e, x)
    <2> DEFINE new == [pc |-> "read", kind |-> "edit", on |-> {x}, row |-> row[x]]
    <2>1. new \in EditorState
      BY <1>1 DEF EditorState, Kinds
    <2>2. Becomes(e, new)
      BY <1>3, <2>1, EditorUpdate DEF GetEvent
    <2> QED  BY <1>3, <2>1, <2>2 DEF GetEvent
  <1> QED  BY <1>2, <1>3

(* A statement of editor e takes its stamp.                                *)
Writes(e, kind, x) ==
  \E new \in EditorState :
    /\ Becomes(e, new) /\ new.pc = "write" /\ new.kind = kind /\ new.on = {x}
    /\ now' = now + 1 /\ now' \in Times /\ new.row.stamp = now'
    /\ kind = "edit" /\ x \in Scripts => new.row.version = editor[e].row.version
    /\ UNCHANGED <<row, deviceVars, engine>>

LEMMA StartIs ==
  ASSUME IInv, NEW e \in Editors, NEW kind \in Kinds, NEW x \in Rows, NEW r \in AnyRow,
         Start(e, kind, x, r), UNCHANGED <<row, deviceVars, engine>>,
         kind = "edit" /\ x \in Scripts => r.version = editor[e].row.version
  PROVE  Writes(e, kind, x)
  <1> DEFINE stamp == now + 1
             stamped == [r EXCEPT !.stamp = stamp]
             new == [pc |-> "write", kind |-> kind, on |-> {x}, row |-> stamped]
  <1>1. stamp \in Times /\ now' = stamp
    BY CatalogAssumption DEF Start, IInv, TypeOK, Times
  <1>2. editor' = [editor EXCEPT ![e] = new]
    BY DEF Start
  <1>3. now' = now + 1
    BY DEF Start
  <1> HIDE DEF stamp
  <1>4. stamped \in AnyRow /\ stamped.stamp = stamp /\ stamped.version = r.version
    BY <1>1 DEF AnyRow, Times
  <1> HIDE DEF stamped
  <1>5. new \in EditorState
    BY <1>4 DEF EditorState
  <1>6. Becomes(e, new)
    BY <1>2, <1>5, EditorUpdate
  <1> QED  BY <1>1, <1>3, <1>4, <1>5, <1>6 DEF Writes

LEMMA StatementStep ==
  ASSUME IInv, NEW e \in Editors, NEW x \in Rows, NEW shown \in BOOLEAN,
         NEW kind \in {"create", "withdraw", "edit", "answer"}, StartStatement(e, kind, x, shown)
  PROVE  /\ Writes(e, kind, x) /\ NotesOverlap(e, x) /\ editor[e].pc = "idle"
         /\ ~(kind = "edit" /\ x \in Scripts) /\ (kind = "create" <=> ~(Exists(x) \/ kind = "answer"))
         /\ kind = "create" => x \in Items /\ ~Overlaps(e, x)
         /\ kind = "answer" <=> x \in Users
  <1> DEFINE r == [NoRow EXCEPT !.shown = shown]
  <1>1. Start(e, kind, x, r) /\ UNCHANGED <<row, deviceVars, engine>>
    BY DEF StartStatement
  <1>2. r \in AnyRow /\ r.version = 0
    BY CatalogAssumption DEF NoRow, AnyRow
  <1>3. kind \in Kinds
    BY DEF Kinds
  <1>4. /\ NotesOverlap(e, x) /\ editor[e].pc = "idle"
        /\ \/ kind = "create" /\ x \in Items /\ ~Exists(x) /\ \A o \in Editors : ~InHand(o, x)
           \/ kind = "withdraw" /\ x \in Items /\ Exists(x)
           \/ kind = "edit" /\ x \in Materials /\ Exists(x)
           \/ kind = "answer" /\ x \in Users
    BY DEF StartStatement, NotesOverlap, Overlaps
  <1>5. /\ Users \cap Items = {} /\ Materials \subseteq Items /\ Scripts \cap Materials = {}
    BY CatalogAssumption DEF Items
  <1>6. Writes(e, kind, x)
    <2> HIDE DEF r
    <2>1. ~(kind = "edit" /\ x \in Scripts)
      BY <1>4, <1>5
    <2> QED  BY <1>1, <1>2, <1>3, <2>1, StartIs
  <1> QED  BY <1>4, <1>5, <1>6 DEF Overlaps

LEMMA UpdateStep ==
  ASSUME IInv, NEW e \in Editors, NEW x \in Items, StartUpdate(e, x)
  PROVE  Writes(e, "edit", x) /\ editor[e].pc = "read" /\ editor[e].on = {x} /\ UNCHANGED count
  <1> DEFINE r == editor[e].row
  <1>1. /\ editor[e].pc = "read" /\ editor[e].on = {x} /\ x \in Rows /\ r \in AnyRow
        /\ Start(e, "edit", x, r) /\ UNCHANGED <<row, deviceVars, engine, count>>
    BY DEF StartUpdate, InHand, Rows, IInv, TypeOK
  <1>2. r.version = editor[e].row.version /\ "edit" \in Kinds
    BY DEF Kinds
  <1> HIDE DEF r
  <1> QED  BY <1>1, <1>2, StartIs

LEMMA CommitStep ==
  ASSUME IInv, NEW e \in Editors, NEW x \in Rows, Commit(e, x)
  PROVE  LET r == editor[e]
         IN  /\ r.pc = "write" /\ r.on = {x} /\ Becomes(e, NoRequest)
             /\ row' \in [Rows -> AnyRow] /\ \A y \in Rows \ {x} : row'[y] = row[y]
             /\ row'[x].stamp = IF x \in Users /\ Exists(x) THEN row[x].stamp ELSE r.row.stamp
             /\ r.kind = "create" => row'[x].version = 1
             /\ r.kind = "edit" /\ x \in Scripts => row'[x].version = r.row.version
             /\ r.kind # "create" /\ ~(r.kind = "edit" /\ x \in Scripts) =>
                  row'[x].version >= row[x].version
             /\ IF \E y \in SameFeed(x) : row[y].stamp > r.row.stamp
                THEN Counted("late") ELSE UNCHANGED count
             /\ UNCHANGED <<now, deviceVars, engine>>
  <1> DEFINE r == editor[e]
             written == Written(r.kind, x, r.row)
             stamp == IF x \in Users /\ Exists(x) THEN row[x].stamp ELSE r.row.stamp
             new == [written EXCEPT !.stamp = stamp]
  <1>1. /\ r.pc = "write" /\ r.on = {x} /\ editor' = [editor EXCEPT ![e] = NoRequest]
        /\ row' = [row EXCEPT ![x] = new]
        /\ IF \E y \in SameFeed(x) : row[y].stamp > r.row.stamp
           THEN Counted("late") ELSE UNCHANGED count
        /\ UNCHANGED <<now, deviceVars, engine>>
    BY DEF Commit, InHand
  <1>2. r \in EditorState /\ r.kind \in Kinds /\ r.row \in AnyRow /\ row \in [Rows -> AnyRow]
    BY DEF IInv, TypeOK, EditorState, Kinds
  <1>3. stamp \in Times
    BY <1>2 DEF AnyRow, Times
  <1>4. /\ written \in AnyRow
        /\ r.kind = "create" => written.version = 1
        /\ r.kind = "edit" /\ x \in Scripts => written.version = r.row.version
        /\ r.kind # "create" /\ ~(r.kind = "edit" /\ x \in Scripts) =>
             written.version >= row[x].version
    BY <1>2, WrittenIs
  <1>5. stamp = IF x \in Users /\ Exists(x) THEN row[x].stamp ELSE r.row.stamp
    OBVIOUS
  <1> HIDE DEF written, stamp
  <1>6. new \in AnyRow /\ new.stamp = stamp /\ new.version = written.version
    BY <1>3, <1>4 DEF AnyRow, Times
  <1>7. NoRequest \in EditorState
    BY NoRowType DEF NoRequest, EditorState, Kinds
  <1>8. Becomes(e, NoRequest)
    BY <1>1, <1>7, EditorUpdate
  <1> HIDE DEF new
  <1>9. row' \in [Rows -> AnyRow] /\ row'[x] = new /\ \A y \in Rows \ {x} : row'[y] = row[y]
    BY <1>1, <1>2, <1>6
  <1> QED  BY <1>1, <1>4, <1>5, <1>6, <1>8, <1>9

-----------------------------------------------------------------------------
(* The types.                                                              *)

LEMMA EngineTypes ==
  ASSUME NEW e \in EngineState
  PROVE  /\ e.pc \in {"idle", "ask", "rsvps", "upsert", "save"}
         /\ e.feed \in DOMAIN Feeds /\ e.since \in 0 .. MaxTime /\ e.more \in BOOLEAN
         /\ DOMAIN e.page \subseteq Items /\ DOMAIN e.rsvps \subseteq Users
  BY FeedsAre, CopiesAre DEF EngineState, Times

LEMMA InvInit ==
  ASSUME Init
  PROVE  IInv
  <1>1. row \in [Rows -> AnyRow] /\ device \in [Rows -> AnyRow]
    BY NoRowType DEF Init
  <1>2. NoRequest \in EditorState
    BY NoRowType DEF NoRequest, EditorState, Kinds
  <1>3. editor \in [Editors -> EditorState]
    BY <1>2 DEF Init
  <1>4. cursor \in [FeedNames -> Times] /\ now \in Times
    BY CatalogAssumption, FeedsAre DEF Init, Times
  <1>5. count \in [Happenings -> Nat] /\ turfs \in TurfStates
    BY DEF Init, TurfStates
  <1>6. engine \in EngineState /\ engine.pc = "idle" /\ DOMAIN engine.rsvps = {}
    BY IdleState DEF Init
  <1>7. /\ engine.pc \in {"idle", "ask", "rsvps", "upsert", "save"}
        /\ engine.feed \in DOMAIN Feeds /\ engine.since \in 0 .. MaxTime /\ engine.more \in BOOLEAN
        /\ DOMAIN engine.page \subseteq Items /\ DOMAIN engine.rsvps \subseteq Users
    BY <1>6, EngineTypes
  <1> QED  BY <1>1, <1>3, <1>4, <1>5, <1>6, <1>7, FeedsAre
           DEF IInv, TypeOK, HasPage, NoRsvps, EditorState, Kinds, Times

LEMMA CountType ==
  ASSUME IInv, NEW event \in Happenings,
         UNCHANGED count \/ Counted(event) \/ count' = [count EXCEPT !["overlap"] = 1]
  PROVE  count' \in [Happenings -> Nat]
  BY DEF IInv, TypeOK, Counted

(* Every step does one of these.                                           *)
EngineStep ==
  /\ UNCHANGED serverVars
  /\ \/ StartPull \/ PullPage \/ PullEventRSVPsForEvents
     \/ UpsertPage \/ UpdateCursor \/ BreakOff

ServerStep ==
  \E e \in Editors, x \in Rows :
    /\ UNCHANGED <<deviceVars, engine>>
    /\ \/ \E shown \in BOOLEAN : x \in Items /\ GetCallScriptCurrentVersion(e, x, shown)
       \/ x \in Items /\ (GetEvent(e, x) \/ StartUpdate(e, x))
       \/ \E shown \in BOOLEAN, kind \in {"create", "withdraw", "edit", "answer"} :
            StartStatement(e, kind, x, shown)
       \/ Commit(e, x)

LEMMA Steps ==
  ASSUME [Next]_vars
  PROVE  EngineStep \/ ServerStep \/ TurnTurfs \/ UNCHANGED vars
  <1>1. CASE Server
    <2>1. Items \subseteq Rows
      BY DEF Rows
    <2>2. PICK e \in Editors :
            \/ \E x \in Items : \/ \E shown \in BOOLEAN : GetCallScriptCurrentVersion(e, x, shown)
                              \/ GetEvent(e, x)
                              \/ StartUpdate(e, x)
            \/ \E x \in Rows, shown \in BOOLEAN, kind \in {"create", "withdraw", "edit", "answer"} :
                 StartStatement(e, kind, x, shown)
            \/ \E x \in Rows : Commit(e, x)
      BY <1>1 DEF Server
    <2>3. ASSUME NEW x, NEW shown, NEW kind,
                 \/ GetCallScriptCurrentVersion(e, x, shown) \/ GetEvent(e, x) \/ StartUpdate(e, x)
                 \/ StartStatement(e, kind, x, shown) \/ Commit(e, x)
          PROVE  UNCHANGED <<deviceVars, engine>>
      BY <2>3 DEF GetCallScriptCurrentVersion, GetEvent, StartUpdate, StartStatement, Commit
    <2>4. CASE \E x \in Items : \/ \E shown \in BOOLEAN : GetCallScriptCurrentVersion(e, x, shown)
                               \/ GetEvent(e, x)
                               \/ StartUpdate(e, x)
      BY <2>1, <2>3, <2>4 DEF ServerStep
    <2>5. CASE \E x \in Rows, shown \in BOOLEAN, kind \in {"create", "withdraw", "edit", "answer"} :
                 StartStatement(e, kind, x, shown)
      BY <2>3, <2>5 DEF ServerStep
    <2>6. CASE \E x \in Rows : Commit(e, x)
      BY <2>3, <2>6 DEF ServerStep
    <2> QED  BY <2>2, <2>4, <2>5, <2>6
  <1>2. CASE Pull \/ BreakOff
    BY <1>2 DEF Pull, EngineStep, StartPull, PullPage, PullEventRSVPsForEvents, UpsertPage,
       UpdateCursor, BreakOff, serverVars, deviceVars
  <1> QED  BY <1>1, <1>2 DEF Next

LEMMA AskingHolds ==
  ASSUME Asks(engine')
  PROVE  engine' \in EngineState /\ HasPage' /\ NoRsvps'
  BY IdleState DEF Asks, HasPage, NoRsvps

LEMMA EngineKeepsTypes ==
  ASSUME IInv, EngineStep
  PROVE  /\ engine' \in EngineState /\ HasPage' /\ NoRsvps'
         /\ device' \in [Rows -> AnyRow] /\ cursor' \in [FeedNames -> Times]
         /\ count' \in [Happenings -> Nat] /\ turfs' = turfs
  <1>1. device \in [Rows -> AnyRow] /\ cursor \in [FeedNames -> Times] /\ count \in [Happenings -> Nat]
    BY FeedsAre DEF IInv, TypeOK, Times
  <1>2. "faults" \in Happenings
    BY DEF Happenings
  <1>3. ASSUME engine' = Idle
        PROVE  engine' \in EngineState /\ HasPage' /\ NoRsvps'
    BY <1>3, IdleState DEF HasPage, NoRsvps
  <1>4. CASE StartPull
    BY <1>1, <1>4, StartPullStep, AskingHolds DEF StartPull, deviceVars
  <1>5. CASE PullPage
    <2>1. UNCHANGED <<device, cursor, turfs, count>>
      BY <1>5 DEF PullPage, deviceVars
    <2>2. CASE GoesOn
      BY <1>1, <1>3, <2>1, <2>2, AskingHolds DEF GoesOn
    <2>3. CASE ~GoesOn
      <3>1. PICK P \in Pages(Feed(CurrentFeed), engine.since) :
              /\ P # {} /\ DOMAIN engine'.page = P /\ engine' \in EngineState
              /\ engine'.rsvps = engine.rsvps
        BY <1>5, <2>3, PullPageStep
      <3> QED  BY <1>1, <2>1, <3>1 DEF IInv, HasPage, NoRsvps
    <2> QED  BY <2>2, <2>3
  <1>6. CASE PullEventRSVPsForEvents
    <2>1. /\ UNCHANGED <<device, cursor, turfs, count>> /\ engine.pc = "rsvps"
          /\ engine' \in EngineState /\ engine'.page = engine.page /\ NoRsvps'
      BY <1>6, PullRsvpsStep
    <2> QED  BY <1>1, <2>1 DEF IInv, HasPage
  <1>7. CASE UpsertPage
    <2>1. UNCHANGED <<cursor, turfs, count>>
      BY <1>7 DEF UpsertPage
    <2>2. /\ engine' \in EngineState /\ engine'.page = engine.page /\ engine.pc = "upsert"
          /\ engine'.rsvps = engine.rsvps /\ device' \in [Rows -> AnyRow]
      BY <1>7, UpsertStep DEF Stores
    <2> QED  BY <1>1, <2>1, <2>2 DEF IInv, HasPage, NoRsvps
  <1>8. CASE UpdateCursor
    <2>1. UNCHANGED <<device, turfs, count>>
      BY <1>8 DEF UpdateCursor
    <2>2. /\ cursor' = [cursor EXCEPT ![CurrentFeed] = LastStamp(engine.page)]
          /\ LastStamp(engine.page) \in Times
          /\ engine' = Idle \/ Asking'
      BY <1>8, UpdateCursorStep
    <2>3. engine' \in EngineState /\ HasPage' /\ NoRsvps'
      BY <1>3, <2>2, IdleState DEF Asking, Asks, HasPage, NoRsvps
    <2> QED  BY <1>1, <2>1, <2>2, <2>3
  <1>9. CASE BreakOff
    <2>1. UNCHANGED <<device, cursor, turfs>> /\ engine' = Idle
      BY <1>9 DEF BreakOff, deviceVars
    <2>2. count' \in [Happenings -> Nat]
      BY <1>2, <1>9, CountType DEF BreakOff
    <2> QED  BY <1>1, <1>3, <2>1, <2>2
  <1> QED  BY <1>4, <1>5, <1>6, <1>7, <1>8, <1>9 DEF EngineStep

LEMMA ServerKeepsTypes ==
  ASSUME IInv, ServerStep
  PROVE  /\ now' \in Times /\ row' \in [Rows -> AnyRow] /\ editor' \in [Editors -> EditorState]
         /\ count' \in [Happenings -> Nat]
  <1>1. PICK e \in Editors, x \in Rows :
          \/ \E shown \in BOOLEAN : x \in Items /\ GetCallScriptCurrentVersion(e, x, shown)
          \/ x \in Items /\ (GetEvent(e, x) \/ StartUpdate(e, x))
          \/ \E shown \in BOOLEAN, kind \in {"create", "withdraw", "edit", "answer"} :
               StartStatement(e, kind, x, shown)
          \/ Commit(e, x)
    BY DEF ServerStep
  <1>2. /\ now \in Times /\ row \in [Rows -> AnyRow] /\ "late" \in Happenings
        /\ count \in [Happenings -> Nat]
    BY DEF IInv, TypeOK, Times, Happenings
  <1>3. ASSUME NotesOverlap(e, x)
        PROVE  count' \in [Happenings -> Nat]
    BY <1>2, <1>3, CountType DEF NotesOverlap
  <1>4. ASSUME NEW shown \in BOOLEAN, x \in Items,
               GetCallScriptCurrentVersion(e, x, shown) \/ GetEvent(e, x)
        PROVE  /\ now' \in Times /\ row' \in [Rows -> AnyRow]
               /\ editor' \in [Editors -> EditorState] /\ count' \in [Happenings -> Nat]
    <2>1. PICK new \in EditorState :
            /\ Becomes(e, new) /\ UNCHANGED <<now, row>>
            /\ NotesOverlap(e, x) \/ UNCHANGED count
      BY <1>4, ReadStep
    <2> QED  BY <1>2, <1>3, <2>1 DEF Becomes
  <1>5. ASSUME NEW kind, Writes(e, kind, x), NotesOverlap(e, x) \/ UNCHANGED count
        PROVE  /\ now' \in Times /\ row' \in [Rows -> AnyRow]
               /\ editor' \in [Editors -> EditorState] /\ count' \in [Happenings -> Nat]
    BY <1>2, <1>3, <1>5 DEF Writes, Becomes
  <1>6. CASE x \in Items /\ StartUpdate(e, x)
    BY <1>5, <1>6, UpdateStep
  <1>7. ASSUME NEW shown \in BOOLEAN, NEW kind \in {"create", "withdraw", "edit", "answer"},
               StartStatement(e, kind, x, shown)
        PROVE  /\ now' \in Times /\ row' \in [Rows -> AnyRow]
               /\ editor' \in [Editors -> EditorState] /\ count' \in [Happenings -> Nat]
    BY <1>5, <1>7, StatementStep
  <1>8. CASE Commit(e, x)
    <2>1. /\ Becomes(e, NoRequest) /\ row' \in [Rows -> AnyRow] /\ now' = now
          /\ Counted("late") \/ UNCHANGED count
      BY <1>8, CommitStep
    <2> QED  BY <1>2, <2>1, CountType DEF Becomes
  <1>9. TRUE \in BOOLEAN
    OBVIOUS
  <1> QED  BY <1>1, <1>4, <1>6, <1>7, <1>8, <1>9

LEMMA InvStep ==
  ASSUME IInv, [Next]_vars
  PROVE  IInv'
  <1>1. CASE EngineStep
    <2>1. /\ engine' \in EngineState /\ HasPage' /\ NoRsvps'
          /\ device' \in [Rows -> AnyRow] /\ cursor' \in [FeedNames -> Times]
          /\ count' \in [Happenings -> Nat] /\ turfs' = turfs
      BY <1>1, EngineKeepsTypes
    <2>2. UNCHANGED <<now, row, editor>>
      BY <1>1 DEF EngineStep, serverVars
    <2>3. /\ engine'.pc \in {"idle", "ask", "rsvps", "upsert", "save"}
          /\ engine'.feed \in DOMAIN Feeds /\ engine'.since \in 0 .. MaxTime
          /\ engine'.more \in BOOLEAN
          /\ DOMAIN engine'.page \subseteq Items /\ DOMAIN engine'.rsvps \subseteq Users
      BY <2>1, EngineTypes
    <2> QED  BY <2>1, <2>2, <2>3, FeedsAre DEF IInv, TypeOK, Times
  <1>2. CASE ServerStep
    <2>1. /\ now' \in Times /\ row' \in [Rows -> AnyRow] /\ editor' \in [Editors -> EditorState]
          /\ count' \in [Happenings -> Nat]
      BY <1>2, ServerKeepsTypes
    <2>2. UNCHANGED <<device, cursor, turfs, engine>>
      BY <1>2 DEF ServerStep, deviceVars
    <2> QED  BY <2>1, <2>2 DEF IInv, TypeOK, HasPage, NoRsvps, EditorState, Kinds, Times
  <1>3. CASE TurnTurfs
    <2>1. "turns" \in Happenings
      BY DEF Happenings
    <2>2. count' \in [Happenings -> Nat]
      BY <1>3, <2>1, CountType DEF TurnTurfs
    <2>3. turfs' \in TurfStates /\ UNCHANGED <<now, row, editor, device, cursor, engine>>
      BY <1>3 DEF TurnTurfs, serverVars
    <2> QED  BY <2>2, <2>3 DEF IInv, TypeOK, HasPage, NoRsvps
  <1>4. CASE UNCHANGED vars
    BY <1>4 DEF IInv, TypeOK, HasPage, NoRsvps, vars, serverVars, deviceVars
  <1> QED  BY <1>1, <1>2, <1>3, <1>4, Steps

(* Every variable keeps its type, whatever the instance.                   *)
THEOREM CatalogTypeCorrect == Spec => []TypeOK
  <1>1. Init => IInv
    BY InvInit
  <1>2. IInv /\ [Next]_vars => IInv'
    BY InvStep
  <1>3. IInv => TypeOK
    BY DEF IInv
  <1> QED  BY <1>1, <1>2, <1>3, PTL DEF Spec

-----------------------------------------------------------------------------
(* Stamps and counts.                                                      *)

(* Every stamp was taken, and none twice.                                  *)
Stamped ==
  /\ \A x \in Rows : row[x].stamp <= now
  /\ \A x, y \in Items : row[x].stamp = row[y].stamp => x = y \/ row[x].stamp = 0
  /\ \A e \in Editors : editor[e].pc = "write" =>
       /\ editor[e].row.stamp <= now
       /\ \A x \in Rows : row[x].stamp # editor[e].row.stamp
       /\ \A o \in Editors \ {e} :
            editor[o].pc = "write" => editor[o].row.stamp # editor[e].row.stamp

LEMMA StampTypes ==
  ASSUME IInv
  PROVE  /\ now \in Nat /\ \A x \in Rows : row[x].stamp \in Nat /\ device[x].stamp \in Nat
         /\ \A x \in Rows : row[x].version \in Nat /\ device[x].version \in Nat
         /\ \A e \in Editors : editor[e].row.stamp \in Nat /\ editor[e].row.version \in Nat
         /\ \A event \in Happenings : count[event] \in Nat
  BY CatalogAssumption DEF IInv, TypeOK, AnyRow

LEMMA NothingUncounted ==
  ASSUME IInv, NEW event \in Happenings,
         UNCHANGED count \/ Counted(event) \/ count' = [count EXCEPT !["overlap"] = 1]
  PROVE  /\ \A h \in Happenings : count'[h] = 0 => count[h] = 0
         /\ Counted(event) => count'[event] # 0
         /\ count' = [count EXCEPT !["overlap"] = 1] => count'["overlap"] # 0
  <1>1. count \in [Happenings -> Nat] /\ "overlap" \in Happenings
    BY DEF IInv, TypeOK, Happenings
  <1>2. ASSUME Counted(event)
        PROVE  /\ count'[event] = count[event] + 1
               /\ \A h \in Happenings \ {event} : count'[h] = count[h]
    BY <1>1, <1>2 DEF Counted
  <1>3. ASSUME count' = [count EXCEPT !["overlap"] = 1]
        PROVE  count'["overlap"] = 1 /\ \A h \in Happenings \ {"overlap"} : count'[h] = count[h]
    BY <1>1, <1>3
  <1>4. Counted(event) => count'[event] # 0
    BY <1>1, <1>2
  <1>5. \A h \in Happenings : count'[h] = 0 => count[h] = 0
    BY <1>2, <1>3, <1>4
  <1> QED  BY <1>3, <1>4, <1>5

(* What a step of the server does to the rows and their stamps: a row that *)
(* changes gets a stamp beyond all of its feed.                            *)
LEMMA RowsMove ==
  ASSUME IInv, Stamped, ServerStep
  PROVE  /\ Stamped'
         /\ \A h \in Happenings : count'[h] = 0 => count[h] = 0
         /\ count'["late"] = 0 =>
              \A y \in Items : \/ row'[y] = row[y]
                               \/ \A z \in SameFeed(y) : row[z].stamp < row'[y].stamp
  <1> DEFINE Goal == /\ Stamped'
                     /\ \A h \in Happenings : count'[h] = 0 => count[h] = 0
                     /\ count'["late"] = 0 =>
                          \A y \in Items : \/ row'[y] = row[y]
                                           \/ \A z \in SameFeed(y) : row[z].stamp < row'[y].stamp
  <1>1. PICK e \in Editors, x \in Rows :
          \/ \E shown \in BOOLEAN : x \in Items /\ GetCallScriptCurrentVersion(e, x, shown)
          \/ x \in Items /\ (GetEvent(e, x) \/ StartUpdate(e, x))
          \/ \E shown \in BOOLEAN, kind \in {"create", "withdraw", "edit", "answer"} :
               StartStatement(e, kind, x, shown)
          \/ Commit(e, x)
    BY DEF ServerStep
  <1>2. /\ now \in Nat /\ \A y \in Rows : row[y].stamp \in Nat
        /\ \A o \in Editors : editor[o].row.stamp \in Nat
    BY StampTypes
  <1>3. "late" \in Happenings /\ Items \subseteq Rows /\ Users \cap Items = {}
    BY CatalogAssumption DEF Happenings, Rows
  <1>4. ASSUME NotesOverlap(e, x) \/ UNCHANGED count
        PROVE  \A h \in Happenings : count'[h] = 0 => count[h] = 0
    BY <1>3, <1>4, NothingUncounted DEF NotesOverlap
  <1>5. ASSUME NEW shown \in BOOLEAN, x \in Items,
               GetCallScriptCurrentVersion(e, x, shown) \/ GetEvent(e, x)
        PROVE  Goal
    <2>1. PICK new \in EditorState :
            /\ Becomes(e, new) /\ new.pc = "read" /\ UNCHANGED <<now, row>>
            /\ NotesOverlap(e, x) \/ UNCHANGED count
      BY <1>5, ReadStep
    <2>2. Stamped'
      BY <2>1 DEF Stamped, Becomes
    <2> QED  BY <1>4, <2>1, <2>2
  <1>6. ASSUME NEW kind, Writes(e, kind, x), NotesOverlap(e, x) \/ UNCHANGED count
        PROVE  Goal
    <2>1. PICK new \in EditorState :
            /\ Becomes(e, new) /\ new.row.stamp = now + 1 /\ now' = now + 1 /\ row' = row
      BY <1>6 DEF Writes
    <2>2. Stamped'
      BY <1>2, <2>1 DEF Stamped, Becomes
    <2> QED  BY <1>4, <1>6, <2>1, <2>2
  <1>7. CASE x \in Items /\ StartUpdate(e, x)
    BY <1>6, <1>7, UpdateStep
  <1>8. ASSUME NEW shown \in BOOLEAN, NEW kind \in {"create", "withdraw", "edit", "answer"},
               StartStatement(e, kind, x, shown)
        PROVE  Goal
    BY <1>6, <1>8, StatementStep
  <1>9. CASE Commit(e, x)
    <2> DEFINE s == editor[e].row.stamp
    <2>1. /\ editor[e].pc = "write" /\ Becomes(e, NoRequest) /\ now' = now
          /\ \A y \in Rows \ {x} : row'[y] = row[y]
          /\ row'[x].stamp = IF x \in Users /\ Exists(x) THEN row[x].stamp ELSE s
          /\ IF \E y \in SameFeed(x) : row[y].stamp > s THEN Counted("late") ELSE UNCHANGED count
      BY <1>9, CommitStep
    <2>2. NoRequest.pc = "idle"
      BY DEF NoRequest
    <2>3. s \in Nat /\ s <= now /\ \A y \in Rows : row[y].stamp # s
      BY <1>2, <2>1 DEF Stamped
    <2>4. Stamped'
      <3>1. \A y \in Rows : row'[y].stamp = row[y].stamp \/ row'[y].stamp = s
        BY <2>1
      <3>2. \A o \in Editors : editor'[o].pc = "write" =>
              o # e /\ editor'[o] = editor[o] /\ editor[o].row.stamp # s
        BY <2>1, <2>2 DEF Becomes, Stamped
      <3>3. \A y \in Rows : row'[y].stamp <= now'
        BY <1>2, <2>1, <2>3, <3>1 DEF Stamped
      <3>4. ASSUME NEW o \in Editors, editor'[o].pc = "write"
            PROVE  /\ editor'[o].row.stamp <= now'
                   /\ \A y \in Rows : row'[y].stamp # editor'[o].row.stamp
                   /\ \A p \in Editors \ {o} :
                        editor'[p].pc = "write" => editor'[p].row.stamp # editor'[o].row.stamp
        <4>1. editor'[o] = editor[o] /\ editor[o].row.stamp # s
          BY <3>2, <3>4
        <4> QED  BY <2>1, <3>1, <3>2, <3>4, <4>1 DEF Stamped
      <3>5. \A y, z \in Items : row'[y].stamp = row'[z].stamp => y = z \/ row'[y].stamp = 0
        <4>1. \A y \in Items \ {x} : row'[y].stamp = row[y].stamp /\ row[y].stamp # s
          BY <1>3, <2>1, <2>3
        <4>2. x \in Items => row'[x].stamp = s
          BY <1>3, <2>1
        <4>3. \A y, z \in Items : row[y].stamp = row[z].stamp => y = z \/ row[y].stamp = 0
          BY DEF Stamped
        <4> QED  BY <4>1, <4>2, <4>3
      <3> QED  BY <3>3, <3>4, <3>5 DEF Stamped
    <2>5. \A h \in Happenings : count'[h] = 0 => count[h] = 0
      BY <1>3, <2>1, NothingUncounted
    <2>6. ASSUME count'["late"] = 0, NEW y \in Items, row'[y] # row[y], NEW z \in SameFeed(y)
          PROVE  row[z].stamp < row'[y].stamp
      <3>1. y = x /\ row'[y].stamp = s
        BY <1>3, <2>1, <2>6
      <3>2. ~Counted("late")
        BY <1>3, <2>6, NothingUncounted
      <3>3. z \in Rows
        BY <2>6 DEF SameFeed, Rows, Items
      <3>4. ~(row[z].stamp > s) /\ row[z].stamp # s
        BY <2>1, <2>3, <2>6, <3>1, <3>2, <3>3
      <3> QED  BY <1>2, <2>3, <3>1, <3>3, <3>4
    <2> QED  BY <2>4, <2>5, <2>6
  <1> QED  BY <1>1, <1>5, <1>7, <1>8, <1>9

-----------------------------------------------------------------------------
(* Cursors tell the truth.                                                 *)

Paged == {"rsvps", "upsert", "save"}
InOrder == count["late"] = 0

(* The engine asks from its feed's cursor, for rows beyond it.             *)
FromCursor ==
  /\ engine.pc # "idle" => engine.since = cursor[CurrentFeed]
  /\ engine.pc \in Paged =>
       /\ DOMAIN engine.page \subseteq Feed(CurrentFeed)
       /\ \A x \in DOMAIN engine.page : engine.page[x].stamp > engine.since

(* Nothing on its way to the device is newer than the server's rows, so a  *)
(* row that changes now gets beyond every page and cursor.                 *)
Reached(f, s) == s = 0 \/ \E y \in Feed(f) : s <= row[y].stamp
Behindhand ==
  /\ \A f \in FeedNames : Reached(f, cursor[f])
  /\ engine.pc \in Paged => \A y \in DOMAIN engine.page : engine.page[y].stamp <= row[y].stamp

(* The rows of feed f up to stamp s are on the device.                     *)
UpTo(f, s) == \A x \in Feed(f) : row[x].stamp \in 1 .. s => device[x] = FromJson(x)
CursorsTrue == \A f \in FeedNames : UpTo(f, cursor[f])

(* The page holds what the device lacks up to the page's last stamp.       *)
PageComplete ==
  engine.pc \in {"rsvps", "upsert"} =>
    \A x \in Feed(CurrentFeed) :
      row[x].stamp \in 1 .. LastStamp(engine.page) =>
        \/ row[x].stamp <= engine.since
        \/ x \in DOMAIN engine.page /\ engine.page[x] = FromJson(x)
PageStored == engine.pc = "save" => UpTo(CurrentFeed, LastStamp(engine.page))

CInv == /\ IInv /\ Stamped /\ FromCursor
        /\ InOrder => Behindhand /\ CursorsTrue /\ PageComplete /\ PageStored

LEMMA CountNames == "late" \in Happenings /\ "overlap" \in Happenings /\ "turns" \in Happenings
  BY DEF Happenings

LEMMA FeedTypes ==
  ASSUME IInv
  PROVE  /\ CurrentFeed \in FeedNames /\ cursor \in [FeedNames -> Times]
         /\ engine.since \in Nat /\ \A f \in FeedNames : cursor[f] \in Nat
         /\ \A f \in FeedNames : Feed(f) \subseteq Rows /\ Feed(f) \subseteq Items
         /\ \A x \in DOMAIN engine.page : engine.page[x].stamp \in Nat
         /\ engine.page \in Copies(Items)
  <1>1. engine.feed \in 1 .. Len(Feeds) /\ engine.since \in Times /\ cursor \in [FeedNames -> Times]
    BY FeedsAre DEF IInv, EngineState, TypeOK, Times
  <1>2. engine.page \in Copies(Items)
    BY DEF IInv, EngineState
  <1>3. \A x \in DOMAIN engine.page : engine.page[x].stamp \in Nat
    BY <1>2, CopiesAre, CatalogAssumption DEF AnyRow
  <1>4. \A f \in FeedNames : Feed(f) \subseteq Rows /\ Feed(f) \subseteq Items
    BY FeedIsItems DEF Rows
  <1> QED  BY <1>1, <1>2, <1>3, <1>4, FeedsAre, CatalogAssumption DEF CurrentFeed, Times

LEMMA WholeFeed ==
  ASSUME NEW f \in FeedNames, NEW x \in Feed(f)
  PROVE  Feed(f) \subseteq SameFeed(x)
  <1>1. /\ Scripts \cap Events = {} /\ Scripts \cap Materials = {} /\ Events \cap Materials = {}
        /\ Users \cap Items = {}
    BY CatalogAssumption
  <1> QED  BY <1>1 DEF Feed, FeedNames, SameFeed, Items

(* The last stamp of a page in hand is one the server's rows have reached. *)
LEMMA PageReached ==
  ASSUME IInv, FromCursor, engine.pc \in Paged
  PROVE  /\ LastStamp(engine.page) \in Nat
         /\ \A x \in DOMAIN engine.page : engine.page[x].stamp <= LastStamp(engine.page)
         /\ Behindhand => Reached(CurrentFeed, LastStamp(engine.page))
  <1> DEFINE last == LastStamp(engine.page)
  <1>1. engine.page \in Copies(Items) /\ DOMAIN engine.page # {}
    BY DEF IInv, EngineState, HasPage, Paged
  <1>2. /\ last \in Times /\ \E y \in DOMAIN engine.page : engine.page[y].stamp = last
        /\ \A y \in DOMAIN engine.page : engine.page[y].stamp <= last
    BY <1>1, LastStampIs
  <1>3. last = LastStamp(engine.page)
    OBVIOUS
  <1> HIDE DEF last
  <1>4. PICK y \in DOMAIN engine.page : engine.page[y].stamp = last
    BY <1>2
  <1>5. Behindhand => y \in Feed(CurrentFeed) /\ last <= row[y].stamp
    BY <1>4 DEF FromCursor, Behindhand
  <1> QED  BY <1>2, <1>3, <1>5, CatalogAssumption DEF Times, Reached

(* What an engine has that asks, or that is idle.                          *)
LEMMA AskingIsSafe ==
  ASSUME engine' = Idle \/ Asking'
  PROVE  FromCursor' /\ PageComplete' /\ PageStored' /\ engine'.pc \notin Paged
  <1>1. engine'.pc \in {"idle", "ask"}
    BY IdleState DEF Asking, Asks
  <1>2. engine'.pc # "idle" => engine'.since = cursor'[CurrentFeed']
    BY IdleState DEF Asking, Asks, CurrentFeed
  <1> QED  BY <1>1, <1>2 DEF FromCursor, PageComplete, PageStored, Paged

LEMMA CInvInit ==
  ASSUME Init
  PROVE  CInv
  <1>1. IInv
    BY InvInit
  <1>2. Stamped
    BY CatalogAssumption DEF Init, Stamped, NoRow, NoRequest, Rows
  <1>3. engine.pc = "idle"
    BY IdleState DEF Init
  <1>4. FromCursor /\ PageComplete /\ PageStored /\ engine.pc \notin Paged
    BY <1>3 DEF FromCursor, PageComplete, PageStored, Paged
  <1>5. \A f \in FeedNames : cursor[f] = 0
    BY <1>1, FeedsAre DEF Init
  <1> QED  BY <1>1, <1>2, <1>4, <1>5 DEF CInv, Behindhand, Reached, CursorsTrue, UpTo

KeepsC == /\ FromCursor'
          /\ InOrder' => Behindhand' /\ CursorsTrue' /\ PageComplete' /\ PageStored'

LEMMA ServerKeepsC ==
  ASSUME CInv, ServerStep
  PROVE  KeepsC /\ Stamped'
  <1> USE DEF CInv
  <1>1. UNCHANGED <<device, cursor, turfs, engine>>
    BY DEF ServerStep, deviceVars
  <1>2. /\ Stamped'
        /\ InOrder' => InOrder
        /\ InOrder' => \A y \in Items : \/ row'[y] = row[y]
                                        \/ \A z \in SameFeed(y) : row[z].stamp < row'[y].stamp
    BY RowsMove, CountNames DEF InOrder
  <1>3. FromCursor'
    BY <1>1 DEF FromCursor, CurrentFeed
  <1>4. ASSUME InOrder'
        PROVE  Behindhand' /\ CursorsTrue' /\ PageComplete' /\ PageStored'
    <2>1. /\ InOrder /\ Behindhand /\ CurrentFeed \in FeedNames /\ CurrentFeed' = CurrentFeed
          /\ \A f \in FeedNames : cursor[f] \in Nat
      <3>1. InOrder /\ Behindhand
        BY <1>2, <1>4
      <3>2. CurrentFeed' = CurrentFeed
        BY <1>1 DEF CurrentFeed
      <3> QED  BY <3>1, <3>2, FeedTypes
    <2>2. \A y \in Rows : row[y].stamp \in Nat /\ row'[y].stamp \in Nat
      <3>1. row' \in [Rows -> AnyRow]
        BY ServerKeepsTypes
      <3>2. \A y \in Rows : row'[y].stamp \in Nat
        BY <3>1 DEF AnyRow
      <3> QED  BY <3>2, StampTypes
    <2>3. ASSUME NEW f \in FeedNames, NEW y \in Feed(f), row'[y] # row[y], NEW z \in Feed(f)
          PROVE  row[z].stamp < row'[y].stamp
      BY <1>2, <1>4, <2>3, FeedIsItems, WholeFeed
    <2>4. ASSUME NEW f \in FeedNames, NEW y \in Feed(f)
          PROVE  y \in Rows /\ row[y].stamp <= row'[y].stamp
      <3>1. y \in Rows
        BY FeedTypes
      <3>2. row'[y] = row[y] \/ row[y].stamp < row'[y].stamp
        BY <2>3
      <3> QED  BY <2>2, <3>1, <3>2
    <2>5. ASSUME NEW f \in FeedNames, NEW s \in Nat, Reached(f, s)
          PROVE  /\ Reached(f, s)'
                 /\ \A x \in Feed(f) : row'[x].stamp \in 1 .. s =>
                      row'[x] = row[x] /\ FromJson(x)' = FromJson(x)
      <3>1. CASE s = 0
        BY <3>1 DEF Reached
      <3>2. CASE s # 0
        <4>1. PICK y \in Feed(f) : s <= row[y].stamp
          BY <2>5, <3>2 DEF Reached
        <4>2. /\ y \in Rows /\ row[y].stamp \in Nat /\ row'[y].stamp \in Nat
              /\ row[y].stamp <= row'[y].stamp
          BY <2>2, <2>4
        <4>3. Reached(f, s)'
          BY <4>1, <4>2 DEF Reached
        <4>4. ASSUME NEW x \in Feed(f), row'[x].stamp \in 1 .. s
              PROVE  row'[x] = row[x]
          <5>1. row'[x] # row[x] => row[y].stamp < row'[x].stamp
            BY <2>3
          <5> QED  BY <4>1, <4>2, <4>4, <5>1
        <4> QED  BY <4>3, <4>4 DEF FromJson
      <3> QED  BY <3>1, <3>2
    <2>6. engine.pc \in Paged => /\ LastStamp(engine.page) \in Nat
                                 /\ Reached(CurrentFeed, LastStamp(engine.page))
      BY <2>1, PageReached
    <2>7. Behindhand'
      <3>1. \A f \in FeedNames : Reached(f, cursor[f])'
        BY <1>1, <2>1, <2>5 DEF Behindhand, Reached
      <3>2. ASSUME engine.pc \in Paged, NEW y \in DOMAIN engine.page
            PROVE  engine.page[y].stamp <= row'[y].stamp
        <4>1. y \in Feed(CurrentFeed) /\ engine.page[y].stamp <= row[y].stamp
          BY <2>1, <3>2 DEF FromCursor, Behindhand
        <4>2. engine.page[y].stamp \in Nat
          BY FeedTypes
        <4> QED  BY <2>1, <2>2, <2>4, <4>1, <4>2
      <3> QED  BY <1>1, <3>1, <3>2 DEF Behindhand
    <2>8. CursorsTrue'
      <3>1. ASSUME NEW f \in FeedNames, NEW x \in Feed(f), row'[x].stamp \in 1 .. cursor[f]
            PROVE  device[x] = FromJson(x)'
        <4>1. Reached(f, cursor[f]) /\ cursor[f] \in Nat
          BY <2>1 DEF Behindhand
        <4>2. row'[x] = row[x] /\ FromJson(x)' = FromJson(x)
          BY <2>5, <3>1, <4>1
        <4> QED  BY <2>1, <3>1, <4>2 DEF CursorsTrue, UpTo
      <3> QED  BY <1>1, <3>1 DEF CursorsTrue, UpTo
    <2>9. PageComplete'
      <3>1. ASSUME engine.pc \in {"rsvps", "upsert"}, NEW x \in Feed(CurrentFeed),
                   row'[x].stamp \in 1 .. LastStamp(engine.page)
            PROVE  \/ row'[x].stamp <= engine.since
                   \/ x \in DOMAIN engine.page /\ engine.page[x] = FromJson(x)'
        <4>1. engine.pc \in Paged
          BY <3>1 DEF Paged
        <4>2. row'[x] = row[x] /\ FromJson(x)' = FromJson(x)
          BY <2>1, <2>5, <2>6, <3>1, <4>1
        <4> QED  BY <2>1, <3>1, <4>2 DEF PageComplete
      <3> QED  BY <1>1, <2>1, <3>1 DEF PageComplete
    <2>10. PageStored'
      <3>1. ASSUME engine.pc = "save", NEW x \in Feed(CurrentFeed),
                   row'[x].stamp \in 1 .. LastStamp(engine.page)
            PROVE  device[x] = FromJson(x)'
        <4>1. engine.pc \in Paged
          BY <3>1 DEF Paged
        <4>2. row'[x] = row[x] /\ FromJson(x)' = FromJson(x)
          BY <2>1, <2>5, <2>6, <3>1, <4>1
        <4> QED  BY <2>1, <3>1, <4>2 DEF PageStored, UpTo
      <3> QED  BY <1>1, <2>1, <3>1 DEF PageStored, UpTo
    <2> QED  BY <2>7, <2>8, <2>9, <2>10
  <1>5. Stamped'
    BY <1>2
  <1> QED  BY <1>3, <1>4, <1>5 DEF KeepsC

(* The engine asks for another feed, starts or breaks off.                 *)
LEMMA AskingKeepsC ==
  ASSUME CInv, UNCHANGED <<row, device, cursor>>, InOrder' => InOrder,
         engine' = Idle \/ Asks(engine')
  PROVE  KeepsC
  <1>1. engine' = Idle \/ Asking'
    BY DEF Asking, Asks
  <1>2. FromCursor' /\ PageComplete' /\ PageStored' /\ engine'.pc \notin Paged
    BY <1>1, AskingIsSafe
  <1>3. InOrder => CursorsTrue'
    BY DEF CInv, CursorsTrue, UpTo, FromJson
  <1>4. InOrder => Behindhand'
    BY <1>2 DEF CInv, Behindhand, Reached
  <1> QED  BY <1>2, <1>3, <1>4 DEF KeepsC

LEMMA PullPageKeepsC ==
  ASSUME CInv, PullPage
  PROVE  KeepsC
  <1> USE DEF CInv
  <1>1. UNCHANGED <<row, device, cursor>> /\ UNCHANGED count
    BY DEF PullPage, serverVars, deviceVars
  <1>2. InOrder' => InOrder
    BY <1>1 DEF InOrder
  <1>3. CASE GoesOn
    BY <1>1, <1>2, <1>3, AskingKeepsC DEF GoesOn
  <1>4. CASE ~GoesOn
    <2>1. PICK P \in Pages(Feed(CurrentFeed), engine.since) :
            /\ P # {} /\ engine'.page = Copy(P) /\ DOMAIN engine'.page = P
            /\ P \subseteq Feed(CurrentFeed) /\ Feed(CurrentFeed) \subseteq Items
            /\ engine' \in EngineState
            /\ engine'.pc = IF CurrentFeed = "events" THEN "rsvps" ELSE "upsert"
            /\ engine'.feed = engine.feed /\ engine'.since = engine.since
      BY <1>4, PullPageStep
    <2>2. /\ engine.pc = "ask" /\ engine.since = cursor[CurrentFeed]
          /\ CurrentFeed' = CurrentFeed
      BY <2>1, PullPageStep DEF FromCursor, CurrentFeed
    <2>3. \A x \in P : /\ x \in Rows /\ engine'.page[x] = FromJson(x)
                        /\ engine'.page[x].stamp = row[x].stamp
                        /\ row[x].stamp > engine.since /\ row[x].stamp \in Nat
      <3>1. P \in SUBSET Items /\ P \subseteq Behind(Feed(CurrentFeed), engine.since)
        BY <2>1, PagesAre
      <3>2. \A x \in P : Copy(P)[x] = FromJson(x)
        BY <3>1, CopyType DEF Rows
      <3>3. \A x \in P : x \in Rows /\ row[x].stamp > engine.since
        BY <3>1 DEF Behind, Rows
      <3> QED  BY <2>1, <3>2, <3>3, FromJsonIs, StampTypes
    <2>4. FromCursor'
      BY <1>1, <2>1, <2>2, <2>3 DEF FromCursor
    <2>5. \A x \in P : engine'.page[x].stamp <= row[x].stamp
      BY <2>3
    <2>6. InOrder => (\A f \in FeedNames : Reached(f, cursor[f])') /\ CursorsTrue'
      BY <1>1 DEF Behindhand, Reached, CursorsTrue, UpTo, FromJson
    <2>7. PageComplete'
      <3>1. DOMAIN engine'.page # {} /\ engine'.page \in Copies(Items)
        BY <2>1 DEF EngineState
      <3> DEFINE last == LastStamp(engine'.page)
      <3>2. last \in Times /\ \E y \in P : engine'.page[y].stamp = last
        BY <2>1, <3>1, LastStampIs
      <3>3. last = LastStamp(engine'.page)
        OBVIOUS
      <3> HIDE DEF last
      <3>4. PICK y \in P : row[y].stamp = last
        BY <2>3, <3>2
      <3>5. ASSUME NEW x \in Feed(CurrentFeed), row[x].stamp \in 1 .. last,
                   ~(row[x].stamp <= engine.since)
            PROVE  x \in P
        <4>1. x \in Rows /\ row[x].stamp \in Nat /\ engine.since \in Nat /\ x \in Items
          BY FeedTypes, StampTypes
        <4>2. x \in Behind(Feed(CurrentFeed), engine.since)
          BY <3>5, <4>1 DEF Behind
        <4>3. \A z \in P, w \in Behind(Feed(CurrentFeed), engine.since) \ P :
                row[z].stamp <= row[w].stamp
          BY <2>1 DEF Pages
        <4>4. ASSUME x \notin P PROVE FALSE
          <5>1. last <= row[x].stamp /\ row[x].stamp <= last
            BY <3>4, <3>5, <4>2, <4>3, <4>4
          <5>2. row[x].stamp = last /\ x # y /\ y \in Rows
            BY <2>3, <3>2, <3>4, <4>1, <4>4, <5>1, CatalogAssumption DEF Times
          <5>3. y \in Items
            BY <2>1
          <5>4. row[y].stamp # 0
            BY <2>3, <4>1, <5>3
          <5> QED  BY <3>4, <4>1, <5>2, <5>3, <5>4 DEF Stamped
        <4> QED  BY <4>4
      <3> QED  BY <1>1, <2>1, <2>2, <2>3, <3>3, <3>5 DEF PageComplete, FromJson
    <2>8. PageStored'
      BY <2>1 DEF PageStored
    <2> QED  BY <1>1, <1>2, <2>1, <2>4, <2>5, <2>6, <2>7, <2>8 DEF KeepsC, Behindhand
  <1> QED  BY <1>3, <1>4

LEMMA PullRsvpsKeepsC ==
  ASSUME CInv, PullEventRSVPsForEvents
  PROVE  KeepsC
  <1>1. /\ engine.pc = "rsvps" /\ engine'.pc = "upsert" /\ engine'.page = engine.page
        /\ engine'.feed = engine.feed /\ engine'.since = engine.since
        /\ UNCHANGED <<row, device, cursor, count>>
    BY PullRsvpsStep DEF CInv, PullEventRSVPsForEvents, serverVars
  <1> QED  BY <1>1 DEF CInv, KeepsC, InOrder, FromCursor, Behindhand, Reached, CursorsTrue, UpTo,
           PageComplete, PageStored, FromJson, CurrentFeed, Paged

LEMMA UpsertKeepsC ==
  ASSUME CInv, UpsertPage
  PROVE  KeepsC
  <1> USE DEF CInv
  <1>1. /\ engine.pc = "upsert" /\ engine'.pc = "save" /\ engine'.page = engine.page
        /\ engine'.feed = engine.feed /\ engine'.since = engine.since
        /\ UNCHANGED <<row, cursor, count>> /\ CurrentFeed' = CurrentFeed
        /\ \A x \in Rows :
             device'[x] = IF x \in DOMAIN engine.page THEN engine.page[x] ELSE device[x]
    BY UpsertStep DEF UpsertPage, serverVars, Stores, CurrentFeed
  <1>2. FromCursor' /\ PageComplete'
    BY <1>1 DEF FromCursor, PageComplete, Paged
  <1>3. ASSUME InOrder'
        PROVE  Behindhand' /\ CursorsTrue' /\ PageStored'
    <2>1. /\ InOrder /\ engine.pc \in Paged /\ engine.since = cursor[CurrentFeed]
          /\ \A x : FromJson(x)' = FromJson(x)
      BY <1>1, <1>3 DEF InOrder, Paged, FromCursor, FromJson
    <2>2. Behindhand'
      BY <1>1, <2>1 DEF Behindhand, Reached, Paged
    <2>3. /\ CurrentFeed \in FeedNames /\ engine.since \in Nat
          /\ \A f \in FeedNames : Feed(f) \subseteq Rows /\ Feed(f) \subseteq Items
          /\ \A x \in DOMAIN engine.page : engine.page[x].stamp \in Nat
          /\ \A x \in Rows : row[x].stamp \in Nat
      BY FeedTypes, StampTypes
    <2>4. ASSUME NEW x \in DOMAIN engine.page
          PROVE  x \in Feed(CurrentFeed) /\ row[x].stamp > engine.since
      <3>1. /\ x \in Feed(CurrentFeed) /\ engine.page[x].stamp > engine.since
            /\ engine.page[x].stamp <= row[x].stamp
        BY <2>1 DEF FromCursor, Behindhand
      <3> QED  BY <2>3, <3>1
    <2>5. \A f \in FeedNames : \A x \in Feed(f) : x \in DOMAIN engine.page => f = CurrentFeed
      BY <2>3, <2>4, CatalogAssumption DEF Feed, FeedNames
    <2>6. ASSUME NEW f \in FeedNames, NEW x \in Feed(f), row[x].stamp \in 1 .. cursor[f]
          PROVE  device'[x] = FromJson(x)
      <3>1. x \notin DOMAIN engine.page
        BY <2>1, <2>3, <2>4, <2>5, <2>6
      <3>2. device'[x] = device[x]
        BY <1>1, <2>3, <3>1
      <3> QED  BY <2>1, <2>6, <3>2 DEF CursorsTrue, UpTo
    <2>7. CursorsTrue'
      BY <1>1, <2>1, <2>6 DEF CursorsTrue, UpTo
    <2>8. ASSUME NEW x \in Feed(CurrentFeed), row[x].stamp \in 1 .. LastStamp(engine.page)
          PROVE  device'[x] = FromJson(x)
      <3>1. CASE row[x].stamp <= engine.since
        <4>1. row[x].stamp \in 1 .. cursor[CurrentFeed]
          BY <2>1, <2>3, <2>8, <3>1
        <4> QED  BY <2>3, <2>6, <4>1
      <3>2. CASE x \in DOMAIN engine.page /\ engine.page[x] = FromJson(x)
        BY <1>1, <2>3, <3>2
      <3> QED  BY <1>1, <2>1, <2>8, <3>1, <3>2 DEF PageComplete
    <2>9. PageStored'
      BY <1>1, <2>1, <2>8 DEF PageStored, UpTo
    <2> QED  BY <2>2, <2>7, <2>9
  <1> QED  BY <1>2, <1>3 DEF KeepsC

LEMMA UpdateCursorKeepsC ==
  ASSUME CInv, UpdateCursor
  PROVE  KeepsC
  <1> USE DEF CInv
  <1>1. /\ engine.pc = "save" /\ CurrentFeed \in FeedNames
        /\ cursor' = [cursor EXCEPT ![CurrentFeed] = LastStamp(engine.page)]
        /\ (engine' = Idle \/ Asking') /\ UNCHANGED <<row, device, count>>
    BY UpdateCursorStep DEF UpdateCursor, serverVars
  <1>2. FromCursor' /\ PageComplete' /\ PageStored' /\ engine'.pc \notin Paged
    BY <1>1, AskingIsSafe
  <1>3. /\ cursor'[CurrentFeed] = LastStamp(engine.page)
        /\ \A f \in FeedNames \ {CurrentFeed} : cursor'[f] = cursor[f]
    BY <1>1, FeedTypes
  <1>4. ASSUME InOrder
        PROVE  Behindhand' /\ CursorsTrue'
    <2>1. engine.pc \in Paged
      BY <1>1 DEF Paged
    <2>2. Reached(CurrentFeed, LastStamp(engine.page)) /\ UpTo(CurrentFeed, LastStamp(engine.page))
      BY <1>1, <1>4, <2>1, PageReached DEF PageStored
    <2>3. \A f \in FeedNames : Reached(f, cursor'[f]) /\ UpTo(f, cursor'[f])
      BY <1>3, <1>4, <2>2 DEF Behindhand, CursorsTrue
    <2> QED  BY <1>1, <1>2, <2>3 DEF Behindhand, Reached, CursorsTrue, UpTo, FromJson
  <1> QED  BY <1>1, <1>2, <1>4 DEF KeepsC, InOrder

LEMMA CInvStep ==
  ASSUME CInv, [Next]_vars
  PROVE  CInv'
  <1>1. IInv'
    BY InvStep DEF CInv
  <1>2. CASE EngineStep
    <2>1. UNCHANGED <<now, row, editor>>
      BY <1>2 DEF EngineStep, serverVars
    <2>2. Stamped'
      BY <2>1 DEF CInv, Stamped
    <2>3. CASE StartPull
      <3>1. UNCHANGED <<device, cursor, count>> /\ Asks(engine')
        BY <2>3, StartPullStep DEF StartPull, deviceVars, CInv
      <3>2. InOrder' => InOrder
        BY <3>1 DEF InOrder
      <3> QED  BY <1>1, <2>1, <2>2, <3>1, <3>2, AskingKeepsC DEF CInv, KeepsC
    <2>4. CASE BreakOff
      <3>1. UNCHANGED <<device, cursor>> /\ engine' = Idle /\ Counted("faults")
        BY <2>4 DEF BreakOff, deviceVars
      <3>2. "faults" \in Happenings
        BY DEF Happenings
      <3>3. InOrder' => InOrder
        BY <3>1, <3>2, CountNames, NothingUncounted DEF InOrder, CInv
      <3> QED  BY <1>1, <2>1, <2>2, <3>1, <3>3, AskingKeepsC DEF CInv, KeepsC
    <2>5. PullPage \/ PullEventRSVPsForEvents \/ UpsertPage \/ UpdateCursor => KeepsC
      BY PullPageKeepsC, PullRsvpsKeepsC, UpsertKeepsC, UpdateCursorKeepsC
    <2> QED  BY <1>1, <1>2, <2>2, <2>3, <2>4, <2>5 DEF EngineStep, CInv, KeepsC
  <1>3. CASE ServerStep
    BY <1>1, <1>3, ServerKeepsC DEF CInv, KeepsC
  <1>4. CASE TurnTurfs
    <2>1. UNCHANGED <<now, row, editor, device, cursor, engine>> /\ Counted("turns")
      BY <1>4 DEF TurnTurfs, serverVars
    <2>2. InOrder' => InOrder
      BY <2>1, CountNames, NothingUncounted DEF InOrder, CInv
    <2> QED  BY <1>1, <2>1, <2>2 DEF CInv, Stamped, FromCursor, CurrentFeed, Behindhand, Reached,
             CursorsTrue, UpTo, PageComplete, PageStored, FromJson
  <1>5. CASE UNCHANGED vars
    <2>1. UNCHANGED <<now, row, editor, device, cursor, engine, count>>
      BY <1>5 DEF vars, serverVars, deviceVars
    <2> QED  BY <1>1, <2>1 DEF CInv, InOrder, Stamped, FromCursor, CurrentFeed, Behindhand, Reached,
             CursorsTrue, UpTo, PageComplete, PageStored, FromJson
  <1> QED  BY <1>2, <1>3, <1>4, <1>5, Steps

(* Whatever edits, pages, failures and kills follow each other, up to its  *)
(* cursors the device has every script and event as the server has it, but *)
(* for late statements.                                                    *)
THEOREM CopiesStayCurrent == Spec => []CopiesAreCurrent
  <1>1. Init => CInv
    BY CInvInit
  <1>2. CInv /\ [Next]_vars => CInv'
    BY CInvStep
  <1>3. CInv => CopiesAreCurrent
    BY DEF CInv, InOrder, CursorsTrue, UpTo, CopiesAreCurrent, FeedNames
  <1> QED  BY <1>1, <1>2, <1>3, PTL DEF Spec

-----------------------------------------------------------------------------
(* Versions.                                                               *)

Holding ==
  /\ \A e \in Editors :
       /\ editor[e].pc = "idle" => editor[e].on = {}
       /\ editor[e].pc = "read" => editor[e].kind = "edit"
       /\ editor[e].pc = "write" => editor[e].row.stamp > 0
  /\ \A x \in Rows : row[x].stamp = 0 => row[x].version = 0

(* Without an overlap a script is in one request's hand, and the version   *)
(* this request has counted is the next one.                               *)
OneHolder ==
  \A x \in Scripts : \A e, o \in Editors : editor[e].on = {x} /\ editor[o].on = {x} => e = o
NextVersion(e, x) == /\ editor[e].kind = "edit" => editor[e].row.version = row[x].version + 1
                     /\ editor[e].kind = "create" => row[x].version = 0
NextVersions == \A x \in Scripts, e \in Editors : editor[e].on = {x} => NextVersion(e, x)

(* A version is on the server before it is on a page, and there before it  *)
(* is on the device.                                                       *)
ServerFirst ==
  \A x \in Scripts :
    /\ device[x].version <= row[x].version
    /\ engine.pc \in Paged /\ x \in DOMAIN engine.page =>
         device[x].version <= engine.page[x].version /\ engine.page[x].version <= row[x].version

VInv == /\ IInv /\ Holding
        /\ count["overlap"] = 0 => OneHolder /\ NextVersions /\ ServerFirst

(* A request takes row x in hand, or keeps it.                             *)
LEMMA HandKeepsVersions ==
  ASSUME NEW e \in Editors, NEW x \in Rows, NEW new \in EditorState, Becomes(e, new), new.on = {x},
         row' = row, OneHolder, NextVersions,
         x \in Scripts => \A o \in Editors \ {e} : editor[o].on # {x},
         x \in Scripts /\ new.kind = "edit" => new.row.version = row[x].version + 1,
         x \in Scripts /\ new.kind = "create" => row[x].version = 0
  PROVE  OneHolder' /\ NextVersions'
  <1>1. \A o \in Editors \ {e} : editor'[o] = editor[o]
    BY DEF Becomes
  <1>2. editor'[e] = new /\ \A y \in Scripts : editor'[e].on = {y} => y = x
    BY DEF Becomes
  <1>3. ASSUME NEW y \in Scripts, NEW o \in Editors, editor'[o].on = {y}
        PROVE  /\ o = e => y = x
               /\ o # e => editor[o].on = {y} /\ editor'[o] = editor[o] /\ y # x
    BY <1>1, <1>2, <1>3
  <1>4. OneHolder'
    BY <1>3 DEF OneHolder
  <1>5. ASSUME NEW y \in Scripts, NEW o \in Editors, editor'[o].on = {y}
        PROVE  NextVersion(o, y)'
    <2>1. CASE o = e
      BY <1>2, <1>3, <1>5, <2>1 DEF NextVersion
    <2>2. CASE o # e
      BY <1>3, <1>5, <2>2 DEF NextVersion, NextVersions
    <2> QED  BY <2>1, <2>2
  <1>6. NextVersions'
    BY <1>5 DEF NextVersions
  <1> QED  BY <1>4, <1>6

(* What a step of the server does to the versions.                         *)
VersionsMove ==
  /\ Holding'
  /\ \A h \in Happenings : count'[h] = 0 => count[h] = 0
  /\ count'["overlap"] = 0 /\ OneHolder /\ NextVersions =>
       /\ OneHolder' /\ NextVersions'
       /\ \A x \in Scripts : row[x].version <= row'[x].version

LEMMA OverlapIsNoted ==
  ASSUME IInv, NEW e \in Editors, NEW x \in Rows, NotesOverlap(e, x)
  PROVE  /\ \A h \in Happenings : count'[h] = 0 => count[h] = 0
         /\ count'["overlap"] = 0 => \A o \in Editors \ {e} : editor[o].on # {x}
  BY CountNames, NothingUncounted DEF NotesOverlap, Overlaps, InHand

LEMMA ReadMoves ==
  ASSUME IInv, Holding, NEW e \in Editors, NEW x \in Items, NEW shown \in BOOLEAN,
         GetCallScriptCurrentVersion(e, x, shown) \/ GetEvent(e, x)
  PROVE  VersionsMove
  <1>1. PICK new \in EditorState :
          /\ Becomes(e, new) /\ new.pc = "read" /\ new.kind = "edit" /\ new.on = {x}
          /\ row' = row
          /\ \/ x \in Scripts /\ new.row.version = row[x].version + 1 /\ NotesOverlap(e, x)
             \/ x \in Events /\ UNCHANGED count
    BY ReadStep
  <1>2. x \in Rows /\ Scripts \cap Events = {} /\ Scripts \subseteq Rows
    BY CatalogAssumption DEF Rows, Items
  <1>3. Holding'
    BY <1>1 DEF Holding, Becomes
  <1>4. \A h \in Happenings : count'[h] = 0 => count[h] = 0
    BY <1>1, <1>2, OverlapIsNoted
  <1>5. ASSUME count'["overlap"] = 0, OneHolder, NextVersions
        PROVE  OneHolder' /\ NextVersions'
    <2>1. x \in Scripts => /\ \A o \in Editors \ {e} : editor[o].on # {x}
                          /\ new.row.version = row[x].version + 1
      BY <1>1, <1>2, <1>5, OverlapIsNoted
    <2> QED  BY <1>1, <1>2, <1>5, <2>1, HandKeepsVersions
  <1>6. \A y \in Scripts : row[y].version <= row'[y].version
    BY <1>1, <1>2, StampTypes
  <1> QED  BY <1>3, <1>4, <1>5, <1>6 DEF VersionsMove

LEMMA StatementMoves ==
  ASSUME IInv, Holding, NEW e \in Editors, NEW x \in Rows, NEW shown \in BOOLEAN,
         NEW kind \in {"create", "withdraw", "edit", "answer"}, StartStatement(e, kind, x, shown)
  PROVE  VersionsMove
  <1>1. /\ Writes(e, kind, x) /\ NotesOverlap(e, x) /\ ~(kind = "edit" /\ x \in Scripts)
        /\ kind = "create" => ~Exists(x)
    BY StatementStep
  <1>2. PICK new \in EditorState :
          /\ Becomes(e, new) /\ new.pc = "write" /\ new.kind = kind /\ new.on = {x}
          /\ new.row.stamp = now + 1 /\ row' = row
    BY <1>1 DEF Writes
  <1>3. now \in Nat /\ row[x].stamp \in Nat /\ Scripts \subseteq Rows
    BY StampTypes DEF Rows, Items
  <1>4. Holding'
    BY <1>2, <1>3 DEF Holding, Becomes
  <1>5. kind = "create" => row[x].version = 0
    BY <1>1, <1>3 DEF Exists, Holding
  <1>6. ASSUME count'["overlap"] = 0, OneHolder, NextVersions
        PROVE  OneHolder' /\ NextVersions'
    <2>1. \A o \in Editors \ {e} : editor[o].on # {x}
      BY <1>1, <1>6, OverlapIsNoted
    <2> QED  BY <1>1, <1>2, <1>5, <1>6, <2>1, HandKeepsVersions
  <1>7. \A y \in Scripts : row[y].version <= row'[y].version
    BY <1>2, <1>3, StampTypes
  <1>8. \A h \in Happenings : count'[h] = 0 => count[h] = 0
    BY <1>1, OverlapIsNoted
  <1> QED  BY <1>4, <1>6, <1>7, <1>8 DEF VersionsMove

LEMMA UpdateMoves ==
  ASSUME IInv, Holding, NEW e \in Editors, NEW x \in Items, StartUpdate(e, x)
  PROVE  VersionsMove
  <1>1. Writes(e, "edit", x) /\ editor[e].pc = "read" /\ editor[e].on = {x} /\ UNCHANGED count
    BY UpdateStep
  <1>2. PICK new \in EditorState :
          /\ Becomes(e, new) /\ new.pc = "write" /\ new.kind = "edit" /\ new.on = {x}
          /\ new.row.stamp = now + 1 /\ row' = row
          /\ x \in Scripts => new.row.version = editor[e].row.version
    BY <1>1 DEF Writes
  <1>3. now \in Nat /\ x \in Rows /\ Scripts \subseteq Rows /\ editor[e].kind = "edit"
    BY <1>1, StampTypes DEF Rows, Items, Holding
  <1>4. Holding'
    BY <1>2, <1>3 DEF Holding, Becomes
  <1>5. ASSUME OneHolder, NextVersions
        PROVE  OneHolder' /\ NextVersions'
    <2>1. x \in Scripts => \A o \in Editors \ {e} : editor[o].on # {x}
      BY <1>1, <1>5 DEF OneHolder
    <2>2. x \in Scripts => new.row.version = row[x].version + 1
      BY <1>1, <1>2, <1>3, <1>5 DEF NextVersions, NextVersion
    <2> QED  BY <1>2, <1>3, <1>5, <2>1, <2>2, HandKeepsVersions
  <1>6. \A y \in Scripts : row[y].version <= row'[y].version
    BY <1>2, <1>3, StampTypes
  <1> QED  BY <1>1, <1>4, <1>5, <1>6 DEF VersionsMove

LEMMA CommitMoves ==
  ASSUME IInv, Holding, NEW e \in Editors, NEW x \in Rows, Commit(e, x)
  PROVE  VersionsMove
  <1> DEFINE r == editor[e]
  <1>1. /\ r.pc = "write" /\ r.on = {x} /\ Becomes(e, NoRequest)
        /\ \A y \in Rows \ {x} : row'[y] = row[y]
        /\ row'[x].stamp = IF x \in Users /\ Exists(x) THEN row[x].stamp ELSE r.row.stamp
        /\ r.kind = "create" => row'[x].version = 1
        /\ r.kind = "edit" /\ x \in Scripts => row'[x].version = r.row.version
        /\ r.kind # "create" /\ ~(r.kind = "edit" /\ x \in Scripts) =>
             row'[x].version >= row[x].version
        /\ Counted("late") \/ UNCHANGED count
    BY CommitStep
  <1>2. NoRequest.pc = "idle" /\ NoRequest.on = {}
    BY DEF NoRequest
  <1>3. /\ \A y \in Rows : row[y].stamp \in Nat /\ row[y].version \in Nat
        /\ Scripts \subseteq Rows
    BY StampTypes DEF Rows, Items
  <1>4. Holding'
    <2>1. row'[x].stamp # 0
      BY <1>1, <1>3 DEF Exists, Holding
    <2> QED  BY <1>1, <1>2, <2>1 DEF Holding, Becomes
  <1>5. \A h \in Happenings : count'[h] = 0 => count[h] = 0
    BY <1>1, CountNames, NothingUncounted
  <1>6. ASSUME OneHolder, NextVersions
        PROVE  /\ OneHolder' /\ NextVersions'
               /\ \A y \in Scripts : row[y].version <= row'[y].version
    <2>1. \A y \in Scripts, o \in Editors : editor'[o].on = {y} =>
            o # e /\ editor'[o] = editor[o]
      BY <1>1, <1>2 DEF Becomes
    <2>2. OneHolder'
      BY <1>6, <2>1 DEF OneHolder
    <2>3. \A y \in Scripts, o \in Editors : editor'[o].on = {y} => y # x
      BY <1>1, <1>6, <2>1 DEF OneHolder
    <2>4. NextVersions'
      BY <1>1, <1>3, <1>6, <2>1, <2>3 DEF NextVersions, NextVersion
    <2>5. x \in Scripts => row[x].version <= row'[x].version
      BY <1>1, <1>3, <1>6 DEF NextVersions, NextVersion
    <2> QED  BY <1>1, <1>3, <2>2, <2>4, <2>5
  <1> QED  BY <1>4, <1>5, <1>6 DEF VersionsMove

LEMMA ServerMovesVersions ==
  ASSUME IInv, Holding, ServerStep
  PROVE  VersionsMove
  BY ReadMoves, StatementMoves, UpdateMoves, CommitMoves DEF ServerStep

(* What an engine's step does to the device's scripts.                     *)
LEMMA EngineKeepsVersions ==
  ASSUME IInv, ServerFirst, EngineStep
  PROVE  /\ ServerFirst'
         /\ \A x \in Scripts : device'[x].version >= device[x].version
  <1>1. row' = row
    BY DEF EngineStep, serverVars
  <1>2. /\ \A x \in Rows : row[x].version \in Nat /\ device[x].version \in Nat
        /\ Scripts \subseteq Rows /\ Scripts \subseteq Items /\ Scripts \cap Users = {}
        /\ Items \subseteq Rows
    BY StampTypes, CatalogAssumption DEF Rows, Items
  <1>3. ASSUME device' = device, engine'.pc \in {"idle", "ask"}
        PROVE  /\ ServerFirst'
               /\ \A x \in Scripts : device'[x].version >= device[x].version
    BY <1>1, <1>2, <1>3 DEF ServerFirst, Paged
  <1>4. ASSUME engine' = Idle \/ Asks(engine') \/ Asking'
        PROVE  engine'.pc \in {"idle", "ask"}
    BY <1>4, IdleState DEF Asks, Asking
  <1>5. CASE StartPull
    BY <1>3, <1>4, <1>5, StartPullStep DEF StartPull, deviceVars
  <1>6. CASE BreakOff
    BY <1>3, <1>4, <1>6 DEF BreakOff, deviceVars
  <1>7. CASE UpdateCursor
    BY <1>3, <1>4, <1>7, UpdateCursorStep DEF UpdateCursor
  <1>8. CASE PullPage
    <2>1. device' = device
      BY <1>8 DEF PullPage, deviceVars
    <2>2. CASE GoesOn
      BY <1>3, <1>4, <2>1, <2>2 DEF GoesOn
    <2>3. CASE ~GoesOn
      <3>1. PICK P \in Pages(Feed(CurrentFeed), engine.since) :
              /\ engine'.page = Copy(P) /\ DOMAIN engine'.page = P
              /\ P \subseteq Feed(CurrentFeed) /\ Feed(CurrentFeed) \subseteq Items
        BY <1>8, <2>3, PullPageStep
      <3>2. P \in SUBSET Items
        BY <3>1
      <3>3. \A x \in P : engine'.page[x].version = row[x].version
        BY <1>2, <3>1, <3>2, CopyType, FromJsonIs
      <3> QED  BY <1>1, <1>2, <2>1, <3>1, <3>3 DEF ServerFirst
    <2> QED  BY <2>2, <2>3
  <1>9. CASE PullEventRSVPsForEvents
    <2>1. device' = device
      BY <1>9 DEF PullEventRSVPsForEvents, deviceVars
    <2>2. engine.pc \in Paged /\ engine'.page = engine.page
      BY <1>9, PullRsvpsStep DEF Paged
    <2> QED  BY <1>1, <1>2, <2>1, <2>2 DEF ServerFirst
  <1>10. CASE UpsertPage
    <2>1. engine'.page = engine.page /\ engine.pc \in Paged /\ Stores(engine.page)
      BY <1>10, UpsertStep DEF Paged
    <2>3. \A x \in DOMAIN engine.page : engine.page[x].version \in Nat
      BY CopiesAre DEF IInv, EngineState, AnyRow
    <2>4. \A x \in Scripts : \/ device'[x] = device[x]
                             \/ x \in DOMAIN engine.page /\ device'[x] = engine.page[x]
      BY <1>2, <2>1 DEF Stores
    <2>5. ASSUME NEW x \in Scripts
          PROVE  /\ device'[x].version <= row[x].version /\ device'[x].version >= device[x].version
                 /\ x \in DOMAIN engine.page => /\ device'[x].version <= engine.page[x].version
                                              /\ engine.page[x].version <= row[x].version
      <3>1. device[x].version \in Nat /\ row[x].version \in Nat /\ device[x].version <= row[x].version
        BY <1>2 DEF ServerFirst
      <3>2. CASE x \in DOMAIN engine.page
        <4>1. /\ device[x].version <= engine.page[x].version
              /\ engine.page[x].version <= row[x].version /\ engine.page[x].version \in Nat
          BY <2>1, <2>3, <3>2 DEF ServerFirst
        <4> QED  BY <2>4, <3>1, <4>1
      <3>3. CASE x \notin DOMAIN engine.page
        BY <2>4, <3>1, <3>3
      <3> QED  BY <3>2, <3>3
    <2> QED  BY <1>1, <2>1, <2>5 DEF ServerFirst
  <1> QED  BY <1>5, <1>6, <1>7, <1>8, <1>9, <1>10 DEF EngineStep

LEMMA EngineCounts ==
  ASSUME IInv, EngineStep
  PROVE  count'["overlap"] = 0 => count["overlap"] = 0
  <1>1. \E event \in Happenings :
          UNCHANGED count \/ Counted(event)
    BY DEF EngineStep, StartPull, PullPage, PullEventRSVPsForEvents, UpsertPage,
           UpdateCursor, BreakOff, Happenings
  <1> QED  BY <1>1, CountNames, NothingUncounted

LEMMA VInvStep ==
  ASSUME VInv, [Next]_vars
  PROVE  /\ VInv'
         /\ count["overlap"] = 0 => \A x \in Scripts : device'[x].version >= device[x].version
  <1> USE DEF VInv
  <1>1. IInv'
    BY InvStep
  <1>2. \A x \in Scripts : device[x].version \in Nat /\ row[x].version \in Nat
    BY StampTypes DEF Rows, Items
  <1>3. ASSUME device' = device
        PROVE  \A x \in Scripts : device'[x].version >= device[x].version
    BY <1>2, <1>3
  <1>4. CASE EngineStep
    <2>1. UNCHANGED <<now, row, editor>>
      BY <1>4 DEF EngineStep, serverVars
    <2>2. Holding' /\ (OneHolder => OneHolder') /\ (NextVersions => NextVersions')
      BY <2>1 DEF Holding, OneHolder, NextVersions, NextVersion
    <2> QED  BY <1>1, <1>4, <2>2, EngineCounts, EngineKeepsVersions
  <1>5. CASE ServerStep
    <2>1. UNCHANGED <<device, cursor, turfs, engine>>
      BY <1>5 DEF ServerStep, deviceVars
    <2>2. /\ Holding' /\ (count'["overlap"] = 0 => count["overlap"] = 0)
          /\ count'["overlap"] = 0 /\ OneHolder /\ NextVersions =>
               /\ OneHolder' /\ NextVersions'
               /\ \A x \in Scripts : row[x].version <= row'[x].version
      BY <1>5, CountNames, ServerMovesVersions DEF VersionsMove
    <2>3. ASSUME count'["overlap"] = 0
          PROVE  ServerFirst'
      <3>1. ServerFirst /\ \A x \in Scripts : row[x].version <= row'[x].version
        BY <2>2, <2>3
      <3>2. \A x \in Scripts : row'[x].version \in Nat
        BY <1>5, ServerKeepsTypes DEF AnyRow, Rows, Items
      <3>3. \A x \in DOMAIN engine.page : engine.page[x].version \in Nat
        BY CopiesAre DEF IInv, EngineState, AnyRow
      <3> QED  BY <1>2, <2>1, <3>1, <3>2, <3>3 DEF ServerFirst
    <2> QED  BY <1>1, <1>3, <2>1, <2>2, <2>3
  <1>6. CASE TurnTurfs
    <2>1. UNCHANGED <<now, row, editor, device, cursor, engine>> /\ Counted("turns")
      BY <1>6 DEF TurnTurfs, serverVars
    <2>2. "turns" \in Happenings
      BY DEF Happenings
    <2>3. count'["overlap"] = 0 => count["overlap"] = 0
      BY <2>1, <2>2, CountNames, NothingUncounted
    <2> QED  BY <1>1, <1>3, <2>1, <2>3 DEF Holding, OneHolder, NextVersions, NextVersion, ServerFirst
  <1>7. CASE UNCHANGED vars
    <2>1. UNCHANGED <<now, row, editor, device, cursor, engine, count>>
      BY <1>7 DEF vars, serverVars, deviceVars
    <2> QED  BY <1>1, <1>3, <2>1 DEF Holding, OneHolder, NextVersions, NextVersion, ServerFirst
  <1> QED  BY <1>4, <1>5, <1>6, <1>7, Steps

LEMMA VInvInit ==
  ASSUME Init
  PROVE  VInv
  <1>1. IInv
    BY InvInit
  <1>2. /\ \A e \in Editors : editor[e].pc = "idle" /\ editor[e].on = {}
        /\ \A x \in Rows : row[x].version = 0 /\ device[x].version = 0
        /\ engine.pc = "idle" /\ Scripts \subseteq Rows
    BY IdleState DEF Init, NoRequest, NoRow, Rows, Items
  <1> QED  BY <1>1, <1>2 DEF VInv, Holding, OneHolder, NextVersions, ServerFirst, Paged

(* As long as no two requests have had a script in hand at once, no device *)
(* ever goes back to an earlier version of it, however pages, withdrawals  *)
(* and failures follow each other.                                         *)
THEOREM DevicesGoForward == Spec => VersionsGoForward
  <1>1. Init => VInv
    BY VInvInit
  <1>2. VInv /\ [Next]_vars => VInv'
    BY VInvStep
  <1>3. VInv /\ [Next]_vars =>
          [count["overlap"] = 0 =>
             \A x \in Scripts : device'[x].version >= device[x].version]_vars
    BY VInvStep
  <1> QED  BY <1>1, <1>2, <1>3, PTL DEF Spec, VersionsGoForward
=============================================================================
