-------------------------- MODULE SmsOutreachProofs --------------------------
(***************************************************************************)
(* Proofs about text messages, for any voters, navigators and requests,    *)
(* any size of page and any number of texts, keywords, imports and faults. *)
(***************************************************************************)
EXTENDS SmsOutreach, FiniteSetTheorems, SequenceTheorems, TLAPS

(* The job in the worker's hand is not acknowledged yet.                   *)
JobInHand ==
  sender[Worker].pc # "idle" =>
    sender[Worker].job \in 1 .. Len(jobs) /\ jobs[sender[Worker].job] > 0

Typed == TypeOK /\ JobInHand

CampaignState == [status : {"draft", "sending", "paused", "cancelled", "completed"},
                  total : 0 .. Cardinality(Voters), sent : Nat, failed : Nat]

RequestState == [pc : {"none", "count", "total", "sending", "list", "publish", "pause"},
                 total : 0 .. Cardinality(Voters), next : Nat \ {0}, page : Page]

SenderState == [pc : {"idle", "check", "send", "count", "completion", "complete"},
                voter : Voters \cup {Nobody}, job : Nat, sent : BOOLEAN]

(* A request that publishes is somewhere in its page.                      *)
InPage(state) == state.pc = "publish" => state.next \in DOMAIN state.page

(* A voter that may stand at the k-th place among the targets.             *)
Fits(v, k) == v \in Targets /\ Before(v) < k /\ k <= UpTo(v)

-----------------------------------------------------------------------------
(* Types.                                                                  *)

LEMMA WorkerIsSender == Worker \in Senders
  BY DEF Senders

LEMMA TargetsAreFinite ==
  /\ IsFiniteSet(Targets) /\ Cardinality(Targets) \in Nat
  /\ Cardinality(Voters) \in Nat /\ Cardinality(Targets) <= Cardinality(Voters)
  <1>1. IsFiniteSet(Voters) /\ Targets \subseteq Voters
    BY SmsAssumption DEF Targets
  <1> QED  BY <1>1, FS_Subset, FS_CardinalityType

LEMMA PageTyped ==
  ASSUME NEW first \in Nat \ {0}, NEW page \in Pages(first)
  PROVE  /\ page \in Page
         /\ DOMAIN page # {} => first \in DOMAIN page
         /\ \A k \in DOMAIN page : k \in Nat /\ k <= Cardinality(Targets) /\ Fits(page[k], k)
  <1> DEFINE S == {k \in first .. first + BatchSize - 1 : k <= Cardinality(Targets)}
  <1>1. /\ page \in [S -> Targets]
        /\ \A k \in S : Before(page[k]) < k /\ k <= UpTo(page[k])
    BY DEF Pages
  <1>2. BatchSize \in Nat \ {0} /\ Targets \subseteq Voters
    BY SmsAssumption DEF Targets
  <1>3. S \in SUBSET (1 .. Cardinality(Voters))
    BY <1>2, TargetsAreFinite
  <1>4. page \in [S -> Voters]
    BY <1>1, <1>2
  <1>5. page \in Page
    BY <1>3, <1>4 DEF Page
  <1>6. S # {} => first \in S
    BY <1>2, TargetsAreFinite
  <1>7. \A k \in S : k \in Nat /\ k <= Cardinality(Targets) /\ Fits(page[k], k)
    BY <1>1, <1>2 DEF Fits
  <1> QED  BY <1>1, <1>5, <1>6, <1>7

LEMMA NoRequestTyped == NoRequest \in RequestState /\ NoPage \in Page
  <1>1. {} \in SUBSET (1 .. Cardinality(Voters)) /\ NoPage \in [{} -> Voters]
    BY DEF NoPage
  <1>2. NoPage \in Page
    BY <1>1 DEF Page
  <1> QED  BY <1>2, TargetsAreFinite DEF NoRequest, RequestState

LEMMA CountType ==
  ASSUME TypeOK, NEW event \in Events, Happened(event)
  PROVE  count' \in [Events -> Nat]
  BY DEF TypeOK, Happened

LEMMA FaultType ==
  ASSUME TypeOK, NEW event \in Events, Fails(event)
  PROVE  count' \in [Events -> Nat]
  BY CountType DEF Fails

(* The types, part by part.                                                *)
LEMMA TypeParts ==
  TypeOK <=>
    /\ campaign \in CampaignState
    /\ request \in [Requests -> RequestState]
    /\ \A r \in Requests : InPage(request[r])
    /\ place \in [Voters -> Nat]
    /\ stream \in Seq(Voters) /\ jobs \in Seq(Nat) /\ Len(jobs) = Len(stream)
    /\ sender \in [Senders -> SenderState]
    /\ suppressed \subseteq Voters
    /\ tried \subseteq DOMAIN stream
    /\ late \in [Senders -> [Voters -> Nat]]
    /\ count \in [Events -> Nat]
  BY DEF TypeOK, CampaignState, RequestState, SenderState, InPage, At

LEMMA InitTyped == Init => Typed
  <1> SUFFICES ASSUME Init PROVE Typed
    OBVIOUS
  <1>1. campaign \in CampaignState
    BY TargetsAreFinite DEF Init, CampaignState
  <1>2. request \in [Requests -> RequestState] /\ \A r \in Requests : InPage(request[r])
    BY NoRequestTyped DEF Init, InPage, NoRequest
  <1>3. place \in [Voters -> Nat]
    BY SmsAssumption DEF Init
  <1>4. stream \in Seq(Voters) /\ jobs \in Seq(Nat) /\ Len(jobs) = Len(stream)
    BY DEF Init
  <1>5. sender \in [Senders -> SenderState]
    BY DEF Init, SenderState, Idle
  <1>6. TypeOK
    BY <1>1, <1>2, <1>3, <1>4, <1>5, TypeParts DEF Init
  <1>7. JobInHand
    BY WorkerIsSender DEF Init, JobInHand, Idle
  <1> QED  BY <1>6, <1>7 DEF Typed

(* One request's next state.                                               *)
LEMMA RequestPut ==
  ASSUME TypeOK, NEW r \in Requests, NEW state \in RequestState, InPage(state),
         request' = [request EXCEPT ![r] = state]
  PROVE  request' \in [Requests -> RequestState] /\ \A q \in Requests : InPage(request'[q])
  BY TypeParts

LEMMA GotoTyped ==
  ASSUME TypeOK, NEW r \in Requests,
         NEW pc \in {"none", "count", "total", "sending", "list", "pause"}, Goto(r, pc)
  PROVE  request' \in [Requests -> RequestState] /\ \A q \in Requests : InPage(request'[q])
  <1>1. request \in [Requests -> RequestState] /\ request[r] \in RequestState
    BY TypeParts
  <1> DEFINE state == [request[r] EXCEPT !.pc = pc]
  <1>2. state \in RequestState /\ state.pc = pc
    BY <1>1 DEF RequestState
  <1>3. request' = [request EXCEPT ![r] = state]
    BY <1>1 DEF Goto
  <1> QED  BY <1>2, <1>3, RequestPut DEF InPage

(* What publishing one more job of the page leaves of the request.         *)
LEMMA PublishedTyped ==
  ASSUME TypeOK, NEW r \in Requests, Published(r)
  PROVE  /\ request[r].next \in DOMAIN request[r].page
         /\ request[r].page[request[r].next] \in Voters
         /\ request' \in [Requests -> RequestState]
         /\ \A q \in Requests : InPage(request'[q])
  <1> DEFINE page == request[r].page
             next == request[r].next + 1
  <1>1. request \in [Requests -> RequestState] /\ request[r] \in RequestState /\ InPage(request[r])
    BY TypeParts
  <1>2. request[r].pc = "publish" /\ page \in Page /\ request[r].next \in Nat \ {0}
    BY <1>1 DEF Published, At, RequestState
  <1>3. request[r].next \in DOMAIN page /\ page[request[r].next] \in Voters
    BY <1>1, <1>2 DEF InPage, Page
  <1>4. CASE next \in DOMAIN page
    <2> DEFINE state == [request[r] EXCEPT !.next = next]
    <2>1. state \in RequestState /\ InPage(state)
      BY <1>1, <1>2, <1>4 DEF RequestState, InPage
    <2>2. request' = [request EXCEPT ![r] = state]
      BY <1>1, <1>4 DEF Published
    <2> QED  BY <1>3, <2>1, <2>2, RequestPut
  <1>5. CASE next \notin DOMAIN page /\ Cardinality(DOMAIN page) = BatchSize
    <2> DEFINE state == [NoRequest EXCEPT !.pc = "list", !.next = next]
    <2>1. state \in RequestState /\ InPage(state)
      <3>1. NoRequest \in RequestState /\ next \in Nat \ {0}
        BY <1>2, NoRequestTyped
      <3>2. \A f \in RequestState, n \in Nat \ {0} :
              LET put == [f EXCEPT !.pc = "list", !.next = n]
              IN  put \in RequestState /\ put.pc = "list"
        BY DEF RequestState
      <3> QED  BY <3>1, <3>2 DEF InPage
    <2>2. request' = [request EXCEPT ![r] = state]
      BY <1>1, <1>5 DEF Published
    <2> QED  BY <1>3, <2>1, <2>2, RequestPut
  <1>6. CASE next \notin DOMAIN page /\ Cardinality(DOMAIN page) # BatchSize
    <2>1. request' = [request EXCEPT ![r] = NoRequest]
      BY <1>1, <1>6 DEF Published
    <2>2. InPage(NoRequest)
      BY DEF InPage, NoRequest
    <2> QED  BY <1>3, <2>1, <2>2, RequestPut, NoRequestTyped
  <1> QED  BY <1>4, <1>5, <1>6

LEMMA PublishTyped ==
  ASSUME Typed, NEW r \in Requests, Publish(r)
  PROVE  Typed'
  <1> DEFINE v == request[r].page[request[r].next]
  <1>1. /\ v \in Voters
        /\ request' \in [Requests -> RequestState] /\ \A q \in Requests : InPage(request'[q])
    BY PublishedTyped DEF Typed, Publish
  <1>2. /\ stream \in Seq(Voters) /\ jobs \in Seq(Nat) /\ Len(jobs) = Len(stream)
        /\ tried \subseteq DOMAIN stream
    BY TypeParts DEF Typed
  <1>3. /\ stream' = Append(stream, v) /\ jobs' = Append(jobs, 1)
        /\ UNCHANGED <<campaign, place, sender, suppressed, tried, late, count>>
    BY DEF Publish
  <1>4. stream' \in Seq(Voters) /\ Len(stream') = Len(stream) + 1
    BY <1>1, <1>2, <1>3, AppendProperties
  <1>5. /\ jobs' \in Seq(Nat) /\ Len(jobs') = Len(jobs) + 1
        /\ \A n \in 1 .. Len(jobs) : jobs'[n] = jobs[n]
    BY <1>2, <1>3, AppendProperties
  <1>6. tried' \subseteq DOMAIN stream'
    BY <1>2, <1>3, <1>4
  <1>7. TypeOK'
    BY <1>1, <1>2, <1>3, <1>4, <1>5, <1>6, TypeParts DEF Typed, TypeOK, RequestState, InPage, At
  <1>8. JobInHand'
    BY <1>2, <1>3, <1>5 DEF Typed, JobInHand
  <1> QED  BY <1>7, <1>8 DEF Typed

(* The administrators' other steps leave queue and senders alone.          *)
LEMMA RequestTyped ==
  ASSUME Typed, NEW r \in Requests,
         \/ RequestStep(r) \/ Launch(r) \/ PauseCampaign(r) \/ CancelCampaign(r)
         \/ RequestFails(r) \/ PublishFails(r)
  PROVE  Typed'
  <1> USE DEF Typed
  <1>0. /\ request \in [Requests -> RequestState] /\ request[r] \in RequestState
        /\ \A q \in Requests : InPage(request[q])
        /\ campaign \in CampaignState /\ count \in [Events -> Nat]
    BY TypeParts
  <1>1. CASE Publish(r)
    BY <1>1, PublishTyped
  <1>2. CASE \/ CountTargets(r) \/ UpdateCampaignTotalRecipients(r) \/ StartSending(r)
             \/ ListTargets(r) \/ WritePaused(r) \/ Launch(r) \/ PauseCampaign(r)
             \/ CancelCampaign(r) \/ RequestFails(r) \/ PublishFails(r)
    <2> USE DEF CountTargets, UpdateCampaignTotalRecipients, StartSending, ListTargets,
                WritePaused, Launch, PauseCampaign, CancelCampaign, RequestFails, PublishFails
    <2>1. UNCHANGED <<place, stream, jobs, sender, suppressed, tried, late>>
      BY <1>2 DEF queue
    <2>2. request' \in [Requests -> RequestState] /\ \A q \in Requests : InPage(request'[q])
      <3>1. InPage(NoRequest)
        BY DEF InPage, NoRequest
      <3>2. CASE CountTargets(r)
        <4> DEFINE state == IF Targets = {} THEN NoRequest
                            ELSE [request[r] EXCEPT !.pc = "total", !.total = Cardinality(Targets)]
        <4>1. state \in RequestState /\ InPage(state)
          <5>1. Cardinality(Targets) \in 0 .. Cardinality(Voters)
            BY TargetsAreFinite
          <5>2. CASE Targets = {}
            BY <3>1, <5>2, NoRequestTyped
          <5>3. CASE Targets # {}
            <6>1. state = [pc |-> "total", total |-> Cardinality(Targets),
                           next |-> request[r].next, page |-> request[r].page]
              BY <1>0, <5>3 DEF RequestState
            <6> QED  BY <1>0, <5>1, <6>1 DEF RequestState, InPage
          <5> QED  BY <5>2, <5>3
        <4>2. request' = [request EXCEPT ![r] = state]
          BY <1>0, <3>2
        <4> QED  BY <4>1, <4>2, RequestPut
      <3>3. CASE ListTargets(r)
        <4>1. PICK page \in Pages(request[r].next) :
                request' = [request EXCEPT ![r] =
                              IF DOMAIN page = {} THEN NoRequest
                              ELSE [request[r] EXCEPT !.pc = "publish", !.page = page]]
          BY <1>0, <3>3
        <4> DEFINE state == IF DOMAIN page = {} THEN NoRequest
                            ELSE [request[r] EXCEPT !.pc = "publish", !.page = page]
        <4>2. page \in Page /\ (DOMAIN page # {} => request[r].next \in DOMAIN page)
          BY <1>0, PageTyped DEF RequestState
        <4>3. state \in RequestState /\ InPage(state)
          BY <1>0, <3>1, <4>2, NoRequestTyped DEF RequestState, InPage
        <4> QED  BY <4>1, <4>3, RequestPut
      <3>4. CASE RequestFails(r)
        BY <3>1, <3>4, NoRequestTyped, RequestPut
      <3>5. CASE PublishFails(r)
        BY <3>5, PublishedTyped
      <3>6. CASE \/ UpdateCampaignTotalRecipients(r) \/ StartSending(r) \/ WritePaused(r)
                 \/ Launch(r) \/ PauseCampaign(r)
        BY <3>6, GotoTyped
      <3>7. CASE CancelCampaign(r)
        BY <1>0, <3>7
      <3> QED  BY <1>2, <3>2, <3>3, <3>4, <3>5, <3>6, <3>7
    <2>3. campaign' \in CampaignState
      BY <1>0, <1>2 DEF SetStatus, CampaignState, RequestState
    <2>4. count' \in [Events -> Nat]
      <3>1. Fails("failed") \/ Fails("unpublished") \/ Happened("launched") => count' \in [Events -> Nat]
        BY CountType, FaultType DEF Events
      <3> QED  BY <1>0, <1>2, <3>1
    <2>5. TypeOK'
      BY <2>1, <2>2, <2>3, <2>4 DEF TypeOK, CampaignState, RequestState, InPage, At
    <2>6. JobInHand'
      BY <2>1 DEF JobInHand
    <2> QED  BY <2>5, <2>6
  <1> QED  BY <1>1, <1>2 DEF RequestStep

(* A sender's next state, with the jobs as they are.                       *)
LEMMA SenderTyped ==
  ASSUME Typed, NEW s \in Senders, NEW state \in SenderState,
         sender' = [sender EXCEPT ![s] = state],
         s = Worker => (state.pc # "idle" => state.job \in 1 .. Len(jobs) /\ jobs[state.job] > 0),
         late' \in [Senders -> [Voters -> Nat]], count' \in [Events -> Nat],
         UNCHANGED <<campaign, request, place, stream, jobs, suppressed, tried>>
  PROVE  Typed'
  <1>1. sender' \in [Senders -> SenderState]
    BY DEF Typed, TypeOK, SenderState
  <1>2. TypeOK'
    BY <1>1 DEF Typed, TypeOK, SenderState, At
  <1>3. JobInHand'
    BY WorkerIsSender DEF Typed, TypeOK, JobInHand
  <1> QED  BY <1>2, <1>3 DEF Typed

LEMMA SendTyped ==
  ASSUME Typed, NEW s \in Senders,
         \/ CheckSendAllowed(s) \/ NoPhone(s) \/ CreateMessage(s)
         \/ CheckFails(s) \/ ProviderRefuses(s)
         \/ s = Worker /\ JobFails
         \/ \E v \in Voters : s \in Navigators /\ StartText(s, v)
  PROVE  Typed'
  <1> USE DEF Typed, queue
  <1>1. sender[s] \in SenderState /\ sender \in [Senders -> SenderState]
    BY DEF TypeOK, SenderState
  <1>2. s = Worker /\ sender[s].pc # "idle" =>
          sender[s].job \in 1 .. Len(jobs) /\ jobs[sender[s].job] > 0
    BY DEF JobInHand
  <1>3. Idle \in SenderState /\ Idle.pc = "idle"
    BY DEF Idle, SenderState
  <1>4. Fails("failed") \/ Happened("text") => count' \in [Events -> Nat]
    BY CountType, FaultType DEF Events
  <1>6. ASSUME Refuse(s), sender[s].pc # "idle", count' \in [Events -> Nat],
               UNCHANGED <<campaign, request, place, stream, jobs, suppressed, tried, late>>
        PROVE  Typed'
    <2> DEFINE state == IF s = Worker THEN [sender[s] EXCEPT !.pc = "count"] ELSE Idle
    <2>1. state \in SenderState /\ (s = Worker => state.job = sender[s].job)
      BY <1>1, <1>3 DEF SenderState
    <2>2. sender' = [sender EXCEPT ![s] = state]
      BY <1>1, <1>6 DEF Refuse
    <2>3. late' \in [Senders -> [Voters -> Nat]]
      BY <1>6 DEF TypeOK
    <2> QED  BY <1>2, <1>6, <2>1, <2>2, <2>3, SenderTyped
  <1>7. CASE CheckSendAllowed(s)
    <2>1. count' \in [Events -> Nat] /\ late' \in [Senders -> [Voters -> Nat]]
      BY <1>7 DEF CheckSendAllowed, TypeOK
    <2>2. CASE Do(s, "send")
      <3> DEFINE state == [sender[s] EXCEPT !.pc = "send"]
      <3>1. state \in SenderState /\ state.job = sender[s].job
        BY <1>1 DEF SenderState
      <3>2. sender' = [sender EXCEPT ![s] = state]
        BY <1>1, <2>2 DEF Do
      <3> QED  BY <1>2, <1>7, <2>1, <3>1, <3>2, SenderTyped DEF CheckSendAllowed
    <2>3. CASE Refuse(s)
      BY <1>6, <1>7, <2>1, <2>3 DEF CheckSendAllowed
    <2> QED  BY <1>7, <2>2, <2>3 DEF CheckSendAllowed
  <1>8. CASE CreateMessage(s)
    <2> DEFINE state == IF s = Worker THEN [sender[s] EXCEPT !.pc = "count", !.sent = TRUE] ELSE Idle
    <2>1. state \in SenderState /\ (s = Worker => state.job = sender[s].job)
      BY <1>1, <1>3 DEF SenderState
    <2>2. sender' = [sender EXCEPT ![s] = state]
      BY <1>1, <1>8 DEF CreateMessage
    <2>3. late' \in [Senders -> [Voters -> Nat]]
      BY <1>8 DEF CreateMessage, TypeOK
    <2>4. count' \in [Events -> Nat]
      BY <1>8 DEF CreateMessage, TypeOK
    <2> QED  BY <1>2, <1>8, <2>1, <2>2, <2>3, <2>4, SenderTyped DEF CreateMessage
  <1>9. CASE NoPhone(s) \/ CheckFails(s) \/ ProviderRefuses(s)
    <2>1. count' \in [Events -> Nat]
      BY <1>4, <1>9 DEF NoPhone, CheckFails, ProviderRefuses, TypeOK
    <2> QED  BY <1>6, <1>9, <2>1 DEF NoPhone, CheckFails, ProviderRefuses
  <1>10. CASE s = Worker /\ JobFails
    <2>1. late' \in [Senders -> [Voters -> Nat]]
      BY <1>10 DEF JobFails, TypeOK
    <2> QED  BY <1>3, <1>4, <1>10, <2>1, SenderTyped DEF JobFails
  <1>11. CASE \E v \in Voters : s \in Navigators /\ StartText(s, v)
    <2>1. PICK v \in Voters : s \in Navigators /\ StartText(s, v)
      BY <1>11
    <2>2. [Idle EXCEPT !.pc = "check", !.voter = v] \in SenderState
      BY DEF Idle, SenderState
    <2>3. late' \in [Senders -> [Voters -> Nat]]
      BY <2>1 DEF StartText, TypeOK
    <2>4. s # Worker
      BY <2>1, SmsAssumption
    <2> QED  BY <1>4, <2>1, <2>2, <2>3, <2>4, SenderTyped DEF StartText
  <1> QED  BY <1>7, <1>8, <1>9, <1>10, <1>11

(* Acknowledging takes one delivery away, and there was one.               *)
LEMMA AcknowledgeTyped ==
  ASSUME Typed, sender[Worker].pc # "idle", Acknowledge
  PROVE  /\ jobs' \in Seq(Nat) /\ Len(jobs') = Len(jobs)
         /\ sender' \in [Senders -> SenderState]
         /\ JobInHand'
  <1>1. jobs \in Seq(Nat) /\ sender \in [Senders -> SenderState]
    BY TypeParts DEF Typed
  <1>2. sender[Worker].job \in 1 .. Len(jobs) /\ jobs[sender[Worker].job] - 1 \in Nat
    BY <1>1 DEF Typed, JobInHand
  <1>3. jobs' = [jobs EXCEPT ![sender[Worker].job] = jobs[sender[Worker].job] - 1]
    BY DEF Acknowledge
  <1>4. jobs' \in Seq(Nat) /\ Len(jobs') = Len(jobs)
    BY <1>1, <1>2, <1>3, ExceptSeq
  <1>5. sender' \in [Senders -> SenderState] /\ sender'[Worker] = Idle
    BY <1>1, WorkerIsSender DEF Acknowledge, SenderState, Idle
  <1>6. JobInHand'
    BY <1>5 DEF JobInHand, Idle
  <1> QED  BY <1>4, <1>5, <1>6

LEMMA QueueTyped ==
  ASSUME Typed,
         \/ QueueStep \/ IncrementFails \/ CompletionFails
         \/ \E n \in DOMAIN jobs : Redeliver(n)
  PROVE  Typed'
  <1> USE DEF Typed
  <1>1. /\ sender \in [Senders -> SenderState] /\ sender[Worker] \in SenderState
        /\ jobs \in Seq(Nat) /\ DOMAIN jobs = 1 .. Len(jobs)
        /\ stream \in Seq(Voters) /\ Len(jobs) = Len(stream)
    BY WorkerIsSender, TypeParts
  <1>2. Fails("failed") \/ Fails("redelivered") => count' \in [Events -> Nat]
    BY FaultType DEF Events
  <1>3. ASSUME NEW n \in DOMAIN jobs, TakeJob(n)  PROVE Typed'
    <2>0. n \in 1 .. Len(jobs) /\ jobs[n] > 0 /\ jobs[n] - 1 \in Nat /\ stream[n] \in Voters
      BY <1>1, <1>3 DEF TakeJob
    <2>1. CASE campaign.status = "sending"
      <3> DEFINE state == [pc |-> "check", voter |-> stream[n], job |-> n, sent |-> FALSE]
      <3>1. state \in SenderState
        BY <1>1, <2>0 DEF SenderState
      <3>2. Holding(n) = state
        BY DEF Holding
      <3>3. /\ sender' = [sender EXCEPT ![Worker] = state]
            /\ UNCHANGED <<campaign, request, place, stream, jobs, suppressed, tried, late, count>>
        BY <1>3, <2>1, <3>2 DEF TakeJob
      <3>4. late' \in [Senders -> [Voters -> Nat]] /\ count' \in [Events -> Nat]
        BY <3>3 DEF TypeOK
      <3> QED  BY <2>0, <3>1, <3>3, <3>4, SenderTyped, WorkerIsSender
    <2>2. CASE campaign.status # "sending"
      <3>1. /\ jobs' = [jobs EXCEPT ![n] = jobs[n] - 1]
            /\ sender[Worker].pc = "idle"
            /\ UNCHANGED <<campaign, request, place, stream, sender, suppressed, tried, late, count>>
        BY <1>3, <2>2 DEF TakeJob
      <3>2. jobs' \in Seq(Nat) /\ Len(jobs') = Len(jobs)
        BY <1>1, <2>0, <3>1, ExceptSeq
      <3>3. TypeOK'
        BY <3>1, <3>2 DEF TypeOK, At
      <3> QED  BY <3>1, <3>3 DEF JobInHand
    <2> QED  BY <2>1, <2>2
  <1>4. CASE IncrementCount \/ IncrementFails
    <2> DEFINE state == [sender[Worker] EXCEPT !.pc = "completion"]
    <2>1. /\ sender[Worker].pc # "idle"
          /\ sender' = [sender EXCEPT ![Worker] = state]
          /\ tried' = tried \cup {sender[Worker].job}
          /\ UNCHANGED <<request, place, stream, jobs, suppressed, late>>
      BY <1>1, <1>4 DEF IncrementCount, IncrementFails, Do, queue
    <2>2. sender' \in [Senders -> SenderState] /\ sender'[Worker] = state
      BY <1>1, <2>1, WorkerIsSender DEF SenderState
    <2>3. tried' \subseteq DOMAIN stream'
      BY <1>1, <2>1 DEF JobInHand, TypeOK
    <2>4. campaign' \in CampaignState
      <3>1. campaign \in CampaignState
        BY TypeParts
      <3> QED  BY <1>4, <3>1 DEF IncrementCount, IncrementFails, CampaignState
    <2>5. count' \in [Events -> Nat]
      BY <1>2, <1>4 DEF IncrementCount, IncrementFails, TypeOK
    <2>6. TypeOK'
      BY <2>1, <2>2, <2>3, <2>4, <2>5 DEF TypeOK, SenderState, CampaignState, At
    <2>7. JobInHand'
      BY <1>1, <2>1, <2>2 DEF JobInHand, SenderState
    <2> QED  BY <2>6, <2>7
  <1>5. CASE CheckCampaignCompletion /\ AllCounted
    <2> DEFINE state == [sender[Worker] EXCEPT !.pc = "complete"]
    <2>1. /\ sender[Worker].pc # "idle"
          /\ sender' = [sender EXCEPT ![Worker] = state]
          /\ UNCHANGED <<campaign, request, place, stream, jobs, suppressed, tried, late, count>>
      BY <1>1, <1>5 DEF CheckCampaignCompletion, Do
    <2>2. state \in SenderState /\ state.job = sender[Worker].job
      BY <1>1 DEF SenderState
    <2>3. late' \in [Senders -> [Voters -> Nat]] /\ count' \in [Events -> Nat]
      BY <2>1 DEF TypeOK
    <2>4. state.job \in 1 .. Len(jobs) /\ jobs[state.job] > 0
      BY <2>1, <2>2 DEF JobInHand
    <2> QED  BY <2>1, <2>2, <2>3, <2>4, SenderTyped, WorkerIsSender
  <1>6. CASE (CheckCampaignCompletion /\ ~AllCounted) \/ Complete \/ CompletionFails
    <2>1. /\ sender[Worker].pc # "idle" /\ Acknowledge
          /\ UNCHANGED <<request, place, stream, suppressed, tried, late>>
      BY <1>6 DEF CheckCampaignCompletion, Complete, CompletionFails
    <2>2. campaign' \in CampaignState
      BY <1>6, TypeParts DEF CheckCampaignCompletion, Complete, CompletionFails, SetStatus, CampaignState
    <2>3. count' \in [Events -> Nat]
      BY <1>2, <1>6 DEF CheckCampaignCompletion, Complete, CompletionFails, TypeOK
    <2> QED  BY <2>1, <2>2, <2>3, AcknowledgeTyped DEF TypeOK, SenderState, CampaignState, At
  <1>7. ASSUME NEW n \in DOMAIN jobs, Redeliver(n)  PROVE Typed'
    <2>1. /\ jobs' = [jobs EXCEPT ![n] = jobs[n] + 1] /\ count' \in [Events -> Nat]
          /\ UNCHANGED <<campaign, request, place, stream, sender, suppressed, tried, late>>
      BY <1>2, <1>7 DEF Redeliver
    <2>2. jobs[n] + 1 \in Nat /\ n \in 1 .. Len(jobs)
      BY <1>1
    <2>3. /\ jobs' \in Seq(Nat) /\ Len(jobs') = Len(jobs)
          /\ \A k \in 1 .. Len(jobs) : jobs'[k] = IF k = n THEN jobs[n] + 1 ELSE jobs[k]
      BY <1>1, <2>1, <2>2, ExceptSeq
    <2>4. TypeOK'
      BY <2>1, <2>3 DEF TypeOK, At
    <2>5. JobInHand'
      BY <1>1, <2>1, <2>3 DEF JobInHand
    <2> QED  BY <2>4, <2>5
  <1> QED  BY <1>3, <1>4, <1>5, <1>6, <1>7 DEF QueueStep

LEMMA OutsideTyped ==
  ASSUME Typed, Crash \/ \E v \in Voters : Stop(v) \/ Start(v) \/ ImportVoter(v)
  PROVE  Typed'
  <1> USE DEF Typed
  <1>1. CASE Crash
    <2>1. count' \in [Events -> Nat]
      BY <1>1, FaultType DEF Crash, Events
    <2>2. TypeOK'
      BY <1>1, <2>1, NoRequestTyped DEF Crash, TypeOK, RequestState, NoRequest, Idle, At, queue
    <2>3. JobInHand'
      BY <1>1, WorkerIsSender DEF Crash, JobInHand, Idle
    <2> QED  BY <2>2, <2>3
  <1>2. ASSUME NEW v \in Voters, Stop(v) \/ Start(v)  PROVE Typed'
    <2>1. count' \in [Events -> Nat]
      BY <1>2, CountType DEF Stop, Start, Events
    <2>2. suppressed' \subseteq Voters /\ late' \in [Senders -> [Voters -> Nat]]
      <3>1. suppressed \subseteq Voters /\ late \in [Senders -> [Voters -> Nat]]
        BY DEF TypeOK
      <3>2. CASE Stop(v)
        BY <3>1, <3>2 DEF Stop
      <3>3. CASE Start(v)
        <4>1. late' = [s \in Senders |-> [late[s] EXCEPT ![v] = 0]] /\ suppressed' = suppressed \ {v}
          BY <3>3 DEF Start
        <4>2. \A s \in Senders : [late[s] EXCEPT ![v] = 0] \in [Voters -> Nat]
          BY <3>1
        <4> QED  BY <3>1, <4>1, <4>2
      <3> QED  BY <1>2, <3>2, <3>3
    <2>3. UNCHANGED <<campaign, request, place, stream, jobs, sender, tried>>
      BY <1>2 DEF Stop, Start, queue
    <2>4. TypeOK'
      BY <2>1, <2>2, <2>3 DEF TypeOK, At
    <2> QED  BY <2>3, <2>4 DEF JobInHand
  <1>3. ASSUME NEW v \in Voters, ImportVoter(v)  PROVE Typed'
    <2>1. PICK k \in {0} \cup {StartPlace[u] : u \in Voters} :
            place' = [place EXCEPT ![v] = k] /\ Happened(IF k = 0 THEN "lost" ELSE "moved")
      BY <1>3 DEF ImportVoter
    <2>2. k \in Nat
      BY SmsAssumption
    <2>3. place' \in [Voters -> Nat]
      BY <2>1, <2>2 DEF TypeOK
    <2>4. count' \in [Events -> Nat]
      BY <2>1, CountType DEF Events
    <2>5. UNCHANGED <<campaign, request, stream, jobs, sender, suppressed, tried, late>>
      BY <1>3 DEF ImportVoter, queue
    <2>6. TypeOK'
      BY <2>3, <2>4, <2>5 DEF TypeOK, At
    <2> QED  BY <2>5, <2>6 DEF JobInHand
  <1> QED  BY <1>1, <1>2, <1>3

LEMMA NextTyped == Typed /\ [Next]_vars => Typed'
  <1> SUFFICES ASSUME Typed, [Next]_vars PROVE Typed'
    OBVIOUS
  <1>1. CASE \E r \in Requests : \/ RequestStep(r) \/ Launch(r) \/ PauseCampaign(r)
                                 \/ CancelCampaign(r) \/ RequestFails(r) \/ PublishFails(r)
    BY <1>1, RequestTyped
  <1>2. CASE \/ \E s \in Senders : SendStep(s) \/ CheckFails(s) \/ ProviderRefuses(s)
             \/ JobFails
             \/ \E v \in Voters, n \in Navigators : StartText(n, v)
    BY <1>2, SendTyped, WorkerIsSender DEF SendStep, Senders
  <1>3. CASE QueueStep \/ IncrementFails \/ CompletionFails \/ \E n \in DOMAIN jobs : Redeliver(n)
    BY <1>3, QueueTyped
  <1>4. CASE Crash \/ \E v \in Voters : Stop(v) \/ Start(v) \/ ImportVoter(v)
    BY <1>4, OutsideTyped
  <1>5. CASE UNCHANGED vars
    BY <1>5 DEF vars, queue, Typed, TypeOK, JobInHand, At
  <1> QED  BY <1>1, <1>2, <1>3, <1>4, <1>5 DEF Next, Fault

(* Every reachable state has the declared types; in particular the queue's *)
(* account of a job never falls below zero, since the worker acknowledges  *)
(* only what it holds.                                                     *)
THEOREM SmsTypeCorrect == Spec => []TypeOK
  <1>1. Typed => TypeOK
    BY DEF Typed
  <1> QED  BY <1>1, InitTyped, NextTyped, PTL DEF Spec

-----------------------------------------------------------------------------
(* STOP.                                                                   *)

(* A sender past its check whose text would come after a STOP has none     *)
(* behind it yet.                                                          *)
OneLateText(s, v) ==
  /\ v \notin suppressed => late[s][v] = 0
  /\ late[s][v] <= 1
  /\ (sender[s].pc = "send" /\ sender[s].voter = v) => late[s][v] = 0

StopInv == Typed /\ \A s \in Senders, v \in Voters : OneLateText(s, v)

LEMMA StopUnchanged ==
  ASSUME StopInv, UNCHANGED <<suppressed, late>>,
         \A s \in Senders : sender'[s] = sender[s] \/ sender'[s].pc # "send"
  PROVE  \A s \in Senders, v \in Voters : OneLateText(s, v)'
  BY DEF StopInv, OneLateText

LEMMA CheckKeepsStop ==
  ASSUME StopInv, NEW s \in Senders, CheckSendAllowed(s)
  PROVE  \A t \in Senders, v \in Voters : OneLateText(t, v)'
  <1>1. sender[s] \in SenderState /\ sender \in [Senders -> SenderState]
    BY DEF StopInv, Typed, TypeOK, SenderState
  <1>2. CASE HasClaims(s) /\ sender[s].voter \notin suppressed
    <2>1. /\ sender' = [sender EXCEPT ![s] = [sender[s] EXCEPT !.pc = "send"]]
          /\ UNCHANGED <<suppressed, late>>
      BY <1>1, <1>2 DEF CheckSendAllowed, Do
    <2>2. sender'[s].voter = sender[s].voter
      BY <1>1, <2>1 DEF SenderState
    <2>3. \A t \in Senders \ {s} : sender'[t] = sender[t]
      BY <1>1, <2>1
    <2> QED  BY <1>2, <2>1, <2>2, <2>3 DEF StopInv, OneLateText
  <1>3. CASE ~(HasClaims(s) /\ sender[s].voter \notin suppressed)
    <2>1. \A t \in Senders : sender'[t] = sender[t] \/ sender'[t].pc # "send"
      BY <1>1, <1>3 DEF CheckSendAllowed, Refuse, Idle, SenderState
    <2> QED  BY <1>3, <2>1, StopUnchanged DEF CheckSendAllowed
  <1> QED  BY <1>2, <1>3

LEMMA SendKeepsStop ==
  ASSUME StopInv, NEW s \in Senders, CreateMessage(s)
  PROVE  \A t \in Senders, v \in Voters : OneLateText(t, v)'
  <1> DEFINE u == sender[s].voter
  <1>1. /\ sender[s] \in SenderState /\ sender \in [Senders -> SenderState]
        /\ late \in [Senders -> [Voters -> Nat]] /\ suppressed \subseteq Voters
    BY DEF StopInv, Typed, TypeOK, SenderState
  <1>2. sender[s].pc = "send" /\ suppressed' = suppressed
    BY DEF CreateMessage
  <1>3. /\ \A t \in Senders \ {s} : sender'[t] = sender[t]
        /\ sender'[s].pc # "send"
    BY <1>1 DEF CreateMessage, Idle, SenderState
  <1>4. CASE u \in suppressed
    <2>1. late' = [late EXCEPT ![s][u] = late[s][u] + 1]
      BY <1>4 DEF CreateMessage
    <2>2. u \in Voters /\ late[s][u] = 0
      BY <1>1, <1>2, <1>4 DEF StopInv, OneLateText
    <2>3. /\ late'[s][u] = 1
          /\ \A t \in Senders, v \in Voters : (t # s \/ v # u) => late'[t][v] = late[t][v]
      BY <1>1, <2>1, <2>2
    <2> SUFFICES ASSUME NEW t \in Senders, NEW v \in Voters  PROVE OneLateText(t, v)'
      OBVIOUS
    <2>4. CASE t = s /\ v = u
      BY <1>2, <1>3, <1>4, <2>3, <2>4 DEF OneLateText
    <2>5. CASE t # s \/ v # u
      BY <1>2, <1>3, <2>3, <2>5 DEF StopInv, OneLateText
    <2> QED  BY <2>4, <2>5
  <1>5. CASE u \notin suppressed
    <2>1. late' = late
      BY <1>5 DEF CreateMessage
    <2> QED  BY <1>2, <1>3, <2>1, StopUnchanged
  <1> QED  BY <1>4, <1>5

LEMMA KeywordKeepsStop ==
  ASSUME StopInv, NEW u \in Voters, Stop(u) \/ Start(u)
  PROVE  \A s \in Senders, v \in Voters : OneLateText(s, v)'
  <1>1. CASE Stop(u)
    BY <1>1 DEF Stop, StopInv, OneLateText
  <1>2. CASE Start(u)
    <2>1. /\ suppressed' = suppressed \ {u} /\ UNCHANGED sender
          /\ late' = [s \in Senders |-> [late[s] EXCEPT ![u] = 0]]
      BY <1>2 DEF Start
    <2>2. late \in [Senders -> [Voters -> Nat]]
      BY DEF StopInv, Typed, TypeOK
    <2>3. \A s \in Senders, v \in Voters : late'[s][v] = IF v = u THEN 0 ELSE late[s][v]
      BY <2>1, <2>2
    <2> QED  BY <2>1, <2>3 DEF StopInv, OneLateText
  <1> QED  BY <1>1, <1>2

LEMMA NextStop == StopInv /\ [Next]_vars => StopInv'
  <1> SUFFICES ASSUME StopInv, [Next]_vars  PROVE StopInv'
    OBVIOUS
  <1>1. Typed'
    BY NextTyped DEF StopInv
  <1>2. sender \in [Senders -> SenderState]
    BY DEF StopInv, Typed, TypeOK, SenderState
  <1>3. CASE \E s \in Senders : CheckSendAllowed(s) \/ CreateMessage(s)
    BY <1>1, <1>3, CheckKeepsStop, SendKeepsStop DEF StopInv
  <1>4. CASE \E v \in Voters : Stop(v) \/ Start(v)
    BY <1>1, <1>4, KeywordKeepsStop DEF StopInv
  <1>5. CASE \/ \E s \in Senders : NoPhone(s) \/ CheckFails(s) \/ ProviderRefuses(s)
             \/ \E n \in DOMAIN jobs : TakeJob(n) \/ Redeliver(n)
             \/ \E v \in Voters, n \in Navigators : StartText(n, v)
             \/ JobFails \/ IncrementCount \/ IncrementFails
             \/ CheckCampaignCompletion \/ Complete \/ CompletionFails \/ Crash
    <2>1. UNCHANGED <<suppressed, late>>
      BY <1>5 DEF NoPhone, CheckFails, ProviderRefuses, TakeJob, Redeliver, StartText, JobFails,
                  IncrementCount, IncrementFails, CheckCampaignCompletion, Complete,
                  CompletionFails, Crash
    <2>2. \A s \in Senders : sender'[s] = sender[s] \/ sender'[s].pc # "send"
      <3>1. CASE \E s \in Senders : NoPhone(s) \/ CheckFails(s) \/ ProviderRefuses(s)
        BY <1>2, <3>1 DEF NoPhone, CheckFails, ProviderRefuses, Refuse, Idle, SenderState
      <3>2. CASE \E n \in DOMAIN jobs : TakeJob(n) \/ Redeliver(n)
        <4>1. PICK n \in DOMAIN jobs : TakeJob(n) \/ Redeliver(n)
          BY <3>2
        <4>2. Holding(n).pc = "check"
          BY DEF Holding
        <4> QED  BY <1>2, <4>1, <4>2, WorkerIsSender DEF TakeJob, Redeliver
      <3>5. CASE \E v \in Voters, n \in Navigators : StartText(n, v)
        BY <1>2, <3>5 DEF StartText, Idle, Senders
      <3>3. CASE JobFails \/ IncrementCount \/ IncrementFails
        BY <1>2, <3>3, WorkerIsSender DEF JobFails, IncrementCount, IncrementFails, Do, Idle, SenderState
      <3>4. CASE CheckCampaignCompletion \/ Complete \/ CompletionFails \/ Crash
        BY <1>2, <3>4, WorkerIsSender
           DEF CheckCampaignCompletion, Complete, CompletionFails, Acknowledge, Crash, Do,
               Idle, SenderState
      <3> QED  BY <1>5, <3>1, <3>2, <3>3, <3>4, <3>5
    <2> QED  BY <1>1, <2>1, <2>2, StopUnchanged DEF StopInv
  <1>6. CASE \/ \E r \in Requests : \/ RequestStep(r) \/ Launch(r) \/ PauseCampaign(r)
                                    \/ CancelCampaign(r) \/ RequestFails(r) \/ PublishFails(r)
             \/ \E v \in Voters : ImportVoter(v)
             \/ UNCHANGED vars
    <2>1. UNCHANGED <<sender, suppressed, late>>
      BY <1>6 DEF RequestStep, CountTargets, UpdateCampaignTotalRecipients, StartSending,
                  ListTargets, Publish, WritePaused, ImportVoter, Launch, PauseCampaign, CancelCampaign, RequestFails, PublishFails, vars
    <2> QED  BY <1>1, <2>1, StopUnchanged DEF StopInv
  <1> QED  BY <1>3, <1>4, <1>5, <1>6 DEF Next, Fault, SendStep, QueueStep

(* However texts, campaign, faults and keywords interleave, each sender    *)
(* completes at most one text to a voter after the voter's STOP: the one   *)
(* whose check came first.                                                 *)
THEOREM StopHolds == Spec => []StopTakesEffect
  <1>1. Init => StopInv
    <2> SUFFICES ASSUME Init  PROVE StopInv
      OBVIOUS
    <2> QED  BY InitTyped DEF Init, StopInv, OneLateText, Idle
  <1>2. StopInv => StopTakesEffect
    BY DEF StopInv, OneLateText, StopTakesEffect
  <1> QED  BY <1>1, <1>2, NextStop, PTL DEF Spec

-----------------------------------------------------------------------------
(* Completion.                                                             *)

Quiet == /\ count["launched"] <= 1
         /\ count["redelivered"] + count["killed"] + count["moved"] + count["lost"] = 0

(* What the launch does.  A total counts the targets; one request publishes*)
(* and never more jobs than there are targets; if there are as many as     *)
(* positions read so far, each is of a voter that fits its position.       *)
Publishing(r) == request[r].pc \in {"list", "publish"}

TotalsCountTargets ==
  /\ campaign.total \in {0, Cardinality(Targets)}
  /\ \A r \in Requests : request[r].pc = "total" => request[r].total = Cardinality(Targets)

OnePublisher ==
  /\ \A r, q \in Requests : Publishing(r) /\ Publishing(q) => r = q
  /\ count["launched"] = 0 => Len(stream) = 0 /\ \A r \in Requests : ~Publishing(r)

AllFit == \A k \in 1 .. Len(stream) : Fits(stream[k], k)

JobsInOrder ==
  /\ Len(stream) <= Cardinality(Targets)
  /\ Len(stream) = Cardinality(Targets) => AllFit

PublisherInOrder ==
  \A r \in Requests : Publishing(r) =>
    /\ Len(stream) < request[r].next
    /\ Len(stream) + 1 = request[r].next => AllFit

PagesInOrder ==
  \A r \in Requests : request[r].pc = "publish" =>
    \A k \in DOMAIN request[r].page :
      k \in Nat /\ k <= Cardinality(Targets) /\ Fits(request[r].page[k], k)

LaunchInv ==
  TotalsCountTargets /\ OnePublisher /\ JobsInOrder /\ PublisherInOrder /\ PagesInOrder

(* What the worker does.  The counters never run ahead of the jobs tried.  *)
CountedWereTried == campaign.sent + campaign.failed <= Cardinality(tried)

DeliveredOnce == \A n \in 1 .. Len(jobs) : jobs[n] <= 1

(* Tried, and not acknowledged: only the job in hand, past its count.      *)
TriedInHand ==
  \A n \in tried : jobs[n] > 0 =>
    sender[Worker].job = n /\ sender[Worker].pc \in {"completion", "complete"}

HeldIsNew ==
  sender[Worker].pc \in {"check", "send", "count"} => sender[Worker].job \notin tried

DoneMeansTried ==
  (sender[Worker].pc = "complete" \/ campaign.status = "completed") =>
    tried = 1 .. Cardinality(Targets)

WorkInv == CountedWereTried /\ DeliveredOnce /\ TriedInHand /\ HeldIsNew /\ DoneMeansTried

CompletionInv == Typed /\ (Quiet => LaunchInv /\ WorkInv)

LEMMA CountsGrow ==
  ASSUME Typed, [Next]_vars
  PROVE  \A event \in Events : count'[event] \in Nat /\ count[event] \in Nat /\ count'[event] >= count[event]
  <1>1. count \in [Events -> Nat]
    BY DEF Typed, TypeOK
  <1>2. \/ UNCHANGED count
        \/ \E event \in Events : Happened(event)
    BY DEF Next, Fault, RequestStep, QueueStep, SendStep, Launch, CountTargets,
           UpdateCampaignTotalRecipients, StartSending, ListTargets, Publish, PublishFails,
           RequestFails, PauseCampaign, WritePaused, CancelCampaign, StartText, TakeJob,
           JobFails, CheckFails, CheckSendAllowed, NoPhone, CreateMessage, ProviderRefuses,
           IncrementCount, IncrementFails, CheckCampaignCompletion, Complete, CompletionFails,
           Redeliver, Crash, Stop, Start, ImportVoter, Fails, Events, vars
  <1> QED  BY <1>1, <1>2 DEF Happened

LEMMA QuietBefore ==
  ASSUME Typed, [Next]_vars, Quiet'
  PROVE  Quiet
  <1>1. \A event \in {"launched", "redelivered", "killed", "moved", "lost"} :
          /\ count'[event] \in Nat /\ count[event] \in Nat
          /\ count'[event] >= count[event]
    BY CountsGrow DEF Events
  <1>2. count["launched"] <= 1
    BY <1>1 DEF Quiet
  <1>3. /\ count'["redelivered"] \in Nat /\ count'["killed"] \in Nat
        /\ count'["moved"] \in Nat /\ count'["lost"] \in Nat
    BY <1>1
  <1>4. /\ count'["redelivered"] = 0 /\ count'["killed"] = 0
        /\ count'["moved"] = 0 /\ count'["lost"] = 0
    <2> DEFINE a == count'["redelivered"]
               b == count'["killed"]
               c == count'["moved"]
               d == count'["lost"]
    <2>1. a \in Nat /\ b \in Nat /\ c \in Nat /\ d \in Nat /\ a + b + c + d = 0
      BY <1>3 DEF Quiet
    <2>2. a = 0 /\ b = 0 /\ c = 0 /\ d = 0
      <3> HIDE DEF a, b, c, d
      <3> QED  BY <2>1
    <2> QED  BY <2>2
  <1>5. /\ count["redelivered"] = 0 /\ count["killed"] = 0
        /\ count["moved"] = 0 /\ count["lost"] = 0
    BY <1>1, <1>4
  <1> QED  BY <1>2, <1>5 DEF Quiet

(* The same voters stand in the same order.                                *)
LEMMA SameTargets ==
  ASSUME UNCHANGED place
  PROVE  /\ Targets' = Targets /\ Cardinality(Targets)' = Cardinality(Targets)
         /\ \A v, k : Fits(v, k)' <=> Fits(v, k)
  BY DEF Targets, Fits, Before, UpTo

LEMMA LaunchUnchanged ==
  ASSUME LaunchInv, UNCHANGED <<place, stream>>,
         campaign'.total = campaign.total, count'["launched"] = count["launched"],
         \A r \in Requests : \/ request'[r] = request[r]
                             \/ request'[r].pc \notin {"total", "list", "publish"}
  PROVE  LaunchInv'
  <1>1. TotalsCountTargets'
    BY SameTargets DEF LaunchInv, TotalsCountTargets
  <1>2. OnePublisher'
    BY DEF LaunchInv, OnePublisher, Publishing
  <1>3. AllFit' <=> AllFit
    BY SameTargets DEF AllFit
  <1>4. JobsInOrder'
    BY <1>3, SameTargets DEF LaunchInv, JobsInOrder
  <1>5. PublisherInOrder'
    BY <1>3 DEF LaunchInv, PublisherInOrder, Publishing
  <1>6. PagesInOrder'
    BY SameTargets DEF LaunchInv, PagesInOrder
  <1> QED  BY <1>1, <1>2, <1>4, <1>5, <1>6 DEF LaunchInv

LEMMA WorkUnchanged ==
  ASSUME WorkInv, UNCHANGED <<place, jobs, tried>>,
         campaign'.sent = campaign.sent, campaign'.failed = campaign.failed,
         campaign'.status = "completed" => campaign.status = "completed",
         sender'[Worker] = sender[Worker]
  PROVE  WorkInv'
  BY SameTargets DEF WorkInv, CountedWereTried, DeliveredOnce, TriedInHand, HeldIsNew, DoneMeansTried

(* The next page holds voters that fit their positions.                    *)
LEMMA ListKeepsLaunch ==
  ASSUME Typed, LaunchInv, NEW r \in Requests, ListTargets(r)
  PROVE  LaunchInv'
  <1>1. /\ request \in [Requests -> RequestState] /\ request[r] \in RequestState
        /\ request[r].pc = "list" /\ UNCHANGED <<campaign, place, stream, count>>
    BY TypeParts DEF Typed, ListTargets, At, queue
  <1>2. PICK page \in Pages(request[r].next) :
          request' = [request EXCEPT ![r] =
                        IF DOMAIN page = {} THEN NoRequest
                        ELSE [request[r] EXCEPT !.pc = "publish", !.page = page]]
    BY <1>1 DEF ListTargets
  <1>3. \A k \in DOMAIN page : k \in Nat /\ k <= Cardinality(Targets) /\ Fits(page[k], k)
    BY <1>1, PageTyped DEF RequestState
  <1>4. \A q \in Requests \ {r} : request'[q] = request[q]
    BY <1>1, <1>2
  <1>5. CASE DOMAIN page = {}
    <2>1. request'[r].pc = "none"
      BY <1>1, <1>2, <1>5 DEF NoRequest
    <2> QED  BY <1>1, <1>4, <2>1, LaunchUnchanged
  <1>6. CASE DOMAIN page # {}
    <2>1. request'[r].pc = "publish" /\ request'[r].page = page /\ request'[r].next = request[r].next
      BY <1>1, <1>2, <1>6 DEF RequestState
    <2>2. TotalsCountTargets'
      BY <1>1, <1>4, <2>1, SameTargets DEF LaunchInv, TotalsCountTargets
    <2>3. OnePublisher'
      BY <1>1, <1>4, <2>1 DEF LaunchInv, OnePublisher, Publishing
    <2>4. AllFit' <=> AllFit
      BY <1>1, SameTargets DEF AllFit
    <2>5. JobsInOrder'
      BY <1>1, <2>4, SameTargets DEF LaunchInv, JobsInOrder
    <2>6. PublisherInOrder'
      BY <1>1, <1>4, <2>1, <2>4 DEF LaunchInv, PublisherInOrder, Publishing
    <2>7. PagesInOrder'
      BY <1>1, <1>3, <1>4, <2>1, SameTargets DEF LaunchInv, PagesInOrder
    <2> QED  BY <2>2, <2>3, <2>5, <2>6, <2>7 DEF LaunchInv
  <1> QED  BY <1>5, <1>6

(* One position further, with a job published for it or not.               *)
LEMMA PublishKeepsLaunch ==
  ASSUME Typed, LaunchInv, NEW r \in Requests, Publish(r) \/ PublishFails(r)
  PROVE  LaunchInv'
  <1> DEFINE page == request[r].page
             next == request[r].next
  <1>1. /\ request \in [Requests -> RequestState] /\ request[r] \in RequestState
        /\ stream \in Seq(Voters) /\ Len(stream) \in Nat /\ count \in [Events -> Nat]
    BY TypeParts DEF Typed
  <1>2. /\ Published(r) /\ request[r].pc = "publish"
        /\ UNCHANGED <<campaign, place>> /\ count'["launched"] = count["launched"]
    BY <1>1 DEF Publish, PublishFails, Published, At, Fails, Happened, Events
  <1>3. next \in DOMAIN page /\ page[next] \in Voters /\ next \in Nat \ {0}
    BY <1>1, <1>2, PublishedTyped DEF Typed, RequestState
  <1>4. next <= Cardinality(Targets) /\ Fits(page[next], next)
    BY <1>2, <1>3 DEF LaunchInv, PagesInOrder
  <1>5. /\ \A q \in Requests \ {r} : request'[q] = request[q]
        /\ \/ request'[r].pc = "publish" /\ request'[r].next = next + 1 /\ request'[r].page = page
           \/ request'[r].pc = "list" /\ request'[r].next = next + 1
           \/ request'[r].pc = "none"
    BY <1>1, <1>2 DEF Published, NoRequest, RequestState
  <1>6. \A q \in Requests : Publishing(q) => q = r
    BY <1>2 DEF LaunchInv, OnePublisher, Publishing
  <1>7. Len(stream) < next /\ (Len(stream) + 1 = next => AllFit)
    BY <1>2 DEF LaunchInv, PublisherInOrder, Publishing
  <1>8. count["launched"] # 0
    BY <1>2 DEF LaunchInv, OnePublisher, Publishing
  <1>9. TotalsCountTargets' /\ PagesInOrder'
    BY <1>2, <1>5, SameTargets DEF LaunchInv, TotalsCountTargets, PagesInOrder
  <1>10. OnePublisher'
    BY <1>2, <1>5, <1>6, <1>8 DEF OnePublisher, Publishing
  <1>11. ASSUME Len(stream') \in Nat, Len(stream') <= next, Len(stream') = next => AllFit'
         PROVE  JobsInOrder' /\ PublisherInOrder'
    <2>1. Cardinality(Targets) \in Nat /\ Cardinality(Targets)' = Cardinality(Targets)
      BY <1>2, TargetsAreFinite, SameTargets
    <2>2. JobsInOrder'
      BY <1>3, <1>4, <1>11, <2>1 DEF JobsInOrder
    <2>3. PublisherInOrder'
      BY <1>3, <1>5, <1>6, <1>11 DEF PublisherInOrder, Publishing
    <2> QED  BY <2>2, <2>3
  <1>12. CASE Publish(r)
    <2>1. stream' = Append(stream, page[next])
      BY <1>12 DEF Publish
    <2>2. /\ Len(stream') = Len(stream) + 1
          /\ \A k \in 1 .. Len(stream) : stream'[k] = stream[k]
          /\ stream'[Len(stream) + 1] = page[next]
      BY <1>1, <1>3, <2>1, AppendProperties
    <2>3. Len(stream') \in Nat /\ Len(stream') <= next
      BY <1>1, <1>3, <1>7, <2>2
    <2>4. ASSUME Len(stream') = next  PROVE AllFit'
      <3>1. AllFit
        BY <1>7, <2>2, <2>4
      <3>2. \A k \in 1 .. Len(stream') : Fits(stream'[k], k)
        BY <1>1, <1>4, <2>2, <2>4, <3>1 DEF AllFit
      <3> QED  BY <1>2, <3>2, SameTargets DEF AllFit
    <2> QED  BY <1>9, <1>10, <1>11, <2>3, <2>4 DEF LaunchInv
  <1>13. CASE PublishFails(r)
    <2>1. stream' = stream
      BY <1>13 DEF PublishFails, queue
    <2>2. Len(stream') \in Nat /\ Len(stream') < next
      BY <1>1, <1>7, <2>1
    <2> QED  BY <1>3, <1>9, <1>10, <1>11, <2>2 DEF LaunchInv
  <1> QED  BY <1>12, <1>13

LEMMA PublishKeepsWork ==
  ASSUME Typed, WorkInv, NEW r \in Requests, Publish(r)
  PROVE  WorkInv'
  <1>1. jobs \in Seq(Nat) /\ Len(jobs) \in Nat /\ tried \subseteq 1 .. Len(jobs)
    BY TypeParts DEF Typed
  <1>2. UNCHANGED <<campaign, place, sender, tried>> /\ jobs' = Append(jobs, 1)
    BY DEF Publish
  <1>3. /\ Len(jobs') = Len(jobs) + 1 /\ jobs'[Len(jobs) + 1] = 1
        /\ \A n \in 1 .. Len(jobs) : jobs'[n] = jobs[n]
    BY <1>1, <1>2, AppendProperties
  <1>4. DeliveredOnce'
    BY <1>1, <1>3 DEF WorkInv, DeliveredOnce
  <1>5. TriedInHand'
    BY <1>1, <1>2, <1>3 DEF WorkInv, TriedInHand
  <1>6. CountedWereTried' /\ HeldIsNew' /\ DoneMeansTried'
    BY <1>2, SameTargets DEF WorkInv, CountedWereTried, HeldIsNew, DoneMeansTried
  <1> QED  BY <1>4, <1>5, <1>6 DEF WorkInv

LEMMA RequestKeepsWork ==
  ASSUME Typed, WorkInv, NEW r \in Requests,
         \/ RequestStep(r) \/ Launch(r) \/ PauseCampaign(r) \/ CancelCampaign(r)
         \/ RequestFails(r) \/ PublishFails(r)
  PROVE  WorkInv'
  <1>1. CASE Publish(r)
    BY <1>1, PublishKeepsWork
  <1>2. CASE \/ CountTargets(r) \/ UpdateCampaignTotalRecipients(r) \/ StartSending(r)
             \/ ListTargets(r) \/ WritePaused(r) \/ Launch(r) \/ PauseCampaign(r)
             \/ CancelCampaign(r) \/ RequestFails(r) \/ PublishFails(r)
    <2> USE DEF CountTargets, UpdateCampaignTotalRecipients, StartSending, ListTargets,
                WritePaused, Launch, PauseCampaign, CancelCampaign, RequestFails, PublishFails
    <2>1. UNCHANGED <<place, jobs, sender, tried>>
      BY <1>2 DEF queue
    <2>2. campaign \in CampaignState
      BY TypeParts DEF Typed
    <2>3. /\ campaign'.sent = campaign.sent /\ campaign'.failed = campaign.failed
          /\ campaign'.status = "completed" => campaign.status = "completed"
      BY <1>2, <2>2 DEF SetStatus, CampaignState
    <2> QED  BY <2>1, <2>3, WorkUnchanged
  <1> QED  BY <1>1, <1>2 DEF RequestStep

LEMMA RequestKeepsLaunch ==
  ASSUME Typed, LaunchInv, NEW r \in Requests, Quiet',
         \/ RequestStep(r) \/ Launch(r) \/ PauseCampaign(r) \/ CancelCampaign(r)
         \/ RequestFails(r) \/ PublishFails(r)
  PROVE  LaunchInv'
  <1>1. /\ request \in [Requests -> RequestState] /\ request[r] \in RequestState
        /\ campaign \in CampaignState /\ count \in [Events -> Nat]
        /\ stream \in Seq(Voters) /\ Len(stream) \in Nat
    BY TypeParts DEF Typed
  <1>2. CASE Publish(r) \/ PublishFails(r)
    BY <1>2, PublishKeepsLaunch
  <1>3. CASE ListTargets(r)
    BY <1>3, ListKeepsLaunch
  <1>4. CASE CountTargets(r) \/ UpdateCampaignTotalRecipients(r)
    <2>1. /\ UNCHANGED <<place, stream, count>>
          /\ \A q \in Requests \ {r} : request'[q] = request[q]
      BY <1>1, <1>4 DEF CountTargets, UpdateCampaignTotalRecipients, Goto, queue
    <2>2. /\ request'[r].pc \in {"none", "total", "sending"}
          /\ request'[r].pc = "total" => request'[r].total = Cardinality(Targets)
      <3>1. CASE CountTargets(r)
        BY <1>1, <3>1 DEF CountTargets, NoRequest, RequestState
      <3>2. CASE UpdateCampaignTotalRecipients(r)
        BY <1>1, <3>2 DEF UpdateCampaignTotalRecipients, Goto, RequestState
      <3> QED  BY <1>4, <3>1, <3>2
    <2>3. campaign'.total \in {campaign.total, Cardinality(Targets)}
      BY <1>1, <1>4 DEF CountTargets, UpdateCampaignTotalRecipients, At, CampaignState, LaunchInv,
                        TotalsCountTargets
    <2>4. TotalsCountTargets'
      BY <2>1, <2>2, <2>3, SameTargets DEF LaunchInv, TotalsCountTargets
    <2>5. OnePublisher'
      BY <2>1, <2>2 DEF LaunchInv, OnePublisher, Publishing
    <2>6. AllFit' <=> AllFit
      BY <2>1, SameTargets DEF AllFit
    <2>7. JobsInOrder'
      BY <2>1, <2>6, SameTargets DEF LaunchInv, JobsInOrder
    <2>8. PublisherInOrder'
      BY <2>1, <2>2, <2>6 DEF LaunchInv, PublisherInOrder, Publishing
    <2>9. PagesInOrder'
      BY <2>1, <2>2, SameTargets DEF LaunchInv, PagesInOrder
    <2> QED  BY <2>4, <2>5, <2>7, <2>8, <2>9 DEF LaunchInv
  <1>5. CASE StartSending(r)
    <2>1. /\ UNCHANGED <<place, stream>> /\ campaign'.total = campaign.total
          /\ \A q \in Requests \ {r} : request'[q] = request[q]
          /\ request'[r].pc = "list" /\ request'[r].next \in Nat \ {0}
      BY <1>1, <1>5 DEF StartSending, Goto, SetStatus, RequestState, CampaignState, queue
    <2>2. count'["launched"] = count["launched"] + 1 /\ count["launched"] \in Nat
      BY <1>1, <1>5 DEF StartSending, Happened, Events
    <2>3. count["launched"] = 0
      BY <2>2 DEF Quiet
    <2>4. Len(stream) = 0 /\ \A q \in Requests : ~Publishing(q)
      BY <2>3 DEF LaunchInv, OnePublisher
    <2>5. TotalsCountTargets'
      BY <2>1, SameTargets DEF LaunchInv, TotalsCountTargets
    <2>6. OnePublisher'
      BY <2>1, <2>2, <2>3, <2>4 DEF OnePublisher, Publishing
    <2>7. AllFit'
      BY <2>1, <2>4 DEF AllFit
    <2>8. JobsInOrder'
      BY <2>1, <2>7, SameTargets DEF LaunchInv, JobsInOrder
    <2>9. PublisherInOrder'
      BY <2>1, <2>4, <2>7 DEF PublisherInOrder, Publishing
    <2>10. PagesInOrder'
      BY <2>1, SameTargets DEF LaunchInv, PagesInOrder
    <2> QED  BY <2>5, <2>6, <2>8, <2>9, <2>10 DEF LaunchInv
  <1>6. CASE WritePaused(r) \/ Launch(r) \/ PauseCampaign(r) \/ CancelCampaign(r) \/ RequestFails(r)
    <2>1. UNCHANGED <<place, stream>> /\ campaign'.total = campaign.total
      BY <1>1, <1>6 DEF WritePaused, Launch, PauseCampaign, CancelCampaign, RequestFails, SetStatus,
                        CampaignState, queue
    <2>2. count'["launched"] = count["launched"]
      BY <1>1, <1>6 DEF WritePaused, Launch, PauseCampaign, CancelCampaign, RequestFails, Fails,
                        Happened, Events
    <2>3. \A q \in Requests : \/ request'[q] = request[q]
                              \/ request'[q].pc \notin {"total", "list", "publish"}
      BY <1>1, <1>6 DEF WritePaused, Launch, PauseCampaign, CancelCampaign, RequestFails, Goto,
                        NoRequest, RequestState
    <2> QED  BY <2>1, <2>2, <2>3, LaunchUnchanged
  <1> QED  BY <1>2, <1>3, <1>4, <1>5, <1>6 DEF RequestStep

(* Steps of a navigator's text, and keywords.                              *)
LEMMA OtherStepsKeepBoth ==
  ASSUME Typed, LaunchInv, WorkInv,
         \/ \E n \in Navigators : \/ CheckSendAllowed(n) \/ NoPhone(n) \/ CreateMessage(n)
                                  \/ CheckFails(n) \/ ProviderRefuses(n)
                                  \/ \E v \in Voters : StartText(n, v)
         \/ \E v \in Voters : Stop(v) \/ Start(v)
  PROVE  LaunchInv' /\ WorkInv'
  <1>1. /\ sender \in [Senders -> SenderState] /\ count \in [Events -> Nat]
        /\ Worker \notin Navigators
    BY SmsAssumption DEF Typed, TypeOK, SenderState
  <1>2. UNCHANGED <<campaign, request, place, stream, jobs, tried>>
    BY DEF CheckSendAllowed, NoPhone, CreateMessage, CheckFails, ProviderRefuses, StartText, Stop,
           Start, queue
  <1>3. sender'[Worker] = sender[Worker]
    BY <1>1, WorkerIsSender DEF CheckSendAllowed, NoPhone, CreateMessage, CheckFails,
                                ProviderRefuses, StartText, Stop, Start, Do, Refuse
  <1>4. count'["launched"] = count["launched"]
    BY <1>1 DEF CheckSendAllowed, NoPhone, CreateMessage, CheckFails, ProviderRefuses, StartText,
                Stop, Start, Fails, Happened, Events
  <1> QED  BY <1>2, <1>3, <1>4, LaunchUnchanged, WorkUnchanged

(* The job in hand before its count.                                       *)
LEMMA SendKeepsBoth ==
  ASSUME Typed, LaunchInv, WorkInv,
         \/ CheckSendAllowed(Worker) \/ NoPhone(Worker) \/ CreateMessage(Worker)
         \/ CheckFails(Worker) \/ ProviderRefuses(Worker) \/ JobFails
  PROVE  LaunchInv' /\ WorkInv'
  <1>1. sender \in [Senders -> SenderState] /\ count \in [Events -> Nat]
    BY DEF Typed, TypeOK, SenderState
  <1>2. UNCHANGED <<campaign, request, place, stream, jobs, tried>>
    BY DEF CheckSendAllowed, NoPhone, CreateMessage, CheckFails, ProviderRefuses, JobFails, queue
  <1>3. /\ sender[Worker].pc \in {"check", "send"}
        /\ \/ sender'[Worker].pc \in {"send", "count"} /\ sender'[Worker].job = sender[Worker].job
           \/ sender'[Worker].pc = "idle"
    <2>1. CASE CheckSendAllowed(Worker)
      BY <1>1, <2>1, WorkerIsSender DEF CheckSendAllowed, Do, Refuse, SenderState
    <2>2. CASE CreateMessage(Worker)
      BY <1>1, <2>2, WorkerIsSender DEF CreateMessage, SenderState
    <2>3. CASE NoPhone(Worker) \/ CheckFails(Worker) \/ ProviderRefuses(Worker)
      BY <1>1, <2>3, WorkerIsSender DEF NoPhone, CheckFails, ProviderRefuses, Refuse, SenderState
    <2>4. CASE JobFails
      BY <1>1, <2>4, WorkerIsSender DEF JobFails, Idle
    <2> QED  BY <2>1, <2>2, <2>3, <2>4
  <1>4. count'["launched"] = count["launched"]
    BY <1>1 DEF CheckSendAllowed, NoPhone, CreateMessage, CheckFails, ProviderRefuses, JobFails,
                Fails, Happened, Events
  <1>5. LaunchInv'
    BY <1>2, <1>4, LaunchUnchanged
  <1>6. CountedWereTried' /\ DeliveredOnce'
    BY <1>2 DEF WorkInv, CountedWereTried, DeliveredOnce
  <1>7. TriedInHand'
    BY <1>2, <1>3 DEF WorkInv, TriedInHand
  <1>8. HeldIsNew'
    BY <1>2, <1>3 DEF WorkInv, HeldIsNew
  <1>9. DoneMeansTried'
    BY <1>2, <1>3, SameTargets DEF WorkInv, DoneMeansTried
  <1> QED  BY <1>5, <1>6, <1>7, <1>8, <1>9 DEF WorkInv

(* One delivery acknowledged: the others are as before.                    *)
LEMMA DeliveryGone ==
  ASSUME Typed, WorkInv, NEW n \in 1 .. Len(jobs), jobs[n] > 0,
         jobs' = [jobs EXCEPT ![n] = @ - 1]
  PROVE  /\ Len(jobs') = Len(jobs) /\ jobs'[n] = 0
         /\ \A k \in 1 .. Len(jobs) : k # n => jobs'[k] = jobs[k]
         /\ DeliveredOnce'
  <1>1. jobs \in Seq(Nat) /\ Len(jobs) \in Nat
    BY TypeParts DEF Typed
  <1>2. jobs[n] = 1 /\ jobs[n] - 1 = 0
    BY <1>1 DEF WorkInv, DeliveredOnce
  <1>3. /\ Len(jobs') = Len(jobs)
        /\ \A k \in 1 .. Len(jobs) : jobs'[k] = IF k = n THEN 0 ELSE jobs[k]
    <2>1. jobs' = [jobs EXCEPT ![n] = 0]
      BY <1>2
    <2> QED  BY <1>1, <2>1, ExceptSeq
  <1>4. DeliveredOnce'
    BY <1>3 DEF WorkInv, DeliveredOnce
  <1> QED  BY <1>3, <1>4

LEMMA TakeKeepsBoth ==
  ASSUME Typed, LaunchInv, WorkInv, NEW n \in DOMAIN jobs, TakeJob(n)
  PROVE  LaunchInv' /\ WorkInv'
  <1>1. /\ sender \in [Senders -> SenderState] /\ jobs \in Seq(Nat)
        /\ n \in 1 .. Len(jobs) /\ tried \subseteq 1 .. Len(jobs)
    BY TypeParts DEF Typed
  <1>2. /\ UNCHANGED <<campaign, request, place, stream, tried, count>>
        /\ sender[Worker].pc = "idle" /\ jobs[n] > 0
    BY DEF TakeJob
  <1>3. LaunchInv'
    BY <1>2, LaunchUnchanged
  <1>4. n \notin tried
    BY <1>2 DEF WorkInv, TriedInHand
  <1>5. CASE campaign.status = "sending"
    <2>1. jobs' = jobs /\ sender'[Worker].pc = "check" /\ sender'[Worker].job = n
      BY <1>1, <1>5, WorkerIsSender DEF TakeJob, Holding
    <2>2. CountedWereTried' /\ DeliveredOnce'
      BY <1>2, <2>1 DEF WorkInv, CountedWereTried, DeliveredOnce
    <2>3. TriedInHand'
      BY <1>2, <2>1 DEF WorkInv, TriedInHand
    <2>4. HeldIsNew'
      BY <1>2, <1>4, <2>1 DEF HeldIsNew
    <2>5. DoneMeansTried'
      BY <1>2, <2>1, SameTargets DEF WorkInv, DoneMeansTried
    <2> QED  BY <1>3, <2>2, <2>3, <2>4, <2>5 DEF WorkInv
  <1>6. CASE campaign.status # "sending"
    <2>1. jobs' = [jobs EXCEPT ![n] = @ - 1] /\ sender' = sender
      BY <1>6 DEF TakeJob
    <2>2. /\ \A k \in 1 .. Len(jobs) : k # n => jobs'[k] = jobs[k]
          /\ DeliveredOnce'
      BY <1>1, <1>2, <2>1, DeliveryGone
    <2>3. TriedInHand'
      BY <1>1, <1>2, <1>4, <2>1, <2>2 DEF WorkInv, TriedInHand
    <2>4. CountedWereTried' /\ HeldIsNew' /\ DoneMeansTried'
      BY <1>2, <2>1, SameTargets DEF WorkInv, CountedWereTried, HeldIsNew, DoneMeansTried
    <2> QED  BY <1>3, <2>2, <2>3, <2>4 DEF WorkInv
  <1> QED  BY <1>5, <1>6

(* A count makes one more job tried, whether it could be written or not.   *)
LEMMA CountKeepsBoth ==
  ASSUME Typed, LaunchInv, WorkInv, IncrementCount \/ IncrementFails
  PROVE  LaunchInv' /\ WorkInv'
  <1> DEFINE n == sender[Worker].job
  <1>1. /\ sender \in [Senders -> SenderState] /\ jobs \in Seq(Nat) /\ Len(jobs) \in Nat
        /\ tried \subseteq 1 .. Len(jobs) /\ count \in [Events -> Nat]
        /\ campaign \in CampaignState /\ Len(jobs) = Len(stream)
    BY TypeParts DEF Typed
  <1>2. /\ sender[Worker].pc = "count"
        /\ tried' = tried \cup {n}
        /\ sender' = [sender EXCEPT ![Worker].pc = "completion"]
        /\ UNCHANGED <<request, place, stream, jobs>>
    BY DEF IncrementCount, IncrementFails, Do, queue
  <1>3. sender'[Worker].pc = "completion" /\ sender'[Worker].job = n
    BY <1>1, <1>2, WorkerIsSender DEF SenderState
  <1>4. n \in 1 .. Len(jobs) /\ n \notin tried
    BY <1>2 DEF Typed, JobInHand, WorkInv, HeldIsNew
  <1>5. /\ campaign'.status = campaign.status /\ campaign'.total = campaign.total
        /\ campaign'.sent + campaign'.failed \in Int
        /\ campaign'.sent + campaign'.failed <= campaign.sent + campaign.failed + 1
    BY <1>1 DEF IncrementCount, IncrementFails, CampaignState
  <1>6. count'["launched"] = count["launched"]
    BY <1>1 DEF IncrementCount, IncrementFails, Fails, Happened, Events
  <1>7. LaunchInv'
    BY <1>2, <1>5, <1>6, LaunchUnchanged
  <1>8. Cardinality(tried') = Cardinality(tried) + 1 /\ Cardinality(tried) \in Nat
    <2>1. IsFiniteSet(1 .. Len(jobs))
      BY <1>1, FS_Interval
    <2>2. IsFiniteSet(tried)
      BY <1>1, <2>1, FS_Subset
    <2> QED  BY <1>2, <1>4, <2>2, FS_AddElement, FS_CardinalityType
  <1>9. CountedWereTried'
    <2>1. campaign.sent + campaign.failed <= Cardinality(tried)
      BY DEF WorkInv, CountedWereTried
    <2>2. campaign.sent + campaign.failed \in Int
      BY <1>1 DEF CampaignState
    <2> QED  BY <1>5, <1>8, <2>1, <2>2 DEF CountedWereTried
  <1>10. DeliveredOnce' /\ HeldIsNew'
    BY <1>2, <1>3 DEF WorkInv, DeliveredOnce, HeldIsNew
  <1>11. TriedInHand'
    BY <1>2, <1>3 DEF WorkInv, TriedInHand
  <1>12. DoneMeansTried'
    <2>1. campaign.status # "completed"
      <3>1. 1 .. Len(stream) \subseteq 1 .. Cardinality(Targets)
        BY <1>1, TargetsAreFinite DEF LaunchInv, JobsInOrder
      <3> QED  BY <1>1, <1>4, <3>1 DEF WorkInv, DoneMeansTried
    <2> QED  BY <1>3, <1>5, <2>1 DEF DoneMeansTried
  <1> QED  BY <1>7, <1>9, <1>10, <1>11, <1>12 DEF WorkInv

(* As many jobs counted as there are targets: all of them were tried.      *)
LEMMA AllCountedMeansTried ==
  ASSUME Typed, LaunchInv, WorkInv, AllCounted
  PROVE  tried = 1 .. Cardinality(Targets)
  <1> DEFINE total == Cardinality(Targets)
  <1>1. /\ tried \subseteq 1 .. Len(stream) /\ Len(stream) \in Nat
        /\ campaign \in CampaignState
    BY TypeParts DEF Typed
  <1>2. total \in Nat /\ Len(stream) <= total
    BY TargetsAreFinite DEF LaunchInv, JobsInOrder
  <1>3. tried \subseteq 1 .. total
    BY <1>1, <1>2
  <1>4. IsFiniteSet(1 .. total) /\ Cardinality(1 .. total) = total
    BY <1>2, FS_Interval
  <1>5. Cardinality(tried) \in Nat /\ Cardinality(tried) <= total
    BY <1>3, <1>4, FS_Subset, FS_CardinalityType
  <1>6. campaign.total = total
    BY DEF AllCounted, LaunchInv, TotalsCountTargets
  <1>7. Cardinality(tried) >= total
    <2>1. campaign.sent \in Nat /\ campaign.failed \in Nat
      BY <1>1 DEF CampaignState
    <2>2. campaign.sent + campaign.failed <= Cardinality(tried)
      BY DEF WorkInv, CountedWereTried
    <2> QED  BY <1>2, <1>5, <1>6, <2>1, <2>2 DEF AllCounted
  <1>8. Cardinality(tried) = Cardinality(1 .. total)
    BY <1>2, <1>4, <1>5, <1>7
  <1> QED  BY <1>3, <1>4, <1>8, FS_Subset

LEMMA CompletionKeepsBoth ==
  ASSUME Typed, LaunchInv, WorkInv, CheckCampaignCompletion \/ Complete \/ CompletionFails
  PROVE  LaunchInv' /\ WorkInv'
  <1> DEFINE n == sender[Worker].job
  <1>1. /\ sender \in [Senders -> SenderState] /\ jobs \in Seq(Nat)
        /\ tried \subseteq 1 .. Len(jobs) /\ count \in [Events -> Nat]
        /\ campaign \in CampaignState
    BY TypeParts DEF Typed
  <1>2. /\ sender[Worker].pc \in {"completion", "complete"}
        /\ UNCHANGED <<request, place, stream, tried>>
    BY DEF CheckCampaignCompletion, Complete, CompletionFails
  <1>3. n \in 1 .. Len(jobs) /\ jobs[n] > 0
    BY <1>2 DEF Typed, JobInHand
  <1>4. /\ count'["launched"] = count["launched"] /\ campaign'.total = campaign.total
        /\ campaign'.sent = campaign.sent /\ campaign'.failed = campaign.failed
        /\ campaign'.status = "completed" =>
             campaign.status = "completed" \/ sender[Worker].pc = "complete"
    BY <1>1 DEF CheckCampaignCompletion, Complete, CompletionFails, SetStatus, CampaignState,
                Fails, Happened, Events
  <1>5. LaunchInv' /\ CountedWereTried'
    BY <1>2, <1>4, LaunchUnchanged DEF WorkInv, CountedWereTried
  <1>6. CASE CheckCampaignCompletion /\ AllCounted
    <2>1. /\ sender' = [sender EXCEPT ![Worker].pc = "complete"]
          /\ UNCHANGED <<campaign, jobs>>
      BY <1>6 DEF CheckCampaignCompletion, Do
    <2>2. sender'[Worker].pc = "complete" /\ sender'[Worker].job = n
      BY <1>1, <2>1, WorkerIsSender DEF SenderState
    <2>3. DoneMeansTried'
      BY <1>2, <1>6, AllCountedMeansTried, SameTargets DEF DoneMeansTried
    <2>4. DeliveredOnce' /\ TriedInHand' /\ HeldIsNew'
      BY <1>2, <2>1, <2>2 DEF WorkInv, DeliveredOnce, TriedInHand, HeldIsNew
    <2> QED  BY <1>5, <2>3, <2>4 DEF WorkInv
  <1>7. CASE (CheckCampaignCompletion /\ ~AllCounted) \/ Complete \/ CompletionFails
    <2>1. Acknowledge
      BY <1>7 DEF CheckCampaignCompletion, Complete, CompletionFails
    <2>2. sender'[Worker].pc = "idle"
      BY <1>1, <2>1, WorkerIsSender DEF Acknowledge, Idle
    <2>3. /\ jobs'[n] = 0 /\ \A k \in 1 .. Len(jobs) : k # n => jobs'[k] = jobs[k]
          /\ DeliveredOnce'
      BY <1>3, <2>1, DeliveryGone DEF Acknowledge
    <2>4. TriedInHand'
      BY <1>1, <1>2, <2>3 DEF WorkInv, TriedInHand
    <2>5. HeldIsNew' /\ DoneMeansTried'
      BY <1>2, <1>4, <2>2, SameTargets DEF WorkInv, HeldIsNew, DoneMeansTried
    <2> QED  BY <1>5, <2>3, <2>4, <2>5 DEF WorkInv
  <1> QED  BY <1>6, <1>7

LEMMA NextCompletion == CompletionInv /\ [Next]_vars => CompletionInv'
  <1> SUFFICES ASSUME CompletionInv, [Next]_vars  PROVE CompletionInv'
    OBVIOUS
  <1>1. Typed /\ Typed'
    BY NextTyped DEF CompletionInv
  <1> SUFFICES ASSUME Quiet'  PROVE LaunchInv' /\ WorkInv'
    BY <1>1 DEF CompletionInv
  <1>2. Quiet /\ LaunchInv /\ WorkInv
    BY <1>1, QuietBefore DEF CompletionInv
  <1>3. CASE \E r \in Requests : \/ RequestStep(r) \/ Launch(r) \/ PauseCampaign(r)
                                 \/ CancelCampaign(r) \/ RequestFails(r) \/ PublishFails(r)
    BY <1>1, <1>2, <1>3, RequestKeepsLaunch, RequestKeepsWork
  <1>4. CASE \/ \E s \in Senders : SendStep(s) \/ CheckFails(s) \/ ProviderRefuses(s)
             \/ JobFails
             \/ \E v \in Voters, n \in Navigators : StartText(n, v)
             \/ \E v \in Voters : Stop(v) \/ Start(v)
    BY <1>1, <1>2, <1>4, SendKeepsBoth, OtherStepsKeepBoth DEF SendStep, Senders
  <1>5. CASE QueueStep \/ IncrementFails \/ CompletionFails
    BY <1>1, <1>2, <1>5, TakeKeepsBoth, CountKeepsBoth, CompletionKeepsBoth DEF QueueStep
  <1>6. CASE \/ \E n \in DOMAIN jobs : Redeliver(n)
             \/ Crash
             \/ \E v \in Voters : ImportVoter(v)
    <2>1. \A event \in {"redelivered", "killed", "moved", "lost"} : count'[event] \in Nat
      BY <1>1, CountsGrow DEF Events
    <2>2. count \in [Events -> Nat]
      BY <1>1 DEF Typed, TypeOK
    <2>3. \E event \in {"redelivered", "killed", "moved", "lost"} : count'[event] > 0
      BY <1>6, <2>2 DEF Redeliver, Crash, ImportVoter, Fails, Happened, Events
    <2>4. \A a, b, c, d \in Nat : a + b + c + d = 0 => a = 0 /\ b = 0 /\ c = 0 /\ d = 0
      OBVIOUS
    <2> QED  BY <2>1, <2>3, <2>4 DEF Quiet
  <1>7. CASE UNCHANGED vars
    BY <1>2, <1>7, LaunchUnchanged, WorkUnchanged DEF vars, queue
  <1> QED  BY <1>3, <1>4, <1>5, <1>6, <1>7 DEF Next, Fault

(* A voter with a name of its own can stand in one place only.             *)
LEMMA OwnNameOnePlace ==
  ASSUME place \in [Voters -> Nat], NEW v \in Targets, NEW u \in Voters, Fits(u, UpTo(v)),
         \A w \in Targets : place[w] = place[v] => w = v
  PROVE  u = v
  <1>1. Targets \subseteq Voters /\ u \in Targets /\ IsFiniteSet(Targets)
    BY TargetsAreFinite DEF Targets, Fits
  <1>2. place[u] \in Nat /\ place[v] \in Nat /\ \A w \in Targets : place[w] \in Nat
    BY <1>1
  <1> DEFINE Below(k) == {w \in Targets : place[w] < k}
             AtMost(k) == {w \in Targets : place[w] <= k}
  <1>3. \A k : /\ IsFiniteSet(Below(k)) /\ Cardinality(Below(k)) \in Nat
               /\ IsFiniteSet(AtMost(k)) /\ Cardinality(AtMost(k)) \in Nat
    BY <1>1, FS_Subset, FS_CardinalityType
  <1> DEFINE before == Cardinality(Below(place[u]))
             upToU == Cardinality(AtMost(place[u]))
             upToV == Cardinality(AtMost(place[v]))
  <1>4. /\ before \in Nat /\ upToU \in Nat /\ upToV \in Nat
        /\ before < upToV /\ upToV <= upToU
    BY <1>3 DEF Fits, Before, UpTo
  <1>5. CASE place[u] < place[v]
    <2>1. AtMost(place[u]) \subseteq AtMost(place[v]) /\ v \in AtMost(place[v])
          /\ v \notin AtMost(place[u])
      BY <1>2, <1>5
    <2>2. upToU <= upToV /\ upToU # upToV
      BY <1>3, <2>1, FS_Subset
    <2> HIDE DEF upToU, upToV
    <2> QED  BY <1>4, <2>2
  <1>6. CASE place[u] > place[v]
    <2>1. AtMost(place[v]) \subseteq Below(place[u])
      BY <1>2, <1>6
    <2>2. upToV <= before
      BY <1>3, <2>1, FS_Subset
    <2> HIDE DEF before, upToV
    <2> QED  BY <1>4, <2>2
  <1>7. CASE place[u] = place[v]
    BY <1>1, <1>7
  <1> QED  BY <1>2, <1>5, <1>6, <1>7

(* A campaign launched once, whose jobs are neither delivered twice nor    *)
(* cut off by a crash and whose targets stay as they are, is completed     *)
(* only when every target with a name of its own was tried, whatever       *)
(* statement fails and whoever pauses or cancels meanwhile: the total      *)
(* counts the targets, the pages hold a job for each position and the      *)
(* counters do not run ahead of the jobs tried.                            *)
THEOREM CompletionIsRight == Spec => []CompletedMeansAllTried
  <1>1. Init => CompletionInv
    <2> SUFFICES ASSUME Init  PROVE LaunchInv /\ WorkInv
      BY InitTyped DEF CompletionInv
    <2>1. Len(stream) = 0 /\ \A r \in Requests : request[r].pc = "none"
      BY DEF Init, NoRequest
    <2>2. TotalsCountTargets /\ OnePublisher /\ PublisherInOrder /\ PagesInOrder
      BY <2>1 DEF Init, TotalsCountTargets, OnePublisher, PublisherInOrder, PagesInOrder, Publishing
    <2>3. JobsInOrder
      BY <2>1, TargetsAreFinite DEF JobsInOrder, AllFit
    <2>4. WorkInv
      BY FS_EmptySet, WorkerIsSender
         DEF Init, WorkInv, CountedWereTried, DeliveredOnce, TriedInHand, HeldIsNew,
             DoneMeansTried, Idle
    <2> QED  BY <2>2, <2>3, <2>4 DEF LaunchInv
  <1>2. CompletionInv => CompletedMeansAllTried
    <2> SUFFICES ASSUME CompletionInv, CompletedAtOnce, NEW v \in Targets,
                        \A w \in Targets : place[w] = place[v] => w = v
                 PROVE  Tried(v)
      BY DEF CompletedMeansAllTried
    <2>1. /\ place \in [Voters -> Nat] /\ stream \in Seq(Voters) /\ Len(stream) \in Nat
          /\ tried \subseteq 1 .. Len(stream) /\ count \in [Events -> Nat]
      BY TypeParts DEF CompletionInv, Typed
    <2>2. LaunchInv /\ WorkInv
      BY DEF CompletionInv, CompletedAtOnce, Quiet
    <2>3. tried = 1 .. Cardinality(Targets) /\ Len(stream) <= Cardinality(Targets)
      BY <2>2 DEF CompletedAtOnce, WorkInv, DoneMeansTried, LaunchInv, JobsInOrder
    <2>4. v \in {w \in Targets : place[w] <= place[v]}
      BY <2>1 DEF Targets
    <2>5. UpTo(v) \in 1 .. Cardinality(Targets)
      <3>1. /\ IsFiniteSet({w \in Targets : place[w] <= place[v]})
            /\ UpTo(v) \in Nat /\ UpTo(v) <= Cardinality(Targets)
        BY TargetsAreFinite, FS_Subset, FS_CardinalityType DEF UpTo
      <3>2. UpTo(v) # 0
        BY <2>4, <3>1, FS_EmptySet DEF UpTo
      <3> QED  BY <3>1, <3>2, TargetsAreFinite
    <2>6. UpTo(v) \in 1 .. Len(stream) /\ Len(stream) = Cardinality(Targets)
      <3>1. Cardinality(Targets) \in 1 .. Cardinality(Targets)
        BY <2>5, TargetsAreFinite
      <3>2. Cardinality(Targets) \in 1 .. Len(stream)
        BY <2>1, <2>3, <3>1
      <3> QED  BY <2>1, <2>3, <2>5, <3>2, TargetsAreFinite
    <2>7. stream[UpTo(v)] \in Voters /\ Fits(stream[UpTo(v)], UpTo(v))
      BY <2>1, <2>2, <2>6 DEF LaunchInv, JobsInOrder, AllFit
    <2>8. stream[UpTo(v)] = v
      BY <2>1, <2>7, OwnNameOnePlace
    <2> QED  BY <2>3, <2>5, <2>8 DEF Tried
  <1> QED  BY <1>1, <1>2, NextCompletion, PTL DEF Spec
=============================================================================
