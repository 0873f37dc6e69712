----------------------------- MODULE SmsOutreach -----------------------------
(***************************************************************************)
(* Text messages to voters.  A navigator sends single texts (P2P); an      *)
(* administrator launches, pauses and cancels a campaign (A2P), whose send *)
(* jobs go through a JetStream queue to the SMS worker.  Both ask the same *)
(* compliance service before a text leaves, and a voter's STOP or START    *)
(* changes what it answers.  Imports change the voters meanwhile.  A step  *)
(* is one statement or one provider call, so requests, worker, imports and *)
(* keywords interleave between any two.                                    *)
(***************************************************************************)
EXTENDS Integers, Sequences, FiniteSets

CONSTANTS
  Voters,
  StartPlace,      (* StartPlace[v]: v's place at first, see place         *)
  BatchSize,       (* campaignPublishBatchSize, 100                        *)
  Navigators,      (* requests that send single texts                      *)
  Requests,        (* requests that administer the campaign                *)
  Worker,          (* the SMS worker                                       *)
  Nobody,          (* no voter                                             *)
  MaxTexts,        (* bound: single texts attempted                        *)
  MaxKeywords,     (* bound: keywords received                             *)
  MaxChanges,      (* bound: voters changed by an import                   *)
  MaxFaults        (* bound: faults of every kind together                 *)

ASSUME SmsAssumption ==
  /\ Worker \notin Navigators
  /\ Nobody \notin Voters
  /\ IsFiniteSet(Voters)
  /\ StartPlace \in [Voters -> Nat]
  /\ BatchSize \in Nat \ {0}
  /\ {MaxTexts, MaxKeywords, MaxChanges, MaxFaults} \subseteq Nat

VARIABLES
  campaign,    (* the row of sms_campaigns                                 *)
  request,     (* request[r]: an administrator's request in progress       *)
  place,       (* place[v]: v's last and first name in their order, which  *)
               (* voters may share; 0 without a phone                      *)
  stream,      (* the campaign's send jobs as published: their voters      *)
  jobs,        (* jobs[n]: deliveries of the n-th job not acknowledged     *)
  sender,      (* sender[s]: a single text or a send job in progress       *)
  suppressed,  (* suppression_list                                         *)
  tried,       (* the jobs that were tried to their end                    *)
  late,        (* late[s][v]: texts of s to v since v was suppressed       *)
  count        (* how often each event has happened                        *)

queue == <<stream, jobs>>
vars == <<campaign, request, place, queue, sender, suppressed, tried, late, count>>

Senders == Navigators \cup {Worker}

Idle == [pc |-> "idle", voter |-> Nobody, job |-> 0, sent |-> FALSE]
NoPage == [k \in {} |-> Nobody]
NoRequest == [pc |-> "none", total |-> 0, next |-> 1, page |-> NoPage]
Page == UNION {[S -> Voters] : S \in SUBSET (1 .. Cardinality(Voters))}

(* "failed": a statement or a provider call fails; "unpublished": a job    *)
(* cannot be published; "redelivered": a job is delivered again; "killed": *)
(* the server crashes; "moved", "lost": an import gives a voter a phone or *)
(* another first name, or takes the phone.                                 *)
Events == {"text", "keyword", "launched", "moved", "lost",
           "failed", "unpublished", "redelivered", "killed"}

Happened(event) == count' = [count EXCEPT ![event] = @ + 1]
Fails(fault) ==
  /\ count["failed"] + count["unpublished"] + count["redelivered"] + count["killed"]
       < MaxFaults
  /\ Happened(fault)

(* A campaign is created as a draft.                                       *)
Init ==
  /\ campaign = [status |-> "draft", total |-> 0, sent |-> 0, failed |-> 0]
  /\ request = [r \in Requests |-> NoRequest]
  /\ place = StartPlace
  /\ stream = <<>> /\ jobs = <<>>
  /\ sender = [s \in Senders |-> Idle]
  /\ suppressed = {}
  /\ tried = {}
  /\ late = [s \in Senders |-> [v \in Voters |-> 0]]
  /\ count = [event \in Events |-> 0]

-----------------------------------------------------------------------------
(* LaunchCampaign, PauseCampaign and CancelCampaign.                       *)

At(r, pc) == request[r].pc = pc
Goto(r, pc) == request' = [request EXCEPT ![r].pc = pc]

SetStatus(status) == campaign' = [campaign EXCEPT !.status = status]

Targets == {v \in Voters : place[v] > 0}

Launch(r) ==
  /\ At(r, "none")
  /\ campaign.status = "draft"
  /\ Goto(r, "count")
  /\ UNCHANGED <<campaign, place, queue, sender, suppressed, tried, late, count>>

(* No targets: the request ends with an error.                             *)
CountTargets(r) ==
  /\ At(r, "count")
  /\ request' = [request EXCEPT ![r] =
                   IF Targets = {} THEN NoRequest
                   ELSE [@ EXCEPT !.pc = "total", !.total = Cardinality(Targets)]]
  /\ UNCHANGED <<campaign, place, queue, sender, suppressed, tried, late, count>>

UpdateCampaignTotalRecipients(r) ==
  /\ At(r, "total")
  /\ campaign' = [campaign EXCEPT !.total = request[r].total]
  /\ Goto(r, "sending")
  /\ UNCHANGED <<place, queue, sender, suppressed, tried, late, count>>

(* The status is written without a look at the one it replaces.            *)
StartSending(r) ==
  /\ At(r, "sending")
  /\ SetStatus("sending")
  /\ Goto(r, "list")
  /\ Happened("launched")
  /\ UNCHANGED <<place, queue, sender, suppressed, tried, late>>

(* The positions that v can have among the targets, which are ordered by   *)
(* name: behind those before it, in any order among those of its name.     *)
Before(v) == Cardinality({u \in Targets : place[u] < place[v]})
UpTo(v)   == Cardinality({u \in Targets : place[u] <= place[v]})

(* Mutant: without the ORDER BY.                                           *)
UnorderedPages(first) ==
  {page \in [{k \in first .. first + BatchSize - 1 : k <= Cardinality(Targets)} -> Targets] :
     \A j, k \in DOMAIN page : page[j] = page[k] => j = k}

(* The next page of targets from a position on, LIMIT and OFFSET: each     *)
(* query orders the voters of a name anew.                                 *)
Pages(first) ==
  {page \in [{k \in first .. first + BatchSize - 1 : k <= Cardinality(Targets)} -> Targets] :
     /\ \A j, k \in DOMAIN page : page[j] = page[k] => j = k
     /\ \A k \in DOMAIN page : Before(page[k]) < k /\ k <= UpTo(page[k])}

ListTargets(r) ==
  /\ At(r, "list")
  /\ \E page \in Pages(request[r].next) :
       request' = [request EXCEPT ![r] = IF DOMAIN page = {} THEN NoRequest
                                         ELSE [@ EXCEPT !.pc = "publish", !.page = page]]
  /\ UNCHANGED <<campaign, place, queue, sender, suppressed, tried, late, count>>

(* After a full page the next one is read.                                 *)
Published(r) ==
  LET next == request[r].next + 1
      page == request[r].page
  IN  /\ At(r, "publish")
      /\ request' = [request EXCEPT ![r] =
                       CASE next \in DOMAIN page -> [@ EXCEPT !.next = next]
                         [] next \notin DOMAIN page /\ Cardinality(DOMAIN page) = BatchSize ->
                              [NoRequest EXCEPT !.pc = "list", !.next = next]
                         [] OTHER -> NoRequest]

Publish(r) ==
  /\ Published(r)
  /\ stream' = Append(stream, request[r].page[request[r].next])
  /\ jobs' = Append(jobs, 1)
  /\ UNCHANGED <<campaign, place, sender, suppressed, tried, late, count>>

(* A job that could not be published is skipped.                           *)
PublishFails(r) ==
  /\ Published(r)
  /\ Fails("unpublished")
  /\ UNCHANGED <<campaign, place, queue, sender, suppressed, tried, late>>

(* A statement fails: the request ends where it is, with an error.         *)
RequestFails(r) ==
  /\ ~At(r, "none")
  /\ Fails("failed")
  /\ request' = [request EXCEPT ![r] = NoRequest]
  /\ UNCHANGED <<campaign, place, queue, sender, suppressed, tried, late>>

PauseCampaign(r) ==
  /\ At(r, "none")
  /\ campaign.status = "sending"
  /\ Goto(r, "pause")
  /\ UNCHANGED <<campaign, place, queue, sender, suppressed, tried, late, count>>

WritePaused(r) ==
  /\ At(r, "pause")
  /\ SetStatus("paused")
  /\ Goto(r, "none")
  /\ UNCHANGED <<place, queue, sender, suppressed, tried, late, count>>

(* Whatever the status is (a second cancel changes nothing).               *)
CancelCampaign(r) ==
  /\ At(r, "none")
  /\ campaign.status # "cancelled"
  /\ SetStatus("cancelled")
  /\ UNCHANGED <<request, place, queue, sender, suppressed, tried, late, count>>

-----------------------------------------------------------------------------
(* Sending: a single text, or the next job of the queue.                   *)

Do(s, pc) == sender' = [sender EXCEPT ![s].pc = pc]

StartText(n, v) ==
  /\ sender[n].pc = "idle"
  /\ count["text"] < MaxTexts
  /\ Happened("text")
  /\ sender' = [sender EXCEPT ![n] = [Idle EXCEPT !.pc = "check", !.voter = v]]
  /\ UNCHANGED <<campaign, request, place, queue, suppressed, tried, late>>

(* The worker with the n-th job in hand.                                   *)
Holding(n) == [pc |-> "check", voter |-> stream[n], job |-> n, sent |-> FALSE]

(* Mutant: the consumer acknowledges what it fetches.                      *)
TakeAndAcknowledge(n) ==
  /\ sender[Worker].pc = "idle"
  /\ jobs[n] > 0
  /\ jobs' = [jobs EXCEPT ![n] = @ - 1]
  /\ sender' = [sender EXCEPT ![Worker] =
                  IF campaign.status = "sending" THEN Holding(n) ELSE Idle]
  /\ UNCHANGED <<campaign, request, place, stream, suppressed, tried, late, count>>

(* A job of a campaign that is not sending is acknowledged and forgotten.  *)
TakeJob(n) ==
  /\ sender[Worker].pc = "idle"
  /\ jobs[n] > 0
  /\ IF campaign.status = "sending"
     THEN /\ sender' = [sender EXCEPT ![Worker] = Holding(n)]
          /\ UNCHANGED jobs
     ELSE /\ jobs' = [jobs EXCEPT ![n] = @ - 1]
          /\ UNCHANGED sender
  /\ UNCHANGED <<campaign, request, place, stream, suppressed, tried, late, count>>

(* Loading the campaign or the configuration fails: the job is not         *)
(* acknowledged and comes back.                                            *)
JobFails ==
  /\ sender[Worker].pc = "check"
  /\ Fails("failed")
  /\ sender' = [sender EXCEPT ![Worker] = Idle]
  /\ UNCHANGED <<campaign, request, place, queue, suppressed, tried, late>>

(* A request carries the claims of its user, the worker's context none.    *)
HasClaims(s) == s # Worker

(* A send that will not happen ends a request with an error, and a job is  *)
(* counted as failed.                                                      *)
Refuse(s) ==
  sender' = [sender EXCEPT ![s] = IF s = Worker THEN [@ EXCEPT !.pc = "count"] ELSE Idle]

(* Mutant: a check that fails lets the text through.                       *)
CheckFailsOpen(s) ==
  /\ sender[s].pc = "check"
  /\ Fails("failed")
  /\ Do(s, "send")
  /\ UNCHANGED <<campaign, request, place, queue, suppressed, tried, late>>

(* The check itself fails: closed.                                         *)
CheckFails(s) ==
  /\ sender[s].pc = "check"
  /\ Fails("failed")
  /\ Refuse(s)
  /\ UNCHANGED <<campaign, request, place, queue, suppressed, tried, late>>

(* IsVoterSuppressed needs claims, and an error counts as suppressed.      *)
CheckSendAllowed(s) ==
  /\ sender[s].pc = "check"
  /\ IF HasClaims(s) /\ sender[s].voter \notin suppressed THEN Do(s, "send") ELSE Refuse(s)
  /\ UNCHANGED <<campaign, request, place, queue, suppressed, tried, late, count>>

(* The voter's phone is empty.                                             *)
NoPhone(s) ==
  /\ sender[s].pc = "send" /\ sender[s].voter \notin Targets
  /\ Refuse(s)
  /\ UNCHANGED <<campaign, request, place, queue, suppressed, tried, late, count>>

(* The text leaves: the provider accepts it.                               *)
CreateMessage(s) ==
  LET v == sender[s].voter
  IN  /\ sender[s].pc = "send" /\ v \in Targets
      /\ late' = IF v \in suppressed THEN [late EXCEPT ![s][v] = @ + 1] ELSE late
      /\ sender' = [sender EXCEPT ![s] =
                      IF s = Worker THEN [@ EXCEPT !.pc = "count", !.sent = TRUE] ELSE Idle]
      /\ UNCHANGED <<campaign, request, place, queue, suppressed, tried, count>>

ProviderRefuses(s) ==
  /\ sender[s].pc = "send" /\ sender[s].voter \in Targets
  /\ Fails("failed")
  /\ Refuse(s)
  /\ UNCHANGED <<campaign, request, place, queue, suppressed, tried, late>>

(* Mutant: a blocked job is not counted.                                   *)
CountSentOnly ==
  /\ sender[Worker].pc = "count"
  /\ campaign' = IF sender[Worker].sent THEN [campaign EXCEPT !.sent = @ + 1] ELSE campaign
  /\ tried' = tried \cup {sender[Worker].job}
  /\ Do(Worker, "completion")
  /\ UNCHANGED <<request, place, queue, suppressed, late, count>>

(* One more job sent or failed.                                            *)
IncrementCount ==
  /\ sender[Worker].pc = "count"
  /\ campaign' = IF sender[Worker].sent THEN [campaign EXCEPT !.sent = @ + 1]
                                        ELSE [campaign EXCEPT !.failed = @ + 1]
  /\ tried' = tried \cup {sender[Worker].job}
  /\ Do(Worker, "completion")
  /\ UNCHANGED <<request, place, queue, suppressed, late, count>>

(* The increment fails: a warning in the log.                              *)
IncrementFails ==
  /\ sender[Worker].pc = "count"
  /\ Fails("failed")
  /\ tried' = tried \cup {sender[Worker].job}
  /\ Do(Worker, "completion")
  /\ UNCHANGED <<campaign, request, place, queue, suppressed, late>>

Acknowledge == /\ jobs' = [jobs EXCEPT ![sender[Worker].job] = @ - 1]
               /\ sender' = [sender EXCEPT ![Worker] = Idle]

(* Mutant: the job in hand is counted a second time.                       *)
AllButOneCounted ==
  campaign.sent + campaign.failed + 1 >= campaign.total /\ campaign.total > 0

AllCounted == campaign.sent + campaign.failed >= campaign.total /\ campaign.total > 0

CheckCampaignCompletion ==
  /\ sender[Worker].pc = "completion"
  /\ IF AllCounted THEN Do(Worker, "complete") /\ UNCHANGED jobs ELSE Acknowledge
  /\ UNCHANGED <<campaign, request, place, stream, suppressed, tried, late, count>>

(* The status is written without a look at the one it replaces.            *)
Complete ==
  /\ sender[Worker].pc = "complete"
  /\ SetStatus("completed")
  /\ Acknowledge
  /\ UNCHANGED <<request, place, stream, suppressed, tried, late, count>>

(* Reading the counts or writing the status fails: a warning in the log.   *)
CompletionFails ==
  /\ sender[Worker].pc \in {"completion", "complete"}
  /\ Fails("failed")
  /\ Acknowledge
  /\ UNCHANGED <<campaign, request, place, stream, suppressed, tried, late>>

-----------------------------------------------------------------------------
(* The queue delivers a job again: its acknowledgement came after the      *)
(* consumer's AckWait, which a batch fetched ahead of a worker that takes  *)
(* one job a second exceeds, or was lost.                                  *)
Redeliver(n) ==
  /\ jobs[n] > 0
  /\ Fails("redelivered")
  /\ jobs' = [jobs EXCEPT ![n] = @ + 1]
  /\ UNCHANGED <<campaign, request, place, stream, sender, suppressed, tried, late>>

(* The server goes down and comes back: requests and the job in hand are   *)
(* gone, the queue and the tables stay.                                    *)
Crash ==
  /\ Fails("killed")
  /\ request' = [r \in Requests |-> NoRequest]
  /\ sender' = [s \in Senders |-> Idle]
  /\ UNCHANGED <<campaign, place, queue, suppressed, tried, late>>

Stop(v) ==
  /\ count["keyword"] < MaxKeywords
  /\ Happened("keyword")
  /\ suppressed' = suppressed \cup {v}
  /\ UNCHANGED <<campaign, request, place, queue, sender, tried, late>>

Start(v) ==
  /\ v \in suppressed
  /\ count["keyword"] < MaxKeywords
  /\ Happened("keyword")
  /\ suppressed' = suppressed \ {v}
  /\ late' = [s \in Senders |-> [late[s] EXCEPT ![v] = 0]]
  /\ UNCHANGED <<campaign, request, place, queue, sender, tried>>

(* An import replaces a voter's phone and first name.                      *)
ImportVoter(v) ==
  /\ count["moved"] + count["lost"] < MaxChanges
  /\ \E k \in {0} \cup {StartPlace[u] : u \in Voters} :
       /\ k # place[v]
       /\ place' = [place EXCEPT ![v] = k]
       /\ Happened(IF k = 0 THEN "lost" ELSE "moved")
  /\ UNCHANGED <<campaign, request, queue, sender, suppressed, tried, late>>

-----------------------------------------------------------------------------
RequestStep(r) ==
  \/ CountTargets(r) \/ UpdateCampaignTotalRecipients(r) \/ StartSending(r)
  \/ ListTargets(r) \/ Publish(r) \/ WritePaused(r)

SendStep(s) == CheckSendAllowed(s) \/ NoPhone(s) \/ CreateMessage(s)

QueueStep ==
  \/ \E n \in DOMAIN jobs : TakeJob(n)
  \/ IncrementCount \/ CheckCampaignCompletion \/ Complete

Fault ==
  \/ JobFails \/ IncrementFails \/ CompletionFails
  \/ \E s \in Senders : CheckFails(s) \/ ProviderRefuses(s)
  \/ \E r \in Requests : RequestFails(r) \/ PublishFails(r)
  \/ \E n \in DOMAIN jobs : Redeliver(n)
  \/ Crash

Next ==
  \/ \E r \in Requests : \/ RequestStep(r)
                         \/ Launch(r) \/ PauseCampaign(r) \/ CancelCampaign(r)
  \/ QueueStep
  \/ \E s \in Senders : SendStep(s)
  \/ \E v \in Voters : \/ \E n \in Navigators : StartText(n, v)
                       \/ Stop(v) \/ Start(v) \/ ImportVoter(v)
  \/ Fault

Spec == Init /\ [][Next]_vars

(* Requests and the worker run on.                                         *)
FairSpec ==
  /\ Spec
  /\ WF_vars(QueueStep \/ SendStep(Worker))
  /\ \A r \in Requests : WF_vars(RequestStep(r))
-----------------------------------------------------------------------------
(* Properties.                                                             *)

(* The types of all variables.                                             *)
TypeOK ==
  /\ campaign \in [status : {"draft", "sending", "paused", "cancelled", "completed"},
                   total : 0 .. Cardinality(Voters), sent : Nat, failed : Nat]
  /\ request \in [Requests -> [pc : {"none", "count", "total", "sending", "list", "publish",
                                     "pause"},
                               total : 0 .. Cardinality(Voters), next : Nat \ {0}, page : Page]]
  /\ \A r \in Requests : At(r, "publish") => request[r].next \in DOMAIN request[r].page
  /\ place \in [Voters -> Nat]
  /\ stream \in Seq(Voters) /\ jobs \in Seq(Nat) /\ Len(jobs) = Len(stream)
  /\ sender \in [Senders -> [pc : {"idle", "check", "send", "count", "completion",
                                  "complete"},
                             voter : Voters \cup {Nobody}, job : Nat, sent : BOOLEAN]]
  /\ suppressed \subseteq Voters
  /\ tried \subseteq DOMAIN stream
  /\ late \in [Senders -> [Voters -> Nat]]
  /\ count \in [Events -> Nat]

Tried(v) == \E n \in tried : stream[n] = v

(* A campaign launched once and completed, whose jobs were delivered once  *)
(* while the targets stayed as they were.                                  *)
CompletedAtOnce ==
  /\ campaign.status = "completed"
  /\ count["launched"] = 1
  /\ count["redelivered"] + count["killed"] + count["moved"] + count["lost"] = 0

(* checkCampaignCompletion marks a campaign completed only when the job of *)
(* every target was tried whose name no other target has, whatever         *)
(* statement failed and whoever paused or cancelled meanwhile.             *)
CompletedMeansAllTried ==
  CompletedAtOnce =>
    \A v \in Targets : (\A u \in Targets : place[u] = place[v] => u = v) => Tried(v)

(* LaunchCampaign publishes the send jobs of the targets it counted: a     *)
(* completed campaign has tried them all.                                  *)
EveryTargetIsTried == CompletedAtOnce => \A v \in Targets : Tried(v)

(* The suppression list is asked at send time, closed when it cannot be    *)
(* asked: once a voter is on it, a sender completes at most the one text   *)
(* whose check came first.                                                 *)
StopTakesEffect == \A s \in Senders, v \in Voters : late[s][v] <= 1

Undisturbed == count["failed"] + count["unpublished"] + count["killed"] + count["lost"] = 0

(* A campaign does not stay in 'sending': while nothing fails and no voter *)
(* loses its phone, whatever the administrators do at once and the imports *)
(* change, it is completed, paused or cancelled.                           *)
CampaignSettles ==
  campaign.status = "sending" ~> (campaign.status # "sending" \/ ~Undisturbed)

(* A text of a campaign fails only for a reason (sms_worker.go: a campaign *)
(* send checks suppression, renders the template, sends via Twilio A2P):   *)
(* nothing failed and nobody ever opted out, so no job counts as failed.   *)
FailedForAReason ==
  (Undisturbed /\ count["keyword"] = 0) => campaign.failed = 0
=============================================================================
