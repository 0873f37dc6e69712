---------------------------- MODULE SmsWebhooks ----------------------------
(***************************************************************************)
(* What the text provider tells the server: the texts voters send, among   *)
(* them the keywords STOP and START, and how the delivery of a navigator's *)
(* text goes on.  The provider calls a webhook, the webhook publishes an   *)
(* event to a JetStream stream, and one consumer per stream works on one   *)
(* event after the other: it stores the text and keeps the suppression     *)
(* list, or writes the status into the row of the text.  An event is       *)
(* acknowledged with its last statement, so a step is one statement.       *)
(***************************************************************************)
EXTENDS Integers, Sequences, FiniteSets, SequencesExt

CONSTANTS
  Voters,
  Phones,      (* numbers voters write from                                *)
  OwnersOf,    (* OwnersOf[p]: voters with the number p, none if unknown   *)
  Messages,    (* texts navigators send                                    *)
  Nobody,      (* no voter                                                 *)
  MaxEvents,   (* bound: texts of voters and of navigators, and changes an *)
               (* administrator makes to the list, together                *)
  MaxFaults    (* bound: faults of every kind together                     *)

ASSUME WebhookAssumption ==
  /\ Phones \cap Messages = {}
  /\ OwnersOf \in [Phones -> SUBSET Voters]
  /\ \A p, q \in Phones : p = q \/ OwnersOf[p] \cap OwnersOf[q] = {}  (* a voter has one number *)
  /\ Nobody \notin Voters
  /\ {MaxEvents, MaxFaults} \subseteq Nat

VARIABLES
  said,        (* said[x]: words of the phone, or statuses of the text, x  *)
  calls,       (* events whose webhook the provider is calling             *)
  queue,       (* queue[s]: the events of stream s, in order of delivery   *)
  worker,      (* worker[s]: the event in the consumer's hand              *)
  stored,      (* inbound rows of sms_messages                             *)
  row,         (* row[m]: status in the outbound row of text m             *)
  sending,     (* sending[m]: the request that sends text m                *)
  suppressed,  (* suppression_list                                         *)
  byStaff,     (* voters whose place on the list an administrator wrote    *)
  newest,      (* newest[x]: the newest event of x taken so far            *)
  muddled,     (* sources with an event lost or taken after a newer one    *)
  count        (* how often each bounded event has happened                *)

storage == <<stored, row, sending>>
list == <<suppressed, byStaff>>
history == <<newest, muddled>>
vars == <<said, calls, queue, worker, storage, list, history, count>>

Sources == Phones \cup Messages
Stream(x) == IF x \in Phones THEN "inbound" ELSE "status"
Streams == {"inbound", "status"}

(* The nr-th word of x.                                                    *)
Event(x, nr) == [of |-> x, nr |-> nr]
Word(e) == said[e.of][e.nr]
Told == {Event(x, nr) : x \in Sources, nr \in 1 .. MaxEvents + 2}
Happened == {e \in Told : e.nr <= Len(said[e.of])}

Idle == [pc |-> "idle", event |-> <<>>, voter |-> Nobody]

Init ==
  /\ said = [x \in Sources |-> <<>>]
  /\ calls = {}
  /\ queue = [s \in Streams |-> <<>>]
  /\ worker = [s \in Streams |-> Idle]
  /\ stored = {}
  /\ row = [m \in Messages |-> "none"]
  /\ sending = [m \in Messages |-> "none"]
  /\ suppressed = {} /\ byStaff = {}
  /\ newest = [x \in Sources |-> 0] /\ muddled = {}
  /\ count = [what \in {"event", "fault"} |-> 0]

Counted(what, max) == count[what] < max /\ count' = [count EXCEPT ![what] = @ + 1]
Fails == Counted("fault", MaxFaults)

Say(x, word) ==
  /\ said' = [said EXCEPT ![x] = Append(@, word)]
  /\ calls' = calls \cup {Event(x, Len(said[x]) + 1)}

Lost(events) == muddled' = muddled \cup {e.of : e \in events}
-----------------------------------------------------------------------------
(* Outside: voters, the provider, a navigator's request, administrators.   *)

WriteText(p, word) ==
  /\ Counted("event", MaxEvents)
  /\ Say(p, word)
  /\ UNCHANGED <<queue, worker, storage, list, history>>

(* SendP2P: the provider accepts the text, then its row is inserted.       *)
CreateMessage(m) ==
  /\ sending[m] = "none"
  /\ Counted("event", MaxEvents)
  /\ sending' = [sending EXCEPT ![m] = "insert"]
  /\ UNCHANGED <<said, calls, queue, worker, stored, row, list, history>>

InsertSMSMessage(m) ==
  /\ sending[m] = "insert"
  /\ row' = [row EXCEPT ![m] = "queued"]
  /\ sending' = [sending EXCEPT ![m] = "done"]
  /\ UNCHANGED <<said, calls, queue, worker, stored, list, history, count>>

(* The request returns an error, though the text is on its way.            *)
InsertSMSMessageFails(m) ==
  /\ sending[m] = "insert"
  /\ Fails
  /\ sending' = [sending EXCEPT ![m] = "done"]
  /\ muddled' = muddled \cup {m}
  /\ UNCHANGED <<said, calls, queue, worker, stored, row, list, newest>>

(* "sent", then how it ended.                                              *)
Progress(m, status) ==
  /\ sending[m] # "none"
  /\ \/ said[m] = <<>> /\ status = "sent"
     \/ said[m] = <<"sent">> /\ status \in {"delivered", "undelivered"}
  /\ Say(m, status)
  /\ UNCHANGED <<queue, worker, storage, list, history, count>>

(* AddToSuppressionList and RemoveFromSuppressionList.                     *)
ChangeList(v) ==
  /\ Counted("event", MaxEvents)
  /\ \E on \in BOOLEAN : suppressed' = IF on THEN suppressed \cup {v} ELSE suppressed \ {v}
  /\ byStaff' = byStaff \cup {v}
  /\ UNCHANGED <<said, calls, queue, worker, storage, history>>

-----------------------------------------------------------------------------
(* HandleInbound and HandleStatus; two calls overtake each other.          *)

Publish(e) ==
  /\ e \in calls
  /\ calls' = calls \ {e}
  /\ queue' = [queue EXCEPT ![Stream(e.of)] = Append(@, e)]
  /\ UNCHANGED <<said, worker, storage, list, history, count>>

(* The answer is 200 all the same, so the provider does not try again.     *)
PublishFails(e) ==
  /\ e \in calls
  /\ Fails
  /\ calls' = calls \ {e}
  /\ Lost({e})
  /\ UNCHANGED <<said, queue, worker, storage, list, newest>>

(* The provider has not got the answer and calls again.                    *)
CallAgain(e) ==
  /\ e \in Happened \ calls
  /\ Fails
  /\ calls' = calls \cup {e}
  /\ UNCHANGED <<said, queue, worker, storage, list, history>>

-----------------------------------------------------------------------------
(* The consumers.                                                          *)

InHand(s) == worker[s].event
At(s, pc) == worker[s].pc = pc
Acknowledge(s) == worker' = [worker EXCEPT ![s] = Idle]

(* Delivered again, before or after the events fetched already.            *)
BackInto(s) == \E k \in 1 .. Len(queue[s]) + 1 :
                 queue' = [queue EXCEPT ![s] = InsertAt(@, k, InHand(s))]

Nak(s) == Fails /\ BackInto(s) /\ Acknowledge(s)

(* Mutant: what was delivered before is left in the stream.                *)
TakeNew(s) ==
  /\ At(s, "idle") /\ queue[s] # <<>>
  /\ LET e == Head(queue[s])
     IN  /\ e.nr > newest[e.of]
         /\ worker' = [worker EXCEPT ![s] =
                         [Idle EXCEPT !.event = e, !.pc = IF s = "inbound" THEN "lookup" ELSE "update"]]
         /\ newest' = [newest EXCEPT ![e.of] = e.nr]
  /\ queue' = [queue EXCEPT ![s] = Tail(@)]
  /\ UNCHANGED <<said, calls, storage, list, muddled, count>>

Take(s) ==
  /\ At(s, "idle") /\ queue[s] # <<>>
  /\ LET e == Head(queue[s])
     IN  /\ worker' = [worker EXCEPT ![s] =
                         [Idle EXCEPT !.event = e, !.pc = IF s = "inbound" THEN "lookup" ELSE "update"]]
         /\ muddled' = IF e.nr < newest[e.of] THEN muddled \cup {e.of} ELSE muddled
         /\ newest' = [newest EXCEPT ![e.of] = IF e.nr > @ THEN e.nr ELSE @]
  /\ queue' = [queue EXCEPT ![s] = Tail(@)]
  /\ UNCHANGED <<said, calls, storage, list, count>>

(* The acknowledgement is lost, or later than AckWait.                     *)
Redeliver(s) ==
  /\ ~At(s, "idle")
  /\ Fails
  /\ BackInto(s)
  /\ UNCHANGED <<said, calls, worker, storage, list, history>>

(* Mutant: an unknown number is stored without a voter.                    *)
LookUpOrNobody ==
  /\ At("inbound", "lookup")
  /\ \E v \in IF OwnersOf[InHand("inbound").of] = {} THEN {Nobody} ELSE OwnersOf[InHand("inbound").of] :
       worker' = [worker EXCEPT !["inbound"].pc = "insert", !["inbound"].voter = v]
  /\ UNCHANGED <<said, calls, queue, storage, list, history, count>>

(* Any voter with the number; a text from an unknown one is dropped.       *)
GetVoterByPhone ==
  /\ At("inbound", "lookup")
  /\ \/ \E v \in OwnersOf[InHand("inbound").of] :
          worker' = [worker EXCEPT !["inbound"].pc = "insert", !["inbound"].voter = v]
     \/ OwnersOf[InHand("inbound").of] = {} /\ Acknowledge("inbound")
  /\ UNCHANGED <<said, calls, queue, storage, list, history, count>>

(* A lookup that fails counts as an unknown number.                        *)
GetVoterByPhoneFails ==
  /\ At("inbound", "lookup")
  /\ Fails
  /\ Acknowledge("inbound")
  /\ Lost({InHand("inbound")})
  /\ UNCHANGED <<said, calls, queue, storage, list, newest>>

Keywords == {"STOP", "START"}

(* Mutant: a text that is stored already was handled already.              *)
InsertOrSkip ==
  LET e == InHand("inbound")
  IN  /\ At("inbound", "insert")
      /\ stored' = stored \cup {e}
      /\ IF Word(e) \in Keywords /\ e \notin stored
         THEN worker' = [worker EXCEPT !["inbound"].pc = "optout"]
         ELSE Acknowledge("inbound")
      /\ UNCHANGED <<said, calls, queue, row, sending, list, history, count>>

(* A text that is stored already still has its keyword processed.          *)
InsertSMSMessageIdempotent ==
  LET e == InHand("inbound")
  IN  /\ At("inbound", "insert")
      /\ stored' = stored \cup {e}
      /\ IF Word(e) \in Keywords THEN worker' = [worker EXCEPT !["inbound"].pc = "optout"]
                                 ELSE Acknowledge("inbound")
      /\ UNCHANGED <<said, calls, queue, row, sending, list, history, count>>

InsertFails ==
  /\ At("inbound", "insert")
  /\ Nak("inbound")
  /\ UNCHANGED <<said, calls, storage, list, history>>

ProcessOptOut ==
  LET v == worker["inbound"].voter
  IN  /\ At("inbound", "optout")
      /\ suppressed' = IF Word(InHand("inbound")) = "STOP" THEN suppressed \cup {v}
                                                           ELSE suppressed \ {v}
      /\ byStaff' = byStaff \ {v}
      /\ Acknowledge("inbound")
      /\ UNCHANGED <<said, calls, queue, storage, history, count>>

(* An error in the log: the text is acknowledged.                          *)
OptOutFails ==
  /\ At("inbound", "optout")
  /\ Fails
  /\ Acknowledge("inbound")
  /\ Lost({InHand("inbound")})
  /\ UNCHANGED <<said, calls, queue, storage, list, newest>>

(* Mutant: only a row that is still queued is written.                     *)
UpdateQueuedOnly ==
  LET e == InHand("status")
  IN  /\ At("status", "update")
      /\ row' = [row EXCEPT ![e.of] = IF @ = "queued" THEN Word(e) ELSE @]
      /\ IF row[e.of] = "none" THEN Lost({e}) ELSE UNCHANGED muddled
      /\ Acknowledge("status")
      /\ UNCHANGED <<said, calls, queue, stored, sending, list, newest, count>>

(* Whatever status the row has; without a row no row is written, and that  *)
(* is no error.                                                            *)
UpdateSMSMessageStatus ==
  LET e == InHand("status")
  IN  /\ At("status", "update")
      /\ row' = [row EXCEPT ![e.of] = IF @ = "none" THEN @ ELSE Word(e)]
      /\ IF row[e.of] = "none" THEN Lost({e}) ELSE UNCHANGED muddled
      /\ Acknowledge("status")
      /\ UNCHANGED <<said, calls, queue, stored, sending, list, newest, count>>

UpdateFails ==
  /\ At("status", "update")
  /\ Nak("status")
  /\ UNCHANGED <<said, calls, storage, list, history>>

(* The server goes down: an event in hand comes back, a request is gone,   *)
(* and the provider may call an unanswered webhook again or give up.       *)
Crash ==
  /\ Fails
  /\ \E again \in SUBSET calls :
       /\ calls' = again
       /\ muddled' = muddled \cup {e.of : e \in calls \ again}
                            \cup {m \in Messages : sending[m] = "insert"}
  /\ sending' = [m \in Messages |-> IF sending[m] = "insert" THEN "done" ELSE sending[m]]
  /\ queue' = [s \in Streams |-> IF At(s, "idle") THEN queue[s] ELSE Append(queue[s], InHand(s))]
  /\ worker' = [s \in Streams |-> Idle]
  /\ UNCHANGED <<said, stored, row, list, newest>>
-----------------------------------------------------------------------------
Outside ==
  \/ \E p \in Phones, word \in Keywords \cup {"other"} : WriteText(p, word)
  \/ \E m \in Messages : \/ CreateMessage(m)
                         \/ \E status \in {"sent", "delivered", "undelivered"} : Progress(m, status)
  \/ \E v \in Voters : ChangeList(v)

Inbound ==
  \/ Take("inbound") \/ GetVoterByPhone \/ InsertSMSMessageIdempotent \/ ProcessOptOut

Status == Take("status") \/ UpdateSMSMessageStatus

Handle == \E e \in calls : Publish(e)
InsertRow == \E m \in Messages : InsertSMSMessage(m)

Fault ==
  \/ GetVoterByPhoneFails \/ InsertFails \/ OptOutFails \/ UpdateFails
  \/ \E s \in Streams : Redeliver(s)
  \/ \E e \in Happened : PublishFails(e) \/ CallAgain(e)
  \/ \E m \in Messages : InsertSMSMessageFails(m)
  \/ Crash

Next == Outside \/ Handle \/ InsertRow \/ Inbound \/ Status \/ Fault

Spec == Init /\ [][Next]_vars

(* Webhook calls and requests end, and the consumers run on.               *)
FairSpec ==
  Spec /\ WF_vars(Handle) /\ WF_vars(InsertRow) /\ WF_vars(Inbound) /\ WF_vars(Status)
-----------------------------------------------------------------------------
(* Properties.                                                             *)

(* The types of all variables.                                             *)
TypeOK ==
  /\ \A x \in Sources : said[x] \in Seq(IF x \in Phones THEN Keywords \cup {"other"}
                                        ELSE {"sent", "delivered", "undelivered"})
  /\ calls \subseteq Happened
  /\ \A s \in Streams : /\ queue[s] \in Seq(Happened)
                        /\ worker[s].pc \in {"idle", "lookup", "insert", "optout", "update"}
                        /\ At(s, "idle") \/ InHand(s) \in Happened
                        /\ worker[s].voter \in Voters \cup {Nobody}
  /\ stored \subseteq Happened
  /\ row \in [Messages -> {"none", "queued", "sent", "delivered", "undelivered"}]
  /\ sending \in [Messages -> {"none", "insert", "done"}]
  /\ suppressed \subseteq Voters /\ byStaff \subseteq Voters
  /\ newest \in [Sources -> Nat] /\ muddled \subseteq Sources
  /\ count \in [{"event", "fault"} -> Nat]

Waiting(x) == {e \in Happened : /\ e.of = x
                                /\ \/ e \in calls \/ e \in ToSet(queue[Stream(x)])
                                   \/ worker[Stream(x)].event = e}

(* The last keyword that was sent from p.                                  *)
LastKeywordIs(p, word) ==
  \E i \in DOMAIN said[p] : /\ said[p][i] = word
                            /\ \A j \in DOMAIN said[p] : j > i => said[p][j] \notin Keywords

(* Once the texts from a number of a single voter are handled, the voter   *)
(* is on the suppression list exactly if the last keyword was STOP, be the *)
(* texts delivered twice, cut off by a crash or sent back by the consumer; *)
(* excepted are a text that was lost or taken after a newer one, and a     *)
(* later change by an administrator.                                       *)
LastWordStands ==
  \A p \in Phones \ muddled, v \in Voters \ byStaff :
    (OwnersOf[p] = {v} /\ Waiting(p) = {}) =>
      \A word \in Keywords :
        LastKeywordIs(p, word) => (v \in suppressed <=> word = "STOP")

(* Once the reports about a text are handled, its row tells the last one,  *)
(* unless one was lost, came before the row or was taken after a newer one.*)
RowTellsDelivery ==
  \A m \in Messages \ muddled :
    (row[m] # "none" /\ said[m] # <<>> /\ Waiting(m) = {}) => row[m] = Last(said[m])

(* A voter whose last keyword is STOP ends up on the list, whatever        *)
(* statement fails or is repeated, if no text of theirs is lost or out of  *)
(* order, no START follows and no administrator changes the list.          *)
StopIsHeeded ==
  \A p \in Phones : \A v \in Voters :
    (OwnersOf[p] = {v} /\ LastKeywordIs(p, "STOP"))
      ~> (v \in suppressed \cup byStaff \/ p \in muddled \/ LastKeywordIs(p, "START"))
=============================================================================
