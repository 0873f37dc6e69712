-------------------------- MODULE SmsWebhooksProofs --------------------------
(***************************************************************************)
(* Proofs about SmsWebhooks, for every set of voters, phones and texts,    *)
(* and any number of events and faults.                                    *)
(***************************************************************************)
EXTENDS SmsWebhooks, SequenceTheorems, TLAPS

(* An event that is still on its way or in a consumer's hand.              *)
Pending(e) == \/ e \in calls
              \/ e \in ToSet(queue[Stream(e.of)])
              \/ worker[Stream(e.of)].event = e

Nrs(x) == 1 .. Len(said[x])

PhoneWords == Keywords \cup {"other"}
Reports == {"sent", "delivered", "undelivered"}
Ev == [of : Sources, nr : Nat]
Hands == [pc : {"idle", "lookup", "insert", "optout", "update"}, event : Ev \cup {<<>>},
          voter : Voters \cup {Nobody}]

(* The types, with the domains of the functions.                           *)
Types ==
  /\ said \in [Sources -> Seq(PhoneWords \cup Reports)]
  /\ \A p \in Phones : said[p] \in Seq(PhoneWords)
  /\ \A m \in Messages : said[m] \in Seq(Reports)
  /\ calls \subseteq Happened /\ stored \subseteq Happened
  /\ queue \in [Streams -> Seq(Ev)]
  /\ worker \in [Streams -> Hands]
  /\ row \in [Messages -> {"none", "queued"} \cup Reports]
  /\ sending \in [Messages -> {"none", "insert", "done"}]
  /\ suppressed \subseteq Voters /\ byStaff \subseteq Voters
  /\ newest \in [Sources -> Nat] /\ muddled \subseteq Sources
  /\ count \in [{"event", "fault"} -> Nat]

(* No source says more than the bounds allow.                              *)
Bounded ==
  /\ \A p \in Phones : Len(said[p]) <= count["event"]
  /\ \A m \in Messages : Len(said[m]) <= 2
  /\ count["event"] <= MaxEvents

(* A stream holds events of its sources, and its consumer is idle or has   *)
(* one of them in hand.                                                    *)
Streamed(s) ==
  /\ \A e \in ToSet(queue[s]) : e \in Happened /\ Stream(e.of) = s
  /\ ~At(s, "idle") => InHand(s) \in Happened /\ Stream(InHand(s).of) = s
  /\ At(s, "idle") => InHand(s) = <<>>

(* The consumers keep to their places.                                     *)
Placed ==
  /\ worker["inbound"].pc # "update"
  /\ worker["status"].pc \in {"idle", "update"}
  /\ worker["inbound"].pc \in {"insert", "optout"}
       => worker["inbound"].voter \in OwnersOf[InHand("inbound").of]
  /\ worker["inbound"].pc = "optout" => Word(InHand("inbound")) \in Keywords

StreamsInv == Bounded /\ (\A s \in Streams : Streamed(s)) /\ Placed

TypeInv == Types /\ StreamsInv

(* No event was taken that the source had not sent; a source none of whose *)
(* events was lost or taken out of order has those after its newest still  *)
(* on their way, and its newest is the one in the consumer's hand.         *)
OrderInv ==
  /\ \A x \in Sources : newest[x] <= Len(said[x])
  /\ \A x \in Sources \ muddled :
       /\ \A i \in Nrs(x) : i > newest[x]
            => Event(x, i) \in calls \cup ToSet(queue[Stream(x)])
       /\ (~At(Stream(x), "idle") /\ InHand(Stream(x)).of = x)
            => InHand(Stream(x)).nr = newest[x]

(* A keyword that is through stands until a later one of its phone is      *)
(* taken up.                                                               *)
HeedInv ==
  \A p \in Phones \ muddled, v \in Voters \ byStaff : OwnersOf[p] = {v} =>
    \A i \in Nrs(p) : (said[p][i] \in Keywords /\ ~Pending(Event(p, i))) =>
      \/ v \in suppressed <=> said[p][i] = "STOP"
      \/ \E j \in Nrs(p) : i < j /\ j <= newest[p] /\ said[p][j] \in Keywords

(* A status that is through stands in the row until a later one is taken   *)
(* up.                                                                     *)
RowInv ==
  /\ \A m \in Messages : sending[m] # "done" => row[m] = "none"
  /\ \A m \in Messages \ muddled : \A i \in Nrs(m) :
       ~Pending(Event(m, i)) => /\ row[m] # "none"
                                /\ row[m] = said[m][i] \/ i < newest[m]

-----------------------------------------------------------------------------
(* What the operators on sequences do to the set of a sequence's elements. *)

LEMMA SetOfSeq ==
  ASSUME NEW S, NEW q \in Seq(S)
  PROVE  ToSet(q) \subseteq S
BY DEF ToSet

LEMMA SeqOfSet ==
  ASSUME NEW S, NEW T, NEW q \in Seq(S), ToSet(q) \subseteq T
  PROVE  q \in Seq(T)
BY DEF ToSet

LEMMA SetOfAppend ==
  ASSUME NEW S, NEW q \in Seq(S), NEW e \in S
  PROVE  /\ Append(q, e) \in Seq(S)
         /\ ToSet(Append(q, e)) = ToSet(q) \cup {e}
BY AppendProperties DEF ToSet

LEMMA SetOfTail ==
  ASSUME NEW S, NEW q \in Seq(S), q # <<>>
  PROVE  /\ Head(q) \in S /\ Tail(q) \in Seq(S)
         /\ ToSet(q) = ToSet(Tail(q)) \cup {Head(q)}
<1>1. Head(q) \in S /\ Tail(q) \in Seq(S) /\ Len(q) \in Nat \ {0}
  BY EmptySeq, HeadTailProperties
<1>2. ToSet(q) \subseteq ToSet(Tail(q)) \cup {Head(q)}
  <2>1. ASSUME NEW i \in DOMAIN q PROVE q[i] \in ToSet(Tail(q)) \cup {Head(q)}
    <3>1. i = 1 \/ (i - 1 \in 1 .. Len(q) - 1 /\ q[i] = q[(i - 1) + 1])
      OBVIOUS
    <3>2. i - 1 \in 1 .. Len(q) - 1 => q[i] = Tail(q)[i - 1] /\ i - 1 \in DOMAIN Tail(q)
      BY HeadTailProperties
    <3> QED
      BY <3>1, <3>2 DEF ToSet
  <2> QED
    BY <2>1 DEF ToSet
<1>3. ToSet(Tail(q)) \cup {Head(q)} \subseteq ToSet(q)
  <2>1. ASSUME NEW i \in DOMAIN Tail(q) PROVE Tail(q)[i] \in ToSet(q)
    <3>1. i \in 1 .. Len(q) - 1 /\ Tail(q)[i] = q[i + 1] /\ i + 1 \in DOMAIN q
      BY HeadTailProperties
    <3> QED
      BY <3>1 DEF ToSet
  <2>2. Head(q) \in ToSet(q)
    BY <1>1 DEF ToSet
  <2> QED
    BY <2>1, <2>2 DEF ToSet
<1> QED
  BY <1>1, <1>2, <1>3

LEMMA SetOfInsert ==
  ASSUME NEW S, NEW q \in Seq(S), NEW e \in S, NEW k \in 1 .. Len(q) + 1
  PROVE  /\ InsertAt(q, k, e) \in Seq(S)
         /\ ToSet(InsertAt(q, k, e)) = ToSet(q) \cup {e}
<1> DEFINE before == SubSeq(q, 1, k - 1)
           after == SubSeq(q, k, Len(q))
           front == before \o <<e>>
<1>1. Len(q) \in Nat /\ k \in Nat /\ k >= 1 /\ k <= Len(q) + 1
  BY LenProperties
<1>2. /\ before \in Seq(S) /\ Len(before) = k - 1
      /\ \A i \in 1 .. k - 1 : before[i] = q[i]
  BY <1>1, SubSeqProperties, ElementOfSeq
<1>3. /\ after \in Seq(S) /\ Len(after) = Len(q) - k + 1
      /\ \A i \in 1 .. Len(q) - k + 1 : after[i] = q[k + i - 1]
  BY <1>1, SubSeqProperties, ElementOfSeq
<1>4. <<e>> \in Seq(S) /\ Len(<<e>>) = 1 /\ <<e>>[1] = e
  OBVIOUS
<1> HIDE DEF before, after
<1>5. /\ front \in Seq(S) /\ Len(front) = k
      /\ \A i \in 1 .. k : front[i] = IF i <= k - 1 THEN before[i] ELSE e
  <2>1. /\ front \in Seq(S) /\ Len(front) = Len(before) + 1
        /\ \A i \in 1 .. Len(before) + 1 :
             front[i] = IF i <= Len(before) THEN before[i] ELSE <<e>>[i - Len(before)]
    BY <1>2, <1>4, ConcatProperties
  <2> HIDE DEF front
  <2> QED
    BY <1>1, <1>2, <2>1
<1>6. InsertAt(q, k, e) = front \o after
  BY DEF InsertAt, before, after
<1> HIDE DEF front
<1>7. /\ front \o after \in Seq(S) /\ Len(front \o after) = Len(q) + 1
      /\ \A i \in 1 .. Len(q) + 1 :
           (front \o after)[i] = IF i <= k THEN front[i] ELSE after[i - k]
  <2>1. /\ front \o after \in Seq(S) /\ Len(front \o after) = Len(front) + Len(after)
        /\ \A i \in 1 .. Len(front) + Len(after) :
             (front \o after)[i] = IF i <= Len(front) THEN front[i] ELSE after[i - Len(front)]
    BY <1>3, <1>5, ConcatProperties
  <2>2. Len(front) + Len(after) = Len(q) + 1
    BY <1>1, <1>3, <1>5
  <2> QED
    BY <1>5, <2>1, <2>2
<1>8. PICK t : t = front \o after
  OBVIOUS
<1>9. /\ t \in Seq(S) /\ Len(t) = Len(q) + 1 /\ t[k] = e
      /\ \A i \in 1 .. Len(q) + 1 : i < k => t[i] = q[i]
      /\ \A i \in 1 .. Len(q) + 1 : i > k => t[i] = q[i - 1]
  <2>1. t[k] = e
    BY <1>1, <1>5, <1>7, <1>8
  <2>2. ASSUME NEW i \in 1 .. Len(q) + 1, i < k PROVE t[i] = q[i]
    <3>1. t[i] = front[i]
      BY <1>1, <1>7, <1>8, <2>2
    <3>2. i \in 1 .. k /\ i \in 1 .. k - 1 /\ i <= k - 1
      BY <1>1, <2>2
    <3> QED
      BY <1>2, <1>5, <3>1, <3>2
  <2>3. ASSUME NEW i \in 1 .. Len(q) + 1, i > k PROVE t[i] = q[i - 1]
    <3>0. ~(i <= k)
      BY <1>1, <2>3
    <3>1. t[i] = after[i - k]
      BY <1>7, <1>8, <3>0
    <3>2. i - k \in 1 .. Len(q) - k + 1 /\ k + (i - k) - 1 = i - 1
      BY <1>1, <2>3
    <3> QED
      BY <1>3, <3>1, <3>2
  <2> QED
    BY <1>7, <1>8, <2>1, <2>2, <2>3
<1>10. ToSet(t) = ToSet(q) \cup {e}
  <2>1. ASSUME NEW i \in 1 .. Len(q) + 1 PROVE t[i] \in ToSet(q) \cup {e}
    <3>1. i < k => i \in DOMAIN q
      BY <1>1
    <3>2. i > k => i - 1 \in DOMAIN q
      BY <1>1
    <3> QED
      BY <1>1, <1>9, <3>1, <3>2 DEF ToSet
  <2>2. ASSUME NEW i \in DOMAIN q PROVE q[i] \in ToSet(t)
    <3>1. i \in 1 .. Len(q) /\ DOMAIN t = 1 .. Len(q) + 1
      BY <1>9
    <3>2. CASE i < k
      BY <1>1, <1>9, <3>1, <3>2 DEF ToSet
    <3>3. CASE ~(i < k)
      <4>1. i + 1 \in 1 .. Len(q) + 1 /\ i + 1 > k /\ (i + 1) - 1 = i
        BY <1>1, <3>1, <3>3
      <4>2. t[i + 1] = q[i]
        BY <1>9, <4>1
      <4> QED
        BY <3>1, <4>1, <4>2 DEF ToSet
    <3> QED
      BY <3>2, <3>3
  <2>3. e \in ToSet(t) /\ DOMAIN t = 1 .. Len(q) + 1
    BY <1>1, <1>9 DEF ToSet
  <2> QED
    BY <2>1, <2>2, <2>3 DEF ToSet
<1> QED
  BY <1>6, <1>8, <1>9, <1>10

-----------------------------------------------------------------------------
(* Types.                                                                  *)

LEMMA KindsDiffer ==
  /\ Phones \cap Messages = {} /\ Sources = Phones \cup Messages
  /\ \A p \in Phones : Stream(p) = "inbound"
  /\ \A m \in Messages : Stream(m) = "status"
  /\ \A x \in Sources : Stream(x) \in Streams
  /\ \A x \in Sources : Stream(x) = "status" => x \in Messages
BY WebhookAssumption DEF Sources, Stream, Streams

LEMMA HappenedIs ==
  ASSUME Types, Bounded
  PROVE  /\ Happened \subseteq Ev
         /\ \A x \in Sources : Len(said[x]) \in Nat
         /\ \A e \in Ev : e \in Happened <=> e.nr \in Nrs(e.of)
         /\ \A x \in Sources, i \in Nat :
              /\ Event(x, i) \in Ev /\ Event(x, i).of = x /\ Event(x, i).nr = i
              /\ Event(x, i) \in Happened <=> i \in Nrs(x)
         /\ \A e \in Ev : e = Event(e.of, e.nr)
<1>1. \A x \in Sources : Len(said[x]) \in Nat
  BY DEF Types
<1>2. count["event"] \in Nat /\ MaxEvents \in Nat
  BY WebhookAssumption DEF Types
<1>3. \A x \in Sources : Len(said[x]) <= MaxEvents + 2
  <2>1. \A p \in Phones : Len(said[p]) <= MaxEvents + 2
    BY <1>1, <1>2 DEF Bounded, Sources
  <2>2. \A m \in Messages : Len(said[m]) <= MaxEvents + 2
    BY <1>1, <1>2 DEF Bounded, Sources
  <2> QED
    BY <2>1, <2>2 DEF Sources
<1>4. \A x \in Sources, i \in Nat :
        Event(x, i) \in Ev /\ Event(x, i).of = x /\ Event(x, i).nr = i
  BY DEF Event, Ev
<1>5. \A e \in Ev : e = Event(e.of, e.nr)
  BY DEF Event, Ev
<1>6. Told \subseteq Ev
  BY <1>2, <1>4 DEF Told
<1>7. ASSUME NEW e \in Ev PROVE e \in Happened <=> e.nr \in Nrs(e.of)
  <2>1. e.of \in Sources /\ e.nr \in Nat
    BY DEF Ev
  <2>2. ASSUME e.nr \in Nrs(e.of) PROVE e \in Told
    <3>1. e.nr \in 1 .. MaxEvents + 2
      BY <1>1, <1>2, <1>3, <2>1, <2>2 DEF Nrs
    <3> QED
      BY <1>5, <2>1, <3>1 DEF Told
  <2>3. ASSUME e \in Told PROVE e.nr >= 1
    <3>1. PICK x \in Sources, i \in 1 .. MaxEvents + 2 : e = Event(x, i)
      BY <2>3 DEF Told
    <3> QED
      BY <3>1 DEF Event
  <2> QED
    BY <1>1, <2>1, <2>2, <2>3 DEF Happened, Nrs
<1>8. Happened \subseteq Ev
  BY <1>6 DEF Happened
<1> QED
  BY <1>1, <1>4, <1>5, <1>7, <1>8

LEMMA TypeOKHolds == TypeInv => TypeOK
<1> SUFFICES ASSUME TypeInv PROVE TypeOK
  OBVIOUS
<1>1. \A x \in Sources : said[x] \in Seq(IF x \in Phones THEN Keywords \cup {"other"}
                                         ELSE {"sent", "delivered", "undelivered"})
  BY KindsDiffer DEF TypeInv, Types, PhoneWords, Reports
<1>2. ASSUME NEW s \in Streams
      PROVE  /\ queue[s] \in Seq(Happened)
             /\ worker[s].pc \in {"idle", "lookup", "insert", "optout", "update"}
             /\ At(s, "idle") \/ InHand(s) \in Happened
             /\ worker[s].voter \in Voters \cup {Nobody}
  <2>1. queue[s] \in Seq(Ev) /\ ToSet(queue[s]) \subseteq Happened
    BY DEF TypeInv, Types, StreamsInv, Streamed
  <2>2. queue[s] \in Seq(Happened)
    BY <2>1, SeqOfSet
  <2> QED
    BY <2>2 DEF TypeInv, Types, StreamsInv, Streamed, Hands
<1> QED
  BY <1>1, <1>2 DEF TypeOK, TypeInv, Types, Reports

LEMMA TypeInit == Init => TypeInv
<1> SUFFICES ASSUME Init PROVE TypeInv
  OBVIOUS
<1>1. MaxEvents \in Nat
  BY WebhookAssumption
<1>2. Idle \in Hands /\ Idle.pc = "idle" /\ Idle.event = <<>>
  BY DEF Idle, Hands
<1>3. Types
  BY <1>2 DEF Init, Types, Sources
<1>4. Bounded
  BY <1>1 DEF Init, Bounded, Sources
<1>5. \A s \in Streams : Streamed(s)
  BY <1>2 DEF Init, Streamed, At, InHand, ToSet
<1>6. Placed
  BY <1>2 DEF Init, Placed, Streams
<1> QED
  BY <1>3, <1>4, <1>5, <1>6 DEF TypeInv, StreamsInv

LEMMA StreamedKept ==
  ASSUME TypeInv, Happened \subseteq Happened', NEW s \in Streams,
         \A e \in ToSet(queue'[s]) :
           e \in ToSet(queue[s]) \/ (e \in Happened /\ Stream(e.of) = s),
         \/ worker'[s].pc = "idle" /\ worker'[s].event = <<>>
         \/ /\ worker'[s].pc # "idle"
            /\ worker'[s].event \in Happened /\ Stream(worker'[s].event.of) = s
         \/ worker'[s] = worker[s]
  PROVE  Streamed(s)'
<1>1. Streamed(s)
  BY DEF TypeInv, StreamsInv
<1>2. \A e \in ToSet(queue[s])' : e \in Happened' /\ Stream(e.of) = s
  BY <1>1 DEF Streamed
<1>3. /\ worker'[s].pc # "idle"
           => worker'[s].event \in Happened' /\ Stream(worker'[s].event.of) = s
      /\ worker'[s].pc = "idle" => worker'[s].event = <<>>
  BY <1>1 DEF Streamed, At, InHand
<1> QED
  BY <1>2, <1>3 DEF Streamed, At, InHand, Stream

(* A word more leaves the words before it.                                 *)
LEMMA SayAppends ==
  ASSUME TypeInv, NEW x \in Sources, NEW word \in PhoneWords \cup Reports, Say(x, word)
  PROVE  /\ said' \in [Sources -> Seq(PhoneWords \cup Reports)]
         /\ said'[x] = Append(said[x], word)
         /\ Len(said'[x]) = Len(said[x]) + 1 /\ Len(said[x]) \in Nat
         /\ said'[x][Len(said[x]) + 1] = word
         /\ \A i \in Nrs(x) : said'[x][i] = said[x][i]
         /\ \A y \in Sources \ {x} : said'[y] = said[y]
<1>1. said \in [Sources -> Seq(PhoneWords \cup Reports)]
  BY DEF TypeInv, Types
<1>2. said' = [said EXCEPT ![x] = Append(said[x], word)]
  BY DEF Say
<1>3. said'[x] = Append(said[x], word) /\ \A y \in Sources \ {x} : said'[y] = said[y]
  BY <1>1, <1>2
<1>4. /\ Append(said[x], word) \in Seq(PhoneWords \cup Reports)
      /\ Len(Append(said[x], word)) = Len(said[x]) + 1 /\ Len(said[x]) \in Nat
      /\ Append(said[x], word)[Len(said[x]) + 1] = word
      /\ \A i \in 1 .. Len(said[x]) : Append(said[x], word)[i] = said[x][i]
  BY <1>1, AppendProperties, LenProperties
<1> QED
  BY <1>1, <1>2, <1>3, <1>4 DEF Nrs

(* What a word more does, when the bounds allow it.                        *)
LEMMA SayTypes ==
  ASSUME TypeInv, NEW x \in Sources, NEW word \in PhoneWords \cup Reports, Say(x, word),
         x \in Phones => word \in PhoneWords, x \in Messages => word \in Reports,
         Bounded', count' \in [{"event", "fault"} -> Nat],
         UNCHANGED <<queue, worker, storage, list, history>>
  PROVE  /\ TypeInv'
         /\ Happened \subseteq Happened'
         /\ Event(x, Len(said[x]) + 1) \in Happened'
<1> DEFINE n == Len(said[x]) + 1
<1>1. /\ said' \in [Sources -> Seq(PhoneWords \cup Reports)]
      /\ said'[x] = Append(said[x], word) /\ Len(said[x]) \in Nat
      /\ Len(said'[x]) = n /\ \A i \in Nrs(x) : said'[x][i] = said[x][i]
      /\ \A y \in Sources \ {x} : said'[y] = said[y]
  BY SayAppends
<1>2. /\ \A p \in Phones : said'[p] \in Seq(PhoneWords)
      /\ \A m \in Messages : said'[m] \in Seq(Reports)
  <2>1. /\ \A p \in Phones : said[p] \in Seq(PhoneWords)
        /\ \A m \in Messages : said[m] \in Seq(Reports)
    BY DEF TypeInv, Types
  <2>2. x \in Phones => Append(said[x], word) \in Seq(PhoneWords)
    BY <2>1, AppendProperties
  <2>3. x \in Messages => Append(said[x], word) \in Seq(Reports)
    BY <2>1, AppendProperties
  <2> QED
    BY <1>1, <2>1, <2>2, <2>3 DEF Sources
<1>3. \A y \in Sources : Len(said[y]) <= Len(said'[y]) /\ Len(said[y]) \in Nat /\ Len(said'[y]) \in Nat
  <2>1. \A y \in Sources : Len(said[y]) \in Nat
    BY HappenedIs DEF TypeInv, StreamsInv
  <2> QED
    BY <1>1, <2>1
<1>4. ASSUME NEW y \in Sources PROVE Len(said'[y]) <= MaxEvents + 2
  <2>1. count'["event"] \in Nat /\ MaxEvents \in Nat
    BY WebhookAssumption
  <2>2. y \in Phones => Len(said'[y]) <= count'["event"]
    BY DEF Bounded
  <2>3. y \in Messages => Len(said'[y]) <= 2
    BY DEF Bounded
  <2>4. count'["event"] <= MaxEvents
    BY DEF Bounded
  <2> QED
    BY <1>3, <2>1, <2>2, <2>3, <2>4 DEF Sources
<1>5. Happened \subseteq Happened'
  <2>1. ASSUME NEW e \in Happened PROVE e \in Happened'
    <3>1. e \in Told /\ e \in Ev /\ e.nr <= Len(said[e.of])
      BY HappenedIs DEF TypeInv, StreamsInv, Happened
    <3>2. e.of \in Sources /\ e.nr \in Nat
      BY <3>1 DEF Ev
    <3>3. e.nr <= Len(said'[e.of])
      BY <1>3, <3>1, <3>2
    <3> QED
      BY <3>1, <3>3 DEF Happened
  <2> QED
    BY <2>1
<1>6. Event(x, n) \in Happened'
  <2>1. n \in 1 .. MaxEvents + 2
    BY <1>1, <1>4, WebhookAssumption
  <2>2. Event(x, n) \in Told
    BY <2>1 DEF Told
  <2>3. Event(x, n).nr <= Len(said'[Event(x, n).of])
    BY <1>1 DEF Event
  <2> QED
    BY <2>2, <2>3 DEF Happened
<1>7. calls' \subseteq Happened' /\ stored' \subseteq Happened'
  BY <1>5, <1>6 DEF Say, storage, TypeInv, Types
<1>8. Types'
  BY <1>1, <1>2, <1>7 DEF Types, TypeInv, storage, list, history
<1>9. \A s \in Streams : Streamed(s)'
  BY <1>5 DEF TypeInv, StreamsInv, Streamed, At, InHand
<1>10. Placed'
  <2>1. Placed
    BY DEF TypeInv, StreamsInv
  <2>2. ASSUME worker["inbound"].pc = "optout"
        PROVE  said'[InHand("inbound").of][InHand("inbound").nr]
                 = said[InHand("inbound").of][InHand("inbound").nr]
    <3>1. PICK e : e = InHand("inbound")
      OBVIOUS
    <3>2. e \in Happened
      BY <2>2, <3>1 DEF TypeInv, StreamsInv, Streamed, Streams, At
    <3>3. e.nr \in Nrs(e.of) /\ e.of \in Sources
      BY <3>2, HappenedIs DEF TypeInv, StreamsInv, Ev
    <3>4. said'[e.of][e.nr] = said[e.of][e.nr]
      <4>1. CASE e.of = x
        BY <1>1, <3>3, <4>1
      <4>2. CASE e.of # x
        BY <1>1, <3>3, <4>2
      <4> QED
        BY <4>1, <4>2
    <3> QED
      BY <3>1, <3>4
  <2> QED
    BY <2>1, <2>2 DEF Placed, InHand, Word
<1> QED
  BY <1>5, <1>6, <1>8, <1>9, <1>10 DEF TypeInv, StreamsInv

(* A step that says nothing.                                               *)
LEMMA TypesKept ==
  ASSUME TypeInv, said' = said,
         calls' \subseteq Happened, stored' \subseteq Happened,
         queue' \in [Streams -> Seq(Ev)], worker' \in [Streams -> Hands],
         \A s \in Streams : \A e \in ToSet(queue'[s]) :
           e \in ToSet(queue[s]) \/ (e \in Happened /\ Stream(e.of) = s),
         \A s \in Streams :
           \/ worker'[s].pc = "idle" /\ worker'[s].event = <<>>
           \/ /\ worker'[s].pc # "idle"
              /\ worker'[s].event \in Happened /\ Stream(worker'[s].event.of) = s
           \/ worker'[s] = worker[s],
         Placed',
         row' \in [Messages -> {"none", "queued"} \cup Reports],
         sending' \in [Messages -> {"none", "insert", "done"}],
         suppressed' \subseteq Voters, byStaff' \subseteq Voters,
         newest' \in [Sources -> Nat], muddled' \subseteq Sources,
         count' \in [{"event", "fault"} -> Nat],
         count["event"] <= count'["event"], count'["event"] <= MaxEvents
  PROVE  TypeInv'
<1>1. Happened' = Happened
  BY DEF Happened
<1>2. Types'
  BY <1>1 DEF TypeInv, Types
<1>3. \A s \in Streams : Streamed(s)'
  BY <1>1, StreamedKept
<1>4. Bounded'
  <2>1. count["event"] \in Nat /\ count'["event"] \in Nat
    BY DEF TypeInv, Types
  <2>2. \A p \in Phones : Len(said[p]) <= count["event"] /\ Len(said[p]) \in Nat
    BY HappenedIs DEF TypeInv, StreamsInv, Bounded, Sources
  <2>3. \A p \in Phones : Len(said[p]) <= count'["event"]
    BY <2>1, <2>2
  <2> QED
    BY <2>3 DEF TypeInv, StreamsInv, Bounded
<1> QED
  BY <1>2, <1>3, <1>4 DEF TypeInv, StreamsInv

LEMMA FailMoves ==
  ASSUME TypeInv, Fails
  PROVE  /\ count' \in [{"event", "fault"} -> Nat]
         /\ count'["event"] = count["event"] /\ count["event"] \in Nat
         /\ count["event"] <= count'["event"] /\ count'["event"] <= MaxEvents
BY DEF TypeInv, Types, StreamsInv, Bounded, Fails, Counted

LEMMA EventMoves ==
  ASSUME TypeInv, Counted("event", MaxEvents)
  PROVE  /\ count' \in [{"event", "fault"} -> Nat]
         /\ count'["event"] = count["event"] + 1 /\ count["event"] \in Nat
         /\ count["event"] <= count'["event"] /\ count'["event"] <= MaxEvents
BY WebhookAssumption DEF TypeInv, Types, Counted

LEMMA CountStays ==
  ASSUME TypeInv, count' = count
  PROVE  /\ count' \in [{"event", "fault"} -> Nat]
         /\ count["event"] <= count'["event"] /\ count'["event"] <= MaxEvents
BY DEF TypeInv, Types, StreamsInv, Bounded

(* The event in a consumer's hand.                                         *)
LEMMA HandIs ==
  ASSUME TypeInv, NEW s \in Streams, ~At(s, "idle")
  PROVE  /\ InHand(s) \in Happened /\ InHand(s) \in Ev
         /\ InHand(s).of \in Sources /\ Stream(InHand(s).of) = s
         /\ InHand(s).nr \in Nrs(InHand(s).of)
<1>1. InHand(s) \in Happened /\ Stream(InHand(s).of) = s
  BY DEF TypeInv, StreamsInv, Streamed
<1>2. InHand(s) \in Ev /\ InHand(s).nr \in Nrs(InHand(s).of)
  BY <1>1, HappenedIs DEF TypeInv, StreamsInv
<1> QED
  BY <1>1, <1>2 DEF Ev

LEMMA AcknowledgeMoves ==
  ASSUME TypeInv, NEW s \in Streams, Acknowledge(s)
  PROVE  /\ worker' \in [Streams -> Hands]
         /\ worker'[s].pc = "idle" /\ worker'[s].event = <<>>
         /\ \A t \in Streams \ {s} : worker'[t] = worker[t]
<1>1. Idle \in Hands /\ Idle.pc = "idle" /\ Idle.event = <<>>
  BY DEF Idle, Hands
<1>2. worker \in [Streams -> Hands] /\ worker' = [worker EXCEPT ![s] = Idle]
  BY DEF TypeInv, Types, Acknowledge
<1> QED
  BY <1>1, <1>2

LEMMA BackMoves ==
  ASSUME TypeInv, NEW s \in Streams, ~At(s, "idle"), BackInto(s)
  PROVE  /\ queue' \in [Streams -> Seq(Ev)]
         /\ ToSet(queue'[s]) = ToSet(queue[s]) \cup {InHand(s)}
         /\ \A t \in Streams \ {s} : queue'[t] = queue[t]
<1>1. PICK k \in 1 .. Len(queue[s]) + 1 :
        queue' = [queue EXCEPT ![s] = InsertAt(queue[s], k, InHand(s))]
  BY DEF BackInto
<1>2. queue \in [Streams -> Seq(Ev)] /\ InHand(s) \in Ev
  BY HandIs DEF TypeInv, Types
<1>3. /\ InsertAt(queue[s], k, InHand(s)) \in Seq(Ev)
      /\ ToSet(InsertAt(queue[s], k, InHand(s))) = ToSet(queue[s]) \cup {InHand(s)}
  BY <1>2, SetOfInsert
<1> QED
  BY <1>1, <1>2, <1>3

LEMMA TakeMoves ==
  ASSUME TypeInv, NEW s \in Streams, Take(s)
  PROVE  LET e == Head(queue[s])
         IN  /\ e \in Happened /\ e \in Ev /\ Stream(e.of) = s /\ At(s, "idle")
             /\ queue' \in [Streams -> Seq(Ev)]
             /\ ToSet(queue[s]) = ToSet(queue'[s]) \cup {e}
             /\ \A t \in Streams \ {s} : queue'[t] = queue[t]
             /\ worker' \in [Streams -> Hands]
             /\ worker'[s].event = e
             /\ worker'[s].pc = IF s = "inbound" THEN "lookup" ELSE "update"
             /\ \A t \in Streams \ {s} : worker'[t] = worker[t]
<1> DEFINE pc == IF s = "inbound" THEN "lookup" ELSE "update"
<1>1. PICK e : e = Head(queue[s])
  OBVIOUS
<1>2. queue \in [Streams -> Seq(Ev)] /\ worker \in [Streams -> Hands]
  BY DEF TypeInv, Types
<1>3. /\ At(s, "idle") /\ queue[s] # <<>>
      /\ worker' = [worker EXCEPT ![s] = [Idle EXCEPT !.event = e, !.pc = pc]]
      /\ queue' = [queue EXCEPT ![s] = Tail(queue[s])]
  BY <1>1 DEF Take
<1>4. /\ e \in Ev /\ Tail(queue[s]) \in Seq(Ev)
      /\ ToSet(queue[s]) = ToSet(Tail(queue[s])) \cup {e}
  BY <1>1, <1>2, <1>3, SetOfTail
<1>5. e \in Happened /\ Stream(e.of) = s
  BY <1>4 DEF TypeInv, StreamsInv, Streamed
<1>6. PICK n : n = [Idle EXCEPT !.event = e, !.pc = pc]
  OBVIOUS
<1>7. n \in Hands /\ n.event = e /\ n.pc = pc
  BY <1>4, <1>6 DEF Idle, Hands
<1>8. /\ queue' \in [Streams -> Seq(Ev)] /\ queue'[s] = Tail(queue[s])
      /\ \A t \in Streams \ {s} : queue'[t] = queue[t]
  BY <1>2, <1>3, <1>4
<1>9. /\ worker' \in [Streams -> Hands] /\ worker'[s] = n
      /\ \A t \in Streams \ {s} : worker'[t] = worker[t]
  BY <1>2, <1>3, <1>6, <1>7
<1> QED
  BY <1>1, <1>3, <1>4, <1>5, <1>7, <1>8, <1>9

LEMMA TypeStep == TypeInv /\ [Next]_vars => TypeInv'
<1> SUFFICES ASSUME TypeInv, [Next]_vars PROVE TypeInv'
  OBVIOUS
<1>t. Types
  BY DEF TypeInv
<1>p. Placed
  BY DEF TypeInv, StreamsInv
<1>s. "inbound" \in Streams /\ "status" \in Streams
  BY DEF Streams
<1>c. count' = count => /\ count' \in [{"event", "fault"} -> Nat]
                        /\ count["event"] <= count'["event"] /\ count'["event"] <= MaxEvents
  BY CountStays
<1>h. Happened \subseteq Ev /\ calls \subseteq Happened /\ \A e \in Ev : e.of \in Sources
  <2>1. Happened \subseteq Ev
    BY HappenedIs DEF TypeInv, StreamsInv
  <2> QED
    BY <1>t, <2>1 DEF Types, Ev
<1>1. ASSUME NEW p \in Phones, NEW word \in PhoneWords, WriteText(p, word) PROVE TypeInv'
  <2>1. /\ Say(p, word) /\ p \in Sources /\ p \notin Messages
        /\ UNCHANGED <<queue, worker, storage, list, history>>
    BY <1>1, KindsDiffer DEF WriteText
  <2>2. /\ count' \in [{"event", "fault"} -> Nat]
        /\ count'["event"] = count["event"] + 1 /\ count["event"] \in Nat
        /\ count'["event"] <= MaxEvents
    BY <1>1, EventMoves DEF WriteText
  <2>3. /\ Len(said'[p]) = Len(said[p]) + 1
        /\ \A y \in Sources \ {p} : said'[y] = said[y]
    BY <2>1, SayAppends
  <2>4. Bounded'
    <3>1. /\ \A q \in Phones : Len(said[q]) <= count["event"] /\ Len(said[q]) \in Nat
          /\ \A m \in Messages : Len(said[m]) <= 2
      BY HappenedIs DEF TypeInv, StreamsInv, Bounded, Sources
    <3>2. ASSUME NEW q \in Phones PROVE Len(said'[q]) <= count'["event"]
      <4>1. q \in Sources
        BY DEF Sources
      <4>2. q # p => said'[q] = said[q]
        BY <2>3, <4>1
      <4> QED
        BY <2>2, <2>3, <3>1, <4>2
    <3>3. \A m \in Messages : Len(said'[m]) <= 2
      BY <2>1, <2>3, <3>1 DEF Sources
    <3> QED
      BY <2>2, <3>2, <3>3 DEF Bounded
  <2> QED
    BY <2>1, <2>2, <2>4, SayTypes
<1>2. ASSUME NEW m \in Messages, NEW status \in Reports, Progress(m, status) PROVE TypeInv'
  <2>1. /\ Say(m, status) /\ m \in Sources /\ m \notin Phones
        /\ UNCHANGED <<queue, worker, storage, list, history>>
        /\ said[m] = <<>> \/ said[m] = <<"sent">>
        /\ count' = count
    BY <1>2, KindsDiffer DEF Progress
  <2>2. /\ Len(said'[m]) = Len(said[m]) + 1
        /\ \A y \in Sources \ {m} : said'[y] = said[y]
    BY <2>1, SayAppends
  <2>3. Len(said[m]) = 0 \/ Len(said[m]) = 1
    <3>1. said[m] = <<>> => Len(said[m]) = 0
      OBVIOUS
    <3>2. said[m] = <<"sent">> => Len(said[m]) = 1
      OBVIOUS
    <3> QED
      BY <2>1, <3>1, <3>2
  <2>4. Bounded'
    <3>1. Bounded
      BY DEF TypeInv, StreamsInv
    <3>2. Len(said'[m]) <= 2
      <4>1. CASE Len(said[m]) = 0
        BY <2>2, <4>1
      <4>2. CASE Len(said[m]) = 1
        BY <2>2, <4>2
      <4> QED
        BY <2>3, <4>1, <4>2
    <3>3. \A q \in Phones : said'[q] = said[q]
      BY <2>1, <2>2 DEF Sources
    <3>4. \A n \in Messages \ {m} : said'[n] = said[n]
      BY <2>2 DEF Sources
    <3> QED
      BY <2>1, <3>1, <3>2, <3>3, <3>4 DEF Bounded
  <2> QED
    BY <1>c, <2>1, <2>4, SayTypes
<1> DEFINE
      Rest == /\ calls' \subseteq Happened /\ stored' \subseteq Happened
              /\ row' \in [Messages -> {"none", "queued"} \cup Reports]
              /\ sending' \in [Messages -> {"none", "insert", "done"}]
              /\ suppressed' \subseteq Voters /\ byStaff' \subseteq Voters
              /\ newest' \in [Sources -> Nat] /\ muddled' \subseteq Sources
              /\ count' \in [{"event", "fault"} -> Nat]
              /\ count["event"] <= count'["event"] /\ count'["event"] <= MaxEvents
      Queues == /\ queue' \in [Streams -> Seq(Ev)]
                /\ \A s \in Streams : \A e \in ToSet(queue'[s]) :
                     e \in ToSet(queue[s]) \/ (e \in Happened /\ Stream(e.of) = s)
      Workers == /\ worker' \in [Streams -> Hands]
                 /\ Placed'
                 /\ \A s \in Streams :
                      \/ worker'[s].pc = "idle" /\ worker'[s].event = <<>>
                      \/ /\ worker'[s].pc # "idle"
                         /\ worker'[s].event \in Happened /\ Stream(worker'[s].event.of) = s
                      \/ worker'[s] = worker[s]
<1>k. ASSUME said' = said, Rest, Queues, Workers PROVE TypeInv'
  BY <1>k, TypesKept
<1>q. queue' = queue => Queues
  BY <1>t DEF Types
<1>w. worker' = worker /\ said' = said => Workers
  BY <1>t, <1>p DEF Types, Placed, InHand, Word
<1>b. ASSUME NEW s \in Streams, ~At(s, "idle"), BackInto(s) PROVE Queues
  BY <1>b, <1>t, BackMoves, HandIs DEF Types
<1>a. ASSUME NEW s \in Streams, Acknowledge(s), said' = said PROVE Workers
  <2>1. /\ worker' \in [Streams -> Hands]
        /\ worker'[s].pc = "idle" /\ worker'[s].event = <<>>
        /\ \A t \in Streams \ {s} : worker'[t] = worker[t]
    BY <1>a, AcknowledgeMoves
  <2>2. Placed'
    BY <1>a, <1>p, <1>s, <2>1 DEF Placed, InHand, Word
  <2> QED
    BY <2>1, <2>2
<1> HIDE DEF Queues, Workers
<1>3. ASSUME NEW m \in Messages, CreateMessage(m) PROVE TypeInv'
  <2>1. said' = said /\ queue' = queue /\ worker' = worker
    BY <1>3 DEF CreateMessage
  <2>2. Rest
    BY <1>3, <1>t, EventMoves DEF CreateMessage, Types, list, history
  <2> QED
    BY <1>k, <1>q, <1>w, <2>1, <2>2
<1>4. ASSUME NEW m \in Messages, InsertSMSMessage(m) PROVE TypeInv'
  <2>1. said' = said /\ queue' = queue /\ worker' = worker
    BY <1>4 DEF InsertSMSMessage
  <2>2. Rest
    BY <1>4, <1>t, <1>c DEF InsertSMSMessage, Types, list, history
  <2> QED
    BY <1>k, <1>q, <1>w, <2>1, <2>2
<1>5. ASSUME NEW m \in Messages, InsertSMSMessageFails(m) PROVE TypeInv'
  <2>1. said' = said /\ queue' = queue /\ worker' = worker
    BY <1>5 DEF InsertSMSMessageFails
  <2>2. Rest
    BY <1>5, <1>t, FailMoves DEF InsertSMSMessageFails, Types, list, Sources
  <2> QED
    BY <1>k, <1>q, <1>w, <2>1, <2>2
<1>6. ASSUME NEW v \in Voters, ChangeList(v) PROVE TypeInv'
  <2>1. said' = said /\ queue' = queue /\ worker' = worker
    BY <1>6 DEF ChangeList
  <2>2. Rest
    BY <1>6, <1>t, EventMoves DEF ChangeList, Types, storage, history
  <2> QED
    BY <1>k, <1>q, <1>w, <2>1, <2>2
<1>7. ASSUME NEW e \in calls, Publish(e) PROVE TypeInv'
  <2>1. said' = said /\ worker' = worker /\ queue' = [queue EXCEPT ![Stream(e.of)] = Append(@, e)]
    BY <1>7 DEF Publish
  <2>2. e \in Happened /\ e \in Ev /\ e.of \in Sources /\ Stream(e.of) \in Streams
    BY <1>h, KindsDiffer
  <2>3. Append(queue[Stream(e.of)], e) \in Seq(Ev)
        /\ ToSet(Append(queue[Stream(e.of)], e)) = ToSet(queue[Stream(e.of)]) \cup {e}
    BY <1>t, <2>2, SetOfAppend DEF Types
  <2>4. Queues
    BY <1>t, <2>1, <2>2, <2>3 DEF Types, Queues
  <2>5. Rest
    BY <1>7, <1>t, <1>c DEF Publish, Types, storage, list, history
  <2> QED
    BY <1>k, <1>w, <2>1, <2>4, <2>5
<1>8. ASSUME NEW e \in Happened, PublishFails(e) PROVE TypeInv'
  <2>1. said' = said /\ queue' = queue /\ worker' = worker
    BY <1>8 DEF PublishFails
  <2>2. e.of \in Sources
    BY HappenedIs DEF TypeInv, StreamsInv, Ev
  <2>3. Rest
    BY <1>8, <1>t, <2>2, FailMoves DEF PublishFails, Lost, Types, storage, list
  <2> QED
    BY <1>k, <1>q, <1>w, <2>1, <2>3
<1>9. ASSUME NEW e \in Happened, CallAgain(e) PROVE TypeInv'
  <2>1. said' = said /\ queue' = queue /\ worker' = worker
    BY <1>9 DEF CallAgain
  <2>2. Rest
    BY <1>9, <1>t, FailMoves DEF CallAgain, Types, storage, list, history
  <2> QED
    BY <1>k, <1>q, <1>w, <2>1, <2>2
<1>10. ASSUME NEW s \in Streams, Take(s) PROVE TypeInv'
  <2>1. PICK e : e = Head(queue[s])
    OBVIOUS
  <2>2. /\ e \in Happened /\ e \in Ev /\ Stream(e.of) = s
        /\ queue' \in [Streams -> Seq(Ev)]
        /\ ToSet(queue[s]) = ToSet(queue'[s]) \cup {e}
        /\ \A t \in Streams \ {s} : queue'[t] = queue[t]
        /\ worker' \in [Streams -> Hands]
        /\ worker'[s].event = e
        /\ worker'[s].pc = IF s = "inbound" THEN "lookup" ELSE "update"
        /\ \A t \in Streams \ {s} : worker'[t] = worker[t]
    BY <1>10, <2>1, TakeMoves
  <2>3. said' = said /\ Queues
    BY <1>10, <2>2 DEF Take, Queues
  <2>4. Placed'
    BY <1>p, <1>s, <2>2, <2>3 DEF Placed, InHand, Word
  <2>5. Workers
    BY <2>2, <2>4 DEF Workers
  <2>6. /\ muddled' \in {muddled, muddled \cup {e.of}}
        /\ newest' \in {newest, [newest EXCEPT ![e.of] = e.nr]}
    BY <1>10, <1>t, <2>1 DEF Take, Types
  <2>7. e.of \in Sources /\ e.nr \in Nat
    BY <2>2 DEF Ev
  <2>8. Rest
    BY <1>10, <1>t, <1>c, <2>6, <2>7 DEF Take, Types, storage, list
  <2> QED
    BY <1>k, <2>3, <2>5, <2>8
<1>11. ASSUME NEW s \in Streams, Redeliver(s) PROVE TypeInv'
  <2>1. said' = said /\ worker' = worker /\ ~At(s, "idle") /\ BackInto(s)
    BY <1>11 DEF Redeliver
  <2>2. Rest
    BY <1>11, <1>t, FailMoves DEF Redeliver, Types, storage, list, history
  <2> QED
    BY <1>k, <1>w, <1>b, <2>1, <2>2
<1>12. ASSUME GetVoterByPhone PROVE TypeInv'
  <2>1. /\ said' = said /\ queue' = queue /\ Rest
        /\ At("inbound", "lookup")
    BY <1>12, <1>t, <1>c DEF GetVoterByPhone, Types, storage, list, history
  <2>2. CASE Acknowledge("inbound")
    BY <1>k, <1>q, <1>a, <1>s, <2>1, <2>2
  <2>3. ASSUME NEW v \in OwnersOf[InHand("inbound").of],
               worker' = [worker EXCEPT !["inbound"].pc = "insert", !["inbound"].voter = v]
        PROVE  TypeInv'
    <3>1. PICK e : e = InHand("inbound")
      OBVIOUS
    <3>2. e \in Happened /\ e \in Ev /\ Stream(e.of) = "inbound" /\ e.of \in Sources
      BY <1>s, <2>1, <3>1, HandIs DEF At
    <3>3. e.of \in Phones /\ v \in Voters
      BY <2>3, <3>1, <3>2, KindsDiffer, WebhookAssumption DEF Sources
    <3>4. /\ worker' \in [Streams -> Hands]
          /\ worker'["inbound"].pc = "insert" /\ worker'["inbound"].voter = v
          /\ worker'["inbound"].event = e
          /\ worker'["status"] = worker["status"]
      BY <1>t, <1>s, <2>3, <3>1, <3>3 DEF Types, Hands, InHand
    <3>5. Placed'
      BY <1>p, <2>3, <3>1, <3>4 DEF Placed, InHand
    <3>6. Workers
      BY <3>2, <3>4, <3>5 DEF Workers, Streams
    <3> QED
      BY <1>k, <1>q, <2>1, <3>6
  <2> QED
    BY <1>12, <2>2, <2>3 DEF GetVoterByPhone
<1>13. ASSUME GetVoterByPhoneFails \/ OptOutFails PROVE TypeInv'
  <2>1. /\ said' = said /\ queue' = queue /\ Acknowledge("inbound") /\ ~At("inbound", "idle")
        /\ Fails /\ Lost({InHand("inbound")})
        /\ UNCHANGED <<calls, storage, list, newest>>
    BY <1>13 DEF GetVoterByPhoneFails, OptOutFails, At
  <2>2. InHand("inbound").of \in Sources
    BY <1>s, <2>1, HandIs
  <2>3. Rest
    BY <1>t, <2>1, <2>2, FailMoves DEF Lost, Types, storage, list
  <2> QED
    BY <1>k, <1>q, <1>a, <1>s, <2>1, <2>3
<1>14. ASSUME InsertSMSMessageIdempotent PROVE TypeInv'
  <2>1. /\ said' = said /\ queue' = queue /\ At("inbound", "insert")
        /\ stored' = stored \cup {InHand("inbound")}
        /\ UNCHANGED <<calls, row, sending, list, history, count>>
    BY <1>14 DEF InsertSMSMessageIdempotent
  <2>2. InHand("inbound") \in Happened /\ InHand("inbound") \in Ev /\ Stream(InHand("inbound").of) = "inbound"
    BY <1>s, <2>1, HandIs DEF At
  <2>3. Rest
    BY <1>t, <1>c, <2>1, <2>2 DEF Types, list, history
  <2>4. CASE Acknowledge("inbound")
    BY <1>k, <1>q, <1>a, <1>s, <2>1, <2>3, <2>4
  <2>5. ASSUME Word(InHand("inbound")) \in Keywords,
               worker' = [worker EXCEPT !["inbound"].pc = "optout"]
        PROVE  TypeInv'
    <3>1. /\ worker' \in [Streams -> Hands]
          /\ worker'["inbound"].pc = "optout"
          /\ worker'["inbound"].voter = worker["inbound"].voter
          /\ worker'["inbound"].event = worker["inbound"].event
          /\ worker'["status"] = worker["status"]
      BY <1>t, <1>s, <2>5 DEF Types, Hands
    <3>2. Placed'
      BY <1>p, <2>1, <2>5, <3>1 DEF Placed, InHand, Word, At
    <3>3. Workers
      BY <2>2, <3>1, <3>2 DEF Workers, Streams, InHand
    <3> QED
      BY <1>k, <1>q, <2>1, <2>3, <3>3
  <2> QED
    BY <1>14, <2>4, <2>5 DEF InsertSMSMessageIdempotent
<1>15. ASSUME NEW s \in Streams, ~At(s, "idle"), Nak(s),
              UNCHANGED <<said, calls, storage, list, history>>
       PROVE  TypeInv'
  <2>1. BackInto(s) /\ Acknowledge(s)
    BY <1>15 DEF Nak
  <2>2. Rest
    BY <1>15, <1>t, FailMoves DEF Nak, Types, storage, list, history
  <2> QED
    BY <1>15, <1>k, <1>a, <1>b, <2>1, <2>2
<1>16. ASSUME ProcessOptOut PROVE TypeInv'
  <2>1. /\ said' = said /\ queue' = queue /\ Acknowledge("inbound")
        /\ At("inbound", "optout")
        /\ suppressed' \in {suppressed \cup {worker["inbound"].voter},
                            suppressed \ {worker["inbound"].voter}}
        /\ byStaff' = byStaff \ {worker["inbound"].voter}
        /\ UNCHANGED <<calls, storage, history, count>>
    BY <1>16 DEF ProcessOptOut
  <2>2. worker["inbound"].voter \in Voters
    <3>1. InHand("inbound").of \in Phones
      BY <1>s, <2>1, HandIs, KindsDiffer DEF At, Sources
    <3> QED
      BY <1>p, <2>1, <3>1, WebhookAssumption DEF Placed, At
  <2>3. Rest
    BY <1>t, <1>c, <2>1, <2>2 DEF Types, storage, history
  <2> QED
    BY <1>k, <1>q, <1>a, <1>s, <2>1, <2>3
<1>17. ASSUME UpdateSMSMessageStatus PROVE TypeInv'
  <2>1. PICK e : e = InHand("status")
    OBVIOUS
  <2>2. /\ said' = said /\ queue' = queue /\ Acknowledge("status") /\ ~At("status", "idle")
        /\ row' = [row EXCEPT ![e.of] = IF row[e.of] = "none" THEN row[e.of] ELSE Word(e)]
        /\ muddled' \in {muddled, muddled \cup {e.of}}
        /\ UNCHANGED <<calls, stored, sending, list, newest, count>>
    BY <1>17, <2>1 DEF UpdateSMSMessageStatus, Lost, At
  <2>3. e.of \in Sources /\ e.of \in Messages /\ e.nr \in Nrs(e.of)
    BY <1>s, <2>1, <2>2, HandIs, KindsDiffer
  <2>4. Word(e) \in Reports
    BY <1>t, <2>3, ElementOfSeq DEF Types, Word, Nrs
  <2>5. Rest
    BY <1>t, <1>c, <2>2, <2>3, <2>4 DEF Types, list
  <2> QED
    BY <1>k, <1>q, <1>a, <1>s, <2>2, <2>5
<1>18. ASSUME Crash PROVE TypeInv'
  <2>1. PICK again \in SUBSET calls :
          /\ calls' = again
          /\ muddled' = muddled \cup {e.of : e \in calls \ again}
                               \cup {m \in Messages : sending[m] = "insert"}
    BY <1>18 DEF Crash
  <2>2. \A e \in calls : e.of \in Sources
    BY <1>h
  <2>3. sending' \in [Messages -> {"none", "insert", "done"}]
    BY <1>18, <1>t DEF Crash, Types
  <2>4. Rest
    BY <1>18, <1>t, <2>1, <2>2, <2>3, FailMoves DEF Crash, Types, list, Sources
  <2>5. queue' = [s \in Streams |-> IF At(s, "idle") THEN queue[s] ELSE Append(queue[s], InHand(s))]
    BY <1>18 DEF Crash
  <2>6. ASSUME NEW s \in Streams
        PROVE  /\ queue'[s] \in Seq(Ev)
               /\ \A e \in ToSet(queue'[s]) :
                    e \in ToSet(queue[s]) \/ (e \in Happened /\ Stream(e.of) = s)
    <3>1. queue[s] \in Seq(Ev)
      BY <1>t DEF Types
    <3>2. CASE At(s, "idle")
      BY <2>5, <3>1, <3>2
    <3>3. CASE ~At(s, "idle")
      BY <2>5, <3>1, <3>3, HandIs, SetOfAppend
    <3> QED
      BY <3>2, <3>3
  <2>7. Queues
    BY <2>5, <2>6 DEF Queues
  <2>8. Idle \in Hands /\ Idle.pc = "idle" /\ Idle.event = <<>>
    BY DEF Idle, Hands
  <2>9. said' = said /\ worker' = [s \in Streams |-> Idle]
    BY <1>18 DEF Crash
  <2>10. Placed'
    BY <1>s, <2>8, <2>9 DEF Placed
  <2>11. Workers
    BY <2>8, <2>9, <2>10 DEF Workers
  <2> QED
    BY <1>k, <2>4, <2>7, <2>9, <2>11
<1>19. CASE UNCHANGED vars
  <2>1. said' = said /\ queue' = queue /\ worker' = worker
    BY <1>19 DEF vars
  <2>2. Rest
    BY <1>19, <1>t, <1>c DEF vars, Types, storage, list, history
  <2> QED
    BY <1>k, <1>q, <1>w, <2>1, <2>2
<1>20. InsertFails \/ UpdateFails => TypeInv'
  BY <1>15, <1>s DEF InsertFails, UpdateFails, At
<1>21. ASSUME Outside PROVE TypeInv'
  BY <1>1, <1>2, <1>3, <1>6, <1>21 DEF Outside, PhoneWords, Reports
<1>22. ASSUME Fault PROVE TypeInv'
  BY <1>5, <1>8, <1>9, <1>11, <1>13, <1>18, <1>20, <1>22 DEF Fault
<1> QED
  BY <1>4, <1>7, <1>10, <1>12, <1>14, <1>16, <1>17, <1>19, <1>21, <1>22, <1>s
     DEF Next, Handle, InsertRow, Inbound, Status

(* The variables have their types in every reachable state.                *)
THEOREM TypeCorrect == Spec => []TypeOK
<1>1. Init => TypeInv
  BY TypeInit
<1>2. TypeInv /\ [Next]_vars => TypeInv'
  BY TypeStep
<1>3. TypeInv => TypeOK
  BY TypeOKHolds
<1> QED
  BY <1>1, <1>2, <1>3, PTL DEF Spec

-----------------------------------------------------------------------------
(* How events move.                                                        *)

OnWay(e) == e \in calls \cup ToSet(queue[Stream(e.of)])

(* What was said stays said, and a new word has its webhook called.        *)
Extends ==
  \A x \in Sources :
    /\ Len(said[x]) <= Len(said'[x])
    /\ \A i \in Nrs(x) : said'[x][i] = said[x][i]
    /\ \A i \in Nrs(x)' : i \in Nrs(x) \/ Event(x, i) \in calls'

(* Only a source that is muddled loses an event on its way.                *)
Carried ==
  \A x \in Sources \ muddled' :
    /\ x \notin muddled
    /\ \A i \in Nrs(x) : OnWay(Event(x, i)) => OnWay(Event(x, i))'

(* No consumer takes up an event.                                          *)
NoneTaken ==
  \A s \in Streams : worker'[s].pc # "idle"
    => worker[s].pc # "idle" /\ worker'[s].event = worker[s].event

Flow == Extends /\ Carried /\ NoneTaken /\ newest' = newest

LEMMA EventsOf ==
  ASSUME TypeInv
  PROVE  /\ \A x \in Sources : Len(said[x]) \in Nat
         /\ \A x \in Sources : \A i \in Nrs(x) :
              /\ i \in Nat /\ Event(x, i) \in Happened
              /\ Event(x, i).of = x /\ Event(x, i).nr = i /\ Event(x, i) # <<>>
         /\ \A x \in Sources : \A i \in Nat : Event(x, i) \in Happened => i \in Nrs(x)
         /\ \A e \in Happened : /\ e \in Ev /\ e.of \in Sources /\ e.nr \in Nrs(e.of)
                                /\ e = Event(e.of, e.nr)
<1>1. /\ Happened \subseteq Ev
      /\ \A x \in Sources : Len(said[x]) \in Nat
      /\ \A e \in Ev : e \in Happened <=> e.nr \in Nrs(e.of)
      /\ \A x \in Sources, i \in Nat :
           /\ Event(x, i) \in Ev /\ Event(x, i).of = x /\ Event(x, i).nr = i
           /\ Event(x, i) \in Happened <=> i \in Nrs(x)
      /\ \A e \in Ev : e = Event(e.of, e.nr)
  BY HappenedIs DEF TypeInv, StreamsInv
<1>2. \A x \in Sources : \A i \in Nrs(x) : i \in Nat
  BY <1>1 DEF Nrs
<1>3. \A e \in Ev : e # <<>> /\ e.of \in Sources
  BY DEF Ev
<1> QED
  BY <1>1, <1>2, <1>3

LEMMA SilentExtends ==
  ASSUME TypeInv, said' = said
  PROVE  Extends
BY EventsOf DEF Extends, Nrs

LEMMA SayExtends ==
  ASSUME TypeInv, NEW x \in Sources, NEW word \in PhoneWords \cup Reports, Say(x, word)
  PROVE  Extends /\ calls \subseteq calls'
<1>1. /\ Len(said'[x]) = Len(said[x]) + 1 /\ Len(said[x]) \in Nat
      /\ \A i \in Nrs(x) : said'[x][i] = said[x][i]
      /\ \A y \in Sources \ {x} : said'[y] = said[y]
      /\ \A y \in Sources : Len(said[y]) \in Nat
  BY SayAppends, EventsOf
<1>2. calls' = calls \cup {Event(x, Len(said[x]) + 1)}
  BY DEF Say
<1>3. ASSUME NEW y \in Sources \ {x}
      PROVE  /\ Len(said[y]) <= Len(said'[y])
             /\ \A i \in Nrs(y) : said'[y][i] = said[y][i]
             /\ \A i \in Nrs(y)' : i \in Nrs(y) \/ Event(y, i) \in calls'
  BY <1>1, <1>3 DEF Nrs
<1>4. ASSUME NEW i \in 1 .. Len(said'[x]) PROVE i \in Nrs(x) \/ Event(x, i) \in calls'
  <2>1. i = Len(said[x]) + 1 \/ i \in Nrs(x)
    BY <1>1 DEF Nrs
  <2> QED
    BY <1>2, <2>1
<1>5. Len(said[x]) <= Len(said'[x])
  BY <1>1
<1> QED
  BY <1>1, <1>2, <1>3, <1>4, <1>5 DEF Extends, Nrs

(* A step that says nothing and takes up nothing.                          *)
LEMMA SilentFlow ==
  ASSUME TypeInv, said' = said, newest' = newest, muddled \subseteq muddled', NoneTaken,
         \A e \in Happened : e.of \notin muddled' =>
           /\ e \in calls => e \in calls' \/ e \in ToSet(queue'[Stream(e.of)])
           /\ e \in ToSet(queue[Stream(e.of)]) => e \in ToSet(queue'[Stream(e.of)])
  PROVE  Flow
<1>1. Extends
  BY SilentExtends
<1>2. ASSUME NEW x \in Sources \ muddled', NEW i \in Nrs(x), OnWay(Event(x, i))
      PROVE  OnWay(Event(x, i))'
  <2>1. PICK e : e = Event(x, i)
    OBVIOUS
  <2>2. e \in Happened /\ e.of = x
    BY <2>1, EventsOf
  <2>3. e \in calls' \cup ToSet(queue'[Stream(e.of)])
    BY <1>2, <2>1, <2>2 DEF OnWay
  <2> QED
    BY <2>1, <2>3 DEF OnWay, Event, Stream
<1>3. Carried
  BY <1>2 DEF Carried
<1> QED
  BY <1>1, <1>3 DEF Flow

(* Every step carries the events on, or takes one up.                      *)
LEMMA FlowStep ==
  ASSUME TypeInv, [Next]_vars
  PROVE  Flow \/ \E s \in Streams : Take(s)
<1>t. /\ queue \in [Streams -> Seq(Ev)] /\ worker \in [Streams -> Hands]
      /\ calls \subseteq Happened
  BY DEF TypeInv, Types
<1>s. "inbound" \in Streams /\ "status" \in Streams
  BY DEF Streams
<1>w. worker' = worker => NoneTaken
  BY DEF NoneTaken
<1>a. ASSUME NEW s \in Streams, Acknowledge(s) PROVE NoneTaken
  BY <1>a, AcknowledgeMoves DEF NoneTaken
<1>b. ASSUME NEW s \in Streams, ~At(s, "idle"), BackInto(s)
      PROVE  \A t \in Streams : ToSet(queue[t]) \subseteq ToSet(queue'[t])
  BY <1>b, BackMoves
<1>1. ASSUME NEW x \in Sources, NEW word \in PhoneWords \cup Reports, Say(x, word),
             UNCHANGED <<queue, worker, history>>
      PROVE  Flow
  <2>1. Extends /\ calls \subseteq calls' /\ NoneTaken
    BY <1>1, <1>w, SayExtends
  <2>2. Carried
    BY <1>1, <2>1 DEF Carried, OnWay, history, Event, Stream
  <2> QED
    BY <1>1, <2>1, <2>2 DEF Flow, history
<1>2. ASSUME UNCHANGED <<said, queue, newest>>, muddled \subseteq muddled',
             calls \subseteq calls', NoneTaken
      PROVE  Flow
  BY <1>2, SilentFlow
<1>3. ASSUME NEW e \in calls, Publish(e) PROVE Flow
  <2>1. e \in Ev /\ e.of \in Sources /\ Stream(e.of) \in Streams
    BY <1>t, EventsOf, KindsDiffer
  <2>2. /\ Append(queue[Stream(e.of)], e) \in Seq(Ev)
        /\ ToSet(Append(queue[Stream(e.of)], e)) = ToSet(queue[Stream(e.of)]) \cup {e}
    BY <1>t, <2>1, SetOfAppend
  <2>3. /\ UNCHANGED <<said, worker, newest, muddled>> /\ calls' = calls \ {e}
        /\ queue' = [queue EXCEPT ![Stream(e.of)] = Append(queue[Stream(e.of)], e)]
    BY <1>3 DEF Publish, history
  <2>4. \A t \in Streams : ToSet(queue[t]) \subseteq ToSet(queue'[t])
    BY <1>t, <2>1, <2>2, <2>3
  <2>5. e \in ToSet(queue'[Stream(e.of)])
    BY <1>t, <2>1, <2>2, <2>3
  <2>6. \A f \in Happened : Stream(f.of) \in Streams
    BY EventsOf, KindsDiffer
  <2>7. \A f \in calls : f = e \/ f \in calls'
    BY <2>3
  <2> QED
    BY <1>w, <2>3, <2>4, <2>5, <2>6, <2>7, SilentFlow
<1>4. ASSUME NEW e \in Happened, PublishFails(e) PROVE Flow
  <2>1. /\ UNCHANGED <<said, queue, worker, newest>> /\ calls' = calls \ {e}
        /\ muddled' = muddled \cup {e.of}
    BY <1>4 DEF PublishFails, Lost
  <2> QED
    BY <1>w, <2>1, SilentFlow
<1>5. ASSUME UNCHANGED <<said, calls, newest>>, muddled \subseteq muddled', NoneTaken,
             \A t \in Streams : ToSet(queue[t]) \subseteq ToSet(queue'[t])
      PROVE  Flow
  <2>1. \A f \in Happened : Stream(f.of) \in Streams
    BY EventsOf, KindsDiffer
  <2> QED
    BY <1>5, <2>1, SilentFlow
<1>6. ASSUME Outside PROVE Flow
  <2>1. ASSUME NEW p \in Phones, NEW word \in PhoneWords, WriteText(p, word) PROVE Flow
    BY <1>1, <2>1 DEF WriteText, Sources
  <2>2. ASSUME NEW m \in Messages, NEW status \in Reports, Progress(m, status) PROVE Flow
    BY <1>1, <2>2 DEF Progress, Sources
  <2>3. ASSUME NEW m \in Messages, CreateMessage(m) PROVE Flow
    BY <1>2, <1>w, <2>3 DEF CreateMessage, history
  <2>4. ASSUME NEW v \in Voters, ChangeList(v) PROVE Flow
    BY <1>2, <1>w, <2>4 DEF ChangeList, history
  <2> QED
    BY <1>6, <2>1, <2>2, <2>3, <2>4 DEF Outside, PhoneWords, Reports
<1>7. ASSUME NEW m \in Messages, InsertSMSMessage(m) \/ InsertSMSMessageFails(m) PROVE Flow
  BY <1>2, <1>w, <1>7 DEF InsertSMSMessage, InsertSMSMessageFails, history
<1>8. ASSUME NEW e \in Happened, CallAgain(e) PROVE Flow
  BY <1>2, <1>w, <1>8 DEF CallAgain, history
<1>9. ASSUME NEW s \in Streams, Redeliver(s) PROVE Flow
  BY <1>5, <1>b, <1>w, <1>9 DEF Redeliver, history
<1>10. ASSUME NEW s \in Streams, ~At(s, "idle"), Nak(s), UNCHANGED <<said, calls, history>>
       PROVE  Flow
  BY <1>5, <1>a, <1>b, <1>10 DEF Nak, history
<1>11. ASSUME NEW s \in Streams, Acknowledge(s), UNCHANGED <<said, calls, queue, newest>>,
              muddled \subseteq muddled'
       PROVE  Flow
  BY <1>2, <1>a, <1>11
<1>12. ASSUME GetVoterByPhone PROVE Flow
  <2>1. UNCHANGED <<said, calls, queue, newest, muddled>> /\ At("inbound", "lookup")
    BY <1>12 DEF GetVoterByPhone, history
  <2>2. ASSUME NEW v, worker' = [worker EXCEPT !["inbound"].pc = "insert", !["inbound"].voter = v]
        PROVE  Flow
    <3>1. /\ worker'["inbound"].event = worker["inbound"].event
          /\ worker'["status"] = worker["status"]
      BY <1>t, <1>s, <2>2 DEF Hands
    <3>2. NoneTaken
      BY <2>1, <3>1 DEF NoneTaken, Streams, At
    <3> QED
      BY <1>2, <2>1, <3>2
  <2>3. Acknowledge("inbound") => Flow
    BY <1>11, <1>s, <2>1
  <2> QED
    BY <1>12, <2>2, <2>3 DEF GetVoterByPhone
<1>13. ASSUME InsertSMSMessageIdempotent PROVE Flow
  <2>1. UNCHANGED <<said, calls, queue, newest, muddled>> /\ At("inbound", "insert")
    BY <1>13 DEF InsertSMSMessageIdempotent, history
  <2>2. ASSUME worker' = [worker EXCEPT !["inbound"].pc = "optout"] PROVE Flow
    <3>1. /\ worker'["inbound"].event = worker["inbound"].event
          /\ worker'["status"] = worker["status"]
      BY <1>t, <1>s, <2>2 DEF Hands
    <3>2. NoneTaken
      BY <2>1, <3>1 DEF NoneTaken, Streams, At
    <3> QED
      BY <1>2, <2>1, <3>2
  <2>3. Acknowledge("inbound") => Flow
    BY <1>11, <1>s, <2>1
  <2> QED
    BY <1>13, <2>2, <2>3 DEF InsertSMSMessageIdempotent
<1>14. ProcessOptOut => Flow
  BY <1>11, <1>s DEF ProcessOptOut, history
<1>15. UpdateSMSMessageStatus => Flow
  <2> SUFFICES ASSUME UpdateSMSMessageStatus PROVE Flow
    OBVIOUS
  <2>1. Acknowledge("status") /\ UNCHANGED <<said, calls, queue, newest>>
    BY DEF UpdateSMSMessageStatus
  <2>2. muddled \subseteq muddled'
    BY DEF UpdateSMSMessageStatus, Lost
  <2> QED
    BY <1>11, <1>s, <2>1, <2>2
<1>16. GetVoterByPhoneFails \/ OptOutFails => Flow
  BY <1>11, <1>s DEF GetVoterByPhoneFails, OptOutFails, Lost
<1>17. InsertFails \/ UpdateFails => Flow
  BY <1>10, <1>s DEF InsertFails, UpdateFails, At
<1>18. ASSUME Crash PROVE Flow
  <2>1. PICK again \in SUBSET calls :
          /\ calls' = again
          /\ muddled' = muddled \cup {e.of : e \in calls \ again}
                               \cup {m \in Messages : sending[m] = "insert"}
    BY <1>18 DEF Crash
  <2>2. /\ queue' = [s \in Streams |-> IF At(s, "idle") THEN queue[s] ELSE Append(queue[s], InHand(s))]
        /\ worker' = [s \in Streams |-> Idle] /\ said' = said /\ newest' = newest
    BY <1>18 DEF Crash
  <2>3. ASSUME NEW s \in Streams PROVE ToSet(queue[s]) \subseteq ToSet(queue'[s])
    <3>1. CASE At(s, "idle")
      BY <2>2, <3>1
    <3>2. CASE ~At(s, "idle")
      BY <1>t, <2>2, <3>2, HandIs, SetOfAppend
    <3> QED
      BY <3>1, <3>2
  <2>4. NoneTaken
    BY <2>2 DEF NoneTaken, Idle
  <2>5. \A e \in calls : e.of \notin muddled' => e \in calls'
    BY <2>1
  <2>6. \A f \in Happened : Stream(f.of) \in Streams
    BY EventsOf, KindsDiffer
  <2>7. muddled \subseteq muddled'
    BY <2>1
  <2> QED
    BY <2>2, <2>3, <2>4, <2>5, <2>6, <2>7, SilentFlow
<1>19. UNCHANGED vars => Flow
  BY <1>2, <1>w DEF vars, history
<1>20. Fault => Flow
  BY <1>4, <1>7, <1>8, <1>9, <1>16, <1>17, <1>18 DEF Fault
<1>21. CASE \E s \in Streams : Take(s)
  BY <1>21
<1> QED
  BY <1>3, <1>6, <1>7, <1>12, <1>13, <1>14, <1>15, <1>19, <1>20, <1>21, <1>s
     DEF Next, Handle, InsertRow, Inbound, Status

LEMMA ExtendsStep ==
  ASSUME TypeInv, [Next]_vars
  PROVE  Extends
<1>1. \A s \in Streams : Take(s) => said' = said
  BY DEF Take
<1> QED
  BY <1>1, FlowStep, SilentExtends DEF Flow

(* What taking an event does to its source.                                *)
LEMMA TakeOrders ==
  ASSUME TypeInv, NEW s \in Streams, Take(s)
  PROVE  LET e == Head(queue[s])
         IN  /\ newest' \in [Sources -> Nat]
             /\ \A x \in Sources \ {e.of} : newest'[x] = newest[x]
             /\ newest'[e.of] = IF e.nr > newest[e.of] THEN e.nr ELSE newest[e.of]
             /\ muddled \subseteq muddled'
             /\ e.nr < newest[e.of] => e.of \in muddled'
<1>1. PICK e : e = Head(queue[s])
  OBVIOUS
<1>2. e \in Happened
  BY <1>1, TakeMoves
<1>3. e.of \in Sources /\ e.nr \in Nat
  BY <1>2, EventsOf DEF Ev
<1>4. newest' = [newest EXCEPT ![e.of] = IF e.nr > newest[e.of] THEN e.nr ELSE newest[e.of]]
  BY <1>1 DEF Take
<1>5. muddled' = IF e.nr < newest[e.of] THEN muddled \cup {e.of} ELSE muddled
  BY <1>1 DEF Take
<1>6. newest \in [Sources -> Nat]
  BY DEF TypeInv, Types
<1> QED
  BY <1>1, <1>3, <1>4, <1>5, <1>6

-----------------------------------------------------------------------------
(* The order of events.                                                    *)

LEMMA OrderInit == Init => OrderInv
<1> SUFFICES ASSUME Init PROVE OrderInv
  OBVIOUS
<1>1. \A x \in Sources : newest[x] = 0 /\ Len(said[x]) = 0
  BY DEF Init
<1>2. \A x \in Sources : Nrs(x) = {}
  BY <1>1 DEF Nrs
<1>3. \A x \in Sources : At(Stream(x), "idle")
  BY KindsDiffer DEF Init, At, Idle
<1> QED
  BY <1>1, <1>2, <1>3 DEF OrderInv

LEMMA OrderStep == TypeInv /\ TypeInv' /\ OrderInv /\ [Next]_vars => OrderInv'
<1> SUFFICES ASSUME TypeInv, TypeInv', OrderInv, [Next]_vars PROVE OrderInv'
  OBVIOUS
<1>n. /\ \A x \in Sources : /\ Len(said[x]) \in Nat /\ newest[x] \in Nat
                            /\ Len(said'[x]) \in Nat /\ newest'[x] \in Nat
                            /\ newest[x] <= Len(said[x])
      /\ Extends
  BY ExtendsStep DEF TypeInv, Types, OrderInv
<1>1. ASSUME Flow PROVE OrderInv'
  <2>1. newest' = newest /\ Carried /\ NoneTaken
    BY <1>1 DEF Flow
  <2>2. \A x \in Sources : newest'[x] <= Len(said'[x])
    <3>1. \A x \in Sources : Len(said[x]) <= Len(said'[x])
      BY <1>n DEF Extends
    <3> QED
      BY <1>n, <2>1, <3>1
  <2>3. ASSUME NEW x \in Sources \ muddled', NEW i \in Nrs(x)', i > newest'[x]
        PROVE  Event(x, i) \in calls' \cup ToSet(queue'[Stream(x)])
    <3>1. CASE i \in Nrs(x)
      <4>1. x \in Sources \ muddled
        BY <2>1 DEF Carried
      <4>2. Event(x, i) \in calls \cup ToSet(queue[Stream(x)])
        BY <2>1, <2>3, <3>1, <4>1 DEF OrderInv
      <4>3. OnWay(Event(x, i))'
        BY <2>1, <3>1, <4>2 DEF Carried, OnWay, Event
      <4> QED
        BY <4>3 DEF OnWay, Event, Stream
    <3>2. CASE i \notin Nrs(x)
      BY <1>n, <3>2 DEF Extends
    <3> QED
      BY <3>1, <3>2
  <2>4. ASSUME NEW x \in Sources \ muddled', worker'[Stream(x)].pc # "idle",
               worker'[Stream(x)].event.of = x
        PROVE  worker'[Stream(x)].event.nr = newest'[x]
    BY <2>1, <2>4, KindsDiffer DEF NoneTaken, Carried, OrderInv, At, InHand
  <2> QED
    BY <2>2, <2>3, <2>4 DEF OrderInv, At, InHand, Stream
<1>2. ASSUME NEW s \in Streams, Take(s) PROVE OrderInv'
  <2>1. PICK e : e = Head(queue[s])
    OBVIOUS
  <2>2. /\ e \in Happened /\ Stream(e.of) = s
        /\ ToSet(queue[s]) = ToSet(queue'[s]) \cup {e}
        /\ \A t \in Streams \ {s} : queue'[t] = queue[t]
        /\ worker'[s].event = e
        /\ \A t \in Streams \ {s} : worker'[t] = worker[t]
    BY <1>2, <2>1, TakeMoves
  <2>3. e.of \in Sources /\ e.nr \in Nrs(e.of) /\ e.nr \in Nat /\ e = Event(e.of, e.nr)
    BY <2>2, EventsOf
  <2>4. /\ \A x \in Sources \ {e.of} : newest'[x] = newest[x]
        /\ newest'[e.of] = IF e.nr > newest[e.of] THEN e.nr ELSE newest[e.of]
        /\ muddled \subseteq muddled'
        /\ e.nr < newest[e.of] => e.of \in muddled'
    BY <1>2, <2>1, TakeOrders
  <2>5. said' = said /\ calls' = calls
    BY <1>2 DEF Take
  <2>6. e.of \notin muddled' => newest'[e.of] = e.nr /\ newest[e.of] <= e.nr
    BY <1>n, <2>3, <2>4
  <2>7. \A x \in Sources : newest'[x] <= Len(said'[x])
    BY <1>n, <2>3, <2>4, <2>5 DEF Nrs
  <2>8. ASSUME NEW x \in Sources \ muddled', NEW i \in Nrs(x), i > newest'[x]
        PROVE  Event(x, i) \in calls' \cup ToSet(queue'[Stream(x)])
    <3>1. newest[x] <= newest'[x] /\ x \in Sources \ muddled /\ i \in Nat
      BY <1>n, <2>3, <2>4, EventsOf
    <3>2. i > newest[x]
      BY <1>n, <2>8, <3>1
    <3>3. Event(x, i) \in calls \cup ToSet(queue[Stream(x)])
      BY <3>1, <3>2 DEF OrderInv
    <3>4. Event(x, i) # e
      <4>1. CASE x = e.of
        BY <1>n, <2>6, <2>8, <3>1, <4>1, EventsOf
      <4>2. CASE x # e.of
        BY <4>2, EventsOf
      <4> QED
        BY <4>1, <4>2
    <3> QED
      BY <2>2, <2>5, <3>3, <3>4, KindsDiffer
  <2>9. ASSUME NEW x \in Sources \ muddled', worker'[Stream(x)].pc # "idle",
               worker'[Stream(x)].event.of = x
        PROVE  worker'[Stream(x)].event.nr = newest'[x]
    <3>1. CASE Stream(x) = s
      BY <2>2, <2>6, <2>9, <3>1
    <3>2. CASE Stream(x) # s
      <4>1. x # e.of /\ x \in Sources \ muddled /\ worker'[Stream(x)] = worker[Stream(x)]
        BY <2>2, <2>4, <3>2, KindsDiffer
      <4> QED
        BY <2>4, <2>9, <4>1 DEF OrderInv, At, InHand
    <3> QED
      BY <3>1, <3>2
  <2>10. \A x \in Sources : Nrs(x)' = Nrs(x)
    BY <2>5 DEF Nrs
  <2> QED
    BY <2>7, <2>8, <2>9, <2>10 DEF OrderInv, At, InHand, Stream
<1> QED
  BY <1>1, <1>2, FlowStep

-----------------------------------------------------------------------------
(* How an event leaves a consumer's hand.                                  *)

LEMMA LeavesHand ==
  ASSUME TypeInv, [Next]_vars, NEW s \in Streams, ~At(s, "idle")
  PROVE  \/ worker'[s].event = worker[s].event
         \/ InHand(s) \in ToSet(queue'[s])
         \/ InHand(s).of \in muddled'
         \/ /\ s = "inbound" /\ worker'["status"] = worker["status"]
            /\ \/ GetVoterByPhone /\ OwnersOf[InHand(s).of] = {}
               \/ InsertSMSMessageIdempotent /\ Word(InHand(s)) \notin Keywords
               \/ ProcessOptOut
         \/ s = "status" /\ UpdateSMSMessageStatus
<1> DEFINE Goal == \/ worker'[s].event = worker[s].event
                   \/ InHand(s) \in ToSet(queue'[s])
                   \/ InHand(s).of \in muddled'
                   \/ /\ s = "inbound" /\ worker'["status"] = worker["status"]
                      /\ \/ GetVoterByPhone /\ OwnersOf[InHand(s).of] = {}
                         \/ InsertSMSMessageIdempotent /\ Word(InHand(s)) \notin Keywords
                         \/ ProcessOptOut
                   \/ s = "status" /\ UpdateSMSMessageStatus
<1>t. worker \in [Streams -> Hands] /\ queue \in [Streams -> Seq(Ev)]
  BY DEF TypeInv, Types
<1>s. "inbound" \in Streams /\ "status" \in Streams
  BY DEF Streams
<1>w. worker' = worker => Goal
  OBVIOUS
<1>a. ASSUME NEW t \in Streams, Acknowledge(t), t # s PROVE Goal
  BY <1>a, AcknowledgeMoves
<1>b. ASSUME BackInto(s) PROVE Goal
  BY <1>b, BackMoves
<1>i. Acknowledge("inbound") => worker'["status"] = worker["status"]
  BY <1>s, AcknowledgeMoves
<1>1. Outside => Goal
  BY <1>w DEF Outside, WriteText, CreateMessage, Progress, ChangeList
<1>2. Handle \/ InsertRow => Goal
  BY <1>w DEF Handle, InsertRow, Publish, InsertSMSMessage
<1>3. ASSUME NEW t \in Streams, Take(t) PROVE Goal
  <2>1. At(t, "idle") /\ \A u \in Streams \ {t} : worker'[u] = worker[u]
    BY <1>3, TakeMoves
  <2> QED
    BY <2>1
<1>4. ASSUME GetVoterByPhone PROVE Goal
  <2>1. ASSUME NEW v, worker' = [worker EXCEPT !["inbound"].pc = "insert", !["inbound"].voter = v]
        PROVE  Goal
    <3>1. worker'[s].event = worker[s].event
      BY <1>t, <1>s, <2>1 DEF Hands
    <3> QED
      BY <3>1
  <2>2. ASSUME OwnersOf[InHand("inbound").of] = {}, Acknowledge("inbound") PROVE Goal
    <3>1. CASE s = "inbound"
      BY <1>4, <1>i, <2>2, <3>1
    <3>2. CASE s # "inbound"
      BY <1>a, <1>s, <2>2, <3>2
    <3> QED
      BY <3>1, <3>2
  <2> QED
    BY <1>4, <2>1, <2>2 DEF GetVoterByPhone
<1>5. ASSUME InsertSMSMessageIdempotent PROVE Goal
  <2>1. ASSUME worker' = [worker EXCEPT !["inbound"].pc = "optout"] PROVE Goal
    <3>1. worker'[s].event = worker[s].event
      BY <1>t, <1>s, <2>1 DEF Hands
    <3> QED
      BY <3>1
  <2>2. ASSUME Word(InHand("inbound")) \notin Keywords, Acknowledge("inbound") PROVE Goal
    <3>1. CASE s = "inbound"
      BY <1>5, <1>i, <2>2, <3>1
    <3>2. CASE s # "inbound"
      BY <1>a, <1>s, <2>2, <3>2
    <3> QED
      BY <3>1, <3>2
  <2> QED
    BY <1>5, <2>1, <2>2 DEF InsertSMSMessageIdempotent
<1>6. ASSUME ProcessOptOut PROVE Goal
  <2>1. Acknowledge("inbound")
    BY <1>6 DEF ProcessOptOut
  <2> QED
    BY <1>6, <1>a, <1>i, <1>s, <2>1
<1>7. ASSUME UpdateSMSMessageStatus PROVE Goal
  <2>1. Acknowledge("status")
    BY <1>7 DEF UpdateSMSMessageStatus
  <2> QED
    BY <1>7, <1>a, <1>s, <2>1 DEF Streams
<1>8. ASSUME GetVoterByPhoneFails \/ OptOutFails PROVE Goal
  <2>1. Acknowledge("inbound") /\ muddled' = muddled \cup {InHand("inbound").of}
    BY <1>8 DEF GetVoterByPhoneFails, OptOutFails, Lost
  <2>2. CASE s = "inbound"
    BY <2>1, <2>2
  <2>3. CASE s # "inbound"
    BY <1>a, <1>s, <2>1, <2>3
  <2> QED
    BY <2>2, <2>3
<1>9. ASSUME NEW t \in Streams, Nak(t) PROVE Goal
  BY <1>9, <1>a, <1>b DEF Nak
<1>10. ASSUME Crash PROVE Goal
  <2>1. queue'[s] = Append(queue[s], InHand(s))
    BY <1>10 DEF Crash
  <2> QED
    BY <1>t, <2>1, HandIs, SetOfAppend
<1>11. Fault => Goal
  <2>1. InsertFails \/ UpdateFails => Goal
    BY <1>9, <1>s DEF InsertFails, UpdateFails
  <2>2. ASSUME NEW t \in Streams, Redeliver(t) PROVE Goal
    BY <1>w, <2>2 DEF Redeliver
  <2>3. ASSUME NEW e \in Happened, PublishFails(e) \/ CallAgain(e) PROVE Goal
    BY <1>w, <2>3 DEF PublishFails, CallAgain
  <2>4. ASSUME NEW m \in Messages, InsertSMSMessageFails(m) PROVE Goal
    BY <1>w, <2>4 DEF InsertSMSMessageFails
  <2> QED
    BY <1>8, <1>10, <2>1, <2>2, <2>3, <2>4 DEF Fault
<1>12. UNCHANGED vars => Goal
  BY <1>w DEF vars
<1> QED
  BY <1>1, <1>2, <1>3, <1>4, <1>5, <1>6, <1>7, <1>11, <1>12, <1>s
     DEF Next, Inbound, Status

(* An event is not through before its consumer is.                         *)
LEMMA NotThroughBefore ==
  ASSUME TypeInv, [Next]_vars, NEW x \in Sources \ muddled', NEW i \in Nrs(x),
         Pending(Event(x, i)), ~Pending(Event(x, i))'
  PROVE  LET s == Stream(x)
         IN  /\ ~At(s, "idle") /\ InHand(s) = Event(x, i)
             /\ \/ /\ s = "inbound" /\ worker'["status"] = worker["status"]
                   /\ \/ GetVoterByPhone /\ OwnersOf[x] = {}
                      \/ InsertSMSMessageIdempotent /\ said[x][i] \notin Keywords
                      \/ ProcessOptOut
                \/ s = "status" /\ UpdateSMSMessageStatus
<1>1. PICK e : e = Event(x, i)
  OBVIOUS
<1>2. PICK s \in Streams : s = Stream(x)
  BY KindsDiffer
<1>3. e \in Happened /\ e.of = x /\ e.nr = i /\ e # <<>>
  BY <1>1, EventsOf
<1>4. e \notin calls' /\ e \notin ToSet(queue'[s]) /\ worker'[s].event # e
  BY <1>1, <1>2, <1>3 DEF Pending, Stream, Event
<1>5. e \in calls \/ e \in ToSet(queue[s]) \/ worker[s].event = e
  BY <1>1, <1>2, <1>3 DEF Pending
<1>6. e \notin calls /\ e \notin ToSet(queue[s])
  <2>1. CASE Flow
    <3>1. OnWay(Event(x, i)) => OnWay(Event(x, i))'
      BY <2>1 DEF Flow, Carried
    <3>2. OnWay(Event(x, i)) <=> e \in calls \cup ToSet(queue[s])
      BY <1>1, <1>2, <1>3 DEF OnWay
    <3>3. ~OnWay(Event(x, i))'
      BY <1>1, <1>2, <1>3, <1>4 DEF OnWay, Event, Stream
    <3> QED
      BY <3>1, <3>2, <3>3
  <2>2. ASSUME NEW t \in Streams, Take(t) PROVE e \notin calls /\ e \notin ToSet(queue[s])
    <3>1. PICK f : f = Head(queue[t])
      OBVIOUS
    <3>2. /\ ToSet(queue[t]) = ToSet(queue'[t]) \cup {f}
          /\ \A u \in Streams \ {t} : queue'[u] = queue[u]
          /\ worker'[t].event = f
      BY <2>2, <3>1, TakeMoves
    <3>3. calls' = calls
      BY <2>2 DEF Take
    <3> QED
      BY <1>4, <3>2, <3>3
  <2> QED
    BY <2>1, <2>2, FlowStep
<1>7. InHand(s) = e /\ ~At(s, "idle")
  BY <1>3, <1>5, <1>6 DEF InHand, TypeInv, StreamsInv, Streamed
<1> QED
  BY <1>1, <1>2, <1>3, <1>4, <1>7, LeavesHand DEF InHand, Word

(* A word that is through was said, and through, before, unless it is the  *)
(* one a consumer has just acknowledged.                                   *)
LEMMA ThroughBefore ==
  ASSUME TypeInv, TypeInv', [Next]_vars,
         NEW x \in Sources \ muddled', NEW i \in Nrs(x)', ~Pending(Event(x, i))'
  PROVE  /\ x \in Sources \ muddled /\ i \in Nrs(x) /\ said'[x][i] = said[x][i]
         /\ Nrs(x) \subseteq Nrs(x)' /\ newest[x] <= newest'[x]
         /\ \/ ~Pending(Event(x, i))
            \/ /\ ~At(Stream(x), "idle") /\ InHand(Stream(x)) = Event(x, i)
               /\ \/ GetVoterByPhone /\ OwnersOf[x] = {}
                  \/ InsertSMSMessageIdempotent /\ said[x][i] \notin Keywords
                  \/ Stream(x) = "inbound" /\ ProcessOptOut
                  \/ Stream(x) = "status" /\ UpdateSMSMessageStatus
<1>1. i \in Nrs(x)
  <2>1. Event(x, i) \notin calls'
    BY DEF Pending
  <2> QED
    BY <2>1, ExtendsStep DEF Extends
<1>2. said'[x][i] = said[x][i] /\ Nrs(x) \subseteq Nrs(x)'
  <2>1. Len(said[x]) \in Nat /\ Len(said'[x]) \in Nat
    BY DEF TypeInv, Types
  <2>2. Len(said[x]) <= Len(said'[x])
    BY ExtendsStep DEF Extends
  <2> QED
    BY <1>1, <2>1, <2>2, ExtendsStep DEF Extends, Nrs
<1>3. muddled \subseteq muddled' \/ x \notin muddled
  <2>1. ASSUME NEW s \in Streams, Take(s) PROVE muddled \subseteq muddled'
    BY <2>1, TakeOrders
  <2>2. Flow => x \notin muddled
    BY DEF Flow, Carried
  <2> QED
    BY <2>1, <2>2, FlowStep
<1>4. newest[x] <= newest'[x]
  <2>1. newest[x] \in Nat
    BY DEF TypeInv, Types
  <2>2. ASSUME NEW s \in Streams, Take(s) PROVE newest[x] <= newest'[x]
    <3>1. PICK e : e = Head(queue[s])
      OBVIOUS
    <3>2. e.nr \in Nat
      BY <2>2, <3>1, TakeMoves DEF Ev
    <3> QED
      BY <2>1, <2>2, <3>1, <3>2, TakeOrders
  <2>3. Flow => newest[x] <= newest'[x]
    BY <2>1 DEF Flow
  <2> QED
    BY <2>2, <2>3, FlowStep
<1>5. Stream(x) \in Streams
  BY KindsDiffer
<1> QED
  BY <1>1, <1>2, <1>3, <1>4, <1>5, NotThroughBefore

-----------------------------------------------------------------------------
(* The suppression list.                                                   *)

LEMMA ListStep ==
  ASSUME [Next]_vars
  PROVE  \/ ProcessOptOut
         \/ \E v \in Voters : ChangeList(v)
         \/ suppressed' = suppressed /\ byStaff' = byStaff
<1>1. Outside => (\E v \in Voters : ChangeList(v)) \/ UNCHANGED list
  BY DEF Outside, WriteText, CreateMessage, Progress
<1>2. Handle \/ InsertRow => UNCHANGED list
  BY DEF Handle, InsertRow, Publish, InsertSMSMessage
<1>3. Inbound => ProcessOptOut \/ UNCHANGED list
  BY DEF Inbound, Take, GetVoterByPhone, InsertSMSMessageIdempotent
<1>4. Status => UNCHANGED list
  BY DEF Status, Take, UpdateSMSMessageStatus
<1>5. Fault => UNCHANGED list
  BY DEF Fault, GetVoterByPhoneFails, InsertFails, OptOutFails, UpdateFails, Redeliver,
         PublishFails, CallAgain, InsertSMSMessageFails, Crash
<1>6. UNCHANGED vars => UNCHANGED list
  BY DEF vars
<1>7. UNCHANGED list => suppressed' = suppressed /\ byStaff' = byStaff
  BY DEF list
<1> QED
  BY <1>1, <1>2, <1>3, <1>4, <1>5, <1>6, <1>7 DEF Next

LEMMA HeedInit == Init => HeedInv
<1> SUFFICES ASSUME Init PROVE HeedInv
  OBVIOUS
<1>1. \A p \in Phones : Nrs(p) = {}
  BY DEF Init, Nrs, Sources
<1> QED
  BY <1>1 DEF HeedInv

LEMMA HeedStep == TypeInv /\ TypeInv' /\ OrderInv /\ HeedInv /\ [Next]_vars => HeedInv'
<1> SUFFICES ASSUME TypeInv, TypeInv', OrderInv, HeedInv, [Next]_vars,
                    NEW p \in Phones \ muddled', NEW v \in Voters \ byStaff', OwnersOf[p] = {v},
                    NEW i \in Nrs(p)', said'[p][i] \in Keywords, ~Pending(Event(p, i))'
             PROVE  \/ v \in suppressed' <=> said'[p][i] = "STOP"
                    \/ \E j \in Nrs(p)' : i < j /\ j <= newest'[p] /\ said'[p][j] \in Keywords
  BY DEF HeedInv
<1>p. p \in Sources /\ Stream(p) = "inbound" /\ "inbound" \in Streams
  BY KindsDiffer DEF Streams
<1>t. p \in Sources \ muddled' /\ newest[p] \in Nat /\ newest'[p] \in Nat
  BY <1>p DEF TypeInv, Types
<1>1. /\ p \in Sources \ muddled /\ i \in Nrs(p) /\ said'[p][i] = said[p][i]
      /\ Nrs(p) \subseteq Nrs(p)' /\ newest[p] <= newest'[p]
      /\ \/ ~Pending(Event(p, i))
         \/ /\ ~At("inbound", "idle") /\ InHand("inbound") = Event(p, i)
            /\ ProcessOptOut
  <2>1. /\ OwnersOf[p] # {} /\ Stream(p) # "status"
        /\ said'[p][i] = said[p][i] => said[p][i] \in Keywords
    BY <1>p
  <2> QED
    BY <1>p, <1>t, <2>1, ThroughBefore
<1>2. \A j \in Nrs(p) : j \in Nat /\ said'[p][j] = said[p][j]
  BY <1>p, EventsOf, ExtendsStep DEF Extends
<1>3. ASSUME ~Pending(Event(p, i)), v \notin byStaff, v \in suppressed' <=> v \in suppressed
      PROVE  \/ v \in suppressed' <=> said'[p][i] = "STOP"
             \/ \E j \in Nrs(p)' : i < j /\ j <= newest'[p] /\ said'[p][j] \in Keywords
  <2>1. \/ v \in suppressed <=> said[p][i] = "STOP"
        \/ \E j \in Nrs(p) : i < j /\ j <= newest[p] /\ said[p][j] \in Keywords
    BY <1>1, <1>3 DEF HeedInv
  <2>2. ASSUME NEW j \in Nrs(p), i < j, j <= newest[p], said[p][j] \in Keywords
        PROVE  \E k \in Nrs(p)' : i < k /\ k <= newest'[p] /\ said'[p][k] \in Keywords
    <3>1. j <= newest'[p]
      BY <1>t, <1>1, <1>2, <2>2
    <3> QED
      BY <1>1, <1>2, <2>2, <3>1
  <2> QED
    BY <1>1, <1>3, <2>1, <2>2
<1>4. CASE suppressed' = suppressed /\ byStaff' = byStaff /\ ~ProcessOptOut
  BY <1>1, <1>3, <1>4
<1>5. ASSUME NEW w \in Voters, ChangeList(w), ~ProcessOptOut
      PROVE  \/ v \in suppressed' <=> said'[p][i] = "STOP"
             \/ \E j \in Nrs(p)' : i < j /\ j <= newest'[p] /\ said'[p][j] \in Keywords
  <2>1. /\ byStaff' = byStaff \cup {w}
        /\ suppressed' \in {suppressed \cup {w}, suppressed \ {w}}
    BY <1>5 DEF ChangeList
  <2> QED
    BY <1>1, <1>3, <1>5, <2>1
<1>6. ASSUME ProcessOptOut
      PROVE  \/ v \in suppressed' <=> said'[p][i] = "STOP"
             \/ \E j \in Nrs(p)' : i < j /\ j <= newest'[p] /\ said'[p][j] \in Keywords
  <2>1. PICK e : e = InHand("inbound")
    OBVIOUS
  <2>2. PICK w : w = worker["inbound"].voter
    OBVIOUS
  <2>3. /\ At("inbound", "optout") /\ ~At("inbound", "idle")
        /\ suppressed' = IF Word(e) = "STOP" THEN suppressed \cup {w} ELSE suppressed \ {w}
        /\ byStaff' = byStaff \ {w}
        /\ calls' = calls /\ queue' = queue /\ newest' = newest
    BY <1>6, <2>1, <2>2 DEF ProcessOptOut, At, history
  <2>4. /\ e \in Happened /\ e.of \in Sources /\ Stream(e.of) = "inbound" /\ e.nr \in Nrs(e.of)
        /\ e = Event(e.of, e.nr)
    BY <1>p, <2>1, <2>3, HandIs, EventsOf
  <2>5. e.of \in Phones
    BY <2>4, KindsDiffer
  <2>6. w \in OwnersOf[e.of] /\ Word(e) \in Keywords
    BY <2>1, <2>2, <2>3 DEF TypeInv, StreamsInv, Placed, At
  <2>7. CASE e.of # p
    <3>1. v # w
      BY <2>5, <2>6, <2>7, WebhookAssumption
    <3>2. ~Pending(Event(p, i))
      BY <1>p, <1>1, <2>1, <2>7, EventsOf
    <3> QED
      BY <1>3, <2>3, <3>1, <3>2
  <2>8. CASE e.of = p
    <3>1. v = w /\ e.nr = newest[p] /\ e.nr \in Nrs(p) /\ e = Event(p, e.nr)
          /\ Word(e) = said[p][e.nr]
      BY <1>p, <1>1, <2>1, <2>3, <2>4, <2>6, <2>8 DEF OrderInv, Word
    <3>2. CASE i = e.nr
      BY <1>1, <2>3, <2>6, <3>1, <3>2 DEF Keywords
    <3>3. CASE i > e.nr
      <4>1. Event(p, i) \in calls \cup ToSet(queue["inbound"])
        BY <1>p, <1>1, <3>1, <3>3 DEF OrderInv
      <4>2. Event(p, i)' = Event(p, i) /\ Event(p, i).of = p
        BY <1>1, <1>p, EventsOf DEF Event
      <4> QED
        BY <1>p, <2>3, <4>1, <4>2 DEF Pending, Stream
    <3>4. CASE i < e.nr
      BY <1>t, <1>1, <1>2, <2>3, <2>6, <3>1, <3>4
    <3> QED
      BY <1>1, <1>2, <3>1, <3>2, <3>3, <3>4
  <2> QED
    BY <2>7, <2>8
<1> QED
  BY <1>4, <1>5, <1>6, ListStep

-----------------------------------------------------------------------------
(* The rows of the texts.                                                  *)

LEMMA RowMoves ==
  ASSUME TypeInv, [Next]_vars
  PROVE  \/ UpdateSMSMessageStatus
         \/ \E m \in Messages : InsertSMSMessage(m)
         \/ row' = row /\ \A m \in Messages : sending'[m] # "done" => sending[m] # "done"
<1> DEFINE Still == row' = row /\ \A m \in Messages : sending'[m] # "done" => sending[m] # "done"
<1>t. sending \in [Messages -> {"none", "insert", "done"}]
  BY DEF TypeInv, Types
<1>s. row' = row /\ sending' = sending => Still
  OBVIOUS
<1>1. Outside => Still
  <2>1. ASSUME NEW m \in Messages, CreateMessage(m) PROVE Still
    BY <1>t, <2>1 DEF CreateMessage
  <2> QED
    BY <1>s, <2>1 DEF Outside, WriteText, Progress, ChangeList, storage
<1>2. Handle => Still
  BY <1>s DEF Handle, Publish, storage
<1>3. Inbound => Still
  BY <1>s DEF Inbound, Take, GetVoterByPhone, InsertSMSMessageIdempotent, ProcessOptOut, storage
<1>4. Status => Still \/ UpdateSMSMessageStatus
  BY <1>s DEF Status, Take, storage
<1>5. Fault => Still
  <2>1. ASSUME NEW m \in Messages, InsertSMSMessageFails(m) PROVE Still
    BY <1>t, <2>1 DEF InsertSMSMessageFails
  <2>2. Crash => Still
    BY <1>t DEF Crash
  <2>3. GetVoterByPhoneFails \/ InsertFails \/ OptOutFails \/ UpdateFails => Still
    BY <1>s DEF GetVoterByPhoneFails, InsertFails, OptOutFails, UpdateFails, storage
  <2>4. ASSUME NEW s \in Streams, Redeliver(s) PROVE Still
    BY <1>s, <2>4 DEF Redeliver, storage
  <2>5. ASSUME NEW e \in Happened, PublishFails(e) \/ CallAgain(e) PROVE Still
    BY <1>s, <2>5 DEF PublishFails, CallAgain, storage
  <2> QED
    BY <2>1, <2>2, <2>3, <2>4, <2>5 DEF Fault
<1>6. UNCHANGED vars => Still
  BY <1>s DEF vars, storage
<1> QED
  BY <1>1, <1>2, <1>3, <1>4, <1>5, <1>6 DEF Next, InsertRow

LEMMA RowInit == Init => RowInv
<1> SUFFICES ASSUME Init PROVE RowInv
  OBVIOUS
<1>1. \A m \in Messages : Nrs(m) = {} /\ row[m] = "none"
  BY DEF Init, Nrs, Sources
<1> QED
  BY <1>1 DEF RowInv

LEMMA RowStep == TypeInv /\ TypeInv' /\ OrderInv /\ RowInv /\ [Next]_vars => RowInv'
<1> SUFFICES ASSUME TypeInv, TypeInv', OrderInv, RowInv, [Next]_vars PROVE RowInv'
  OBVIOUS
<1> DEFINE Row(m, i) == row'[m] # "none" /\ (row'[m] = said'[m][i] \/ i < newest'[m])
<1>t. /\ row \in [Messages -> {"none", "queued"} \cup Reports]
      /\ sending \in [Messages -> {"none", "insert", "done"}]
      /\ \A m \in Messages : newest[m] \in Nat /\ newest'[m] \in Nat
  BY DEF TypeInv, Types, Sources
<1>m. /\ \A m \in Messages : m \in Sources /\ Stream(m) = "status"
      /\ "status" \in Streams
  BY KindsDiffer DEF Streams
<1>n. \A m \in Messages : sending[m] # "done" => row[m] = "none"
  BY DEF RowInv
<1>e. ASSUME NEW m \in Messages \ muddled', NEW i \in Nrs(m)', ~Pending(Event(m, i))'
      PROVE  /\ m \notin muddled /\ i \in Nrs(m) /\ i \in Nat /\ said'[m][i] = said[m][i]
             /\ newest[m] <= newest'[m]
             /\ \/ ~Pending(Event(m, i))
                \/ /\ ~At("status", "idle") /\ InHand("status") = Event(m, i)
                   /\ UpdateSMSMessageStatus
  <2>1. m \in Sources \ muddled' /\ Stream(m) = "status"
    BY <1>m
  <2>2. /\ m \in Sources \ muddled /\ i \in Nrs(m) /\ said'[m][i] = said[m][i]
        /\ newest[m] <= newest'[m]
        /\ \/ ~Pending(Event(m, i))
           \/ /\ ~At(Stream(m), "idle") /\ InHand(Stream(m)) = Event(m, i)
              /\ \/ GetVoterByPhone \/ InsertSMSMessageIdempotent
                 \/ Stream(m) = "inbound"
                 \/ UpdateSMSMessageStatus
    BY <1>e, <2>1, ThroughBefore
  <2>3. ASSUME GetVoterByPhone \/ InsertSMSMessageIdempotent PROVE ~Pending(Event(m, i))
    <3>1. PICK e : e = Event(m, i)
      OBVIOUS
    <3>2. e.of = m /\ e # <<>>
      BY <2>1, <2>2, <3>1, EventsOf
    <3>3. calls' = calls /\ queue' = queue
      BY <2>3 DEF GetVoterByPhone, InsertSMSMessageIdempotent
    <3>4. worker'["status"] = worker["status"]
      BY <2>3 DEF GetVoterByPhone, InsertSMSMessageIdempotent, Acknowledge, TypeInv, Types, Streams
    <3>5. ~(e \in calls' \/ e \in ToSet(queue'["status"]) \/ worker'["status"].event = e)
      BY <1>e, <2>1, <3>1, <3>2 DEF Pending, Stream, Event
    <3> QED
      BY <2>1, <3>1, <3>2, <3>3, <3>4, <3>5 DEF Pending
  <2>4. i \in Nat
    BY <2>1, <2>2, EventsOf
  <2> QED
    BY <2>1, <2>2, <2>3, <2>4
<1>k. ASSUME NEW m \in Messages \ muddled', NEW i \in Nrs(m)', ~Pending(Event(m, i))',
             ~Pending(Event(m, i)), row'[m] = row[m]
      PROVE  Row(m, i)
  <2>1. row[m] # "none" /\ (row[m] = said[m][i] \/ i < newest[m])
    BY <1>e, <1>k DEF RowInv
  <2>2. i < newest[m] => i < newest'[m]
    BY <1>t, <1>e, <1>k
  <2> QED
    BY <1>e, <1>k, <2>1, <2>2
<1>1. CASE ~UpdateSMSMessageStatus /\ row' = row
           /\ \A m \in Messages : sending'[m] # "done" => sending[m] # "done"
  <2>1. \A m \in Messages : sending'[m] # "done" => row'[m] = "none"
    BY <1>1, <1>n
  <2>2. ASSUME NEW m \in Messages \ muddled', NEW i \in Nrs(m)', ~Pending(Event(m, i))'
        PROVE  Row(m, i)
    BY <1>1, <1>e, <1>k, <2>2
  <2> QED
    BY <2>1, <2>2 DEF RowInv
<1>2. ASSUME NEW n \in Messages, InsertSMSMessage(n), ~UpdateSMSMessageStatus PROVE RowInv'
  <2>1. /\ row' = [row EXCEPT ![n] = "queued"] /\ sending[n] = "insert"
        /\ sending' = [sending EXCEPT ![n] = "done"]
    BY <1>2 DEF InsertSMSMessage
  <2>2. \A m \in Messages : sending'[m] # "done" => row'[m] = "none"
    BY <1>t, <1>n, <2>1
  <2>3. ASSUME NEW m \in Messages \ muddled', NEW i \in Nrs(m)', ~Pending(Event(m, i))'
        PROVE  Row(m, i)
    <3>1. ~Pending(Event(m, i)) /\ m \notin muddled /\ i \in Nrs(m)
      BY <1>2, <1>e, <2>3
    <3>2. row[m] # "none"
      BY <3>1 DEF RowInv
    <3>3. m # n
      BY <1>n, <2>1, <3>2
    <3>4. row'[m] = row[m]
      BY <1>t, <2>1, <3>3
    <3> QED
      BY <1>k, <2>3, <3>1, <3>4
  <2> QED
    BY <2>2, <2>3 DEF RowInv
<1>3. ASSUME UpdateSMSMessageStatus PROVE RowInv'
  <2>1. PICK e : e = InHand("status")
    OBVIOUS
  <2>2. /\ ~At("status", "idle")
        /\ row' = [row EXCEPT ![e.of] = IF row[e.of] = "none" THEN row[e.of] ELSE Word(e)]
        /\ row[e.of] = "none" => e.of \in muddled'
        /\ calls' = calls /\ queue' = queue /\ newest' = newest /\ sending' = sending
    BY <1>3, <2>1 DEF UpdateSMSMessageStatus, Lost, At
  <2>3. /\ e \in Happened /\ e.of \in Sources /\ Stream(e.of) = "status" /\ e.nr \in Nrs(e.of)
        /\ e = Event(e.of, e.nr) /\ e.nr \in Nat
    BY <1>m, <2>1, <2>2, HandIs, EventsOf
  <2>4. e.of \in Messages
    BY <2>3, KindsDiffer
  <2>5. Word(e) \in Reports /\ Word(e) = said[e.of][e.nr]
    BY <2>3, <2>4, ElementOfSeq DEF TypeInv, Types, Word, Nrs
  <2>6. \A m \in Messages : sending'[m] # "done" => row'[m] = "none"
    BY <1>t, <1>n, <2>2, <2>4
  <2>7. ASSUME NEW m \in Messages \ muddled', NEW i \in Nrs(m)', ~Pending(Event(m, i))'
        PROVE  Row(m, i)
    <3>1. CASE m # e.of
      <4>1. row'[m] = row[m]
        BY <1>t, <2>2, <3>1
      <4>2. ~Pending(Event(m, i))
        <5>1. i \in Nrs(m) /\ m \in Sources
          BY <1>e, <1>m, <2>7
        <5>2. Event(m, i) # e
          BY <3>1, <5>1, EventsOf
        <5> QED
          BY <1>e, <2>1, <2>7, <5>2
      <4> QED
        BY <1>k, <2>7, <4>1, <4>2
    <3>2. CASE m = e.of
      <4>1. row[m] # "none" /\ row'[m] = said[m][e.nr] /\ row'[m] \in Reports
        BY <1>t, <2>2, <2>4, <2>5, <2>7, <3>2
      <4>2. e.nr = newest[m]
        <5>1. m \in Sources \ muddled
          BY <1>e, <1>m, <2>7
        <5> QED
          BY <1>m, <2>1, <2>2, <3>2, <5>1 DEF OrderInv
      <4>3. row'[m] # "none"
        BY <4>1 DEF Reports
      <4>4. CASE i = e.nr
        BY <1>e, <2>7, <4>1, <4>3, <4>4
      <4>5. CASE i < e.nr
        BY <2>2, <4>2, <4>3, <4>5
      <4>6. CASE i > e.nr
        <5>1. i \in Nrs(m) /\ m \in Sources \ muddled
          BY <1>e, <1>m, <2>7
        <5>2. Event(m, i) \in calls \cup ToSet(queue["status"])
          BY <1>m, <4>2, <4>6, <5>1 DEF OrderInv
        <5>3. Event(m, i).of = m
          BY <5>1, EventsOf
        <5> QED
          BY <1>m, <2>2, <2>7, <5>2, <5>3 DEF Pending, Stream, Event
      <4>7. i \in Nat
        BY <1>e, <2>7
      <4> QED
        BY <2>3, <4>4, <4>5, <4>6, <4>7
    <3> QED
      BY <3>1, <3>2
  <2> QED
    BY <2>6, <2>7 DEF RowInv
<1> QED
  BY <1>1, <1>2, <1>3, RowMoves

-----------------------------------------------------------------------------
(* What the webhooks promise.                                              *)

LEMMA HandledIs ==
  ASSUME TypeInv, NEW x \in Sources, Waiting(x) = {}, NEW i \in Nrs(x)
  PROVE  ~Pending(Event(x, i))
<1>1. Event(x, i) \in Happened /\ Event(x, i).of = x
  BY EventsOf
<1> QED
  BY <1>1 DEF Waiting, Pending

LEMMA LastWordFollows == TypeInv /\ OrderInv /\ HeedInv => LastWordStands
<1> SUFFICES ASSUME TypeInv, OrderInv, HeedInv,
                    NEW p \in Phones \ muddled, NEW v \in Voters \ byStaff,
                    OwnersOf[p] = {v}, Waiting(p) = {},
                    NEW word \in Keywords, LastKeywordIs(p, word)
             PROVE  v \in suppressed <=> word = "STOP"
  BY DEF LastWordStands
<1>1. p \in Sources /\ said[p] \in Seq(PhoneWords)
  BY DEF TypeInv, Types, Sources
<1>2. PICK i \in DOMAIN said[p] :
        said[p][i] = word /\ \A j \in DOMAIN said[p] : j > i => said[p][j] \notin Keywords
  BY DEF LastKeywordIs
<1>3. DOMAIN said[p] = Nrs(p) /\ \A j \in Nrs(p) : j \in Nat
  BY <1>1, LenProperties, EventsOf DEF Nrs
<1>4. ~Pending(Event(p, i))
  BY <1>1, <1>2, <1>3, HandledIs
<1>5. \/ v \in suppressed <=> said[p][i] = "STOP"
      \/ \E j \in Nrs(p) : i < j /\ j <= newest[p] /\ said[p][j] \in Keywords
  BY <1>2, <1>3, <1>4 DEF HeedInv
<1>6. ASSUME NEW j \in Nrs(p), i < j PROVE said[p][j] \notin Keywords
  BY <1>2, <1>3, <1>6
<1> QED
  BY <1>2, <1>5, <1>6

LEMMA RowFollows == TypeInv /\ OrderInv /\ RowInv => RowTellsDelivery
<1> SUFFICES ASSUME TypeInv, OrderInv, RowInv, NEW m \in Messages \ muddled,
                    said[m] # <<>>, Waiting(m) = {}
             PROVE  row[m] = Last(said[m])
  BY DEF RowTellsDelivery
<1>1. m \in Sources /\ said[m] \in Seq(Reports) /\ newest[m] \in Nat
  BY DEF TypeInv, Types, Sources
<1>2. Len(said[m]) \in Nat /\ Len(said[m]) # 0
  BY <1>1, EmptySeq, LenProperties
<1>3. Len(said[m]) \in Nrs(m)
  BY <1>2 DEF Nrs
<1>4. ~Pending(Event(m, Len(said[m])))
  BY <1>1, <1>3, HandledIs
<1>5. row[m] = said[m][Len(said[m])] \/ Len(said[m]) < newest[m]
  BY <1>3, <1>4 DEF RowInv
<1>6. newest[m] <= Len(said[m])
  BY <1>1 DEF OrderInv
<1>7. row[m] = said[m][Len(said[m])]
  BY <1>1, <1>2, <1>5, <1>6
<1> QED
  BY <1>7 DEF Last

(* For any voters, phones, texts and faults: once the texts from a number  *)
(* are handled, its voter is on the suppression list exactly if the last   *)
(* keyword was STOP.                                                       *)
THEOREM LastWordIsHeeded == Spec => []LastWordStands
<1> DEFINE Inv == TypeInv /\ OrderInv /\ HeedInv
<1>1. Init => Inv
  BY TypeInit, OrderInit, HeedInit
<1>2. Inv /\ [Next]_vars => Inv'
  <2> SUFFICES ASSUME Inv, [Next]_vars PROVE Inv'
    OBVIOUS
  <2>1. TypeInv'
    BY TypeStep
  <2> QED
    BY <2>1, OrderStep, HeedStep
<1>3. Inv => LastWordStands
  BY LastWordFollows
<1> HIDE DEF Inv
<1> QED
  BY <1>1, <1>2, <1>3, PTL DEF Spec

(* For any texts and faults: once the reports about a text are handled,    *)
(* its row tells the last one.                                             *)
THEOREM RowKeepsUp == Spec => []RowTellsDelivery
<1> DEFINE Inv == TypeInv /\ OrderInv /\ RowInv
<1>1. Init => Inv
  BY TypeInit, OrderInit, RowInit
<1>2. Inv /\ [Next]_vars => Inv'
  <2> SUFFICES ASSUME Inv, [Next]_vars PROVE Inv'
    OBVIOUS
  <2>1. TypeInv'
    BY TypeStep
  <2> QED
    BY <2>1, OrderStep, RowStep
<1>3. Inv => RowTellsDelivery
  BY RowFollows
<1> HIDE DEF Inv
<1> QED
  BY <1>1, <1>2, <1>3, PTL DEF Spec
=============================================================================
