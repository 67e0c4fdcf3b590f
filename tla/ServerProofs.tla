---------------------------- MODULE ServerProofs ----------------------------
(***************************************************************************)
(* Proofs about Server and its parts, for any number of users, streams,    *)
(* messages, requests and faults and any capacity or limit: first what     *)
(* holds of the notifications, then of the rate limiter and the accounts,  *)
(* of the rows that a start seeds, and last of the process that runs them  *)
(* all, with the types of all its variables.                               *)
(***************************************************************************)
EXTENDS Server, FiniteSetTheorems, TLAPS

-----------------------------------------------------------------------------
(* Notifications: the hub and its streams, the queue and its consumer. *)

(* Two streams of one user at the same time are both recorded. *)
RivalsOverlap ==
  \A s, t \in serving : (s # t /\ Viewer[s] = Viewer[t]) => {s, t} \subseteq overlapped

(* A stream has a channel from its registration on, and only then messages. *)
ChannelsFirst ==
  \A s \in Streams :
    channel[s] = "none" => s \notin serving /\ buffer[s] = <<>>

HubTypeOK ==
  /\ clients \in [Users -> Streams \cup {NoStream}]
  /\ serving \subseteq Streams /\ overlapped \subseteq Streams
  /\ channel \in [Streams -> {"none", "open", "closed"}]
  /\ buffer \in [Streams -> Seq(Messages)]

(* What a stop, a registration and the end of a stream preserve together. *)
HubInv ==
  /\ HubTypeOK
  /\ OpenMeansRegistered
  /\ RegisteredMeansServed
  /\ LoneStreamsReached
  /\ EndedMeansRead
  /\ RivalsOverlap
  /\ ChannelsFirst

LEMMA InitHub == NotificationsInit => HubInv
<1> SUFFICES ASSUME NotificationsInit PROVE HubInv
  OBVIOUS
<1> USE NotificationsAssumption DEF NotificationsInit
<1>1. HubTypeOK
  BY DEF HubTypeOK
<1>2. OpenMeansRegistered /\ RegisteredMeansServed /\ LoneStreamsReached /\ EndedMeansRead
  BY DEF OpenMeansRegistered, RegisteredMeansServed, LoneStreamsReached, EndedMeansRead
<1>3. RivalsOverlap /\ ChannelsFirst
  BY DEF RivalsOverlap, ChannelsFirst
<1> QED
  BY <1>1, <1>2, <1>3 DEF HubInv

(* A new stream: the channel it replaces is that of a stream that runs, which
   is recorded as overlapped. *)
LEMMA RegisterKeeps ==
  ASSUME HubInv, NEW s \in Streams, Register(s)
  PROVE  HubInv'
<1> USE NotificationsAssumption
<1> DEFINE u == Viewer[s]
<1>1. /\ u \in Users /\ channel[s] = "none" /\ s \notin serving /\ buffer[s] = <<>>
      /\ clients[u] # s
  BY DEF HubInv, ChannelsFirst, RegisteredMeansServed, HubTypeOK, Register
<1>2. HubTypeOK'
  BY <1>1 DEF HubInv, HubTypeOK, Register, Others, brokerVars
<1>3. /\ \A t \in Streams : channel'[t] = IF t = s THEN "open"
                                          ELSE IF t = clients[u] THEN "closed" ELSE channel[t]
      /\ \A v \in Users : clients'[v] = IF v = u THEN s ELSE clients[v]
      /\ serving' = serving \cup {s}
      /\ buffer' = buffer /\ gone' = gone
  BY DEF Register, HubInv, HubTypeOK
<1>4. OpenMeansRegistered'
  <2> SUFFICES ASSUME NEW t \in Streams
               PROVE  channel'[t] = "open" <=> clients'[Viewer[t]] = t
    BY DEF OpenMeansRegistered
  <2>1. Viewer[t] \in Users /\ t # NoStream
    OBVIOUS
  <2>2. channel[t] = "open" <=> clients[Viewer[t]] = t
    BY DEF HubInv, OpenMeansRegistered
  <2>3. CASE t = s
    BY <2>3, <1>1, <1>3
  <2>4. CASE t # s /\ Viewer[t] = u
    BY <2>2, <2>4, <1>1, <1>3
  <2>5. CASE t # s /\ Viewer[t] # u
    <3>1. t # clients[u]
      BY <1>1, <2>1, <2>5 DEF HubInv, RegisteredMeansServed
    <3> QED
      BY <2>1, <2>2, <2>5, <3>1, <1>3
  <2> QED
    BY <2>3, <2>4, <2>5
<1>5. RegisteredMeansServed'
  BY <1>1, <1>3 DEF HubInv, RegisteredMeansServed, HubTypeOK
<1>6. overlapped \subseteq overlapped' /\ Others(s) \subseteq overlapped'
      /\ (Others(s) # {} => s \in overlapped')
  BY DEF Register
<1>7. LoneStreamsReached'
  <2> SUFFICES ASSUME NEW t \in serving', t \notin overlapped' PROVE channel'[t] = "open"
    BY DEF LoneStreamsReached
  <2>1. CASE t = s
    BY <2>1, <1>3
  <2>2. CASE t # s
    <3>1. t \in serving /\ channel[t] = "open"
      BY <2>2, <1>3, <1>6 DEF HubInv, LoneStreamsReached
    <3>2. t # clients[u]
      BY <3>1, <1>6 DEF HubInv, RegisteredMeansServed, Others, HubTypeOK
    <3> QED
      BY <2>2, <3>1, <3>2, <1>3 DEF HubInv, HubTypeOK
  <2> QED
    BY <2>1, <2>2
<1>8. EndedMeansRead'
  BY <1>3 DEF HubInv, EndedMeansRead
<1>9. RivalsOverlap'
  BY <1>1, <1>3, <1>6 DEF HubInv, RivalsOverlap, Others
<1>10. ChannelsFirst'
  BY <1>1, <1>3 DEF HubInv, ChannelsFirst, HubTypeOK
<1> QED
  BY <1>2, <1>4, <1>5, <1>7, <1>8, <1>9, <1>10 DEF HubInv

(* The end of a stream closes the user's channel, whosever it is: another
   stream of the user that runs, if not its own. *)
LEMMA EndStreamKeeps ==
  ASSUME HubInv, NEW s \in Streams, EndStream(s)
  PROVE  HubInv'
<1> USE NotificationsAssumption
<1> DEFINE u == Viewer[s]
<1>1. u \in Users /\ s \in serving /\ channel[s] # "none"
  BY DEF HubInv, ChannelsFirst, HubTypeOK, EndStream
<1>2. HubTypeOK'
  BY <1>1 DEF HubInv, HubTypeOK, EndStream, Unregister, brokerVars
<1>3. /\ \A t \in Streams : channel'[t] = IF t = clients[u] THEN "closed" ELSE channel[t]
      /\ \A v \in Users : clients'[v] = IF v = u THEN NoStream ELSE clients[v]
      /\ serving' = serving \ {s}
      /\ buffer' = buffer /\ gone' = gone /\ overlapped' = overlapped
  BY DEF EndStream, Unregister, HubInv, HubTypeOK
<1>4. OpenMeansRegistered'
  BY SMTT(30), <1>1, <1>3 DEF HubInv, OpenMeansRegistered, RegisteredMeansServed, HubTypeOK
<1>5. RegisteredMeansServed'
  BY <1>1, <1>3 DEF HubInv, RegisteredMeansServed, HubTypeOK
<1>6. LoneStreamsReached'
  <2> SUFFICES ASSUME NEW t \in serving', t \notin overlapped' PROVE channel'[t] = "open"
    BY DEF LoneStreamsReached
  <2>1. t \in serving /\ t # s /\ channel[t] = "open" /\ t \notin overlapped
    BY <1>3 DEF HubInv, LoneStreamsReached
  <2>2. t # clients[u]
    BY <1>1, <2>1 DEF HubInv, HubTypeOK, RegisteredMeansServed, RivalsOverlap
  <2> QED
    BY <2>1, <2>2, <1>3 DEF HubInv, HubTypeOK
<1>7. EndedMeansRead'
  <2>1. s \in gone \/ buffer[s] = <<>>
    BY DEF EndStream, Ends
  <2> QED
    BY <2>1, <1>3 DEF HubInv, EndedMeansRead
<1>8. RivalsOverlap'
  BY <1>3 DEF HubInv, RivalsOverlap
<1>9. ChannelsFirst'
  BY <1>1, <1>3 DEF HubInv, ChannelsFirst, RegisteredMeansServed, HubTypeOK
<1> QED
  BY <1>2, <1>4, <1>5, <1>6, <1>7, <1>8, <1>9 DEF HubInv

(* A message goes to a stream that runs, if to any. *)
LEMMA SendKeeps ==
  ASSUME HubInv, NEW u, NEW m \in Messages, SendToUser(u, m),
         UNCHANGED <<clients, serving, channel, gone, overlapped>>
  PROVE  HubInv'
<1> USE NotificationsAssumption
<1>1. /\ buffer' \in [Streams -> Seq(Messages)]
      /\ \A s \in Streams \ serving : buffer'[s] = buffer[s]
      /\ \A s \in Streams : channel[s] = "none" => buffer'[s] = <<>>
  <2>1. CASE UNCHANGED buffer
    BY <2>1 DEF HubInv, HubTypeOK, ChannelsFirst
  <2>2. CASE /\ u \in Users /\ clients[u] # NoStream
             /\ buffer' = [buffer EXCEPT ![clients[u]] = Append(@, m)]
    <3>1. clients[u] \in serving /\ clients[u] \in Streams
      BY <2>2 DEF HubInv, HubTypeOK, RegisteredMeansServed
    <3> QED
      BY <2>2, <3>1 DEF HubInv, HubTypeOK, ChannelsFirst
  <2> QED
    BY <2>1, <2>2 DEF SendToUser
<1>2. HubTypeOK'
  BY <1>1 DEF HubInv, HubTypeOK
<1>3. EndedMeansRead'
  BY <1>1 DEF HubInv, EndedMeansRead
<1>4. ChannelsFirst'
  BY <1>1 DEF HubInv, ChannelsFirst
<1>5. OpenMeansRegistered' /\ RegisteredMeansServed' /\ LoneStreamsReached' /\ RivalsOverlap'
  BY DEF HubInv, OpenMeansRegistered, RegisteredMeansServed, LoneStreamsReached, RivalsOverlap
<1> QED
  BY <1>2, <1>3, <1>4, <1>5 DEF HubInv

LEMMA ReceiveKeeps ==
  ASSUME HubInv, NEW s \in Streams, Receive(s)
  PROVE  HubInv'
<1>1. s \in serving /\ buffer[s] # <<>> /\ buffer' = [buffer EXCEPT ![s] = Tail(@)]
  BY DEF Receive
<1>2. HubTypeOK'
  BY <1>1 DEF HubInv, HubTypeOK, Receive, brokerVars
<1>3. OpenMeansRegistered' /\ RegisteredMeansServed' /\ LoneStreamsReached' /\ RivalsOverlap'
  BY DEF HubInv, Receive, OpenMeansRegistered, RegisteredMeansServed, LoneStreamsReached,
         RivalsOverlap
<1>4. EndedMeansRead' /\ ChannelsFirst'
  BY <1>1 DEF HubInv, HubTypeOK, Receive, EndedMeansRead, ChannelsFirst
<1> QED
  BY <1>2, <1>3, <1>4 DEF HubInv

LEMMA LeaveKeeps ==
  ASSUME HubInv, NEW s \in Streams, Leave(s)
  PROVE  HubInv'
BY DEF HubInv, HubTypeOK, Leave, brokerVars, OpenMeansRegistered, RegisteredMeansServed,
       LoneStreamsReached, EndedMeansRead, RivalsOverlap, ChannelsFirst

LEMMA StopKeeps ==
  ASSUME HubInv, StopNotifications
  PROVE  HubInv'
<1> USE NotificationsAssumption
<1>1. /\ clients' = [u \in Users |-> NoStream]
      /\ channel' = [s \in Streams |-> IF channel[s] = "none" THEN "none" ELSE "closed"]
      /\ buffer' = [s \in Streams |-> <<>>]
      /\ serving' = {} /\ overlapped' = overlapped
  BY DEF StopNotifications
<1>2. HubTypeOK'
  BY <1>1 DEF HubInv, HubTypeOK
<1>3. OpenMeansRegistered' /\ RegisteredMeansServed' /\ LoneStreamsReached'
  BY <1>1 DEF OpenMeansRegistered, RegisteredMeansServed, LoneStreamsReached
<1>4. EndedMeansRead' /\ RivalsOverlap' /\ ChannelsFirst'
  BY <1>1 DEF EndedMeansRead, RivalsOverlap, ChannelsFirst
<1> QED
  BY <1>2, <1>3, <1>4 DEF HubInv

LEMMA HubUntouched ==
  ASSUME HubInv, UNCHANGED hubVars
  PROVE  HubInv'
BY DEF hubVars, HubInv, HubTypeOK, OpenMeansRegistered, RegisteredMeansServed,
       LoneStreamsReached, EndedMeansRead, RivalsOverlap, ChannelsFirst

-----------------------------------------------------------------------------
(* The queue and the consumer. *)

Queued(e) == \E i \in DOMAIN queue : queue[i] = e

BrokerTypeOK ==
  /\ link \in {"nil", "up", "lost"} /\ consuming \in BOOLEAN /\ bound \in BOOLEAN
  /\ queue \in Seq(Events)
  /\ inHand \in Events \cup {Nothing} /\ step \in {"idle", "forward", "ack"}
  /\ published \subseteq Events /\ forwarded \subseteq Events

(* An event in hand is being forwarded or was; when the connection is gone, it
   is in the queue again. *)
HandsKnown ==
  /\ step = "idle" <=> inHand = Nothing
  /\ step = "ack" => inHand \in forwarded
  /\ consuming => link = "up"
  /\ link = "nil" => inHand = Nothing
  /\ link = "lost" /\ inHand # Nothing => Queued(inHand)

BrokerInv == BrokerTypeOK /\ HandsKnown /\ EventsNotLost

(* What a connection that ends leaves in the queue. *)
LEMMA RequeuedFacts ==
  ASSUME BrokerInv
  PROVE  /\ Requeued \in Seq(Events)
         /\ \A e \in Events : Queued(e) => \E i \in DOMAIN Requeued : Requeued[i] = e
         /\ inHand # Nothing => \E i \in DOMAIN Requeued : Requeued[i] = inHand
<1>1. CASE inHand # Nothing /\ link = "up"
  <2>1. inHand \in Events /\ queue \in Seq(Events) /\ Requeued = <<inHand>> \o queue
    BY <1>1 DEF BrokerInv, BrokerTypeOK, Requeued
  <2>2. /\ Requeued \in Seq(Events) /\ DOMAIN Requeued = 1 .. Len(queue) + 1
        /\ Requeued[1] = inHand
        /\ \A i \in 1 .. Len(queue) : Requeued[i + 1] = queue[i]
    BY <2>1
  <2>3. ASSUME NEW e \in Events, Queued(e)
        PROVE  \E i \in DOMAIN Requeued : Requeued[i] = e
    <3>1. PICK i \in 1 .. Len(queue) : queue[i] = e
      BY <2>1, <2>3 DEF Queued
    <3>2. i + 1 \in DOMAIN Requeued /\ Requeued[i + 1] = e
      BY <2>1, <2>2, <3>1
    <3> QED
      BY <3>2
  <2>4. 1 \in DOMAIN Requeued
    BY <2>1, <2>2
  <2> QED
    BY <2>2, <2>3, <2>4
<1>2. CASE ~(inHand # Nothing /\ link = "up")
  BY <1>2 DEF BrokerInv, BrokerTypeOK, HandsKnown, Requeued, Queued
<1> QED
  BY <1>1, <1>2

LEMMA InitBroker == NotificationsInit => BrokerInv
<1> SUFFICES ASSUME NotificationsInit PROVE BrokerInv
  OBVIOUS
<1>1. /\ link = "nil" /\ consuming = FALSE /\ bound = FALSE
      /\ queue = <<>> /\ inHand = Nothing /\ step = "idle"
      /\ published = {} /\ forwarded = {}
  BY DEF NotificationsInit
<1>2. queue \in Seq(Events)
  BY <1>1
<1>3. BrokerTypeOK
  BY <1>1, <1>2 DEF BrokerTypeOK
<1>4. HandsKnown /\ EventsNotLost
  BY <1>1 DEF HandsKnown, EventsNotLost
<1> QED
  BY <1>3, <1>4 DEF BrokerInv

LEMMA BrokerUntouched ==
  ASSUME BrokerInv, UNCHANGED brokerVars
  PROVE  BrokerInv'
BY DEF brokerVars, BrokerInv, BrokerTypeOK, HandsKnown, EventsNotLost, Queued

LEMMA PublishKeeps ==
  ASSUME BrokerInv, NEW e \in Events, PublishEvent(e)
  PROVE  BrokerInv'
<1>1. /\ queue' = Append(queue, e) /\ queue \in Seq(Events)
      /\ published' = published \cup {e}
      /\ UNCHANGED <<link, consuming, bound, inHand, step, forwarded>>
  BY DEF PublishEvent, BrokerInv, BrokerTypeOK
<1>2. /\ queue' \in Seq(Events) /\ Len(queue') = Len(queue) + 1
      /\ queue'[Len(queue) + 1] = e
      /\ \A i \in 1 .. Len(queue) : queue'[i] = queue[i]
  BY <1>1
<1>3. Queued(e)' /\ \A d \in Events : Queued(d) => Queued(d)'
  BY <1>1, <1>2 DEF Queued
<1>4. BrokerTypeOK'
  BY <1>1, <1>2 DEF BrokerInv, BrokerTypeOK
<1>5. HandsKnown'
  BY <1>1, <1>3 DEF BrokerInv, BrokerTypeOK, HandsKnown
<1>6. EventsNotLost'
  BY <1>1, <1>3 DEF BrokerInv, BrokerTypeOK, EventsNotLost, Queued
<1> QED
  BY <1>4, <1>5, <1>6 DEF BrokerInv

LEMMA ConsumeKeeps ==
  ASSUME BrokerInv, Consume
  PROVE  BrokerInv'
<1>1. /\ queue \in Seq(Events) /\ queue # <<>> /\ inHand = Nothing
      /\ inHand' = Head(queue) /\ queue' = Tail(queue) /\ step' = "forward"
      /\ link = "up"
      /\ UNCHANGED <<link, consuming, bound, published, forwarded>>
  BY DEF Consume, BrokerInv, BrokerTypeOK, HandsKnown
<1>2. /\ inHand' \in Events /\ queue' \in Seq(Events) /\ DOMAIN queue' = 1 .. Len(queue) - 1
      /\ inHand' = queue[1]
      /\ \A i \in 1 .. Len(queue) - 1 : queue'[i] = queue[i + 1]
  BY <1>1
<1>3. ASSUME NEW e, Queued(e) PROVE e = inHand' \/ Queued(e)'
  <2>1. PICK i \in 1 .. Len(queue) : queue[i] = e
    BY <1>1, <1>3 DEF Queued
  <2>2. i = 1 \/ i - 1 \in 1 .. Len(queue) - 1
    BY <1>1, <2>1
  <2>3. CASE i = 1
    BY <1>2, <2>1, <2>3
  <2>4. CASE i - 1 \in 1 .. Len(queue) - 1
    <3>1. queue'[i - 1] = e
      BY <1>2, <2>1, <2>4
    <3> QED
      BY <1>2, <2>4, <3>1 DEF Queued
  <2> QED
    BY <2>2, <2>3, <2>4
<1>4. BrokerTypeOK'
  BY <1>1, <1>2 DEF BrokerInv, BrokerTypeOK
<1>5. HandsKnown'
  BY <1>1, <1>2, NotificationsAssumption DEF HandsKnown
<1>6. EventsNotLost'
  BY <1>1, <1>3, NotificationsAssumption
  DEF BrokerInv, BrokerTypeOK, EventsNotLost, Queued
<1> QED
  BY <1>4, <1>5, <1>6 DEF BrokerInv

(* Forwarding and acknowledging an event. *)
LEMMA ForwardKeeps ==
  ASSUME BrokerInv, Forward
  PROVE  BrokerInv' /\ inHand \in Messages
BY DEF Forward, BrokerInv, BrokerTypeOK, HandsKnown, EventsNotLost, Queued, Messages

LEMMA AckKeeps ==
  ASSUME BrokerInv, AckEvent
  PROVE  BrokerInv'
BY NotificationsAssumption
DEF AckEvent, BrokerInv, BrokerTypeOK, HandsKnown, EventsNotLost, Queued

LEMMA LoseLinkKeeps ==
  ASSUME BrokerInv, LoseLink
  PROVE  BrokerInv'
<1>1. /\ link' = "lost" /\ consuming' = FALSE /\ queue' = Requeued
      /\ UNCHANGED <<bound, inHand, step, published, forwarded>>
  BY DEF LoseLink
<1>2. \A e \in Events : Queued(e) => Queued(e)'
  BY <1>1, RequeuedFacts DEF Queued
<1>3. inHand # Nothing => Queued(inHand)'
  BY <1>1, RequeuedFacts DEF Queued
<1>4. BrokerTypeOK'
  BY <1>1, RequeuedFacts DEF BrokerInv, BrokerTypeOK
<1>5. HandsKnown'
  BY <1>1, <1>3 DEF BrokerInv, HandsKnown, Queued
<1>6. EventsNotLost'
  BY <1>1, <1>2 DEF BrokerInv, BrokerTypeOK, EventsNotLost, Queued
<1> QED
  BY <1>4, <1>5, <1>6 DEF BrokerInv

LEMMA ConnectKeeps ==
  ASSUME BrokerInv, Connect
  PROVE  BrokerInv'
BY DEF Connect, BrokerInv, BrokerTypeOK, HandsKnown, EventsNotLost, Queued

LEMMA StopRequeues ==
  ASSUME BrokerInv, StopNotifications
  PROVE  BrokerInv'
<1>1. /\ link' = "nil" /\ consuming' = FALSE /\ queue' = Requeued
      /\ inHand' = Nothing /\ step' = "idle"
      /\ UNCHANGED <<bound, published, forwarded>>
  BY DEF StopNotifications
<1>2. \A e \in Events : Queued(e) \/ (e = inHand /\ inHand # Nothing) => Queued(e)'
  BY <1>1, RequeuedFacts DEF Queued
<1>3. BrokerTypeOK'
  BY <1>1, RequeuedFacts DEF BrokerInv, BrokerTypeOK
<1>4. HandsKnown'
  BY <1>1 DEF HandsKnown
<1>5. EventsNotLost'
  BY <1>1, <1>2, NotificationsAssumption
  DEF BrokerInv, BrokerTypeOK, EventsNotLost, Queued
<1> QED
  BY <1>3, <1>4, <1>5 DEF BrokerInv

-----------------------------------------------------------------------------
LEMMA NotificationsNextKeeps ==
  HubInv /\ BrokerInv /\ [NotificationsNext]_notificationVars => (HubInv /\ BrokerInv)'
<1> SUFFICES ASSUME HubInv, BrokerInv, [NotificationsNext]_notificationVars
             PROVE  HubInv' /\ BrokerInv'
  OBVIOUS
<1>1. ASSUME NEW s \in Streams, Register(s) \/ Leave(s) \/ StreamStep(s)
      PROVE  HubInv' /\ BrokerInv'
  <2>1. HubInv'
    BY <1>1, RegisterKeeps, LeaveKeeps, ReceiveKeeps, EndStreamKeeps DEF StreamStep
  <2>2. UNCHANGED brokerVars
    BY <1>1 DEF Register, Leave, StreamStep, Receive, EndStream
  <2> QED
    BY <2>1, <2>2, BrokerUntouched
<1>2. ASSUME NEW n \in Notices, NotifyUser(n) PROVE HubInv' /\ BrokerInv'
  <2>1. HubInv'
    BY <1>2, SendKeeps DEF NotifyUser, Messages
  <2>2. UNCHANGED brokerVars
    BY <1>2 DEF NotifyUser
  <2> QED
    BY <2>1, <2>2, BrokerUntouched
<1>3. CASE SendEmail
  BY <1>3, HubUntouched, BrokerUntouched DEF SendEmail
<1>4. ASSUME NEW e \in Events, PublishEvent(e) PROVE HubInv' /\ BrokerInv'
  <2>1. UNCHANGED hubVars
    BY <1>4 DEF PublishEvent
  <2> QED
    BY <1>4, <2>1, HubUntouched, PublishKeeps
<1>5. CASE Forward
  <2>1. SendToUser(Recipient[inHand], inHand) /\ inHand \in Messages
        /\ UNCHANGED <<clients, serving, channel, gone, overlapped>>
    BY <1>5, ForwardKeeps DEF Forward
  <2> QED
    BY <1>5, <2>1, SendKeeps, ForwardKeeps
<1>6. CASE Consume \/ AckEvent \/ LoseLink \/ Connect
  <2>1. UNCHANGED hubVars
    BY <1>6 DEF Consume, AckEvent, LoseLink, Connect
  <2> QED
    BY <1>6, <2>1, HubUntouched, ConsumeKeeps, AckKeeps, LoseLinkKeeps, ConnectKeeps
<1>7. CASE StopNotifications
  BY <1>7, StopKeeps, StopRequeues
<1>8. CASE UNCHANGED notificationVars
  BY <1>8, HubUntouched, BrokerUntouched DEF notificationVars
<1> QED
  BY <1>1, <1>2, <1>3, <1>4, <1>5, <1>6, <1>7, <1>8 DEF NotificationsNext, ConsumerStep

(* The invariants hold whatever streams, stops and connections come and go. *)
LEMMA NotificationsHold == NotificationsSpec => [](HubInv /\ BrokerInv)
<1> QED
  BY InitHub, InitBroker, NotificationsNextKeeps, PTL DEF NotificationsSpec

-----------------------------------------------------------------------------
(* The rate limiter and the accounts. *)

(* Every request a counter has let pass was counted. *)
LimiterInv ==
  /\ count \in Nat
  /\ IsFiniteSet(admitted) /\ Cardinality(admitted) <= count
  /\ WithinLimit

Responses == {"nothing", "too many requests", "created", "exists", "error", "welcome",
              "invalid"}

AccountsInv ==
  /\ users \in [Emails -> Passwords \cup {NoUser}]
  /\ told \in [Requests -> Responses]
  /\ AccountsAreTheirs

-----------------------------------------------------------------------------
LEMMA InitLimiter == LimiterInit => LimiterInv
BY LimiterAssumption, FS_EmptySet DEF LimiterInit, LimiterInv, WithinLimit

LEMMA CountersUntouched ==
  ASSUME LimiterInv, UNCHANGED counterVars
  PROVE  LimiterInv'
BY DEF LimiterInv, WithinLimit, counterVars

(* One request is added at most, and only while the counter is within the
   limit. *)
LEMMA IncrKeeps ==
  ASSUME LimiterInv, NEW r \in Requests, Incr(r)
  PROVE  LimiterInv'
<1>1. count' = count + 1 /\ count \in Nat /\ IsFiniteSet(admitted)
      /\ Cardinality(admitted) \in Nat /\ Cardinality(admitted) <= count
  BY FS_CardinalityType DEF LimiterInv, Incr
<1>2. CASE Admits(count')
  <2>1. admitted' = admitted \cup {r} /\ count + 1 <= Limit
    BY <1>1, <1>2 DEF Incr, Admits
  <2>2. /\ IsFiniteSet(admitted') /\ Cardinality(admitted') \in Nat
        /\ Cardinality(admitted') <= Cardinality(admitted) + 1
    BY <1>1, <2>1, FS_AddElement, FS_CardinalityType
  <2> QED
    BY <1>1, <2>1, <2>2, LimiterAssumption DEF LimiterInv, WithinLimit
<1>3. CASE ~Admits(count')
  <2>1. admitted' = admitted
    BY <1>3 DEF Incr
  <2> QED
    BY <1>1, <2>1 DEF LimiterInv, WithinLimit
<1> QED
  BY <1>2, <1>3

LEMMA IncrFailsKeeps ==
  ASSUME LimiterInv, NEW r \in Requests, IncrFails(r)
  PROVE  LimiterInv'
<1>1. admitted' = admitted /\ (count' = count \/ count' = count + 1)
  BY DEF IncrFails
<1> QED
  BY <1>1, FS_CardinalityType DEF LimiterInv, WithinLimit

LEMMA WindowKeeps ==
  ASSUME LimiterInv, WindowEnds
  PROVE  LimiterInv'
BY LimiterAssumption, FS_EmptySet DEF WindowEnds, LimiterInv, WithinLimit

LEMMA LimiterStopKeeps ==
  ASSUME LimiterInv, LimiterStop
  PROVE  LimiterInv'
BY DEF LimiterStop, LimiterInv, WithinLimit

(* Every step of a request, failing or not. *)
LEMMA RequestsAreCounted ==
  ASSUME LimiterInv, NEW r \in Requests, RequestStep(r) \/ RequestFault(r)
  PROVE  LimiterInv'
<1>1. CASE Incr(r)
  BY <1>1, IncrKeeps
<1>2. CASE IncrFails(r)
  BY <1>2, IncrFailsKeeps
<1>3. CASE Expire(r) \/ ExpireFails(r)
  BY <1>3 DEF Expire, ExpireFails, LimiterInv, WithinLimit
<1>4. CASE \/ Unlimited(r) \/ Refuse(r) \/ CheckEmail(r) \/ InsertUser(r) \/ Login(r)
           \/ CheckEmailFails(r) \/ InsertUserFails(r) \/ LoginFails(r)
  <2>1. UNCHANGED counterVars
    BY <1>4 DEF Unlimited, Refuse, CheckEmail, InsertUser, Login, CheckEmailFails,
                InsertUserFails, LoginFails, Tell
  <2> QED
    BY <2>1, CountersUntouched
<1> QED
  BY <1>1, <1>2, <1>3, <1>4 DEF RequestStep, RequestFault

-----------------------------------------------------------------------------
LEMMA InitAccounts == StartupInit => AccountsInv
<1> SUFFICES ASSUME StartupInit PROVE AccountsInv
  OBVIOUS
<1>1. users \in [Emails -> Passwords \cup {NoUser}] /\ told = [r \in Requests |-> "nothing"]
  BY StartupAssumption DEF StartupInit, UsersInit
<1> QED
  BY <1>1 DEF AccountsInv, AccountsAreTheirs, Responses

LEMMA AccountsUntouched ==
  ASSUME AccountsInv, UNCHANGED usersVars
  PROVE  AccountsInv'
BY DEF usersVars, AccountsInv, AccountsAreTheirs, Email

(* An account is stored only for an email nobody was told of. *)
LEMMA NobodyTold ==
  ASSUME AccountsInv, NEW e \in Emails, users[e] = NoUser
  PROVE  \A s \in Requests : told[s] \in {"created", "welcome"} => Form[s].email # e
<1> SUFFICES ASSUME NEW s \in Requests, told[s] \in {"created", "welcome"}, Form[s].email = e
             PROVE  FALSE
  OBVIOUS
<1>1. users[e] = Form[s].password
  BY DEF AccountsInv, AccountsAreTheirs, Email
<1>2. Form[s].password \in Passwords
  BY UsersAssumption
<1> QED
  BY <1>1, <1>2, UsersAssumption

(* An account is stored for an email that has none, so nobody was told of one
   before, and the response may say so. *)
LEMMA StoredAccount ==
  ASSUME AccountsInv, NEW e \in Emails, NEW p \in Passwords, ~Registered(e),
         users' = [users EXCEPT ![e] = p], UNCHANGED told
  PROVE  AccountsInv'
<1>1. \A r \in Requests : told[r] \in {"created", "welcome"} => Email(r) # e
  BY NobodyTold DEF Registered, Email
<1> QED
  BY <1>1, UsersAssumption DEF AccountsInv, AccountsAreTheirs, Email

LEMMA ToldOtherwise ==
  ASSUME AccountsInv, NEW r \in Requests, NEW response \in Responses,
         response \notin {"created", "welcome"},
         told' = [told EXCEPT ![r] = response], UNCHANGED users
  PROVE  AccountsInv'
BY DEF AccountsInv, AccountsAreTheirs, Email

(* The request that stores an account is the first that is told so. *)
LEMMA InsertUserKeeps ==
  ASSUME AccountsInv, NEW r \in Requests, InsertUser(r)
  PROVE  AccountsInv'
<1>1. Email(r) \in Emails /\ Form[r].password \in Passwords
  BY UsersAssumption DEF Email
<1>2. CASE Registered(Email(r)) /\ UNCHANGED users /\ Tell(r, "error")
  BY <1>2, ToldOtherwise DEF Tell, Responses
<1>3. CASE ~Registered(Email(r)) /\ Store(r) /\ Tell(r, "created")
  <2>1. /\ users' = [users EXCEPT ![Email(r)] = Form[r].password]
        /\ told' = [told EXCEPT ![r] = "created"]
        /\ users[Email(r)] = NoUser
    BY <1>3 DEF Store, Tell, Registered
  <2>2. \A s \in Requests : told[s] \in {"created", "welcome"} => Email(s) # Email(r)
    BY <1>1, <2>1, NobodyTold DEF Email
  <2>3. \A s \in Requests : s # r => told'[s] = told[s]
    BY <2>1 DEF AccountsInv
  <2>4. \A s \in Requests :
          told'[s] \in {"created", "welcome"} => users'[Email(s)] = Form[s].password
    <3> SUFFICES ASSUME NEW s \in Requests, told'[s] \in {"created", "welcome"}
                 PROVE  users'[Email(s)] = Form[s].password
      OBVIOUS
    <3>1. CASE s = r
      BY <1>1, <2>1, <3>1 DEF AccountsInv
    <3>2. CASE s # r
      <4>1. Email(s) # Email(r) /\ users[Email(s)] = Form[s].password
        BY <2>2, <2>3, <3>2 DEF AccountsInv, AccountsAreTheirs
      <4> QED
        BY <2>1, <4>1 DEF AccountsInv
    <3> QED
      BY <3>1, <3>2
  <2>5. \A s, t \in Requests :
          (told'[s] = "created" /\ told'[t] = "created" /\ Email(s) = Email(t)) => s = t
    BY <2>2, <2>3 DEF AccountsInv, AccountsAreTheirs, Email
  <2> QED
    BY <1>1, <2>1, <2>4, <2>5 DEF AccountsInv, AccountsAreTheirs, Responses, Email
<1> QED
  BY <1>2, <1>3 DEF InsertUser

LEMMA InsertUserFailsKeeps ==
  ASSUME AccountsInv, NEW r \in Requests, InsertUserFails(r)
  PROVE  AccountsInv'
<1>1. told' = [told EXCEPT ![r] = "error"]
  BY DEF InsertUserFails, Tell
<1>2. CASE UNCHANGED users
  BY <1>1, <1>2, ToldOtherwise DEF Responses
<1>3. CASE ~Registered(Email(r)) /\ Store(r)
  <2>1. Email(r) \in Emails /\ Form[r].password \in Passwords
    BY UsersAssumption DEF Email
  <2>2. /\ users' = [users EXCEPT ![Email(r)] = Form[r].password]
        /\ users[Email(r)] = NoUser
    BY <1>3 DEF Store, Registered
  <2>3. \A s \in Requests : told[s] \in {"created", "welcome"} => Email(s) # Email(r)
    BY <2>1, <2>2, NobodyTold DEF Email
  <2>4. \A s \in Requests : told'[s] \in {"created", "welcome"} => told'[s] = told[s]
    BY <1>1 DEF AccountsInv
  <2>5. /\ users' \in [Emails -> Passwords \cup {NoUser}]
        /\ told' \in [Requests -> Responses]
    BY <1>1, <2>1, <2>2 DEF AccountsInv, Responses
  <2>6. \A s \in Requests :
          told'[s] \in {"created", "welcome"} => users'[Email(s)] = Form[s].password
    BY <2>2, <2>3, <2>4 DEF AccountsInv, AccountsAreTheirs
  <2>7. \A s, t \in Requests :
          (told'[s] = "created" /\ told'[t] = "created" /\ Email(s) = Email(t)) => s = t
    BY <2>4 DEF AccountsInv, AccountsAreTheirs
  <2> QED
    BY <2>5, <2>6, <2>7 DEF AccountsInv, AccountsAreTheirs, Email
<1> QED
  BY <1>2, <1>3 DEF InsertUserFails

LEMMA LoginKeeps ==
  ASSUME AccountsInv, NEW r \in Requests, Login(r)
  PROVE  AccountsInv'
<1>1. UNCHANGED users /\ told' = [told EXCEPT ![r] =
        IF users[Email(r)] = Form[r].password THEN "welcome" ELSE "invalid"]
  BY DEF Login, Tell
<1>2. CASE users[Email(r)] = Form[r].password
  BY <1>1, <1>2 DEF AccountsInv, AccountsAreTheirs, Responses, Email
<1>3. CASE users[Email(r)] # Form[r].password
  BY <1>1, <1>3, ToldOtherwise DEF Responses
<1> QED
  BY <1>2, <1>3

LEMMA RequestsKeepAccounts ==
  ASSUME AccountsInv, NEW r \in Requests, RequestStep(r) \/ RequestFault(r)
  PROVE  AccountsInv'
<1>1. CASE \/ Unlimited(r) \/ Incr(r) \/ Expire(r) \/ IncrFails(r) \/ ExpireFails(r)
  <2>1. CASE UNCHANGED usersVars
    BY <2>1, AccountsUntouched
  <2>2. turn[r] \in {"new", "expire"}
    BY <1>1 DEF Unlimited, Incr, Expire, IncrFails, ExpireFails
  <2> QED
    BY <2>1, <2>2 DEF RequestStep, RequestFault, Refuse, CheckEmail, InsertUser, Login,
                      CheckEmailFails, InsertUserFails, LoginFails
<1>2. CASE Refuse(r)
  BY <1>2, ToldOtherwise DEF Refuse, Tell, Responses
<1>3. CASE CheckEmail(r)
  <2>1. CASE Tell(r, "exists") /\ UNCHANGED users
    BY <2>1, ToldOtherwise DEF Tell, Responses
  <2>2. CASE UNCHANGED usersVars
    BY <2>2, AccountsUntouched
  <2> QED
    BY <1>3, <2>1, <2>2 DEF CheckEmail, usersVars
<1>4. CASE CheckEmailFails(r)
  BY <1>4, AccountsUntouched DEF CheckEmailFails
<1>5. CASE InsertUser(r) \/ InsertUserFails(r) \/ Login(r)
  BY <1>5, InsertUserKeeps, InsertUserFailsKeeps, LoginKeeps
<1>6. CASE LoginFails(r)
  BY <1>6, ToldOtherwise DEF LoginFails, Tell, Responses
<1> QED
  BY <1>1, <1>2, <1>3, <1>4, <1>5, <1>6 DEF RequestStep, RequestFault

(* A start registers a user only if the email has none. *)
LEMMA SeedingKeepsAccounts ==
  ASSUME AccountsInv, EnsureRow \/ EnsureRowFails, UNCHANGED told
  PROVE  AccountsInv'
<1> DEFINE row == Head(todo)
<1>1. CASE UNCHANGED users
  BY <1>1, AccountsUntouched DEF usersVars
<1>2. CASE \E rest : Insert(row, PlanOf(row), rest)
  <2>1. CASE row.kind # "user"
    BY <1>1, <1>2, <2>1 DEF Insert
  <2>2. CASE row.kind = "user" /\ row.key \notin Emails
    <3>1. users' = users
      BY <1>2, <2>2 DEF Insert, AccountsInv
    <3> QED
      BY <1>1, <3>1
  <2>3. CASE row.kind = "user" /\ row.key \in Emails
    <3>1. PlanOf(row).accepted = ~Registered(row.key)
      BY <2>3 DEF PlanOf, Plan
    <3>2. ~Registered(row.key) /\ users' = [users EXCEPT ![row.key] = Seeded]
      BY <1>2, <2>3, <3>1 DEF Insert
    <3> QED
      BY <2>3, <3>2, StoredAccount, StartupAssumption
  <2> QED
    BY <2>1, <2>2, <2>3
<1> QED
  BY <1>1, <1>2 DEF EnsureRow, EnsureRowFails, Keep, GiveUp

-----------------------------------------------------------------------------
(* The seeds: what a start is through with and what it works on. *)

Currencies == {"TRY", "USD", "EUR"}
Kinds == {"user", "wallet", "card", "tables", "account", "settlement", "merchant", "key"}
Keys == Currencies \cup {"demo", "gateway", "clearing", "fee", "foodeli", "live", "test"}
RowSet == [kind : Kinds, key : Keys]

LEMMA JoinedAt ==
  ASSUME NEW S, NEW s \in Seq(S), NEW t \in Seq(S)
  PROVE  /\ s \o t \in Seq(S) /\ Len(s \o t) = Len(s) + Len(t)
         /\ \A i \in 1 .. Len(s) : (s \o t)[i] = s[i]
         /\ \A i \in 1 .. Len(t) : (s \o t)[Len(s) + i] = t[i]
OBVIOUS

(* The rows of a demonstration, by their place. *)
LEMMA RowsAre ==
  /\ Len(DemoCurrencies) \in Nat /\ Len(GatewayRows) = 8
  /\ RowsToEnsure("production") = <<Tables>>
  /\ LET R == RowsToEnsure("development")
         k == Len(DemoCurrencies)
     IN  /\ R \in Seq(RowSet) /\ Len(R) = k + 10
         /\ R[1] = Row("user", "demo")
         /\ \A i \in 2 .. k + 1 : /\ R[i] = Row("wallet", DemoCurrencies[i - 1])
                                  /\ DemoCurrencies[i - 1] \in Currencies
         /\ R[k + 2] = Row("card", "demo")
         /\ R[k + 3] = Tables
         /\ R[k + 4] = Row("account", "clearing")
         /\ R[k + 5] = Row("account", "fee")
         /\ R[k + 6] = Row("user", "foodeli")
         /\ R[k + 7] = Row("settlement", "TRY")
         /\ R[k + 8] = Row("merchant", "foodeli")
         /\ R[k + 9] = Row("key", "live")
         /\ R[k + 10] = Row("key", "test")
<1> DEFINE k == Len(DemoCurrencies)
           W == [i \in DOMAIN DemoCurrencies |-> Row("wallet", DemoCurrencies[i])]
           A == <<Row("user", "demo")>> \o W
           R == RowsToEnsure("development")
<1>1. /\ k \in Nat /\ DOMAIN DemoCurrencies = 1 .. k
      /\ \A i \in 1 .. k : DemoCurrencies[i] \in Currencies
  BY StartupAssumption DEF Currencies
<1>2. W \in Seq(RowSet) /\ Len(W) = k /\ \A i \in 1 .. k : W[i] = Row("wallet", DemoCurrencies[i])
  BY <1>1 DEF Row, RowSet, Kinds, Keys
<1>3. <<Row("user", "demo")>> \in Seq(RowSet) /\ <<Row("card", "demo")>> \in Seq(RowSet)
  BY DEF Row, RowSet, Kinds, Keys
<1>4. R = (A \o <<Row("card", "demo")>>) \o GatewayRows /\ RowsToEnsure("production") = <<Tables>>
  BY DEF RowsToEnsure, DemoRows
<1> HIDE DEF k, W
<1>5. /\ A \in Seq(RowSet) /\ Len(A) = k + 1 /\ A[1] = Row("user", "demo")
      /\ \A i \in 1 .. k : A[1 + i] = W[i]
  BY <1>1, <1>2, <1>3, JoinedAt
<1> HIDE DEF A
<1> DEFINE D == A \o <<Row("card", "demo")>>
<1>6. /\ D \in Seq(RowSet) /\ Len(D) = k + 2
      /\ \A i \in 1 .. k + 1 : D[i] = A[i]
      /\ D[k + 2] = Row("card", "demo")
  BY <1>1, <1>3, <1>5, JoinedAt
<1> HIDE DEF D
<1>7. GatewayRows \in Seq(RowSet) /\ Len(GatewayRows) = 8
  <2>1. /\ Tables \in RowSet
        /\ Row("account", "clearing") \in RowSet /\ Row("account", "fee") \in RowSet
        /\ Row("user", "foodeli") \in RowSet /\ Row("settlement", "TRY") \in RowSet
        /\ Row("merchant", "foodeli") \in RowSet
        /\ Row("key", "live") \in RowSet /\ Row("key", "test") \in RowSet
    BY DEF Tables, Row, RowSet, Kinds, Keys, Currencies
  <2> QED
    BY <2>1 DEF GatewayRows
<1>8. /\ R \in Seq(RowSet) /\ Len(R) = k + 10
      /\ \A i \in 1 .. k + 2 : R[i] = D[i]
      /\ \A i \in 1 .. 8 : R[k + 2 + i] = GatewayRows[i]
  <2>1. R = D \o GatewayRows
    BY <1>4 DEF D
  <2> HIDE DEF R
  <2>2. R \in Seq(RowSet) /\ Len(R) = Len(D) + Len(GatewayRows)
    BY <1>6, <1>7, <2>1, JoinedAt
  <2>3. \A i \in 1 .. k + 2 : R[i] = D[i]
    BY <1>6, <1>7, <2>1, JoinedAt
  <2>4. \A i \in 1 .. 8 : R[k + 2 + i] = GatewayRows[i]
    <3>1. D \in Seq(RowSet) /\ GatewayRows \in Seq(RowSet)
      BY <1>6, <1>7
    <3>2. \A i \in 1 .. Len(GatewayRows) : R[Len(D) + i] = GatewayRows[i]
      BY <2>1, <3>1, JoinedAt
    <3> QED
      BY <1>6, <1>7, <3>2
  <2>5. Len(R) = k + 10
    BY <1>1, <1>6, <1>7, <2>2
  <2> QED
    BY <2>2, <2>3, <2>4, <2>5
<1> HIDE DEF R
<1>9. R[1] = Row("user", "demo") /\ R[k + 2] = Row("card", "demo")
  BY <1>1, <1>5, <1>6, <1>8
<1>10. \A i \in 2 .. k + 1 : /\ R[i] = Row("wallet", DemoCurrencies[i - 1])
                             /\ DemoCurrencies[i - 1] \in Currencies
  <2> SUFFICES ASSUME NEW i \in 2 .. k + 1
               PROVE  /\ R[i] = Row("wallet", DemoCurrencies[i - 1])
                      /\ DemoCurrencies[i - 1] \in Currencies
    OBVIOUS
  <2>1. i - 1 \in 1 .. k /\ 1 + (i - 1) = i /\ i \in 1 .. k + 1 /\ i \in 1 .. k + 2
    BY <1>1
  <2>2. R[i] = A[1 + (i - 1)]
    BY <1>6, <1>8, <2>1
  <2> QED
    BY <1>1, <1>2, <1>5, <2>1, <2>2
<1>11. /\ R[k + 3] = GatewayRows[1] /\ R[k + 4] = GatewayRows[2] /\ R[k + 5] = GatewayRows[3]
       /\ R[k + 6] = GatewayRows[4] /\ R[k + 7] = GatewayRows[5] /\ R[k + 8] = GatewayRows[6]
       /\ R[k + 9] = GatewayRows[7] /\ R[k + 10] = GatewayRows[8]
  <2>1. /\ k + 2 + 1 = k + 3 /\ k + 2 + 2 = k + 4 /\ k + 2 + 3 = k + 5 /\ k + 2 + 4 = k + 6
        /\ k + 2 + 5 = k + 7 /\ k + 2 + 6 = k + 8 /\ k + 2 + 7 = k + 9 /\ k + 2 + 8 = k + 10
    BY <1>1
  <2>2. /\ 1 \in 1 .. 8 /\ 2 \in 1 .. 8 /\ 3 \in 1 .. 8 /\ 4 \in 1 .. 8 /\ 5 \in 1 .. 8
        /\ 6 \in 1 .. 8 /\ 7 \in 1 .. 8 /\ 8 \in 1 .. 8
    OBVIOUS
  <2>3. \A i \in 1 .. 8 : R[k + 2 + i] = GatewayRows[i]
    BY <1>8
  <2>4. /\ R[k + 2 + 1] = GatewayRows[1] /\ R[k + 2 + 2] = GatewayRows[2]
        /\ R[k + 2 + 3] = GatewayRows[3] /\ R[k + 2 + 4] = GatewayRows[4]
        /\ R[k + 2 + 5] = GatewayRows[5] /\ R[k + 2 + 6] = GatewayRows[6]
        /\ R[k + 2 + 7] = GatewayRows[7] /\ R[k + 2 + 8] = GatewayRows[8]
    BY <2>2, <2>3, Zenon
  <2> QED
    BY <2>1, <2>4, Zenon
<1>12. /\ R[k + 3] = Tables
       /\ R[k + 4] = Row("account", "clearing")
       /\ R[k + 5] = Row("account", "fee")
       /\ R[k + 6] = Row("user", "foodeli")
       /\ R[k + 7] = Row("settlement", "TRY")
       /\ R[k + 8] = Row("merchant", "foodeli")
       /\ R[k + 9] = Row("key", "live")
       /\ R[k + 10] = Row("key", "test")
  BY <1>11 DEF GatewayRows
<1> QED
  BY <1>1, <1>4, <1>7, <1>8, <1>9, <1>10, <1>12 DEF R, k

WalletRows == [owner : {"demo", "foodeli"}, currency : Currencies, open : BOOLEAN,
               funded : BOOLEAN]
CardRows == [wallet : Nat, open : BOOLEAN, encrypted : BOOLEAN]
Tableaux == [tables : BOOLEAN, wallets : Seq(WalletRows), cards : Seq(CardRows),
             accounts : SUBSET {"clearing", "fee"}, merchant : Nat,
             keys : SUBSET {"live", "test"}]

(* What refers to a wallet refers to one there is. *)
StoreTypeOK ==
  /\ db \in Tableaux
  /\ \A i \in DOMAIN db.cards : db.cards[i].wallet \in DOMAIN db.wallets
  /\ db.merchant \in DOMAIN db.wallets \cup {0}
  /\ held \in DOMAIN db.wallets \cup {0}
  /\ phase \in {"down", "starting", "serving"} /\ env \in {"production", "development"}
  /\ warned \in BOOLEAN /\ misread \in BOOLEAN /\ edits \in 0 .. MaxEdits

Rows == RowsToEnsure(env)
Done == Len(Rows) - Len(todo)

(* What is left to ensure is the end of the list. *)
Progress ==
  /\ todo \in Seq(RowSet) /\ Len(todo) <= Len(Rows)
  /\ phase # "starting" => todo = <<>>
  /\ \A i \in DOMAIN todo : todo[i] = Rows[Done + i]

(* The wallet kept for the card is the demo user's, and the one kept for the
   merchant, who comes before the keys, its owner's. *)
HeldKnown ==
  (phase = "starting" /\ env = "development") =>
    LET k == Len(DemoCurrencies)
    IN  /\ Done < k + 2 => held = 0 \/ held \in OpenWallets("demo", "TRY")
        /\ Done = k + 7 => held # 0 /\ Belongs(held, "foodeli", "TRY")
        /\ Done \in {k + 8, k + 9} => db.merchant # 0

Ensured(row) ==
  /\ row.kind = "user" => row.key \in Emails /\ Registered(row.key)
  /\ row.kind = "wallet" => OpenWallets("demo", row.key) # {}
  /\ row.kind = "card" =>
       \E w \in OpenWallets("demo", "TRY") : \E i \in OpenCards(w) : db.cards[i].encrypted
  /\ row.kind = "tables" => db.tables
  /\ row.kind = "account" => row.key \in db.accounts
  /\ row.kind = "merchant" => db.merchant # 0
  /\ row.kind = "key" => row.key \in db.keys

(* Unless a statement failed, all the start is through with is there. *)
RowsEnsured ==
  (phase = "starting" /\ ~warned) =>
    /\ \A i \in 1 .. Done : Ensured(Rows[i])
    /\ \A i \in DOMAIN db.cards : db.cards[i].open => db.cards[i].encrypted

OpenOnce ==
  ~misread =>
    /\ \A v, w \in Open : Belongs(v, db.wallets[w].owner, db.wallets[w].currency) => v = w
    /\ \A i, j \in DOMAIN db.cards :
         (db.cards[i].open /\ db.cards[j].open /\ db.cards[i].wallet = db.cards[j].wallet)
           => i = j

PaidInto ==
  /\ db.keys # {} => db.merchant # 0
  /\ db.merchant # 0 => Belongs(db.merchant, "foodeli", "TRY")

SeedInv == StoreTypeOK /\ Progress /\ HeldKnown /\ RowsEnsured /\ OpenOnce /\ PaidInto

-----------------------------------------------------------------------------
(* The three ways a row can go. *)

RowFound ==
  /\ \E id \in PlanOf(Head(todo)).found : Hold(Head(todo), id)
  /\ todo' = Tail(todo) /\ UNCHANGED <<db, users, warned, misread>>

RowInserted ==
  LET row == Head(todo)
  IN  /\ PlanOf(row).accepted
      /\ db' = PlanOf(row).new
      /\ users' = IF row.kind = "user" THEN [users EXCEPT ![row.key] = Seeded] ELSE users
      /\ Hold(row, Len(db'.wallets))
      /\ todo' \in {Tail(todo), PlanOf(row).otherwise}
      /\ warned' \in BOOLEAN /\ misread' \in BOOLEAN
      /\ ~warned' => ~warned /\ todo' = Tail(todo)
      /\ ~misread' => ~misread /\ PlanOf(row).found = {}

RowGivenUp ==
  /\ Hold(Head(todo), 0) /\ todo' = PlanOf(Head(todo)).otherwise
  /\ warned' = TRUE /\ UNCHANGED <<db, users, misread>>

RowStep ==
  /\ phase = "starting" /\ todo # <<>>
  /\ RowFound \/ RowInserted \/ RowGivenUp
  /\ UNCHANGED <<phase, env, edits>>

LEMMA RowSteps ==
  ASSUME StoreTypeOK, EnsureRow \/ EnsureRowFails
  PROVE  RowStep
<1>1. CASE EnsureRow
  BY <1>1 DEF EnsureRow, Starting, Keep, Insert, GiveUp, RowStep, RowFound, RowInserted,
              RowGivenUp, StoreTypeOK
<1>2. CASE EnsureRowFails
  BY <1>2 DEF EnsureRowFails, Starting, Insert, GiveUp, RowStep, RowInserted, RowGivenUp,
              StoreTypeOK
<1> QED
  BY <1>1, <1>2

(* The row the start works on, by how many it is through with. *)
RowNow(row, k) ==
  \/ env = "production" /\ Done = 0 /\ row = Tables
  \/ /\ env = "development"
     /\ \/ Done = 0 /\ row = Row("user", "demo")
        \/ Done \in 1 .. k /\ \E c \in Currencies : row = Row("wallet", c)
        \/ Done = k + 1 /\ row = Row("card", "demo")
        \/ Done = k + 2 /\ row = Tables
        \/ Done = k + 3 /\ row = Row("account", "clearing")
        \/ Done = k + 4 /\ row = Row("account", "fee")
        \/ Done = k + 5 /\ row = Row("user", "foodeli")
        \/ Done = k + 6 /\ row = Row("settlement", "TRY")
        \/ Done = k + 7 /\ row = Row("merchant", "foodeli")
        \/ Done = k + 8 /\ row = Row("key", "live")
        \/ Done = k + 9 /\ row = Row("key", "test")

LEMMA RowIs ==
  ASSUME StoreTypeOK, Progress, todo # <<>>
  PROVE  /\ Head(todo) = Rows[Done + 1] /\ Done \in Nat /\ Len(DemoCurrencies) \in Nat
         /\ RowNow(Head(todo), Len(DemoCurrencies))
<1> DEFINE k == Len(DemoCurrencies)
<1>1. /\ todo \in Seq(RowSet) /\ Len(todo) \in Nat \ {0} /\ Head(todo) = todo[1]
      /\ 1 \in DOMAIN todo
  BY DEF Progress
<1>2. k \in Nat /\ Rows \in Seq(RowSet) /\ (env = "production" => Rows = <<Tables>>)
      /\ Len(Rows) = IF env = "production" THEN 1 ELSE k + 10
  <2>1. CASE env = "production"
    <3>1. Rows = <<Tables>> /\ k \in Nat
      BY <2>1, RowsAre DEF Rows
    <3>2. Tables \in RowSet
      BY DEF Tables, Row, RowSet, Kinds, Keys
    <3> QED
      BY <2>1, <3>1, <3>2
  <2>2. CASE env = "development"
    BY <2>2, RowsAre DEF Rows
  <2> QED
    BY <2>1, <2>2 DEF StoreTypeOK
<1>3. /\ Head(todo) = Rows[Done + 1] /\ Done \in Nat
      /\ Done + 1 <= Len(Rows)
  BY <1>1, <1>2 DEF Progress, Done
<1>4. CASE env = "production"
  BY <1>2, <1>3, <1>4 DEF RowNow
<1>5. CASE env = "development"
  <2>1. Done \in 0 .. k + 9 /\ Rows = RowsToEnsure("development")
    BY <1>2, <1>3, <1>5 DEF Rows
  <2>2. \/ Done = 0 \/ Done \in 1 .. k
        \/ Done \in {k + 1, k + 2, k + 3, k + 4, k + 5, k + 6, k + 7, k + 8, k + 9}
    BY <1>2, <2>1
  <2>3. CASE Done \in 1 .. k
    <3>1. Done + 1 \in 2 .. k + 1 /\ (Done + 1) - 1 = Done
      BY <1>2, <2>3
    <3>2. Rows[Done + 1] = Row("wallet", DemoCurrencies[Done]) /\ DemoCurrencies[Done] \in Currencies
      BY <2>1, <3>1, RowsAre
    <3> QED
      BY <1>3, <1>5, <2>3, <3>2 DEF RowNow
  <2>4. CASE Done \in {0, k + 1, k + 2, k + 3, k + 4, k + 5, k + 6, k + 7, k + 8, k + 9}
    <3>1. /\ 0 + 1 = 1 /\ (k + 1) + 1 = k + 2 /\ (k + 2) + 1 = k + 3 /\ (k + 3) + 1 = k + 4
          /\ (k + 4) + 1 = k + 5 /\ (k + 5) + 1 = k + 6 /\ (k + 6) + 1 = k + 7
          /\ (k + 7) + 1 = k + 8 /\ (k + 8) + 1 = k + 9 /\ (k + 9) + 1 = k + 10
      BY <1>2
    <3> QED
      BY ZenonT(40), <1>3, <1>5, <2>1, <2>4, <3>1, RowsAre DEF RowNow
  <2> QED
    BY <2>2, <2>3, <2>4
<1> QED
  BY <1>2, <1>3, <1>4, <1>5 DEF StoreTypeOK

(* The plans, kind by kind. *)
LEMMA UserPlan ==
  ASSUME NEW row, row.kind = "user"
  PROVE  /\ PlanOf(row).found = Once(Registered(row.key))
         /\ PlanOf(row).accepted = ~Registered(row.key)
         /\ PlanOf(row).new = db
         /\ PlanOf(row).otherwise = IF row.key = "demo" THEN AfterDemo ELSE <<>>
BY DEF PlanOf, Plan

LEMMA WalletPlan ==
  ASSUME NEW row, row.kind = "wallet"
  PROVE  /\ PlanOf(row).found = OpenWallets("demo", row.key)
         /\ PlanOf(row).new = [db EXCEPT !.wallets = Append(@, Wallet("demo", row.key))]
         /\ PlanOf(row).otherwise = Tail(todo)
BY DEF PlanOf, Plan

LEMMA CardPlan ==
  ASSUME NEW row, row.kind = "card"
  PROVE  /\ PlanOf(row).found = OpenCards(held)
         /\ PlanOf(row).accepted = (held # 0)
         /\ PlanOf(row).new = [db EXCEPT !.cards = Append(@, Card(held))]
         /\ PlanOf(row).otherwise = Tail(todo)
BY DEF PlanOf, Plan

LEMMA TablesPlan ==
  ASSUME NEW row, row.kind = "tables"
  PROVE  /\ PlanOf(row).found = {}
         /\ PlanOf(row).new = [db EXCEPT !.tables = TRUE]
         /\ PlanOf(row).otherwise = Tail(todo)
BY DEF PlanOf, Plan

LEMMA AccountPlan ==
  ASSUME NEW row, row.kind = "account"
  PROVE  /\ PlanOf(row).found = Once(row.key \in db.accounts)
         /\ PlanOf(row).new = [db EXCEPT !.accounts = @ \cup {row.key}]
         /\ PlanOf(row).otherwise = Tail(todo)
BY DEF PlanOf, Plan

LEMMA SettlementPlan ==
  ASSUME NEW row, row.kind = "settlement"
  PROVE  /\ PlanOf(row).found = OpenWallets("foodeli", "TRY")
         /\ PlanOf(row).new = [db EXCEPT !.wallets = Append(@, Wallet("foodeli", "TRY"))]
         /\ PlanOf(row).otherwise = <<>>
BY DEF PlanOf, Plan

LEMMA MerchantPlan ==
  ASSUME NEW row, row.kind = "merchant"
  PROVE  /\ PlanOf(row).found = Once(db.merchant # 0)
         /\ PlanOf(row).accepted = (db.tables /\ db.merchant = 0)
         /\ PlanOf(row).new = [db EXCEPT !.merchant = held]
         /\ PlanOf(row).otherwise = <<>>
BY DEF PlanOf, Plan

LEMMA KeyPlan ==
  ASSUME NEW row, row.kind = "key"
  PROVE  /\ PlanOf(row).found = Once(row.key \in db.keys)
         /\ PlanOf(row).new = [db EXCEPT !.keys = @ \cup {row.key}]
         /\ PlanOf(row).otherwise = Tail(todo)
BY DEF PlanOf, Plan

LEMMA RowKinds ==
  ASSUME StoreTypeOK, Progress, todo # <<>>
  PROVE  LET row == Head(todo)
         IN  /\ row.kind \in Kinds
             /\ row.kind = "user" => row.key \in Emails /\ row.key \in {"demo", "foodeli"}
             /\ row.kind = "wallet" => row.key \in Currencies
             /\ row.kind = "settlement" => row.key = "TRY"
             /\ row.kind = "account" => row.key \in {"clearing", "fee"}
             /\ row.kind = "key" => row.key \in {"live", "test"}
             /\ row.key = "TRY" => row.kind \in {"wallet", "settlement"}
<1>1. RowNow(Head(todo), Len(DemoCurrencies))
  BY RowIs
<1>2. {"demo", "foodeli"} \subseteq Emails
  BY StartupAssumption
<1> QED
  BY <1>1, <1>2 DEF RowNow, Row, Tables, Kinds, Currencies

(* Ensuring a row adds to the tables and takes nothing away. *)
Grown ==
  /\ db' \in Tableaux
  /\ \A i \in DOMAIN db.wallets : i \in DOMAIN db'.wallets /\ db'.wallets[i] = db.wallets[i]
  /\ \A i \in DOMAIN db.cards : i \in DOMAIN db'.cards /\ db'.cards[i] = db.cards[i]
  /\ \A i \in DOMAIN db'.cards :
       /\ db'.cards[i].wallet \in DOMAIN db'.wallets
       /\ i \in DOMAIN db.cards \/ db'.cards[i].encrypted
  /\ db.tables => db'.tables
  /\ db.accounts \subseteq db'.accounts /\ db.keys \subseteq db'.keys
  /\ db'.merchant \in DOMAIN db'.wallets \cup {0}
  /\ db.merchant # 0 => db'.merchant = db.merchant
  /\ \A e \in Emails : Registered(e) => Registered(e)'

LEMMA AppendAt ==
  ASSUME NEW S, NEW s \in Seq(S), NEW x \in S
  PROVE  /\ Append(s, x) \in Seq(S) /\ Len(Append(s, x)) = Len(s) + 1
         /\ DOMAIN Append(s, x) = 1 .. Len(s) + 1 /\ DOMAIN s = 1 .. Len(s) /\ Len(s) \in Nat
         /\ Append(s, x)[Len(s) + 1] = x
         /\ \A i \in DOMAIN s : i \in DOMAIN Append(s, x) /\ Append(s, x)[i] = s[i]
         /\ \A i \in DOMAIN Append(s, x) : i \in DOMAIN s \/ i = Len(s) + 1
OBVIOUS

LEMMA SameTables ==
  ASSUME StoreTypeOK, UNCHANGED <<db, users>>
  PROVE  Grown
BY DEF Grown, StoreTypeOK, Registered

(* A purse is a wallet of the demo user or the settlement wallet. *)
Purse(row) == row.kind \in {"wallet", "settlement"}
OwnerOf(row) == IF row.kind = "wallet" THEN "demo" ELSE "foodeli"

LEMMA PursePlan ==
  ASSUME StoreTypeOK, Progress, todo # <<>>, Purse(Head(todo))
  PROVE  LET row == Head(todo)
         IN  /\ PlanOf(row).found = OpenWallets(OwnerOf(row), row.key)
             /\ PlanOf(row).new = [db EXCEPT !.wallets = Append(@, Wallet(OwnerOf(row), row.key))]
             /\ Wallet(OwnerOf(row), row.key) \in WalletRows
<1> DEFINE row == Head(todo)
<1>1. row.key \in Currencies /\ (row.kind = "settlement" => row.key = "TRY")
  BY RowKinds DEF Purse, Currencies
<1>2. Wallet(OwnerOf(row), row.key) \in WalletRows
  BY <1>1 DEF OwnerOf, Wallet, WalletRows
<1>3. CASE row.kind = "wallet"
  BY <1>2, <1>3, WalletPlan DEF OwnerOf
<1>4. CASE row.kind = "settlement"
  BY <1>1, <1>2, <1>4, SettlementPlan DEF OwnerOf
<1> QED
  BY <1>3, <1>4 DEF Purse

LEMMA Grows ==
  ASSUME StoreTypeOK, Progress, AccountsInv, RowStep
  PROVE  Grown
<1> DEFINE row == Head(todo)
<1>1. CASE RowFound \/ RowGivenUp
  BY <1>1, SameTables DEF RowFound, RowGivenUp
<1>2. CASE RowInserted
  <2>1. /\ db \in Tableaux /\ todo # <<>> /\ PlanOf(row).accepted /\ db' = PlanOf(row).new
        /\ users' = IF row.kind = "user" THEN [users EXCEPT ![row.key] = Seeded] ELSE users
    BY <1>2 DEF StoreTypeOK, RowInserted, RowStep
  <2>2. \A e \in Emails : Registered(e) => Registered(e)'
    BY <2>1, StartupAssumption, UsersAssumption DEF AccountsInv, Registered
  <2>3. CASE row.kind = "user"
    <3>1. db' = db
      BY <2>1, <2>3, UserPlan
    <3> QED
      BY <2>2, <3>1 DEF Grown, StoreTypeOK
  <2>4. CASE Purse(row)
    <3> DEFINE w == Wallet(OwnerOf(row), row.key)
    <3>1. db' = [db EXCEPT !.wallets = Append(@, w)] /\ w \in WalletRows
      BY <2>1, <2>4, PursePlan
    <3> HIDE DEF w
    <3>2. /\ db'.wallets = Append(db.wallets, w) /\ db'.cards = db.cards
          /\ db'.tables = db.tables /\ db'.accounts = db.accounts /\ db'.keys = db.keys
          /\ db'.merchant = db.merchant /\ db.wallets \in Seq(WalletRows)
      BY <2>1, <3>1 DEF Tableaux
    <3>3. db'.wallets \in Seq(WalletRows)
          /\ \A i \in DOMAIN db.wallets : i \in DOMAIN db'.wallets /\ db'.wallets[i] = db.wallets[i]
      BY <3>1, <3>2, AppendAt
    <3>4. db' \in Tableaux
      BY <2>1, <3>1, <3>2, <3>3 DEF Tableaux
    <3> QED
      BY <2>2, <3>2, <3>3, <3>4 DEF Grown, StoreTypeOK
  <2>5. CASE row.kind = "card"
    <3>1. db' = [db EXCEPT !.cards = Append(@, Card(held))] /\ held # 0
      BY <2>1, <2>5, CardPlan
    <3>2. /\ held \in DOMAIN db.wallets /\ Card(held) \in CardRows /\ Card(held).wallet = held
          /\ Card(held).encrypted
      BY <2>1, <3>1 DEF StoreTypeOK, Card, CardRows, Tableaux
    <3>3. /\ db'.cards = Append(db.cards, Card(held)) /\ db'.wallets = db.wallets
          /\ db'.tables = db.tables /\ db'.accounts = db.accounts /\ db'.keys = db.keys
          /\ db'.merchant = db.merchant /\ db.cards \in Seq(CardRows)
      BY <2>1, <3>1 DEF Tableaux
    <3>4. /\ db'.cards \in Seq(CardRows)
          /\ \A i \in DOMAIN db.cards : i \in DOMAIN db'.cards /\ db'.cards[i] = db.cards[i]
          /\ \A i \in DOMAIN db'.cards : i \in DOMAIN db.cards \/ db'.cards[i] = Card(held)
      BY <3>2, <3>3, AppendAt
    <3>5. db' \in Tableaux
      BY <2>1, <3>1, <3>3, <3>4 DEF Tableaux
    <3> QED
      BY <2>2, <3>2, <3>3, <3>4, <3>5 DEF Grown, StoreTypeOK
  <2>6. CASE row.kind \in {"tables", "account", "merchant", "key"}
    <3>1. \/ db' = [db EXCEPT !.tables = TRUE]
          \/ row.kind = "account" /\ db' = [db EXCEPT !.accounts = @ \cup {row.key}]
          \/ db.merchant = 0 /\ db' = [db EXCEPT !.merchant = held]
          \/ row.kind = "key" /\ db' = [db EXCEPT !.keys = @ \cup {row.key}]
      BY <2>1, <2>6, TablesPlan, AccountPlan, MerchantPlan, KeyPlan
    <3>2. held \in Nat
      BY <2>1 DEF StoreTypeOK, Tableaux
    <3>3. /\ row.kind = "account" => row.key \in {"clearing", "fee"}
          /\ row.kind = "key" => row.key \in {"live", "test"}
      BY <2>1, RowKinds
    <3> HIDE DEF row
    <3>4. db' \in Tableaux
      <4>1. CASE db' = [db EXCEPT !.tables = TRUE]
        BY <2>1, <4>1 DEF Tableaux
      <4>2. CASE row.kind = "account" /\ db' = [db EXCEPT !.accounts = @ \cup {row.key}]
        <5>1. db.accounts \cup {row.key} \in SUBSET {"clearing", "fee"}
          BY <2>1, <3>3, <4>2 DEF Tableaux
        <5> QED
          BY <2>1, <4>2, <5>1 DEF Tableaux
      <4>3. CASE db' = [db EXCEPT !.merchant = held]
        BY <2>1, <3>2, <4>3 DEF Tableaux
      <4>4. CASE row.kind = "key" /\ db' = [db EXCEPT !.keys = @ \cup {row.key}]
        <5>1. db.keys \cup {row.key} \in SUBSET {"live", "test"}
          BY <2>1, <3>3, <4>4 DEF Tableaux
        <5> QED
          BY ZenonT(40), <2>1, <4>4, <5>1 DEF Tableaux
      <4> QED
        BY <3>1, <4>1, <4>2, <4>3, <4>4
    <3>5. /\ db'.wallets = db.wallets /\ db'.cards = db.cards /\ (db.tables => db'.tables)
          /\ db.accounts \subseteq db'.accounts /\ db.keys \subseteq db'.keys
          /\ db'.merchant = db.merchant \/ (db.merchant = 0 /\ db'.merchant = held)
      BY <2>1, <3>1 DEF Tableaux
    <3> QED
      BY <2>2, <3>4, <3>5 DEF Grown, StoreTypeOK
  <2> QED
    BY <2>1, <2>3, <2>4, <2>5, <2>6, RowKinds DEF Kinds, Purse
<1> QED
  BY <1>1, <1>2 DEF RowStep

(* The start goes on with the next row, with the gateway's rows, or not at all. *)
LEMMA RowProgress ==
  ASSUME StoreTypeOK, Progress, RowStep
  PROVE  /\ Progress' /\ Rows' = Rows
         /\ todo' = Tail(todo) => Done' = Done + 1
         /\ todo' # Tail(todo) =>
              \/ Done' = Len(Rows)
              \/ env = "development" /\ Done' = Len(DemoCurrencies) + 2
<1> DEFINE k == Len(DemoCurrencies)
           row == Head(todo)
<1>1. /\ todo # <<>> /\ todo \in Seq(RowSet) /\ Len(todo) \in Nat \ {0}
      /\ DOMAIN todo = 1 .. Len(todo)
      /\ Len(Rows) - Len(todo) \in Nat /\ k \in Nat /\ Len(Rows) \in Nat
      /\ phase' = phase /\ phase = "starting" /\ Rows' = Rows
      /\ \A i \in 1 .. Len(todo) : todo[i] = Rows[(Len(Rows) - Len(todo)) + i]
  <2>1. todo # <<>> /\ phase' = phase /\ phase = "starting" /\ Rows' = Rows
    BY DEF RowStep, Rows
  <2>2. Len(Rows) - Len(todo) \in Nat /\ k \in Nat
    BY <2>1, RowIs DEF Done
  <2>3. todo \in Seq(RowSet)
    BY DEF Progress
  <2>4. /\ Len(todo) \in Nat \ {0} /\ DOMAIN todo = 1 .. Len(todo)
    BY <2>1, <2>3
  <2>5. Rows \in Seq(RowSet)
    <3>1. CASE env = "production"
      <4>1. Rows = <<Tables>> /\ Tables \in RowSet
        BY <3>1, RowsAre DEF Rows, Tables, Row, RowSet, Kinds, Keys
      <4> QED
        BY <4>1
    <3>2. CASE env = "development"
      BY <3>2, RowsAre DEF Rows
    <3> QED
      BY <3>1, <3>2 DEF StoreTypeOK
  <2>6. Len(Rows) \in Nat
    BY <2>5
  <2> QED
    BY <2>1, <2>2, <2>3, <2>4, <2>6 DEF Progress, Done
<1>2. CASE todo' = Tail(todo)
  <2>1. /\ todo' \in Seq(RowSet) /\ Len(todo') = Len(todo) - 1
        /\ DOMAIN todo' = 1 .. Len(todo) - 1
        /\ \A i \in 1 .. Len(todo) - 1 : todo'[i] = todo[i + 1]
    BY <1>1, <1>2
  <2>2. ASSUME NEW i \in 1 .. Len(todo) - 1
        PROVE  todo'[i] = Rows[(Len(Rows) - (Len(todo) - 1)) + i]
    <3>1. i + 1 \in 1 .. Len(todo)
          /\ (Len(Rows) - Len(todo)) + (i + 1) = (Len(Rows) - (Len(todo) - 1)) + i
      BY <1>1
    <3> QED
      BY <1>1, <2>1, <3>1
  <2>3. Len(Rows') - Len(todo') = (Len(Rows) - Len(todo)) + 1
    BY <1>1, <2>1
  <2> QED
    BY <1>1, <1>2, <2>1, <2>2, <2>3 DEF Progress, Done
<1>3. CASE todo' = <<>>
  <2>1. todo' \in Seq(RowSet) /\ Len(todo') = 0 /\ DOMAIN todo' = {}
    BY <1>3
  <2>2. Done' = Len(Rows)
    BY <1>1, <2>1 DEF Done
  <2>3. Progress'
    BY <1>1, <2>1 DEF Progress
  <2>4. todo' = Tail(todo) => Done' = Done + 1
    BY <1>2, <1>3
  <2> QED
    BY <1>1, <2>2, <2>3, <2>4
<1>4. CASE row.kind = "user" /\ row.key = "demo" /\ todo' = AfterDemo
  <2>1. env = "development" /\ Done = 0
    BY <1>1, <1>4, RowIs DEF RowNow, Row, Tables
  <2>2. Len(Rows) = k + 10 /\ Len(GatewayRows) = 8 /\ Len(todo) = k + 10
    <3>1. Len(Rows) = k + 10 /\ Len(GatewayRows) = 8
      BY <2>1, RowsAre DEF Rows
    <3>2. Len(Rows) - Len(todo) = 0
      BY <2>1 DEF Done
    <3>3. Len(todo) = Len(Rows)
      BY <1>1, <3>2
    <3> QED
      BY <3>1, <3>3
  <2>3. todo' = SubSeq(todo, k + 3, k + 10)
    BY <1>1, <1>4, <2>2 DEF AfterDemo
  <2>4. /\ todo' \in Seq(RowSet) /\ Len(todo') = 8 /\ DOMAIN todo' = 1 .. 8
        /\ \A i \in 1 .. 8 : todo'[i] = todo[k + 2 + i]
    <3>1. \A i \in k + 3 .. k + 10 : todo[i] \in RowSet
      BY <1>1, <2>2
    <3> QED
      BY <1>1, <2>2, <2>3, <3>1
  <2>5. Done' = k + 2
    BY <1>1, <2>2, <2>4 DEF Done
  <2>6. ASSUME NEW i \in 1 .. 8 PROVE todo'[i] = Rows[k + 2 + i]
    <3>1. k + 2 + i \in 1 .. Len(todo) /\ (Len(Rows) - Len(todo)) + (k + 2 + i) = k + 2 + i
      BY <1>1, <2>2
    <3> QED
      BY <1>1, <2>4, <3>1
  <2>7. Progress'
    BY <1>1, <2>2, <2>4, <2>5, <2>6 DEF Progress
  <2>8. todo' = Tail(todo) => Done' = Done + 1
    BY <1>2
  <2> QED
    BY <1>1, <2>1, <2>5, <2>7, <2>8
<1>5. \/ todo' = Tail(todo) \/ todo' = <<>>
      \/ row.kind = "user" /\ row.key = "demo" /\ todo' = AfterDemo
  <2>1. todo' \in {Tail(todo), PlanOf(row).otherwise}
    BY DEF RowStep, RowFound, RowInserted, RowGivenUp
  <2>2. row.kind \in Kinds
    BY <1>1, RowKinds
  <2>3. \/ PlanOf(row).otherwise \in {Tail(todo), <<>>}
        \/ row.kind = "user" /\ row.key = "demo" /\ PlanOf(row).otherwise = AfterDemo
    BY <2>2, UserPlan, WalletPlan, CardPlan, TablesPlan, AccountPlan, SettlementPlan,
       MerchantPlan, KeyPlan DEF Kinds
  <2> QED
    BY <2>1, <2>3
<1> QED
  BY <1>2, <1>3, <1>4, <1>5

(* What is open stays open while the start adds rows. *)
LEMMA StayOpen ==
  ASSUME StoreTypeOK, Grown
  PROVE  /\ \A o, c : \A w \in OpenWallets(o, c) : w \in OpenWallets(o, c)'
         /\ \A w : \A i \in OpenCards(w) : i \in OpenCards(w)' /\ db'.cards[i] = db.cards[i]
BY DEF Grown, OpenWallets, OpenCards, Belongs

(* The wallet that is inserted is the last one, and open. *)
LEMMA NewPurse ==
  ASSUME StoreTypeOK, Progress, RowStep, RowInserted, Purse(Head(todo))
  PROVE  LET row == Head(todo)
             n == Len(db.wallets) + 1
         IN  /\ db'.wallets = Append(db.wallets, Wallet(OwnerOf(row), row.key))
             /\ db'.cards = db.cards /\ db'.merchant = db.merchant /\ db'.keys = db.keys
             /\ Len(db'.wallets) = n /\ n # 0
             /\ \A o, c : (o = OwnerOf(row) /\ c = row.key) => n \in OpenWallets(o, c)'
             /\ DOMAIN db.wallets = 1 .. Len(db.wallets) /\ Len(db.wallets) \in Nat
             /\ DOMAIN db'.wallets = 1 .. n
             /\ db'.wallets[n] = Wallet(OwnerOf(row), row.key)
<1> DEFINE row == Head(todo)
           w == Wallet(OwnerOf(row), row.key)
           n == Len(db.wallets) + 1
<1>1. /\ db \in Tableaux /\ todo # <<>> /\ w \in WalletRows
      /\ db' = [db EXCEPT !.wallets = Append(@, w)]
  BY PursePlan DEF StoreTypeOK, RowStep, RowInserted
<1>2. w.owner = OwnerOf(row) /\ w.currency = row.key /\ w.open
  BY DEF Wallet
<1> HIDE DEF w
<1>3. /\ db.wallets \in Seq(WalletRows) /\ db'.wallets = Append(db.wallets, w)
      /\ db'.cards = db.cards /\ db'.merchant = db.merchant /\ db'.keys = db.keys
  BY <1>1 DEF Tableaux
<1>4. /\ Len(db'.wallets) = n /\ DOMAIN db'.wallets = 1 .. n /\ n \in Nat \ {0}
      /\ db'.wallets[n] = w /\ DOMAIN db.wallets = 1 .. Len(db.wallets)
      /\ Len(db.wallets) \in Nat
  BY <1>1, <1>3, AppendAt
<1>5. ASSUME NEW o, NEW c, o = OwnerOf(row), c = row.key PROVE n \in OpenWallets(o, c)'
  BY <1>2, <1>4, <1>5 DEF OpenWallets, Belongs
<1> QED
  BY <1>3, <1>4, <1>5 DEF w

LEMMA RowTypes ==
  ASSUME StoreTypeOK, Progress, AccountsInv, RowStep
  PROVE  StoreTypeOK'
<1> DEFINE row == Head(todo)
<1>1. Grown /\ todo # <<>>
  BY Grows DEF RowStep
<1>2. held' \in DOMAIN db'.wallets \cup {0}
  <2>1. held \in DOMAIN db'.wallets \cup {0}
    BY <1>1 DEF Grown, StoreTypeOK
  <2>2. row.key = "TRY" => Purse(row)
    BY <1>1, RowKinds DEF Purse
  <2>3. CASE row.key # "TRY"
    <3>1. held' = held
      BY <2>3 DEF RowStep, RowFound, RowInserted, RowGivenUp, Hold
    <3> QED
      BY <2>1, <3>1
  <2>4. CASE row.key = "TRY" /\ RowFound
    <3>1. PlanOf(row).found \subseteq DOMAIN db.wallets
      BY <1>1, <2>2, <2>4, PursePlan DEF OpenWallets
    <3> QED
      BY <2>4, <3>1 DEF RowFound, Hold
  <2>5. CASE row.key = "TRY" /\ RowInserted
    <3>1. Len(db'.wallets) \in DOMAIN db'.wallets
      BY <2>2, <2>5, NewPurse
    <3> QED
      BY <2>5, <3>1 DEF RowInserted, Hold
  <2>6. CASE row.key = "TRY" /\ RowGivenUp
    BY <2>6 DEF RowGivenUp, Hold
  <2> QED
    BY <2>3, <2>4, <2>5, <2>6 DEF RowStep
<1>3. warned' \in BOOLEAN /\ misread' \in BOOLEAN
  BY DEF RowStep, RowFound, RowInserted, RowGivenUp, StoreTypeOK
<1>4. phase' = phase /\ env' = env /\ edits' = edits
  BY DEF RowStep
<1> QED
  BY <1>1, <1>2, <1>3, <1>4 DEF StoreTypeOK, Grown

LEMMA RowHeld ==
  ASSUME StoreTypeOK, Progress, HeldKnown, AccountsInv, RowStep
  PROVE  HeldKnown'
<1> DEFINE row == Head(todo)
           k == Len(DemoCurrencies)
<1> SUFFICES ASSUME env = "development"
             PROVE  /\ Done' < k + 2 => held' = 0 \/ held' \in OpenWallets("demo", "TRY")'
                    /\ Done' = k + 7 => held' # 0 /\ Belongs(held, "foodeli", "TRY")'
                    /\ Done' \in {k + 8, k + 9} => db'.merchant # 0
  BY DEF RowStep, HeldKnown
<1>1. /\ todo # <<>> /\ phase = "starting" /\ Grown /\ k \in Nat /\ Done \in Nat
      /\ RowNow(row, k) /\ Len(Rows) = k + 10
      /\ RowFound \/ RowInserted \/ RowGivenUp
  BY Grows, RowIs, RowsAre DEF RowStep, Rows
<1>2. /\ todo' = Tail(todo) => Done' = Done + 1
      /\ todo' # Tail(todo) => Done' = k + 10 \/ Done' = k + 2
  BY <1>1, RowProgress
<1>3. ASSUME Done' < k + 2 PROVE held' = 0 \/ held' \in OpenWallets("demo", "TRY")'
  <2>1. Done < k + 1
    BY <1>1, <1>2, <1>3
  <2>2. held = 0 \/ held \in OpenWallets("demo", "TRY")'
    BY <1>1, <2>1, StayOpen DEF HeldKnown
  <2>3. row.kind \in {"user", "wallet"}
    BY <1>1, <2>1 DEF RowNow, Row
  <2>4. CASE row.key # "TRY"
    <3>1. held' = held
      BY <1>1, <2>4 DEF RowFound, RowInserted, RowGivenUp, Hold
    <3> QED
      BY <2>2, <3>1
  <2>5. CASE row.key = "TRY"
    <3>1. row.kind = "wallet" /\ OwnerOf(row) = "demo" /\ Purse(row)
      BY <1>1, <2>3, <2>5, RowKinds DEF Purse, OwnerOf
    <3>2. CASE RowFound
      <4>1. held' \in OpenWallets("demo", "TRY")
        BY <1>1, <2>5, <3>1, <3>2, PursePlan DEF RowFound, Hold
      <4> QED
        BY <1>1, <4>1, StayOpen
    <3>3. CASE RowInserted
      BY <2>5, <3>1, <3>3, NewPurse DEF RowInserted, Hold
    <3>4. CASE RowGivenUp
      BY <2>5, <3>4 DEF RowGivenUp, Hold
    <3> QED
      BY <1>1, <3>2, <3>3, <3>4
  <2> QED
    BY <2>4, <2>5
<1>4. ASSUME Done' = k + 7 PROVE held' # 0 /\ Belongs(held, "foodeli", "TRY")'
  <2>1. todo' = Tail(todo) /\ Done = k + 6
    BY <1>1, <1>2, <1>4
  <2>2. row.kind = "settlement" /\ row.key = "TRY" /\ OwnerOf(row) = "foodeli" /\ Purse(row)
    BY <1>1, <2>1 DEF RowNow, Row, OwnerOf, Purse
  <2>3. CASE RowFound
    <3>1. held' \in OpenWallets("foodeli", "TRY")
      BY <1>1, <2>2, <2>3, PursePlan DEF RowFound, Hold
    <3> QED
      BY <1>1, <3>1, StayOpen DEF OpenWallets, Belongs, StoreTypeOK, Tableaux
  <2>4. CASE RowInserted
    <3>1. held' = Len(db.wallets) + 1 /\ held' \in OpenWallets("foodeli", "TRY")' /\ held' # 0
      BY <2>2, <2>4, NewPurse DEF RowInserted, Hold
    <3> QED
      BY <3>1 DEF OpenWallets, Belongs
  <2>5. CASE RowGivenUp
    <3>1. todo' = <<>>
      BY <2>2, <2>5, SettlementPlan DEF RowGivenUp
    <3>2. Done' = k + 10
      BY <1>1, <3>1 DEF Done, RowStep, Rows
    <3> QED
      BY <1>1, <1>4, <3>2
  <2> QED
    BY <1>1, <2>3, <2>4, <2>5
<1>5. ASSUME Done' \in {k + 8, k + 9} PROVE db'.merchant # 0
  <2>1. todo' = Tail(todo) /\ Done \in {k + 7, k + 8}
    BY <1>1, <1>2, <1>5
  <2>2. CASE Done = k + 8
    BY <1>1, <2>2 DEF HeldKnown, Grown
  <2>3. CASE Done = k + 7
    <3>1. row.kind = "merchant" /\ held # 0
      BY <1>1, <2>3 DEF RowNow, Row, HeldKnown
    <3>2. CASE RowFound
      BY <3>1, <3>2, MerchantPlan DEF RowFound, Once
    <3>3. CASE RowInserted
      BY <3>1, <3>3, MerchantPlan DEF RowInserted, StoreTypeOK, Tableaux
    <3>4. CASE RowGivenUp
      <4>1. todo' = <<>>
        BY <3>1, <3>4, MerchantPlan DEF RowGivenUp
      <4>2. Done' = k + 10
        BY <1>1, <4>1 DEF Done, RowStep, Rows
      <4> QED
        BY <1>1, <1>5, <4>2
    <3> QED
      BY <1>1, <3>2, <3>3, <3>4
  <2> QED
    BY <2>1, <2>2, <2>3
<1> QED
  BY <1>3, <1>4, <1>5

(* What is ensured stays ensured, whatever else is added. *)
LEMMA EnsuredStays ==
  ASSUME StoreTypeOK, Grown
  PROVE  \A row : Ensured(row) => Ensured(row)'
<1> SUFFICES ASSUME NEW row, Ensured(row) PROVE Ensured(row)'
  OBVIOUS
<1>1. row.kind = "user" => row.key \in Emails /\ Registered(row.key)'
  BY DEF Ensured, Grown
<1>2. row.kind = "wallet" => OpenWallets("demo", row.key)' # {}
  BY StayOpen DEF Ensured
<1>3. row.kind = "card" =>
        \E w \in OpenWallets("demo", "TRY")' : \E i \in OpenCards(w)' : db'.cards[i].encrypted
  BY StayOpen DEF Ensured
<1>4. /\ row.kind = "tables" => db'.tables
      /\ row.kind = "account" => row.key \in db'.accounts
      /\ row.kind = "merchant" => db'.merchant # 0
      /\ row.kind = "key" => row.key \in db'.keys
  BY DEF Ensured, Grown
<1> QED
  BY <1>1, <1>2, <1>3, <1>4 DEF Ensured

(* The row the start worked on without a failure is there. *)
LEMMA HeadEnsured ==
  ASSUME SeedInv, AccountsInv, RowStep, ~warned'
  PROVE  \A row : row = Head(todo) => Ensured(row)'
<1> DEFINE k == Len(DemoCurrencies)
<1> SUFFICES ASSUME NEW row, row = Head(todo) PROVE Ensured(row)'
  OBVIOUS
<1>1. /\ StoreTypeOK /\ Progress /\ todo # <<>> /\ ~warned /\ phase = "starting" /\ Grown
      /\ RowNow(row, k) /\ row.kind \in Kinds /\ k \in Nat
      /\ RowFound \/ (RowInserted /\ PlanOf(row).accepted /\ db' = PlanOf(row).new)
  <2>1. StoreTypeOK /\ Progress
    BY DEF SeedInv
  <2>2. todo # <<>> /\ phase = "starting" /\ (RowFound \/ RowInserted \/ RowGivenUp)
    BY DEF RowStep
  <2>3. Grown /\ RowNow(row, k) /\ row.kind \in Kinds /\ k \in Nat
    BY <2>1, <2>2, RowIs, RowKinds, Grows
  <2>4. ~warned /\ (RowFound \/ (RowInserted /\ PlanOf(row).accepted /\ db' = PlanOf(row).new))
    BY <2>2 DEF RowFound, RowInserted, RowGivenUp
  <2> QED
    BY <2>1, <2>2, <2>3, <2>4
<1>2. CASE row.kind = "user"
  <2>1. row.key \in Emails
    BY <1>1, <1>2, RowKinds
  <2>2. Registered(row.key)'
    <3>1. CASE RowFound
      BY <1>2, <3>1, UserPlan DEF RowFound, Once, Registered
    <3>2. CASE RowInserted
      BY <1>2, <2>1, <3>2, StartupAssumption, UsersAssumption
      DEF RowInserted, Registered, AccountsInv
    <3> QED
      BY <1>1, <3>1, <3>2
  <2> QED
    BY <1>2, <2>1, <2>2 DEF Ensured
<1>3. CASE Purse(row)
  <2>1. OpenWallets(OwnerOf(row), row.key)' # {}
    <3>1. CASE RowFound
      BY <1>1, <1>3, <3>1, PursePlan, StayOpen DEF RowFound
    <3>2. CASE RowInserted
      BY <1>1, <1>3, <3>2, NewPurse
    <3> QED
      BY <1>1, <3>1, <3>2
  <2> QED
    BY <1>3, <2>1 DEF Purse, OwnerOf, Ensured
<1>4. CASE row.kind = "card"
  <2>1. held = 0 \/ held \in OpenWallets("demo", "TRY")
    BY <1>1, <1>4 DEF SeedInv, HeldKnown, RowNow, Row, Tables
  <2>2. CASE RowFound
    <3>1. PICK i \in OpenCards(held) : TRUE
      BY <1>4, <2>2, CardPlan DEF RowFound
    <3>2. held # 0 /\ db.cards[i].encrypted
      BY <1>1, <3>1 DEF SeedInv, RowsEnsured, OpenCards, StoreTypeOK, Tableaux
    <3>3. Ensured(row)
      BY <1>4, <2>1, <3>1, <3>2 DEF Ensured
    <3> QED
      BY <1>1, <3>3, EnsuredStays
  <2>3. CASE RowInserted
    <3> DEFINE n == Len(db.cards) + 1
    <3>1. held \in OpenWallets("demo", "TRY") /\ db' = [db EXCEPT !.cards = Append(@, Card(held))]
      BY <1>1, <1>4, <2>1, <2>3, CardPlan DEF RowInserted
    <3>2. Card(held) \in CardRows /\ Card(held).wallet = held /\ Card(held).open
          /\ Card(held).encrypted
      BY <1>1, <3>1 DEF Card, CardRows, OpenWallets, StoreTypeOK, Tableaux
    <3>3. db.cards \in Seq(CardRows) /\ db'.cards = Append(db.cards, Card(held))
      BY <1>1, <3>1 DEF StoreTypeOK, Tableaux
    <3>4. n \in DOMAIN db'.cards /\ db'.cards[n] = Card(held)
      BY <3>2, <3>3, AppendAt
    <3>5. ASSUME NEW w, w = held PROVE n \in OpenCards(w)'
      BY <3>2, <3>4, <3>5 DEF OpenCards
    <3>6. ASSUME NEW w, w = held PROVE w \in OpenWallets("demo", "TRY")'
      BY <1>1, <3>1, <3>6, StayOpen
    <3>7. \E w \in OpenWallets("demo", "TRY")' : \E i \in OpenCards(w)' : db'.cards[i].encrypted
      BY <3>2, <3>4, <3>5, <3>6
    <3> QED
      BY <1>4, <3>7 DEF Ensured
  <2> QED
    BY <1>1, <2>2, <2>3
<1>5. CASE row.kind \in {"tables", "account", "key"}
  <2>1. CASE RowFound
    <3>1. Ensured(row)
      BY <1>5, <2>1, TablesPlan, AccountPlan, KeyPlan DEF RowFound, Once, Ensured
    <3> QED
      BY <1>1, <3>1, EnsuredStays
  <2>2. CASE RowInserted
    <3>1. db \in Tableaux
      BY <1>1 DEF StoreTypeOK
    <3>2. row.kind = "tables" => db'.tables
      BY <1>1, <2>2, <3>1, TablesPlan DEF RowInserted, Tableaux
    <3>3. row.kind = "account" => row.key \in db'.accounts
      <4>1. row.kind = "account" => db' = [db EXCEPT !.accounts = @ \cup {row.key}]
        BY <1>1, <2>2, AccountPlan DEF RowInserted
      <4>2. row.kind = "account" => db'.accounts = db.accounts \cup {row.key}
        BY <3>1, <4>1 DEF Tableaux
      <4> QED
        BY <4>2
    <3>4. row.kind = "key" => row.key \in db'.keys
      <4>1. row.kind = "key" => db' = [db EXCEPT !.keys = @ \cup {row.key}]
        BY <1>1, <2>2, KeyPlan DEF RowInserted
      <4>2. row.kind = "key" => db'.keys = db.keys \cup {row.key}
        BY <3>1, <4>1 DEF Tableaux
      <4> QED
        BY <4>2
    <3> QED
      BY <1>5, <3>2, <3>3, <3>4 DEF Ensured
  <2> QED
    BY <1>1, <2>1, <2>2
<1>6. CASE row.kind = "merchant"
  <2>1. CASE RowFound
    <3>1. Ensured(row)
      BY <1>6, <2>1, MerchantPlan DEF RowFound, Once, Ensured
    <3> QED
      BY <1>1, <3>1, EnsuredStays
  <2>2. CASE RowInserted
    <3>1. held # 0
      BY <1>1, <1>6 DEF SeedInv, HeldKnown, RowNow, Row, Tables
    <3>2. db'.merchant # 0
      BY <1>1, <1>6, <2>2, <3>1, MerchantPlan DEF RowInserted, StoreTypeOK, Tableaux
    <3> QED
      BY <1>6, <3>2 DEF Ensured
  <2> QED
    BY <1>1, <2>1, <2>2
<1> QED
  BY <1>1, <1>2, <1>3, <1>4, <1>5, <1>6 DEF Kinds, Purse

LEMMA RowEnsured ==
  ASSUME SeedInv, AccountsInv, RowStep
  PROVE  RowsEnsured'
<1> SUFFICES ASSUME ~warned'
             PROVE  /\ \A i \in 1 .. Done' : Ensured(Rows[i])'
                    /\ \A i \in DOMAIN db'.cards : db'.cards[i].open => db'.cards[i].encrypted
  BY DEF RowsEnsured
<1>1. /\ StoreTypeOK /\ Progress /\ todo # <<>> /\ ~warned /\ phase = "starting" /\ Grown
      /\ todo' = Tail(todo)
  <2>1. StoreTypeOK /\ Progress
    BY DEF SeedInv
  <2>2. todo # <<>> /\ phase = "starting" /\ (RowFound \/ RowInserted \/ RowGivenUp)
    BY DEF RowStep
  <2>3. Grown
    BY <2>1, Grows
  <2>4. ~warned /\ todo' = Tail(todo)
    BY <2>2 DEF RowFound, RowInserted, RowGivenUp
  <2> QED
    BY <2>1, <2>2, <2>3, <2>4
<1>2. Done' = Done + 1 /\ Rows' = Rows /\ Done \in Nat /\ Head(todo) = Rows[Done + 1]
  BY <1>1, RowProgress, RowIs
<1>3. ASSUME NEW i \in 1 .. Done' PROVE Ensured(Rows[i])'
  <2>1. ASSUME NEW row, row = Rows[i] PROVE Ensured(row)'
    <3>1. CASE i \in 1 .. Done
      <4>1. Ensured(row)
        BY <1>1, <2>1, <3>1 DEF SeedInv, RowsEnsured
      <4> QED
        BY <1>1, <4>1, EnsuredStays
    <3>2. CASE i = Done + 1
      BY <1>2, <2>1, <3>2, HeadEnsured
    <3> QED
      BY <1>2, <3>1, <3>2
  <2>2. \A row : row = Rows[i] => Ensured(row)'
    BY <2>1
  <2> HIDE DEF Rows
  <2> QED
    BY <1>2, <2>2 DEF Ensured
<1>4. \A i \in DOMAIN db'.cards : db'.cards[i].open => db'.cards[i].encrypted
  BY <1>1 DEF SeedInv, RowsEnsured, Grown
<1> QED
  BY <1>3, <1>4

(* What the insertion of a row changes. *)
LEMMA RowChanges ==
  ASSUME StoreTypeOK, Progress, RowStep, RowInserted
  PROVE  LET row == Head(todo)
         IN  /\ ~Purse(row) => db'.wallets = db.wallets
             /\ row.kind # "card" => db'.cards = db.cards
             /\ row.kind = "card" => db'.cards = Append(db.cards, Card(held)) /\ held # 0
             /\ row.kind # "merchant" => db'.merchant = db.merchant
             /\ row.kind = "merchant" => db'.merchant = held
             /\ row.kind # "key" => db'.keys = db.keys
<1> DEFINE row == Head(todo)
<1>1. /\ db \in Tableaux /\ todo # <<>> /\ PlanOf(row).accepted /\ db' = PlanOf(row).new
      /\ row.kind \in Kinds
  BY RowKinds DEF StoreTypeOK, RowInserted, RowStep
<1>2. CASE row.kind = "user"
  BY <1>1, <1>2, UserPlan DEF Purse
<1>3. CASE Purse(row)
  BY <1>1, <1>3, PursePlan DEF Purse, Tableaux
<1>4. CASE row.kind = "card"
  BY ZenonT(40), <1>1, <1>4, CardPlan DEF Purse, Tableaux
<1>5. CASE row.kind = "tables"
  BY <1>1, <1>5, TablesPlan DEF Purse, Tableaux
<1>6. CASE row.kind = "account"
  <2>1. db' = [db EXCEPT !.accounts = @ \cup {row.key}]
    BY <1>1, <1>6, AccountPlan
  <2>2. /\ db'.wallets = db.wallets /\ db'.cards = db.cards /\ db'.merchant = db.merchant
        /\ db'.keys = db.keys
    BY <1>1, <2>1 DEF Tableaux
  <2> QED
    BY <1>6, <2>2 DEF Purse
<1>7. CASE row.kind = "merchant"
  BY <1>1, <1>7, MerchantPlan DEF Purse, Tableaux
<1>8. CASE row.kind = "key"
  <2>1. db' = [db EXCEPT !.keys = @ \cup {row.key}]
    BY <1>1, <1>8, KeyPlan
  <2>2. /\ db'.wallets = db.wallets /\ db'.cards = db.cards /\ db'.merchant = db.merchant
    BY <1>1, <2>1 DEF Tableaux
  <2> QED
    BY <1>8, <2>2 DEF Purse
<1> QED
  BY <1>1, <1>2, <1>3, <1>4, <1>5, <1>6, <1>7, <1>8 DEF Kinds, Purse

LEMMA RowOnce ==
  ASSUME SeedInv, AccountsInv, RowStep
  PROVE  OpenOnce'
<1> DEFINE row == Head(todo)
<1> SUFFICES ASSUME ~misread'
             PROVE  /\ \A v, w \in Open' :
                         (db'.wallets[v].owner = db'.wallets[w].owner
                          /\ db'.wallets[v].currency = db'.wallets[w].currency) => v = w
                    /\ \A i, j \in DOMAIN db'.cards :
                         (db'.cards[i].open /\ db'.cards[j].open
                          /\ db'.cards[i].wallet = db'.cards[j].wallet) => i = j
  BY DEF OpenOnce, Belongs
<1>1. /\ StoreTypeOK /\ Progress /\ todo # <<>> /\ ~misread
      /\ db' = db \/ (RowInserted /\ PlanOf(row).found = {})
  <2>1. StoreTypeOK /\ Progress
    BY DEF SeedInv
  <2>2. todo # <<>> /\ (RowFound \/ RowInserted \/ RowGivenUp)
    BY DEF RowStep
  <2> QED
    BY <2>1, <2>2 DEF RowFound, RowInserted, RowGivenUp
<1>2. /\ \A v, w \in DOMAIN db.wallets :
           (db.wallets[v].open /\ db.wallets[w].open /\ db.wallets[v].owner = db.wallets[w].owner
            /\ db.wallets[v].currency = db.wallets[w].currency) => v = w
      /\ \A i, j \in DOMAIN db.cards :
           (db.cards[i].open /\ db.cards[j].open
            /\ db.cards[i].wallet = db.cards[j].wallet) => i = j
  BY <1>1 DEF SeedInv, OpenOnce, Open, Belongs
<1>3. CASE db' = db
  BY <1>2, <1>3 DEF Open
<1>4. CASE RowInserted /\ Purse(row)
  <2> DEFINE n == Len(db.wallets) + 1
  <2>1. \A w \in DOMAIN db.wallets :
          db.wallets[w].open =>
            ~(db.wallets[w].owner = OwnerOf(row) /\ db.wallets[w].currency = row.key)
    <3>1. OpenWallets(OwnerOf(row), row.key) = {}
      <4>1. PlanOf(row).found = {}
        BY <1>4 DEF RowInserted
      <4> QED
        BY <1>1, <1>4, <4>1, PursePlan
    <3> QED
      BY <3>1 DEF OpenWallets, Belongs
  <2>2. /\ db'.cards = db.cards
        /\ \A w \in DOMAIN db'.wallets : w = n \/ w \in DOMAIN db.wallets
        /\ db'.wallets[n].owner = OwnerOf(row) /\ db'.wallets[n].currency = row.key
        /\ \A w \in DOMAIN db.wallets : db'.wallets[w] = db.wallets[w]
    <3>1. /\ db'.cards = db.cards /\ db'.wallets[n] = Wallet(OwnerOf(row), row.key)
          /\ DOMAIN db.wallets = 1 .. Len(db.wallets) /\ DOMAIN db'.wallets = 1 .. n
          /\ Len(db.wallets) \in Nat
      BY <1>1, <1>4, NewPurse
    <3>2. \A w \in DOMAIN db.wallets : db'.wallets[w] = db.wallets[w]
      BY <1>1, Grows DEF Grown
    <3> QED
      BY <3>1, <3>2 DEF Wallet
  <2> HIDE DEF n
  <2> QED
    BY <1>2, <2>1, <2>2 DEF Open
<1>5. CASE RowInserted /\ row.kind = "card"
  <2> DEFINE n == Len(db.cards) + 1
  <2>1. \A i \in DOMAIN db.cards : db.cards[i].open => db.cards[i].wallet # held
    <3>1. PlanOf(row).found = {}
      BY <1>5 DEF RowInserted
    <3> QED
      BY <1>5, <3>1, CardPlan DEF OpenCards
  <2>2. /\ db'.wallets = db.wallets
        /\ \A i \in DOMAIN db'.cards : i = n \/ i \in DOMAIN db.cards
        /\ db'.cards[n].wallet = held
        /\ \A i \in DOMAIN db.cards : db'.cards[i] = db.cards[i]
    <3>1. /\ db'.wallets = db.wallets /\ db'.cards = Append(db.cards, Card(held)) /\ held # 0
      BY <1>1, <1>5, RowChanges DEF Purse
    <3>2. Card(held) \in CardRows /\ Card(held).wallet = held /\ db.cards \in Seq(CardRows)
      BY <1>1, <3>1 DEF Card, CardRows, StoreTypeOK, Tableaux
    <3> QED
      BY <3>1, <3>2, AppendAt
  <2> HIDE DEF n
  <2> QED
    BY <1>2, <2>1, <2>2 DEF Open
<1>6. CASE RowInserted /\ ~Purse(row) /\ row.kind # "card"
  <2>1. db'.wallets = db.wallets /\ db'.cards = db.cards
    BY <1>1, <1>6, RowChanges
  <2> QED
    BY <1>2, <2>1 DEF Open
<1> QED
  BY <1>1, <1>3, <1>4, <1>5, <1>6

LEMMA RowPaid ==
  ASSUME SeedInv, AccountsInv, RowStep
  PROVE  PaidInto'
<1> DEFINE row == Head(todo)
           k == Len(DemoCurrencies)
<1>1. /\ StoreTypeOK /\ Progress /\ todo # <<>> /\ phase = "starting" /\ Grown
      /\ RowNow(row, k) /\ (db' = db \/ RowInserted)
  <2>1. StoreTypeOK /\ Progress
    BY DEF SeedInv
  <2>2. todo # <<>> /\ phase = "starting" /\ (RowFound \/ RowInserted \/ RowGivenUp)
    BY DEF RowStep
  <2> QED
    BY <2>1, <2>2, Grows, RowIs DEF RowFound, RowGivenUp
<1>2. /\ db.keys # {} => db.merchant # 0
      /\ db.merchant # 0 => Belongs(db.merchant, "foodeli", "TRY")
  BY DEF SeedInv, PaidInto
<1>3. /\ row.kind = "key" => db.merchant # 0
      /\ row.kind = "merchant" => held # 0 /\ Belongs(held, "foodeli", "TRY")
  BY <1>1 DEF SeedInv, HeldKnown, RowNow, Row, Tables
<1>4. \A w \in DOMAIN db.wallets :
        db'.wallets[w].owner = db.wallets[w].owner /\ db'.wallets[w].currency = db.wallets[w].currency
  BY <1>1 DEF Grown
<1>5. db.merchant # 0 => db'.merchant = db.merchant
  BY <1>1 DEF Grown
<1>6. db.merchant \in DOMAIN db.wallets \cup {0} /\ held \in DOMAIN db.wallets \cup {0}
  BY <1>1 DEF StoreTypeOK
<1>7. CASE db.merchant # 0
  BY <1>2, <1>4, <1>5, <1>6, <1>7 DEF PaidInto, Belongs
<1>8. CASE db.merchant = 0 /\ db' = db
  BY <1>2, <1>8 DEF PaidInto, Belongs
<1>9. CASE db.merchant = 0 /\ RowInserted
  <2>1. row.kind # "key" /\ db'.keys = db.keys /\ db.keys = {}
    BY <1>1, <1>2, <1>3, <1>9, RowChanges
  <2>2. db'.merchant = db.merchant
          \/ (row.kind = "merchant" /\ db'.merchant = held)
    BY <1>1, <1>9, RowChanges
  <2> QED
    BY <1>3, <1>4, <1>6, <1>9, <2>1, <2>2 DEF PaidInto, Belongs
<1> QED
  BY <1>1, <1>7, <1>8, <1>9

LEMMA RowKeepsSeeds ==
  ASSUME SeedInv, AccountsInv, EnsureRow \/ EnsureRowFails
  PROVE  SeedInv'
<1>1. StoreTypeOK /\ Progress /\ HeldKnown
  BY DEF SeedInv
<1>2. RowStep
  BY <1>1, RowSteps
<1>3. StoreTypeOK' /\ Progress' /\ HeldKnown'
  BY <1>1, <1>2, RowTypes, RowProgress, RowHeld
<1>4. RowsEnsured' /\ OpenOnce' /\ PaidInto'
  BY <1>2, RowEnsured, RowOnce, RowPaid
<1> QED
  BY <1>3, <1>4 DEF SeedInv

-----------------------------------------------------------------------------
(* The first start, and the steps that ensure no row. *)
LEMMA InitSeeds == StartupInit => SeedInv
<1> SUFFICES ASSUME StartupInit PROVE SeedInv
  OBVIOUS
<1>1. /\ phase = "down" /\ env = "production" /\ todo = <<>> /\ held = 0
      /\ warned = FALSE /\ misread = FALSE /\ edits = 0
      /\ db = EmptyDB \/ db = OldDB
  BY DEF StartupInit
<1> DEFINE w == Wallet("demo", "TRY")
           c == [Card(1) EXCEPT !.encrypted = FALSE]
<1>2. /\ db \in Tableaux /\ db.merchant = 0 /\ db.keys = {}
      /\ \/ DOMAIN db.wallets = {} /\ DOMAIN db.cards = {}
         \/ DOMAIN db.wallets = {1} /\ DOMAIN db.cards = {1} /\ db.cards[1].wallet = 1
  <2>1. CASE db = EmptyDB
    <3>1. <<>> \in Seq(WalletRows) /\ <<>> \in Seq(CardRows)
      OBVIOUS
    <3> QED
      BY <2>1, <3>1 DEF EmptyDB, Tableaux
  <2>2. CASE db = OldDB
    <3>1. w \in WalletRows /\ c \in CardRows /\ c.wallet = 1
      BY DEF Wallet, Card, WalletRows, CardRows, Currencies
    <3>2. db = [EmptyDB EXCEPT !.wallets = <<w>>, !.cards = <<c>>]
      BY <2>2 DEF OldDB
    <3> HIDE DEF w, c
    <3>3. <<w>> \in Seq(WalletRows) /\ <<c>> \in Seq(CardRows)
      BY <3>1
    <3>4. /\ db.wallets = <<w>> /\ db.cards = <<c>> /\ db.merchant = 0 /\ db.keys = {}
      BY <3>2 DEF EmptyDB
    <3>5. db \in Tableaux
      BY <3>2, <3>3 DEF EmptyDB, Tableaux
    <3> QED
      BY <3>1, <3>4, <3>5
  <2> QED
    BY <1>1, <2>1, <2>2
<1>3. 0 \in 0 .. MaxEdits
  BY StartupAssumption
<1>4. \A i \in DOMAIN db.cards : db.cards[i].wallet \in DOMAIN db.wallets
  BY <1>2
<1>5. StoreTypeOK
  BY <1>1, <1>2, <1>3, <1>4 DEF StoreTypeOK
<1>6. Progress
  <2>1. Rows = <<Tables>>
    BY <1>1, RowsAre DEF Rows
  <2> QED
    BY <1>1, <2>1 DEF Progress
<1>7. OpenOnce
  BY <1>2 DEF OpenOnce, Open
<1>8. HeldKnown /\ RowsEnsured /\ PaidInto
  BY <1>1, <1>2 DEF HeldKnown, RowsEnsured, PaidInto
<1> QED
  BY <1>5, <1>6, <1>7, <1>8 DEF SeedInv

LEMMA SeedsUntouched ==
  ASSUME SeedInv, UNCHANGED startupVars, UNCHANGED users \/ phase # "starting"
  PROVE  SeedInv'
<1>1. /\ db' = db /\ phase' = phase /\ env' = env /\ todo' = todo /\ held' = held
      /\ warned' = warned /\ misread' = misread /\ edits' = edits
  BY DEF startupVars
<1>2. StoreTypeOK' /\ Progress' /\ HeldKnown' /\ OpenOnce' /\ PaidInto'
  BY <1>1 DEF SeedInv, StoreTypeOK, Progress, Done, Rows, HeldKnown, OpenWallets, OpenOnce,
              Open, PaidInto, Belongs
<1>3. RowsEnsured'
  <2>1. CASE phase # "starting"
    BY <1>1, <2>1 DEF RowsEnsured
  <2>2. CASE UNCHANGED users
    <3>1. StoreTypeOK /\ Grown
      BY <1>1, <2>2, SameTables DEF SeedInv
    <3>2. \A row : Ensured(row) => Ensured(row)'
      BY <3>1, EnsuredStays
    <3>3. Done' = Done /\ Rows' = Rows
      BY <1>1 DEF Done, Rows
    <3>4. ASSUME phase = "starting", ~warned, NEW i \in 1 .. Done PROVE Ensured(Rows[i])'
      <4>1. \A row : row = Rows[i] => Ensured(row)'
        BY <3>2, <3>4 DEF SeedInv, RowsEnsured
      <4> HIDE DEF Rows
      <4> QED
        BY <3>3, <4>1 DEF Ensured
    <3>5. ASSUME phase = "starting", ~warned
          PROVE  \A i \in DOMAIN db'.cards : db'.cards[i].open => db'.cards[i].encrypted
      BY <1>1, <3>5 DEF SeedInv, RowsEnsured
    <3> QED
      BY <1>1, <3>3, <3>4, <3>5 DEF RowsEnsured
  <2> QED
    BY <2>1, <2>2
<1> QED
  BY <1>2, <1>3 DEF SeedInv

(* Nothing is opened, and the rows stay whose they are. *)
OnlyClosed ==
  /\ db' \in Tableaux /\ db'.merchant = db.merchant /\ db'.keys = db.keys
  /\ DOMAIN db'.wallets = DOMAIN db.wallets /\ DOMAIN db'.cards = DOMAIN db.cards
  /\ \A i \in DOMAIN db.wallets : /\ db'.wallets[i].owner = db.wallets[i].owner
                                  /\ db'.wallets[i].currency = db.wallets[i].currency
                                  /\ db'.wallets[i].open => db.wallets[i].open
  /\ \A i \in DOMAIN db.cards : /\ db'.cards[i].wallet = db.cards[i].wallet
                                /\ db'.cards[i].open => db.cards[i].open

LEMMA ClosingKeeps ==
  ASSUME SeedInv, OnlyClosed, misread' = misread, held' \in {held, 0}
  PROVE  /\ \A i \in DOMAIN db'.cards : db'.cards[i].wallet \in DOMAIN db'.wallets
         /\ db'.merchant \in DOMAIN db'.wallets \cup {0}
         /\ held' \in DOMAIN db'.wallets \cup {0}
         /\ OpenOnce' /\ PaidInto'
<1>1. \A i \in DOMAIN db'.cards : db'.cards[i].wallet \in DOMAIN db'.wallets
  <2>1. /\ DOMAIN db'.wallets = DOMAIN db.wallets /\ DOMAIN db'.cards = DOMAIN db.cards
        /\ \A i \in DOMAIN db.cards : db'.cards[i].wallet = db.cards[i].wallet
    BY DEF OnlyClosed
  <2>2. \A i \in DOMAIN db.cards : db.cards[i].wallet \in DOMAIN db.wallets
    BY DEF SeedInv, StoreTypeOK
  <2> QED
    BY <2>1, <2>2
<1>2. /\ db.merchant \in DOMAIN db.wallets \cup {0} /\ db'.merchant = db.merchant
      /\ held \in DOMAIN db.wallets \cup {0} /\ DOMAIN db'.wallets = DOMAIN db.wallets
  BY DEF OnlyClosed, SeedInv, StoreTypeOK
<1>3. ASSUME ~misread
      PROVE  /\ \A v, w \in DOMAIN db'.wallets :
                  (db'.wallets[v].open /\ db'.wallets[w].open
                   /\ db'.wallets[v].owner = db'.wallets[w].owner
                   /\ db'.wallets[v].currency = db'.wallets[w].currency) => v = w
             /\ \A i, j \in DOMAIN db'.cards :
                  (db'.cards[i].open /\ db'.cards[j].open
                   /\ db'.cards[i].wallet = db'.cards[j].wallet) => i = j
  <2>1. /\ \A v, w \in DOMAIN db.wallets :
             (db.wallets[v].open /\ db.wallets[w].open
              /\ db.wallets[v].owner = db.wallets[w].owner
              /\ db.wallets[v].currency = db.wallets[w].currency) => v = w
        /\ \A i, j \in DOMAIN db.cards :
             (db.cards[i].open /\ db.cards[j].open
              /\ db.cards[i].wallet = db.cards[j].wallet) => i = j
    BY <1>3 DEF SeedInv, OpenOnce, Open, Belongs
  <2>2. /\ DOMAIN db'.wallets = DOMAIN db.wallets
        /\ \A i \in DOMAIN db.wallets : /\ db'.wallets[i].owner = db.wallets[i].owner
                                        /\ db'.wallets[i].currency = db.wallets[i].currency
                                        /\ db'.wallets[i].open => db.wallets[i].open
    BY DEF OnlyClosed
  <2>3. /\ DOMAIN db'.cards = DOMAIN db.cards
        /\ \A i \in DOMAIN db.cards : /\ db'.cards[i].wallet = db.cards[i].wallet
                                      /\ db'.cards[i].open => db.cards[i].open
    BY DEF OnlyClosed
  <2> QED
    BY <2>1, <2>2, <2>3
<1>4. OpenOnce'
  BY <1>3 DEF OpenOnce, Open, Belongs
<1>5. PaidInto'
  <2>1. db'.keys = db.keys
    BY DEF OnlyClosed
  <2>2. db.merchant # 0 => /\ db'.wallets[db.merchant].owner = db.wallets[db.merchant].owner
                           /\ db'.wallets[db.merchant].currency = db.wallets[db.merchant].currency
    <3>1. \A i \in DOMAIN db.wallets : /\ db'.wallets[i].owner = db.wallets[i].owner
                                       /\ db'.wallets[i].currency = db.wallets[i].currency
      BY DEF OnlyClosed
    <3> QED
      BY <1>2, <3>1
  <2> QED
    BY <1>2, <2>1, <2>2 DEF SeedInv, PaidInto, Belongs
<1> QED
  BY <1>1, <1>2, <1>4, <1>5

(* A start, whether it deletes the old cards or not, has all rows before it. *)
LEMMA BootKeepsSeeds ==
  ASSUME SeedInv, NEW e \in {"production", "development"}, Boot(e) \/ BootUnrepaired(e)
  PROVE  SeedInv'
<1> DEFINE C == Encrypted(db.cards)
<1>1. /\ phase' = "starting" /\ env' = e /\ todo' = RowsToEnsure(e) /\ held' = 0
      /\ misread' = misread /\ edits' = edits
      /\ \/ db' = [db EXCEPT !.cards = C] /\ warned' = FALSE
         \/ db' = db /\ warned' = TRUE
  BY DEF Boot, BootUnrepaired
<1>2. StoreTypeOK /\ db \in Tableaux
  BY DEF SeedInv, StoreTypeOK
<1>3. /\ C \in Seq(CardRows) /\ DOMAIN C = DOMAIN db.cards
      /\ \A i \in DOMAIN C : /\ C[i].wallet = db.cards[i].wallet
                             /\ C[i].open => db.cards[i].open /\ C[i].encrypted
  <2>1. db.cards \in Seq(CardRows)
    BY <1>2 DEF Tableaux
  <2>2. DOMAIN db.cards = 1 .. Len(db.cards) /\ Len(db.cards) \in Nat
        /\ \A i \in DOMAIN db.cards : db.cards[i] \in CardRows
    BY <2>1
  <2>3. ASSUME NEW i \in DOMAIN db.cards
        PROVE  /\ C[i] \in CardRows /\ C[i].wallet = db.cards[i].wallet
               /\ C[i].open => db.cards[i].open /\ C[i].encrypted
    <3>1. db.cards[i] \in CardRows
      BY <2>2
    <3>2. C[i] = IF db.cards[i].encrypted THEN db.cards[i] ELSE [db.cards[i] EXCEPT !.open = FALSE]
      BY DEF Encrypted
    <3> HIDE DEF C
    <3>3. CASE db.cards[i].encrypted
      BY <3>1, <3>2, <3>3
    <3>4. CASE ~db.cards[i].encrypted
      BY <3>1, <3>2, <3>4 DEF CardRows
    <3> QED
      BY <3>3, <3>4
  <2>4. C = [i \in 1 .. Len(db.cards) |-> C[i]]
    BY <2>2 DEF Encrypted
  <2> HIDE DEF C
  <2>5. C \in Seq(CardRows)
    BY <2>2, <2>3, <2>4
  <2> QED
    BY <2>2, <2>3, <2>4, <2>5
<1> HIDE DEF C
<1>4. /\ OnlyClosed
      /\ ~warned' => \A i \in DOMAIN db'.cards : db'.cards[i].open => db'.cards[i].encrypted
  <2>1. CASE db' = db /\ warned' = TRUE
    BY <1>2, <2>1 DEF OnlyClosed
  <2>2. CASE db' = [db EXCEPT !.cards = C] /\ warned' = FALSE
    <3>1. /\ db'.cards = C /\ db'.wallets = db.wallets /\ db'.merchant = db.merchant
          /\ db'.keys = db.keys /\ db' \in Tableaux
      BY <1>2, <1>3, <2>2 DEF Tableaux
    <3>2. OnlyClosed
      BY <1>3, <3>1 DEF OnlyClosed
    <3> QED
      BY <1>3, <3>1, <3>2
  <2> QED
    BY <1>1, <2>1, <2>2
<1>5. StoreTypeOK' /\ OpenOnce' /\ PaidInto'
  <2>1. /\ phase' \in {"down", "starting", "serving"} /\ env' \in {"production", "development"}
        /\ warned' \in BOOLEAN /\ misread' \in BOOLEAN /\ edits' \in 0 .. MaxEdits
    BY <1>1, <1>2 DEF StoreTypeOK
  <2>2. db' \in Tableaux
    BY <1>4 DEF OnlyClosed
  <2> QED
    BY <1>1, <1>4, <2>1, <2>2, ClosingKeeps DEF StoreTypeOK
<1>6. Progress' /\ Done' = 0
  <2>1. Rows' = todo' /\ todo' \in Seq(RowSet)
    <3>1. CASE e = "production"
      <4>1. todo' = <<Tables>> /\ Tables \in RowSet
        BY <1>1, <3>1, RowsAre DEF Tables, Row, RowSet, Kinds, Keys
      <4> QED
        BY <1>1, <4>1 DEF Rows
    <3>2. CASE e = "development"
      BY <1>1, <3>2, RowsAre DEF Rows
    <3> QED
      BY <3>1, <3>2
  <2>2. Len(todo') \in Nat /\ DOMAIN todo' = 1 .. Len(todo')
    BY <2>1
  <2>3. Done' = 0
    BY <2>1, <2>2 DEF Done
  <2>4. \A i \in DOMAIN todo' : todo'[i] = (Rows')[Done' + i]
    BY <2>1, <2>2, <2>3
  <2> QED
    BY <1>1, <2>1, <2>2, <2>3, <2>4 DEF Progress
<1>7. HeldKnown'
  <2>1. Len(DemoCurrencies) \in Nat
    BY RowsAre
  <2> QED
    BY <1>1, <1>6, <2>1 DEF HeldKnown
<1>8. RowsEnsured'
  BY <1>4, <1>6 DEF RowsEnsured
<1> QED
  BY <1>5, <1>6, <1>7, <1>8 DEF SeedInv

LEMMA ServeKeepsSeeds ==
  ASSUME SeedInv, Serve \/ Stop
  PROVE  SeedInv'
<1>1. /\ db' = db /\ env' = env /\ todo' = <<>> /\ held' \in {held, 0}
      /\ misread' = misread /\ warned' = warned /\ edits' = edits
      /\ phase' \in {"serving", "down"}
  BY DEF Serve, Stop
<1>2. StoreTypeOK'
  BY <1>1 DEF SeedInv, StoreTypeOK
<1>3. Progress'
  <2>1. Len(Rows) \in Nat
    <3>1. CASE env = "production"
      BY <3>1, RowsAre DEF Rows
    <3>2. CASE env = "development"
      BY <3>2, RowsAre DEF Rows
    <3> QED
      BY <3>1, <3>2 DEF SeedInv, StoreTypeOK
  <2>2. Rows' = Rows
    BY <1>1 DEF Rows
  <2> QED
    BY <1>1, <2>1, <2>2 DEF Progress
<1>4. HeldKnown' /\ RowsEnsured'
  BY <1>1 DEF HeldKnown, RowsEnsured
<1>5. OpenOnce' /\ PaidInto'
  BY <1>1 DEF SeedInv, OpenOnce, Open, PaidInto, Belongs
<1> QED
  BY <1>2, <1>3, <1>4, <1>5 DEF SeedInv

(* Users close what is open and open nothing. *)
LEMMA EditKeepsSeeds ==
  ASSUME SeedInv, Edit
  PROVE  SeedInv'
<1>1. /\ phase = "serving" /\ phase' = phase /\ env' = env /\ todo' = todo /\ held' = held
      /\ misread' = misread /\ warned' = warned /\ edits < MaxEdits /\ edits' = edits + 1
  BY DEF Edit
<1>2. StoreTypeOK /\ db \in Tableaux
  BY DEF SeedInv, StoreTypeOK
<1>3. OnlyClosed
  <2>1. ASSUME NEW i \in DOMAIN db.wallets,
               \/ db' = [db EXCEPT !.wallets[i].funded = FALSE]
               \/ db' = [db EXCEPT !.wallets[i].open = FALSE]
        PROVE  OnlyClosed
    <3>0. PICK w : /\ \/ w = [db.wallets[i] EXCEPT !.funded = FALSE]
                      \/ w = [db.wallets[i] EXCEPT !.open = FALSE]
                   /\ db' = [db EXCEPT !.wallets = [db.wallets EXCEPT ![i] = w]]
      <4>1. CASE db' = [db EXCEPT !.wallets[i].funded = FALSE]
        <5> DEFINE w == [db.wallets[i] EXCEPT !.funded = FALSE]
        <5>1. db' = [db EXCEPT !.wallets = [db.wallets EXCEPT ![i] = w]]
          BY <4>1
        <5> QED
          BY <5>1
      <4>2. CASE db' = [db EXCEPT !.wallets[i].open = FALSE]
        <5> DEFINE w == [db.wallets[i] EXCEPT !.open = FALSE]
        <5>1. db' = [db EXCEPT !.wallets = [db.wallets EXCEPT ![i] = w]]
          BY <4>2
        <5> QED
          BY <5>1
      <4> QED
        BY <2>1, <4>1, <4>2
    <3>1. /\ db.wallets \in Seq(WalletRows) /\ db.wallets[i] \in WalletRows
      BY <1>2 DEF Tableaux
    <3>2. /\ w \in WalletRows /\ w.owner = db.wallets[i].owner
          /\ w.currency = db.wallets[i].currency /\ (w.open => db.wallets[i].open)
      BY <3>0, <3>1 DEF WalletRows
    <3>3. /\ db'.wallets = [db.wallets EXCEPT ![i] = w] /\ db'.cards = db.cards
          /\ db'.merchant = db.merchant /\ db'.keys = db.keys
      BY <1>2, <3>0 DEF Tableaux
    <3>4. db'.wallets \in Seq(WalletRows) /\ DOMAIN db'.wallets = DOMAIN db.wallets
      BY <3>1, <3>2, <3>3
    <3>5. db' \in Tableaux
      BY <1>2, <3>0, <3>3, <3>4 DEF Tableaux
    <3> QED
      BY <3>1, <3>2, <3>3, <3>4, <3>5 DEF OnlyClosed
  <2>2. ASSUME NEW i \in DOMAIN db.cards, db' = [db EXCEPT !.cards[i].open = FALSE]
        PROVE  OnlyClosed
    <3> DEFINE c == [db.cards[i] EXCEPT !.open = FALSE]
    <3>0. db' = [db EXCEPT !.cards = [db.cards EXCEPT ![i] = c]]
      BY <2>2
    <3>1. /\ db.cards \in Seq(CardRows) /\ db.cards[i] \in CardRows
      BY <1>2 DEF Tableaux
    <3>2. c \in CardRows /\ c.wallet = db.cards[i].wallet /\ ~c.open
      BY <3>1 DEF CardRows
    <3> HIDE DEF c
    <3>3. /\ db'.cards = [db.cards EXCEPT ![i] = c] /\ db'.wallets = db.wallets
          /\ db'.merchant = db.merchant /\ db'.keys = db.keys
      BY <1>2, <3>0 DEF Tableaux
    <3>4. db'.cards \in Seq(CardRows) /\ DOMAIN db'.cards = DOMAIN db.cards
      BY <3>1, <3>2, <3>3
    <3>5. db' \in Tableaux
      BY <1>2, <3>0, <3>3, <3>4 DEF Tableaux
    <3> QED
      BY <3>1, <3>2, <3>3, <3>4, <3>5 DEF OnlyClosed
  <2> QED
    BY <2>1, <2>2 DEF Edit
<1>4. StoreTypeOK' /\ OpenOnce' /\ PaidInto'
  <2>1. edits' \in 0 .. MaxEdits
    BY <1>1, <1>2, StartupAssumption DEF StoreTypeOK
  <2>2. db' \in Tableaux
    BY <1>3 DEF OnlyClosed
  <2>3. /\ phase' \in {"down", "starting", "serving"} /\ env' \in {"production", "development"}
        /\ warned' \in BOOLEAN /\ misread' \in BOOLEAN
    BY <1>1, <1>2 DEF StoreTypeOK
  <2> QED
    BY <1>1, <1>3, <2>1, <2>2, <2>3, ClosingKeeps DEF StoreTypeOK
<1>5. Progress'
  BY <1>1 DEF SeedInv, Progress, Rows, Done
<1>6. HeldKnown' /\ RowsEnsured'
  BY <1>1 DEF HeldKnown, RowsEnsured
<1> QED
  BY <1>4, <1>5, <1>6 DEF SeedInv

LEMMA SeedStep ==
  ASSUME SeedInv, AccountsInv, [Next]_vars
  PROVE  SeedInv'
<1>1. CASE StartServer
  BY <1>1, BootKeepsSeeds, ServerAssumption DEF StartServer
<1>2. CASE Seed
  BY <1>2, RowKeepsSeeds DEF Seed
<1>3. CASE Listen \/ Crash
  BY <1>3, ServeKeepsSeeds DEF Listen, Crash
<1>4. CASE UserEdits
  BY <1>4, EditKeepsSeeds DEF UserEdits
<1>5. CASE \E r \in Requests : HandleRequest(r)
  BY <1>5, SeedsUntouched DEF HandleRequest
<1>6. CASE EndWindow \/ NotificationStep \/ LoseRabbitMQ \/ Quiet \/ UNCHANGED vars
  <2>1. UNCHANGED startupVars /\ UNCHANGED users
    BY <1>6 DEF EndWindow, NotificationStep, LoseRabbitMQ, Quiet, vars, usersVars
  <2> QED
    BY <2>1, SeedsUntouched
<1> QED
  BY <1>1, <1>2, <1>3, <1>4, <1>5, <1>6 DEF Next

-----------------------------------------------------------------------------
LEMMA AllEnsured ==
  ASSUME SeedInv, phase = "starting", todo = <<>>, env = "development", ~warned
  PROVE  SeedsInPlace
<1> DEFINE k == Len(DemoCurrencies)
<1>1. /\ k \in Nat /\ Len(Rows) = k + 10 /\ Rows = RowsToEnsure("development")
      /\ db \in Tableaux
  BY RowsAre DEF Rows, SeedInv, StoreTypeOK
<1>2. \A i \in 1 .. k + 10 : Ensured(Rows[i])
  <2>1. Done = k + 10
    BY <1>1 DEF Done
  <2> QED
    BY <2>1 DEF SeedInv, RowsEnsured
<1>3. /\ Ensured(Row("user", "demo")) /\ Ensured(Row("user", "foodeli"))
      /\ Ensured(Row("card", "demo")) /\ Ensured(Tables)
      /\ Ensured(Row("account", "clearing")) /\ Ensured(Row("account", "fee"))
      /\ Ensured(Row("merchant", "foodeli"))
      /\ Ensured(Row("key", "live")) /\ Ensured(Row("key", "test"))
      /\ \A i \in 1 .. k : Ensured(Row("wallet", DemoCurrencies[i]))
  <2>1. /\ 1 \in 1 .. k + 10 /\ k + 2 \in 1 .. k + 10 /\ k + 3 \in 1 .. k + 10
        /\ k + 4 \in 1 .. k + 10 /\ k + 5 \in 1 .. k + 10 /\ k + 6 \in 1 .. k + 10
        /\ k + 8 \in 1 .. k + 10 /\ k + 9 \in 1 .. k + 10 /\ k + 10 \in 1 .. k + 10
    BY <1>1
  <2>2. ASSUME NEW i \in 1 .. k PROVE Ensured(Row("wallet", DemoCurrencies[i]))
    <3>1. i + 1 \in 2 .. k + 1 /\ i + 1 \in 1 .. k + 10 /\ (i + 1) - 1 = i
      BY <1>1
    <3> QED
      BY <1>1, <1>2, <3>1, RowsAre
  <2> QED
    BY <1>1, <1>2, <2>1, <2>2, RowsAre
<1>4. Registered("demo") /\ Registered("foodeli")
  BY <1>3 DEF Ensured, Row
<1>5. ASSUME NEW c \in Range(DemoCurrencies) PROVE \E w \in Open : Belongs(w, "demo", c)
  <2>1. PICK i \in 1 .. k : c = DemoCurrencies[i]
    BY StartupAssumption DEF Range
  <2>2. OpenWallets("demo", c) # {}
    BY <1>3, <2>1 DEF Ensured, Row
  <2> QED
    BY <2>2 DEF OpenWallets, Open
<1>6. \E w \in Open : \E i \in OpenCards(w) : Belongs(w, "demo", "TRY") /\ db.cards[i].encrypted
  <2>1. \E w \in OpenWallets("demo", "TRY") : \E i \in OpenCards(w) : db.cards[i].encrypted
    BY <1>3 DEF Ensured, Row
  <2> QED
    BY <2>1 DEF OpenWallets, Open
<1>7. /\ db.tables /\ "clearing" \in db.accounts /\ "fee" \in db.accounts
      /\ db.merchant # 0 /\ "live" \in db.keys /\ "test" \in db.keys
  BY <1>3 DEF Ensured, Row, Tables
<1>8. db.accounts = {"clearing", "fee"} /\ db.keys = {"live", "test"}
  BY <1>1, <1>7 DEF Tableaux
<1> QED
  BY <1>4, <1>5, <1>6, <1>7, <1>8 DEF SeedsInPlace

LEMMA OpenCardOnce ==
  ASSUME SeedInv, ~misread, NEW w
  PROVE  Cardinality(OpenCards(w)) <= 1
<1>1. \A i, j \in OpenCards(w) : i = j
  BY DEF SeedInv, OpenOnce, OpenCards
<1>2. CASE OpenCards(w) = {}
  BY <1>2, FS_EmptySet
<1>3. CASE OpenCards(w) # {}
  <2>1. PICK i \in OpenCards(w) : OpenCards(w) = {i}
    BY <1>1, <1>3
  <2>2. Cardinality({i}) = 1
    BY FS_Singleton
  <2> QED
    BY <2>1, <2>2
<1> QED
  BY <1>2, <1>3

LEMMA SeedsFollow == SeedInv => SeedsHold
<1> SUFFICES ASSUME SeedInv PROVE SeedsHold
  OBVIOUS
<1>1. SeedsInPlace
  BY AllEnsured DEF SeedsInPlace
<1>2. SeededOnce
  BY OpenCardOnce DEF SeededOnce, SeedInv, OpenOnce, PaidInto
<1> QED
  BY <1>1, <1>2 DEF SeedsHold

-----------------------------------------------------------------------------
(* The process. *)

(* A step of the process is a step of the notifications, or does not touch
   them. *)
LEMMA StepNotifies ==
  [Next]_vars => [NotificationsNext]_notificationVars
<1> SUFFICES ASSUME [Next]_vars, ~UNCHANGED notificationVars PROVE NotificationsNext
  OBVIOUS
<1>1. CASE StartServer
  BY <1>1 DEF StartServer, NotificationsNext
<1>2. CASE NotificationStep
  BY <1>2 DEF NotificationStep, NotificationsNext
<1>3. CASE LoseRabbitMQ \/ Crash
  BY <1>3 DEF LoseRabbitMQ, Crash, NotificationsNext
<1>4. CASE Seed \/ Listen \/ UserEdits \/ EndWindow \/ \E r \in Requests : HandleRequest(r)
  BY <1>4 DEF Seed, Listen, UserEdits, EndWindow, HandleRequest
<1>5. CASE Quiet \/ UNCHANGED vars
  BY <1>5 DEF Quiet, vars
<1> QED
  BY <1>1, <1>2, <1>3, <1>4, <1>5 DEF Next

(* The process behaves as its notifications do, whatever else it does. *)
THEOREM ServerNotifies == Spec => NotificationsSpec
<1>1. Init => NotificationsInit
  BY DEF Init
<1> QED
  BY <1>1, StepNotifies, PTL DEF Spec, NotificationsSpec

(* Streams are reached in every order of registrations, ends and stops: a
   stream waits on a channel the hub still writes to unless a second one of
   its user overlapped it, and nothing the hub took is thrown away. *)
THEOREM StreamsAreReached == Spec => []StreamsReached
<1>1. HubInv /\ BrokerInv => StreamsReached
  BY DEF HubInv, StreamsReached
<1> QED
  BY <1>1, ServerNotifies, NotificationsHold, PTL

(* No event that reached the queue is lost between queue, consumer and hub,
   however often the connection is lost or the server stops. *)
THEOREM EventsAreNotLost == Spec => []EventsNotLost
<1>1. HubInv /\ BrokerInv => EventsNotLost
  BY DEF BrokerInv
<1> QED
  BY <1>1, ServerNotifies, NotificationsHold, PTL

-----------------------------------------------------------------------------
LEMMA AccessKept ==
  LimiterInv /\ AccountsInv /\ [Next]_vars => (LimiterInv /\ AccountsInv)'
<1> SUFFICES ASSUME LimiterInv, AccountsInv, [Next]_vars
             PROVE  LimiterInv' /\ AccountsInv'
  OBVIOUS
<1>1. CASE StartServer \/ Listen \/ UserEdits \/ NotificationStep \/ LoseRabbitMQ
           \/ Quiet \/ UNCHANGED vars
  <2>1. UNCHANGED <<usersVars, counterVars>>
    BY <1>1 DEF StartServer, Listen, UserEdits, NotificationStep, LoseRabbitMQ, Quiet,
                vars, limiterVars
  <2> QED
    BY <2>1, CountersUntouched, AccountsUntouched
<1>2. CASE Seed
  <2>1. (EnsureRow \/ EnsureRowFails) /\ UNCHANGED told /\ UNCHANGED counterVars
    BY <1>2 DEF Seed, limiterVars
  <2> QED
    BY <2>1, CountersUntouched, SeedingKeepsAccounts
<1>3. ASSUME NEW r \in Requests, HandleRequest(r) PROVE LimiterInv' /\ AccountsInv'
  BY <1>3, RequestsAreCounted, RequestsKeepAccounts DEF HandleRequest
<1>4. CASE EndWindow
  BY <1>4, WindowKeeps, AccountsUntouched DEF EndWindow
<1>5. CASE Crash
  BY <1>5, LimiterStopKeeps, AccountsUntouched DEF Crash
<1> QED
  BY <1>1, <1>2, <1>3, <1>4, <1>5 DEF Next

(* No more requests than the limit pass on one counter, and what a user was
   told of an account stays true, through failures, seeds and restarts. *)
THEOREM AccessIsKept == Spec => []AccessHolds
<1>1. Init => LimiterInv /\ AccountsInv
  BY InitLimiter, InitAccounts DEF Init
<1>2. LimiterInv /\ AccountsInv => AccessHolds
  BY DEF LimiterInv, AccountsInv, AccessHolds
<1> QED
  BY <1>1, <1>2, AccessKept, PTL DEF Spec

-----------------------------------------------------------------------------
(* A start that no statement of failed has all its rows in place, however
   earlier starts were broken off and whatever users deleted, and no start
   gives an owner a second wallet in a currency, a wallet a second card, or an
   API key no merchant, unless a look-up failed. *)
THEOREM SeedsAreKept == Spec => []SeedsHold
<1>1. Init => LimiterInv /\ AccountsInv /\ SeedInv
  BY InitLimiter, InitAccounts, InitSeeds DEF Init
<1>2. SeedInv /\ AccountsInv /\ [Next]_vars => SeedInv'
  BY SeedStep
<1> QED
  BY <1>1, <1>2, AccessKept, SeedsFollow, PTL DEF Spec

-----------------------------------------------------------------------------
(* Types: a counter counts no more than the requests that came. *)

Turns == {"new", "expire", "passed", "refused", "insert", "done"}
Begun == {r \in Requests : turn[r] # "new"}

LimiterTypeOK ==
  /\ redis \in BOOLEAN /\ expires \in BOOLEAN /\ endless \in BOOLEAN
  /\ turn \in [Requests -> Turns]
  /\ admitted \subseteq Requests
  /\ count \in Nat /\ count <= Cardinality(Begun)

LEMMA BegunFacts ==
  IsFiniteSet(Begun) /\ Cardinality(Begun) \in Nat /\ Cardinality(Requests) \in Nat
    /\ Cardinality(Begun) <= Cardinality(Requests)
BY LimiterAssumption, FS_Subset, FS_CardinalityType DEF Begun

LEMMA InitLimiterTypes == LimiterInit => LimiterTypeOK
<1> SUFFICES ASSUME LimiterInit PROVE LimiterTypeOK
  OBVIOUS
<1>1. turn \in [Requests -> Turns]
  BY DEF LimiterInit, Turns
<1>2. /\ redis = FALSE /\ expires = FALSE /\ endless = FALSE /\ admitted = {} /\ count = 0
  BY DEF LimiterInit
<1>3. Cardinality(Begun) \in Nat
  BY BegunFacts
<1>4. count \in Nat /\ count <= Cardinality(Begun)
  BY <1>2, <1>3
<1> QED
  BY <1>1, <1>2, <1>4 DEF LimiterTypeOK

LEMMA GoBegun ==
  ASSUME LimiterTypeOK, NEW r \in Requests, NEW w \in Turns \ {"new"}, Go(r, w)
  PROVE  /\ turn' \in [Requests -> Turns]
         /\ Cardinality(Begun)' \in Nat
         /\ Cardinality(Begun)' >= Cardinality(Begun)
         /\ turn[r] = "new" => Cardinality(Begun)' = Cardinality(Begun) + 1
<1>1. /\ turn' = [turn EXCEPT ![r] = w] /\ turn \in [Requests -> Turns]
      /\ turn' \in [Requests -> Turns]
  BY DEF Go, LimiterTypeOK
<1>2. CASE turn[r] = "new"
  <2>1. Begun' = Begun \cup {r} /\ r \notin Begun
    BY <1>1, <1>2 DEF Begun
  <2>2. Cardinality(Begun \cup {r}) = Cardinality(Begun) + 1
    BY <2>1, BegunFacts, FS_AddElement
  <2>3. Cardinality(Begun)' = Cardinality(Begun) + 1
    BY <2>1, <2>2
  <2> QED
    BY <1>1, <2>3, BegunFacts
<1>3. CASE turn[r] # "new"
  <2>1. Begun' = Begun
    BY <1>1, <1>3 DEF Begun
  <2> QED
    BY <1>1, <1>3, <2>1, BegunFacts
<1> QED
  BY <1>2, <1>3

LEMMA RequestTypes ==
  ASSUME LimiterTypeOK, NEW r \in Requests, RequestStep(r) \/ RequestFault(r)
  PROVE  LimiterTypeOK'
<1>1. \E w \in Turns \ {"new"} : Go(r, w)
  BY DEF RequestStep, RequestFault, Unlimited, Incr, Expire, Refuse, CheckEmail, InsertUser,
         Login, IncrFails, ExpireFails, CheckEmailFails, InsertUserFails, LoginFails, Tell,
         Turns
<1>2. redis' = redis /\ (count' = count \/ (turn[r] = "new" /\ count' = count + 1))
  BY DEF RequestStep, RequestFault, Unlimited, Incr, Expire, Refuse, CheckEmail, InsertUser,
         Login, IncrFails, ExpireFails, CheckEmailFails, InsertUserFails, LoginFails, Tell,
         counterVars
<1>3. /\ admitted' \in {admitted, admitted \cup {r}}
      /\ expires' \in {expires, TRUE} /\ endless' \in {endless, TRUE}
  BY DEF RequestStep, RequestFault, Unlimited, Incr, Expire, Refuse, CheckEmail, InsertUser,
         Login, IncrFails, ExpireFails, CheckEmailFails, InsertUserFails, LoginFails, Tell,
         counterVars, LimiterTypeOK
<1>4. turn' \in [Requests -> Turns] /\ count' \in Nat /\ count' <= Cardinality(Begun)'
  BY <1>1, <1>2, GoBegun, BegunFacts DEF LimiterTypeOK
<1> QED
  BY <1>2, <1>3, <1>4 DEF LimiterTypeOK

LEMMA StopTypes ==
  ASSUME LimiterTypeOK, LimiterStop
  PROVE  LimiterTypeOK'
<1>1. turn' \in [Requests -> Turns] /\ Begun' = Begun
  BY DEF LimiterStop, LimiterTypeOK, Turns, Begun
<1>2. endless' \in BOOLEAN
  BY DEF LimiterStop, LimiterTypeOK
<1> QED
  BY <1>1, <1>2 DEF LimiterStop, LimiterTypeOK

(* The notices and the capacities. *)
NoticesTypeOK ==
  /\ gone \subseteq Streams /\ \A s \in Streams : Len(buffer[s]) <= BufferCap
  /\ emails \in 0 .. EmailCap /\ waiting \subseteq Notices

LEMMA InitNotices == NotificationsInit => NoticesTypeOK
<1> SUFFICES ASSUME NotificationsInit PROVE NoticesTypeOK
  OBVIOUS
<1>1. gone = {} /\ emails = 0 /\ waiting = Notices /\ \A s \in Streams : buffer[s] = <<>>
  BY DEF NotificationsInit
<1> QED
  BY <1>1, NotificationsAssumption DEF NoticesTypeOK

(* A full channel takes no message. *)
LEMMA SendBounded ==
  ASSUME HubInv, NoticesTypeOK, NEW u, NEW m \in Messages, SendToUser(u, m)
  PROVE  \A s \in Streams : Len(buffer'[s]) <= BufferCap
<1>1. CASE UNCHANGED buffer
  BY <1>1 DEF NoticesTypeOK
<1>2. CASE /\ clients[u] # NoStream /\ Len(buffer[clients[u]]) < BufferCap
           /\ buffer' = [buffer EXCEPT ![clients[u]] = Append(@, m)]
  <2> SUFFICES ASSUME NEW s \in Streams PROVE Len(buffer'[s]) <= BufferCap
    OBVIOUS
  <2>1. buffer \in [Streams -> Seq(Messages)]
    BY DEF HubInv, HubTypeOK
  <2>2. buffer'[s] = buffer[s]
          \/ (s = clients[u] /\ buffer'[s] = Append(buffer[s], m))
    BY <1>2, <2>1
  <2>3. CASE buffer'[s] = buffer[s]
    BY <2>3 DEF NoticesTypeOK
  <2>4. CASE s = clients[u] /\ buffer'[s] = Append(buffer[s], m)
    <3>1. Len(buffer'[s]) = Len(buffer[s]) + 1 /\ Len(buffer[s]) \in Nat
      BY <2>1, <2>4
    <3> QED
      BY <1>2, <2>4, <3>1, NotificationsAssumption
  <2> QED
    BY <2>2, <2>3, <2>4
<1> QED
  BY <1>1, <1>2 DEF SendToUser

LEMMA NoticesStep ==
  ASSUME HubInv, BrokerInv, NoticesTypeOK, [NotificationsNext]_notificationVars
  PROVE  NoticesTypeOK'
<1> USE NotificationsAssumption
<1>1. CASE \/ \E s \in Streams : Register(s) \/ EndStream(s)
           \/ \E e \in Events : PublishEvent(e)
           \/ Consume \/ AckEvent \/ LoseLink \/ Connect \/ UNCHANGED notificationVars
  <2>1. UNCHANGED <<gone, buffer, emails, waiting>>
    BY <1>1 DEF Register, EndStream, PublishEvent, Consume, AckEvent, LoseLink, Connect,
                notificationVars, hubVars, noticeVars
  <2> QED
    BY <2>1 DEF NoticesTypeOK
<1>2. ASSUME NEW s \in Streams, Receive(s) PROVE NoticesTypeOK'
  <2>1. /\ buffer' = [buffer EXCEPT ![s] = Tail(@)] /\ buffer[s] # <<>>
        /\ UNCHANGED <<gone, emails, waiting>> /\ buffer \in [Streams -> Seq(Messages)]
    BY <1>2 DEF Receive, noticeVars, HubInv, HubTypeOK
  <2>2. ASSUME NEW t \in Streams PROVE Len(buffer'[t]) <= BufferCap
    <3>1. Len(buffer[t]) \in Nat /\ (t = s => Len(Tail(buffer[t])) = Len(buffer[t]) - 1)
      BY <2>1
    <3>2. buffer'[t] = buffer[t] \/ (t = s /\ buffer'[t] = Tail(buffer[t]))
      BY <2>1
    <3>3. Len(buffer[t]) <= BufferCap /\ BufferCap \in Nat
      BY DEF NoticesTypeOK
    <3>4. Len(buffer'[t]) = Len(buffer[t]) \/ Len(buffer'[t]) = Len(buffer[t]) - 1
      BY <3>1, <3>2
    <3> QED
      BY <3>1, <3>3, <3>4
  <2> QED
    BY <2>1, <2>2 DEF NoticesTypeOK
<1>3. ASSUME NEW s \in Streams, Leave(s) PROVE NoticesTypeOK'
  BY <1>3 DEF Leave, noticeVars, NoticesTypeOK
<1>4. ASSUME NEW n \in Notices, NotifyUser(n) PROVE NoticesTypeOK'
  <2>1. \A s \in Streams : Len(buffer'[s]) <= BufferCap
    BY <1>4, SendBounded DEF NotifyUser, Messages
  <2>2. emails' \in 0 .. EmailCap
    BY <1>4 DEF NotifyUser, NoticesTypeOK
  <2> QED
    BY <1>4, <2>1, <2>2 DEF NotifyUser, NoticesTypeOK
<1>5. CASE SendEmail
  BY <1>5 DEF SendEmail, hubVars, NoticesTypeOK
<1>6. CASE Forward
  <2>1. inHand \in Messages
    BY <1>6 DEF Forward, BrokerInv, BrokerTypeOK, HandsKnown, Messages
  <2>2. \A s \in Streams : Len(buffer'[s]) <= BufferCap
    BY <1>6, <2>1, SendBounded DEF Forward
  <2> QED
    BY <1>6, <2>2 DEF Forward, noticeVars, NoticesTypeOK
<1>7. CASE StopNotifications
  <2>1. /\ gone' = gone \cup serving /\ emails' = 0 /\ waiting' = waiting
        /\ \A s \in Streams : buffer'[s] = <<>>
    BY <1>7 DEF StopNotifications
  <2> QED
    BY <2>1 DEF NoticesTypeOK, HubInv, HubTypeOK
<1> QED
  BY <1>1, <1>2, <1>3, <1>4, <1>5, <1>6, <1>7 DEF NotificationsNext, StreamStep, ConsumerStep

-----------------------------------------------------------------------------
RestTypeOK == LimiterTypeOK /\ NoticesTypeOK /\ faults \in 0 .. MaxFaults

LEMMA RestStep ==
  ASSUME RestTypeOK, HubInv, BrokerInv, [Next]_vars
  PROVE  RestTypeOK'
<1>1. NoticesTypeOK'
  BY StepNotifies, NoticesStep DEF RestTypeOK
<1>2. LimiterTypeOK'
  <2>1. CASE StartServer
    BY <2>1 DEF StartServer, RestTypeOK, LimiterTypeOK, counterVars, Begun
  <2>2. CASE \E r \in Requests : HandleRequest(r)
    BY <2>2, RequestTypes DEF HandleRequest, RestTypeOK
  <2>3. CASE Crash
    BY <2>3, StopTypes DEF Crash, RestTypeOK
  <2>4. CASE EndWindow
    <3>1. /\ count' = 0 /\ expires' = FALSE /\ admitted' = {} /\ endless' = FALSE
          /\ redis' = redis /\ turn' = turn
      BY <2>4 DEF EndWindow, WindowEnds
    <3>2. Cardinality(Begun)' \in Nat
      <4>1. Begun' = Begun
        BY <3>1 DEF Begun
      <4> QED
        BY <4>1, BegunFacts
    <3>3. count' <= Cardinality(Begun)'
      BY <3>1, <3>2
    <3> QED
      BY <3>1, <3>3 DEF RestTypeOK, LimiterTypeOK
  <2>5. CASE Seed \/ Listen \/ UserEdits \/ NotificationStep \/ LoseRabbitMQ \/ Quiet
             \/ UNCHANGED vars
    <3>1. UNCHANGED limiterVars
      BY <2>5 DEF Seed, Listen, UserEdits, NotificationStep, LoseRabbitMQ, Quiet, vars
    <3> QED
      BY <3>1 DEF limiterVars, counterVars, RestTypeOK, LimiterTypeOK, Begun
  <2> QED
    BY <2>1, <2>2, <2>3, <2>4, <2>5 DEF Next
<1>3. faults' \in 0 .. MaxFaults
  <2>1. faults' = faults \/ (faults < MaxFaults /\ faults' = faults + 1)
    BY DEF Next, StartServer, Seed, Listen, UserEdits, HandleRequest, EndWindow,
           NotificationStep, LoseRabbitMQ, Crash, Quiet, Works, Fails, vars
  <2> QED
    BY <2>1, ServerAssumption DEF RestTypeOK
<1> QED
  BY <1>1, <1>2, <1>3 DEF RestTypeOK

LEMMA TypesFollow ==
  RestTypeOK /\ HubInv /\ BrokerInv /\ AccountsInv /\ SeedInv => TypeOK
<1> SUFFICES ASSUME RestTypeOK, HubInv, BrokerInv, AccountsInv, SeedInv PROVE TypeOK
  OBVIOUS
<1>1. UsersTypeOK
  <2>1. count \in 0 .. Cardinality(Requests)
    BY BegunFacts DEF RestTypeOK, LimiterTypeOK
  <2> QED
    BY <2>1 DEF RestTypeOK, LimiterTypeOK, Turns, AccountsInv, Responses, UsersTypeOK
<1>2. StartupTypeOK
  <2>1. /\ db \in Tableaux
        /\ \A i \in DOMAIN db.cards : db.cards[i].wallet \in DOMAIN db.wallets
    BY DEF SeedInv, StoreTypeOK
  <2>2. db.cards \in Seq([wallet : DOMAIN db.wallets, open : BOOLEAN, encrypted : BOOLEAN])
    <3>1. db.cards \in Seq(CardRows)
      BY <2>1 DEF Tableaux
    <3>2. \A i \in DOMAIN db.cards :
            db.cards[i] \in [wallet : DOMAIN db.wallets, open : BOOLEAN, encrypted : BOOLEAN]
      <4> SUFFICES ASSUME NEW i \in DOMAIN db.cards
                   PROVE  db.cards[i] \in [wallet : DOMAIN db.wallets, open : BOOLEAN,
                                           encrypted : BOOLEAN]
        OBVIOUS
      <4>1. db.cards[i] \in CardRows /\ db.cards[i].wallet \in DOMAIN db.wallets
        BY <2>1, <3>1
      <4> QED
        BY <4>1 DEF CardRows
    <3>3. \A S, T : \A q \in Seq(S) : (\A i \in DOMAIN q : q[i] \in T) => q \in Seq(T)
      OBVIOUS
    <3> QED
      BY <3>1, <3>2, <3>3, Zenon
  <2> QED
    BY <2>1, <2>2 DEF SeedInv, StoreTypeOK, Tableaux, WalletRows, Currencies, StartupTypeOK
<1>3. NotificationsTypeOK
  BY DEF HubInv, HubTypeOK, BrokerInv, BrokerTypeOK, RestTypeOK, NoticesTypeOK,
         NotificationsTypeOK
<1> QED
  BY <1>1, <1>2, <1>3 DEF RestTypeOK, TypeOK

(* Everything the process keeps and leaves behind has its type: the counter
   stays within the requests there are, channels and the queue of emails within
   their capacities, and what a row refers to is there. *)
THEOREM ServerTypeCorrect == Spec => []TypeOK
<1>1. Init => RestTypeOK /\ LimiterInv /\ AccountsInv /\ SeedInv
  BY InitLimiter, InitAccounts, InitSeeds, InitLimiterTypes, InitNotices, ServerAssumption
  DEF Init, RestTypeOK
<1>2. SeedInv /\ AccountsInv /\ [Next]_vars => SeedInv'
  BY SeedStep
<1>3. RestTypeOK /\ HubInv /\ BrokerInv /\ [Next]_vars => RestTypeOK'
  BY RestStep
<1> QED
  BY <1>1, <1>2, <1>3, AccessKept, ServerNotifies, NotificationsHold, TypesFollow, PTL DEF Spec
=============================================================================
