---------------------------- MODULE Notifications ----------------------------
(***************************************************************************)
(* Notifications of users who keep an event stream open: the hub, a map    *)
(* from users to buffered channels under a mutex; the handler of a stream, *)
(* which registers a channel, forwards what arrives on it and unregisters  *)
(* its user; NotifyUser with its queue of emails; and the consumer of      *)
(* notifications_queue.  RabbitMQ (external) is as in MerchantWebhook.     *)
(***************************************************************************)
EXTENDS Naturals, Sequences

CONSTANTS
  Users,
  Streams,     \* the requests for a stream
  Viewer,      \* Viewer[s]: the user stream s is for
  Notices,     \* the calls of NotifyUser
  Events,      \* the messages for notifications_queue
  Recipient,   \* Recipient[m]: the user of a notice or an event
  BufferCap,   \* the capacity of a channel
  EmailCap,    \* the capacity of emailQueue
  NoStream, Nobody, Nothing

Messages == Notices \cup Events

ASSUME NotificationsAssumption ==
  /\ Viewer \in [Streams -> Users]
  /\ Recipient \in [Messages -> Users \cup {Nobody}]
  /\ BufferCap \in Nat /\ EmailCap \in Nat
  /\ NoStream \notin Streams /\ Nobody \notin Users /\ Nothing \notin Events

VARIABLES
  clients,     \* clients[u]: the stream whose channel the hub holds, or NoStream
  serving,     \* the streams whose handler runs
  channel,     \* channel[s]: "none", "open" or "closed"
  buffer,      \* buffer[s]: the messages in the channel
  gone,        \* the streams whose client has left
  emails,      \* the length of emailQueue
  waiting,     \* the notices NotifyUser was not called with yet
  link,        \* the connection to RabbitMQ: "nil", "up" or "lost"
  consuming,   \* the goroutine of the consumer receives deliveries
  bound,       \* notifications_queue exists and is bound
  queue,       \* notifications_queue, oldest first
  inHand,      \* the delivery the consumer works on, or Nothing
  step,        \* its next step with it
  overlapped,  \* history: the streams of a user that ran at the same time
  published,   \* history: the events that reached the queue
  forwarded    \* history: the events the consumer passed to the hub

hubVars == <<clients, serving, channel, buffer, gone, overlapped>>
noticeVars == <<emails, waiting>>
brokerVars == <<link, consuming, bound, queue, inHand, step, published, forwarded>>
notificationVars == <<hubVars, noticeVars, brokerVars>>

NotificationsInit ==
  /\ clients = [u \in Users |-> NoStream]
  /\ serving = {} /\ gone = {} /\ overlapped = {}
  /\ channel = [s \in Streams |-> "none"]
  /\ buffer = [s \in Streams |-> <<>>]
  /\ emails = 0 /\ waiting = Notices
  /\ link = "nil" /\ consuming = FALSE /\ bound = FALSE
  /\ queue = <<>> /\ inHand = Nothing /\ step = "idle"
  /\ published = {} /\ forwarded = {}

-----------------------------------------------------------------------------
(* The hub; each operation is one critical section of its mutex. *)

Others(s) == {t \in serving : Viewer[t] = Viewer[s]}

(* A second channel of a user closes the first. *)
Register(s) ==
  LET u == Viewer[s]
  IN  /\ channel[s] = "none"
      /\ channel' = [t \in Streams |-> IF t = s THEN "open"
                                       ELSE IF t = clients[u] THEN "closed"
                                       ELSE channel[t]]
      /\ clients' = [clients EXCEPT ![u] = s]
      /\ serving' = serving \cup {s}
      /\ overlapped' = IF Others(s) = {} THEN overlapped
                       ELSE overlapped \cup Others(s) \cup {s}
      /\ UNCHANGED <<buffer, gone, noticeVars, brokerVars>>

(* Mutation: the channel is removed from the map and left open. *)
UnregisterOnly(u) ==
  /\ clients' = [clients EXCEPT ![u] = NoStream]
  /\ UNCHANGED channel

(* Whatever channel is the user's now is closed and removed. *)
Unregister(u) ==
  /\ clients' = [clients EXCEPT ![u] = NoStream]
  /\ channel' = [t \in Streams |-> IF t = clients[u] THEN "closed" ELSE channel[t]]

(* Mutation: a full channel takes one message more. *)
SendOneMore(u, m) ==
  IF u \in Users /\ clients[u] # NoStream /\ Len(buffer[clients[u]]) <= BufferCap
  THEN buffer' = [buffer EXCEPT ![clients[u]] = Append(@, m)]
  ELSE UNCHANGED buffer

(* A full channel drops the message. *)
SendToUser(u, m) ==
  IF u \in Users /\ clients[u] # NoStream /\ Len(buffer[clients[u]]) < BufferCap
  THEN buffer' = [buffer EXCEPT ![clients[u]] = Append(@, m)]
  ELSE UNCHANGED buffer

-----------------------------------------------------------------------------
(* The handler of a stream. *)

Receive(s) ==
  /\ s \in serving /\ buffer[s] # <<>>
  /\ buffer' = [buffer EXCEPT ![s] = Tail(@)]
  /\ UNCHANGED <<clients, serving, channel, gone, overlapped, noticeVars, brokerVars>>

Leave(s) ==
  /\ s \in serving \ gone
  /\ gone' = gone \cup {s}
  /\ UNCHANGED <<clients, serving, channel, buffer, overlapped,
                 noticeVars, brokerVars>>

(* The loop ends when the client has left, or when the channel is closed and
   empty: what was sent before the close is read first. *)
Ends(s) == s \in gone \/ (channel[s] = "closed" /\ buffer[s] = <<>>)

EndStream(s) ==
  /\ s \in serving /\ Ends(s)
  /\ Unregister(Viewer[s])
  /\ serving' = serving \ {s}
  /\ UNCHANGED <<buffer, gone, overlapped, noticeVars, brokerVars>>

-----------------------------------------------------------------------------
(* NotifyUser, which does not wait for the email worker. *)

NotifyUser(n) ==
  /\ n \in waiting
  /\ waiting' = waiting \ {n}
  /\ SendToUser(Recipient[n], n)
  /\ emails' = IF emails < EmailCap THEN emails + 1 ELSE emails
  /\ UNCHANGED <<clients, serving, channel, gone, overlapped, brokerVars>>

SendEmail ==
  /\ emails > 0
  /\ emails' = emails - 1
  /\ UNCHANGED <<hubVars, waiting, brokerVars>>

-----------------------------------------------------------------------------
(* RabbitMQ and the consumer. *)

(* An event is published, by a service outside the repository; the exchange
   drops it if the queue is not bound. *)
PublishEvent(e) ==
  /\ e \notin published /\ bound
  /\ queue' = Append(queue, e)
  /\ published' = published \cup {e}
  /\ UNCHANGED <<hubVars, noticeVars, link, consuming, bound, inHand, step, forwarded>>

Consume ==
  /\ consuming /\ inHand = Nothing /\ queue # <<>>
  /\ inHand' = Head(queue) /\ queue' = Tail(queue)
  /\ step' = "forward"
  /\ UNCHANGED <<hubVars, noticeVars, link, consuming, bound, published, forwarded>>

(* A body that is not an event is acknowledged and goes nowhere. *)
Forward ==
  /\ step = "forward"
  /\ SendToUser(Recipient[inHand], inHand)
  /\ forwarded' = forwarded \cup {inHand}
  /\ step' = "ack"
  /\ UNCHANGED <<clients, serving, channel, gone, overlapped, noticeVars,
                 link, consuming, bound, queue, inHand, published>>

AckEvent ==
  /\ step = "ack"
  /\ inHand' = Nothing /\ step' = "idle"
  /\ UNCHANGED <<hubVars, noticeVars, link, consuming, bound, queue, published, forwarded>>

(* Mutation: deliveries are acknowledged when they are received. *)
NothingRequeued == queue

(* What the queue holds once the connection has ended. *)
Requeued == IF inHand # Nothing /\ link = "up" THEN <<inHand>> \o queue ELSE queue

(* The connection is lost; the delivery in hand is finished. *)
LoseLink ==
  /\ link = "up"
  /\ link' = "lost" /\ consuming' = FALSE
  /\ queue' = Requeued
  /\ UNCHANGED <<hubVars, noticeVars, bound, inHand, step, published, forwarded>>

(* NewRabbitMQ and StartConsuming, which may fail before or after the queue is
   bound. *)
Connect ==
  /\ link = "nil"
  /\ link' = "up"
  /\ bound' \in {bound, TRUE} /\ consuming' \in BOOLEAN
  /\ consuming' => bound'
  /\ UNCHANGED <<hubVars, noticeVars, queue, inHand, step, published, forwarded>>

(* The server stops, and its connections, channels and queues with it. *)
StopNotifications ==
  /\ clients' = [u \in Users |-> NoStream]
  /\ channel' = [s \in Streams |-> IF channel[s] = "none" THEN "none" ELSE "closed"]
  /\ buffer' = [s \in Streams |-> <<>>]
  /\ serving' = {}
  /\ gone' = gone \cup serving
  /\ emails' = 0
  /\ link' = "nil" /\ consuming' = FALSE
  /\ queue' = Requeued
  /\ inHand' = Nothing /\ step' = "idle"
  /\ UNCHANGED <<waiting, bound, overlapped, published, forwarded>>

StreamStep(s) == Receive(s) \/ EndStream(s)
ConsumerStep == Consume \/ Forward \/ AckEvent

NotificationsNext ==
  \/ \E s \in Streams : Register(s) \/ Leave(s) \/ StreamStep(s)
  \/ \E n \in Notices : NotifyUser(n)
  \/ SendEmail
  \/ \E e \in Events : PublishEvent(e)
  \/ ConsumerStep
  \/ LoseLink
  \/ Connect
  \/ StopNotifications

NotificationsSpec == NotificationsInit /\ [][NotificationsNext]_notificationVars

-----------------------------------------------------------------------------
(* Properties. *)

NotificationsTypeOK ==
  /\ clients \in [Users -> Streams \cup {NoStream}]
  /\ serving \subseteq Streams /\ gone \subseteq Streams /\ overlapped \subseteq Streams
  /\ channel \in [Streams -> {"none", "open", "closed"}]
  /\ buffer \in [Streams -> Seq(Messages)]
  /\ \A s \in Streams : Len(buffer[s]) <= BufferCap
  /\ emails \in 0 .. EmailCap /\ waiting \subseteq Notices
  /\ link \in {"nil", "up", "lost"} /\ consuming \in BOOLEAN /\ bound \in BOOLEAN
  /\ queue \in Seq(Events)
  /\ inHand \in Events \cup {Nothing} /\ step \in {"idle", "forward", "ack"}
  /\ published \subseteq Events /\ forwarded \subseteq Events

(* The hub holds exactly the open channels: no stream waits on a channel
   nobody writes to, and no closed channel is written to or closed again,
   which would panic. *)
OpenMeansRegistered ==
  \A s \in Streams : channel[s] = "open" <=> clients[Viewer[s]] = s

(* A channel the hub holds has a handler that reads it. *)
RegisteredMeansServed ==
  \A u \in Users : clients[u] # NoStream => clients[u] \in serving /\ Viewer[clients[u]] = u

(* Only a second stream of the user, at the same time, can cut a stream off. *)
LoneStreamsReached == \A s \in serving \ overlapped : channel[s] = "open"

(* A handler whose client stayed has read all its channel held when it ends:
   what the hub took for a user is not thrown away by a later stream. *)
EndedMeansRead == \A s \in Streams \ (serving \cup gone) : buffer[s] = <<>>

(* What holds of the streams, whatever the order of their ends. *)
StreamsReached ==
  OpenMeansRegistered /\ RegisteredMeansServed /\ LoneStreamsReached /\ EndedMeansRead

(* An event that reached the queue is in it, in hand, or was passed to the
   hub, through restarts and losses of the connection. *)
EventsNotLost ==
  \A e \in published :
    e \in forwarded \/ e = inHand \/ \E i \in DOMAIN queue : queue[i] = e

(* What must not last: a stream that was cut off is still served, *)
CutOff == \E s \in serving : channel[s] = "closed"

(* or an event was not passed to the hub although the consumer runs. *)
Undelivered == consuming /\ published \ forwarded # {}
=============================================================================
