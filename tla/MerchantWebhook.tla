--------------------------- MODULE MerchantWebhook ---------------------------
(***************************************************************************)
(* The delivery of merchant webhook events: EnqueueMerchantWebhook offers  *)
(* an event to the in-memory channel and publishes it to RabbitMQ; one     *)
(* goroutine drains the channel, another consumes the durable queue, posts,*)
(* republishes what failed and finally dead-letters it.                    *)
(*                                                                         *)
(* RabbitMQ (external): a durable queue survives restarts, and a message   *)
(* that was delivered and not acknowledged returns to the head of the queue*)
(* when the connection ends.  There is one connection, opened at start and *)
(* never reopened.                                                         *)
(***************************************************************************)
EXTENDS FiniteSetsExt, Sequences, Integers

CONSTANTS
  Events,          \* the events, one per paid session
  MemoryCap,       \* the capacity of MerchantWebHookQueue
  MaxCrashes,      \* bound on the restarts of the server
  MaxDisconnects,  \* bound on the losses of the connection to RabbitMQ
  MaxPosts,        \* bound: posts are counted up to it
  Nothing          \* no message in hand

ASSUME WebhookAssumption ==
  /\ MemoryCap \in Nat \ {0} /\ MaxPosts \in Nat \ (0 .. 4)
  /\ MaxCrashes \in Nat /\ MaxDisconnects \in Nat
  /\ Nothing \notin [event : Events, retry : Nat]

VARIABLES
  client,      \* globalRabbitMQClient: "nil", "up", or "lost" with its connection
  consuming,   \* the consumer goroutine receives deliveries
  bound,       \* merchant_webhooks_queue exists and is bound to the exchange
  memory,      \* MerchantWebHookQueue
  broker,      \* merchant_webhooks_queue: [event, retry], oldest first
  inHand,      \* the delivery the consumer works on, or Nothing
  step,        \* its next step with it
  dlq,         \* the events in merchant_webhooks_dlq
  stage,       \* stage[e]: how far EnqueueMerchantWebhook is with e
  published,   \* the events that reached the queue
  unsent,      \* the events a republish of which did not reach the queue
  missed,      \* the events given up before the queue had them
  posts,       \* posts[e]: requests the merchant received for e
  accepted,    \* the events the merchant answered with 2xx
  crashes,
  disconnects

queues == <<memory, broker, inHand, step, dlq>>
history == <<published, unsent, missed, posts, accepted>>
vars == <<client, consuming, bound, queues, stage, history, crashes, disconnects>>

Message(e, retry) == [event |-> e, retry |-> retry]

(* How a start of the server can turn out: no connection, a consumer that did
   not start, whose queue may or may not be left from an earlier run, or all
   well. *)
Started(c, on, b) == (on => c = "up" /\ b)

Init ==
  /\ client \in {"nil", "up"} /\ consuming \in BOOLEAN /\ bound \in BOOLEAN
  /\ Started(client, consuming, bound)
  /\ memory = <<>> /\ broker = <<>>
  /\ inHand = Nothing /\ step = "idle"
  /\ dlq = {}
  /\ stage = [e \in Events |-> "idle"]
  /\ published = {} /\ unsent = {} /\ missed = {}
  /\ posts = [e \in Events |-> 0]
  /\ accepted = {}
  /\ crashes = 0 /\ disconnects = 0

-----------------------------------------------------------------------------
(* EnqueueMerchantWebhook: the channel first, without blocking. *)

Offer(e) ==
  /\ stage[e] = "idle"
  /\ \/ Len(memory) < MemoryCap /\ memory' = Append(memory, e) /\ UNCHANGED missed
     \/ /\ Len(memory) >= MemoryCap /\ UNCHANGED memory
        /\ missed' = IF client = "nil" THEN missed \cup {e} ELSE missed
  /\ stage' = [stage EXCEPT ![e] = IF client = "nil" THEN "done" ELSE "publish"]
  /\ UNCHANGED <<client, consuming, bound, broker, inHand, step, dlq, published,
                 unsent, posts, accepted, crashes, disconnects>>

(* Without publisher confirms a publish succeeds when it is written: a message
   for an exchange no queue is bound to is dropped. *)
Publish(e) ==
  /\ stage[e] = "publish" /\ client = "up"
  /\ \/ /\ bound /\ broker' = Append(broker, Message(e, 0))
        /\ published' = published \cup {e} /\ UNCHANGED missed
     \/ ~bound /\ missed' = missed \cup {e} /\ UNCHANGED <<broker, published>>
  /\ stage' = [stage EXCEPT ![e] = "done"]
  /\ UNCHANGED <<client, consuming, bound, memory, inHand, step, dlq, unsent,
                 posts, accepted, crashes, disconnects>>

(* The publish returns an error, always so once the connection is lost; it is
   logged. *)
PublishFails(e) ==
  /\ stage[e] = "publish"
  /\ stage' = [stage EXCEPT ![e] = "done"]
  /\ missed' = missed \cup {e}
  /\ UNCHANGED <<client, consuming, bound, queues, published, unsent, posts, accepted,
                 crashes, disconnects>>

(* One POST, and whether the merchant answers 2xx within the timeout. *)
Post(e, ok) ==
  /\ posts' = [posts EXCEPT ![e] = IF @ < MaxPosts THEN @ + 1 ELSE @]
  /\ accepted' = IF ok THEN accepted \cup {e} ELSE accepted

(* Mutation: the channel's events are posted although RabbitMQ has them. *)
DrainAlways ==
  /\ memory # <<>>
  /\ memory' = Tail(memory)
  /\ \E ok \in BOOLEAN : Post(Head(memory), ok)
  /\ UNCHANGED <<client, consuming, bound, broker, inHand, step, dlq, stage,
                 published, unsent, missed, crashes, disconnects>>

(* The goroutine of StartWebhookWorker: it posts an event once if there is no
   client, and drops it otherwise. *)
Drain ==
  /\ memory # <<>>
  /\ memory' = Tail(memory)
  /\ \/ /\ client = "nil"
        /\ \E ok \in BOOLEAN :
             /\ Post(Head(memory), ok)
             /\ missed' = IF ok THEN missed ELSE missed \cup {Head(memory)}
     \/ client # "nil" /\ UNCHANGED <<missed, posts, accepted>>
  /\ UNCHANGED <<client, consuming, bound, broker, inHand, step, dlq, stage,
                 published, unsent, crashes, disconnects>>

-----------------------------------------------------------------------------
(* The consumer goroutine of StartMerchantWebhookConsumer. *)

Receive ==
  /\ consuming /\ inHand = Nothing /\ broker # <<>>
  /\ inHand' = Head(broker)
  /\ broker' = Tail(broker)
  /\ step' = "post"
  /\ UNCHANGED <<client, consuming, bound, memory, dlq, stage, history, crashes,
                 disconnects>>

(* Mutation: one retry more. *)
LastTryAfterFour(retry) == retry >= 4

LastTry(retry) == retry >= 3

Deliver ==
  /\ step = "post"
  /\ \E ok \in BOOLEAN :
       /\ Post(inHand.event, ok)
       /\ step' = CASE ok -> "ack"
                    [] ~ok /\ LastTry(inHand.retry) -> "nack"
                    [] OTHER -> "republish"
  /\ UNCHANGED <<client, consuming, bound, memory, broker, inHand, dlq, stage,
                 published, unsent, missed, crashes, disconnects>>

(* After the backoff the event is published again; the error is ignored. *)
Republish ==
  /\ step = "republish"
  /\ \/ /\ client = "up"
        /\ broker' = Append(broker, Message(inHand.event, inHand.retry + 1))
        /\ UNCHANGED unsent
     \/ /\ unsent' = unsent \cup {inHand.event}
        /\ UNCHANGED broker
  /\ step' = "ack"
  /\ UNCHANGED <<client, consuming, bound, memory, inHand, dlq, stage, published,
                 missed, posts, accepted, crashes, disconnects>>

(* Ack and Nack reach RabbitMQ while the connection lasts; afterwards the
   message has gone back to the queue already. *)
Ack ==
  /\ step = "ack"
  /\ inHand' = Nothing /\ step' = "idle"
  /\ UNCHANGED <<client, consuming, bound, memory, broker, dlq, stage, history,
                 crashes, disconnects>>

(* Mutation: the message is requeued. *)
NackRequeue ==
  /\ step = "nack"
  /\ inHand' = Nothing /\ step' = "idle"
  /\ broker' = IF client = "up" THEN Append(broker, inHand) ELSE broker
  /\ UNCHANGED <<client, consuming, bound, memory, dlq, stage, history, crashes,
                 disconnects>>

Nack ==
  /\ step = "nack"
  /\ inHand' = Nothing /\ step' = "idle"
  /\ dlq' = IF client = "up" THEN dlq \cup {inHand.event} ELSE dlq
  /\ UNCHANGED <<client, consuming, bound, memory, broker, stage, history, crashes,
                 disconnects>>

-----------------------------------------------------------------------------
(* Mutation: deliveries are acknowledged when they are received. *)
AutoAck == broker

(* What the queue holds once the connection has ended. *)
Requeued ==
  IF inHand # Nothing /\ client = "up" THEN <<inHand>> \o broker ELSE broker

(* The connection is lost: the range over the deliveries ends once the one in
   hand is finished. *)
Disconnect ==
  /\ client = "up" /\ disconnects < MaxDisconnects
  /\ disconnects' = disconnects + 1
  /\ client' = "lost" /\ consuming' = FALSE
  /\ broker' = Requeued
  /\ UNCHANGED <<bound, memory, inHand, step, dlq, stage, history, crashes>>

InMemory(e) == \E i \in DOMAIN memory : memory[i] = e
OnlyInMemory(e) == client = "nil" /\ InMemory(e)

(* The server stops, its channel and goroutines with it, and starts again. *)
Crash ==
  /\ crashes < MaxCrashes
  /\ crashes' = crashes + 1
  /\ client' \in {"nil", "up"} /\ consuming' \in BOOLEAN /\ bound' \in BOOLEAN
  /\ Started(client', consuming', bound')
  /\ bound => bound'
  /\ bound' # bound => client' = "up"
  /\ memory' = <<>>
  /\ broker' = Requeued
  /\ inHand' = Nothing /\ step' = "idle"
  /\ stage' = [e \in Events |-> IF stage[e] = "idle" THEN "idle" ELSE "done"]
  /\ missed' = missed \cup {e \in Events : stage[e] = "publish" \/ OnlyInMemory(e)}
  /\ UNCHANGED <<dlq, published, unsent, posts, accepted, disconnects>>

ConsumerStep == Receive \/ Deliver \/ Republish \/ Ack \/ Nack

(* Every event has been offered and nothing moves any more. *)
Quiet ==
  /\ \A e \in Events : stage[e] = "done"
  /\ memory = <<>> /\ inHand = Nothing /\ (consuming => broker = <<>>)
  /\ UNCHANGED vars

Next ==
  \/ \E e \in Events : Offer(e) \/ Publish(e) \/ PublishFails(e)
  \/ Drain
  \/ ConsumerStep
  \/ Disconnect
  \/ Crash
  \/ Quiet

Spec == Init /\ [][Next]_vars

(* The goroutines run; a POST ends at the latest with its timeout. *)
Fairness == WF_vars(ConsumerStep) /\ WF_vars(Drain)
FairSpec == Spec /\ Fairness

-----------------------------------------------------------------------------
(* Properties. *)

Messages == [event : Events, retry : 0 .. 3]

(* Type correctness; in particular no retry count passes 3. *)
TypeOK ==
  /\ client \in {"nil", "up", "lost"}
  /\ consuming \in BOOLEAN /\ bound \in BOOLEAN
  /\ memory \in Seq(Events) /\ Len(memory) <= MemoryCap
  /\ broker \in Seq(Messages)
  /\ inHand \in Messages \cup {Nothing}
  /\ step \in {"idle", "post", "republish", "ack", "nack"}
  /\ stage \in [Events -> {"idle", "publish", "done"}]
  /\ dlq \subseteq Events /\ published \subseteq Events /\ unsent \subseteq Events
  /\ missed \subseteq Events /\ accepted \subseteq Events
  /\ posts \in [Events -> 0 .. MaxPosts]
  /\ crashes \in 0 .. MaxCrashes /\ disconnects \in 0 .. MaxDisconnects

InFlight(e) ==
  \/ \E i \in DOMAIN broker : broker[i].event = e
  \/ inHand # Nothing /\ inHand.event = e

(* An event that reached the queue is accepted by the merchant, dead-lettered
   after four posts or more, or still on its way, through restarts and lost
   connections, unless a republish failed. *)
PublishedNeverLost ==
  /\ \A e \in published : InFlight(e) \/ e \in accepted \cup dlq \cup unsent
  /\ \A e \in dlq : posts[e] >= 4

(* The event of every payment reaches the queue or the merchant, or waits for
   the one post without RabbitMQ, except in five ways: the channel is full when
   there is no client, the publish fails, the exchange has no queue, the one
   post without a client fails, or the server stops before. *)
OfferedNeverLost ==
  \A e \in Events :
    stage[e] = "done" => e \in published \cup accepted \cup missed \/ OnlyInMemory(e)

(* No event disappears in any other way than those named. *)
EventsAccountedFor == PublishedNeverLost /\ OfferedNeverLost

(* While the server and its connection last, the merchant is not sent an event
   again that it accepted, and no event more than four times. *)
OnceAccepted ==
  crashes + disconnects = 0 =>
    /\ \A e \in Events : posts[e] <= 4
    /\ \A e \in accepted :
         \/ ~InFlight(e)
         \/ inHand # Nothing /\ inHand.event = e /\ step = "ack"

(* An event that reached the queue is in the end accepted or dead-lettered,
   unless a republish failed or no consumer runs: retries, restarts and
   redeliveries do not go on for ever. *)
EventsSettled ==
  \A e \in Events :
    (consuming /\ e \in published)
      ~> (e \in accepted \cup dlq \cup unsent \/ ~consuming)

(* An event that fails for good ends in the dead letter queue: nothing that
   reached the queue disappears. *)
FailuresAreDeadLettered == \A e \in published : InFlight(e) \/ e \in accepted \cup dlq
=============================================================================
