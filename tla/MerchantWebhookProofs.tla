------------------------ MODULE MerchantWebhookProofs ------------------------
(***************************************************************************)
(* Proofs about MerchantWebhook, for any number of events, any capacity of *)
(* the channel and any number of restarts and lost connections.            *)
(***************************************************************************)
EXTENDS MerchantWebhook, TLAPS

Elements(s) == {s[i] : i \in DOMAIN s}

(* What the operations on queues do to the set of their elements. *)
LEMMA AppendElements ==
  ASSUME NEW S, NEW s \in Seq(S), NEW x \in S
  PROVE  Append(s, x) \in Seq(S) /\ Elements(Append(s, x)) = Elements(s) \cup {x}
<1>1. /\ Append(s, x) \in Seq(S) /\ DOMAIN Append(s, x) = 1 .. Len(s) + 1
      /\ Append(s, x)[Len(s) + 1] = x
      /\ \A i \in 1 .. Len(s) : Append(s, x)[i] = s[i]
  OBVIOUS
<1>2. Elements(s) \cup {x} \subseteq Elements(Append(s, x))
  BY <1>1 DEF Elements
<1>3. Elements(Append(s, x)) \subseteq Elements(s) \cup {x}
  BY <1>1 DEF Elements
<1> QED
  BY <1>1, <1>2, <1>3

LEMMA ConsElements ==
  ASSUME NEW S, NEW s \in Seq(S), NEW x \in S
  PROVE  <<x>> \o s \in Seq(S) /\ Elements(<<x>> \o s) = Elements(s) \cup {x}
<1> DEFINE t == <<x>> \o s
<1>1. /\ t \in Seq(S) /\ DOMAIN t = 1 .. Len(s) + 1
      /\ t[1] = x
      /\ \A i \in 1 .. Len(s) : t[i + 1] = s[i]
  OBVIOUS
<1> HIDE DEF t
<1>2. ASSUME NEW y \in Elements(s) PROVE y \in Elements(t)
  <2>1. PICK i \in 1 .. Len(s) : s[i] = y
    BY <1>2 DEF Elements
  <2>2. i + 1 \in DOMAIN t /\ t[i + 1] = y
    BY <1>1, <2>1
  <2> QED
    BY <2>2 DEF Elements
<1>3. x \in Elements(t)
  <2>1. 1 \in DOMAIN t
    BY <1>1
  <2> QED
    BY <1>1, <2>1 DEF Elements
<1>4. ASSUME NEW y \in Elements(t) PROVE y \in Elements(s) \cup {x}
  <2>1. PICK i \in 1 .. Len(s) + 1 : t[i] = y
    BY <1>1, <1>4 DEF Elements
  <2>2. i = 1 \/ i - 1 \in 1 .. Len(s)
    BY <2>1
  <2>3. CASE i - 1 \in 1 .. Len(s)
    <3>1. s[i - 1] = y
      BY <1>1, <2>1, <2>3
    <3> QED
      BY <2>3, <3>1 DEF Elements
  <2> QED
    BY <1>1, <2>1, <2>2, <2>3
<1>5. Elements(t) = Elements(s) \cup {x}
  BY <1>2, <1>3, <1>4
<1> QED
  BY <1>1, <1>5 DEF t

LEMMA TailElements ==
  ASSUME NEW S, NEW s \in Seq(S), s # <<>>
  PROVE  /\ Head(s) \in S /\ Tail(s) \in Seq(S)
         /\ Elements(s) = Elements(Tail(s)) \cup {Head(s)}
<1>1. /\ Head(s) \in S /\ Tail(s) \in Seq(S) /\ Head(s) = s[1] /\ Len(s) \in Nat \ {0}
      /\ DOMAIN Tail(s) = 1 .. Len(s) - 1
      /\ \A i \in 1 .. Len(s) - 1 : Tail(s)[i] = s[i + 1]
  OBVIOUS
<1>2. ASSUME NEW y \in Elements(s) PROVE y \in Elements(Tail(s)) \cup {Head(s)}
  <2>1. PICK i \in 1 .. Len(s) : s[i] = y
    BY <1>2 DEF Elements
  <2>2. i = 1 \/ i - 1 \in 1 .. Len(s) - 1
    BY <1>1, <2>1
  <2>3. CASE i - 1 \in 1 .. Len(s) - 1
    <3>1. Tail(s)[i - 1] = y
      BY <1>1, <2>1, <2>3
    <3> QED
      BY <1>1, <2>3, <3>1 DEF Elements
  <2> QED
    BY <1>1, <2>1, <2>2, <2>3
<1>3. ASSUME NEW y \in Elements(Tail(s)) PROVE y \in Elements(s)
  <2>1. PICK i \in 1 .. Len(s) - 1 : Tail(s)[i] = y
    BY <1>1, <1>3 DEF Elements
  <2>2. i + 1 \in 1 .. Len(s) /\ s[i + 1] = y
    BY <1>1, <2>1
  <2> QED
    BY <2>2 DEF Elements
<1>4. Head(s) \in Elements(s)
  BY <1>1 DEF Elements
<1> QED
  BY <1>1, <1>2, <1>3, <1>4

-----------------------------------------------------------------------------
Queue == Elements(broker)
Queued(e) == \E m \in Queue : m.event = e

(* A delivery is in hand exactly between Receive and Ack or Nack, and which of
   them comes depends on its retries. *)
ConsumerKnown ==
  /\ consuming => client = "up"
  /\ inHand # Nothing => client # "nil"
  /\ inHand = Nothing <=> step = "idle"
  /\ step = "republish" => ~LastTry(inHand.retry)
  /\ step = "nack" => LastTry(inHand.retry)

(* A message that was retried n times was posted n times, once more when it
   has been posted from the hand. *)
RetriesPosted ==
  /\ \A m \in Queue : posts[m.event] >= m.retry
  /\ inHand # Nothing =>
       posts[inHand.event] >= IF step = "post" THEN inHand.retry ELSE inHand.retry + 1

(* A delivery is finished only when its event is safe without it: after the
   loss of the connection it is back in the queue. *)
HandCovered ==
  /\ (inHand # Nothing /\ client = "lost") => Queued(inHand.event)
  /\ step = "ack" => inHand.event \in accepted \cup unsent \/ Queued(inHand.event)

WebhookInv ==
  TypeOK /\ ConsumerKnown /\ RetriesPosted /\ HandCovered /\ EventsAccountedFor

LEMMA InFlightIs ==
  \A e : InFlight(e) <=> Queued(e) \/ (inHand # Nothing /\ inHand.event = e)
BY DEF InFlight, Queued, Queue, Elements

LEMMA InMemoryIs ==
  \A e : InMemory(e) <=> e \in Elements(memory)
BY DEF InMemory, Elements

LEMMA InitInv == Init => WebhookInv
<1> SUFFICES ASSUME Init PROVE WebhookInv
  OBVIOUS
<1> USE WebhookAssumption
<1>1. /\ client \in {"nil", "up"} /\ consuming \in BOOLEAN /\ bound \in BOOLEAN
      /\ consuming => client = "up"
      /\ memory = <<>> /\ broker = <<>> /\ inHand = Nothing /\ step = "idle"
      /\ stage = [e \in Events |-> "idle"] /\ posts = [e \in Events |-> 0]
      /\ dlq = {} /\ published = {} /\ unsent = {} /\ missed = {} /\ accepted = {}
      /\ crashes = 0 /\ disconnects = 0
  BY DEF Init, Started
<1>2. memory \in Seq(Events) /\ broker \in Seq(Messages) /\ Len(memory) = 0
  BY <1>1
<1>3. Queue = {}
  BY <1>1 DEF Queue, Elements
<1>4. TypeOK
  BY <1>1, <1>2 DEF TypeOK
<1>5. ConsumerKnown /\ RetriesPosted /\ HandCovered
  BY <1>1, <1>3 DEF ConsumerKnown, RetriesPosted, HandCovered
<1>6. EventsAccountedFor
  BY <1>1 DEF EventsAccountedFor, PublishedNeverLost, OfferedNeverLost
<1> QED
  BY <1>4, <1>5, <1>6 DEF WebhookInv

(* Steps that leave the queue and the delivery in hand alone. *)
LEMMA ConsumerUntouched ==
  ASSUME ConsumerKnown, RetriesPosted, HandCovered,
         UNCHANGED <<client, consuming, broker, inHand, step, unsent>>,
         accepted \subseteq accepted',
         TypeOK, \A e \in Events : posts'[e] >= posts[e], posts' \in [Events -> Nat]
  PROVE  (ConsumerKnown /\ RetriesPosted /\ HandCovered)'
<1>1. Queue' = Queue /\ \A e : Queued(e)' <=> Queued(e)
  BY DEF Queue, Queued
<1>2. Queue \subseteq Messages
  BY DEF Queue, Elements, TypeOK
<1>3. \A m \in Messages : m.event \in Events /\ m.retry \in 0 .. 3
  BY DEF Messages
<1>4. ConsumerKnown' /\ HandCovered'
  BY <1>1 DEF ConsumerKnown, HandCovered
<1>5. RetriesPosted'
  <2>1. \A e \in Events : posts[e] \in Nat /\ posts'[e] \in Nat /\ posts'[e] >= posts[e]
    BY WebhookAssumption DEF TypeOK
  <2>2. \A m \in Queue : posts'[m.event] >= m.retry
    BY <1>2, <1>3, <2>1 DEF RetriesPosted
  <2>3. inHand # Nothing => inHand \in Messages
    BY DEF TypeOK
  <2>4. inHand # Nothing =>
          posts'[inHand.event] >= IF step = "post" THEN inHand.retry ELSE inHand.retry + 1
    BY <1>3, <2>1, <2>3 DEF RetriesPosted
  <2> QED
    BY <1>1, <2>2, <2>4 DEF RetriesPosted
<1> QED
  BY <1>4, <1>5

LEMMA OfferKeeps ==
  ASSUME WebhookInv, NEW e \in Events, Offer(e)
  PROVE  WebhookInv'
<1> USE WebhookAssumption
<1>1. /\ memory \in Seq(Events)
      /\ \/ Len(memory) < MemoryCap /\ memory' = Append(memory, e) /\ missed' = missed
         \/ /\ memory' = memory
            /\ missed' = IF client = "nil" THEN missed \cup {e} ELSE missed
      /\ stage' = [stage EXCEPT ![e] = IF client = "nil" THEN "done" ELSE "publish"]
      /\ UNCHANGED <<client, consuming, bound, broker, inHand, step, dlq, published,
                     unsent, posts, accepted, crashes, disconnects>>
  BY DEF WebhookInv, TypeOK, Offer
<1>2. /\ memory' \in Seq(Events) /\ Len(memory') <= MemoryCap
      /\ Elements(memory) \subseteq Elements(memory')
      /\ e \in Elements(memory') \/ (client = "nil" => e \in missed')
  <2>1. Append(memory, e) \in Seq(Events) /\ Len(Append(memory, e)) = Len(memory) + 1
        /\ Elements(Append(memory, e)) = Elements(memory) \cup {e}
    BY <1>1, AppendElements
  <2>2. CASE Len(memory) < MemoryCap /\ memory' = Append(memory, e)
    BY <1>1, <2>1, <2>2
  <2>3. CASE memory' = memory /\ missed' = IF client = "nil" THEN missed \cup {e} ELSE missed
    BY <1>1, <2>3 DEF WebhookInv, TypeOK
  <2> QED
    BY <1>1, <2>2, <2>3
<1>3. TypeOK'
  BY <1>1, <1>2 DEF WebhookInv, TypeOK
<1>4. (ConsumerKnown /\ RetriesPosted /\ HandCovered)'
  BY <1>1, ConsumerUntouched DEF WebhookInv, TypeOK
<1>5. PublishedNeverLost'
  BY <1>1 DEF WebhookInv, EventsAccountedFor, PublishedNeverLost, InFlight
<1>6. OfferedNeverLost'
  <2> SUFFICES ASSUME NEW d \in Events, stage'[d] = "done"
               PROVE  d \in (published \cup accepted \cup missed)' \/ OnlyInMemory(d)'
    BY DEF OfferedNeverLost
  <2>1. InMemory(d) => InMemory(d)'
    BY <1>2, InMemoryIs DEF InMemory, Elements
  <2>2. CASE d = e
    <3>1. client = "nil"
      BY <1>1, <2>2 DEF WebhookInv, TypeOK
    <3>2. e \in Elements(memory') => InMemory(e)'
      BY DEF InMemory, Elements
    <3> QED
      BY <1>1, <1>2, <2>2, <3>1, <3>2 DEF OnlyInMemory
  <2>3. CASE d # e
    <3>1. stage[d] = "done"
      BY <1>1, <2>3 DEF WebhookInv, TypeOK
    <3> QED
      BY <1>1, <2>1, <3>1 DEF WebhookInv, EventsAccountedFor, OfferedNeverLost, OnlyInMemory
  <2> QED
    BY <2>2, <2>3
<1> QED
  BY <1>3, <1>4, <1>5, <1>6 DEF WebhookInv, EventsAccountedFor

LEMMA PublishKeeps ==
  ASSUME WebhookInv, NEW e \in Events, Publish(e) \/ PublishFails(e)
  PROVE  WebhookInv'
<1> USE WebhookAssumption
<1>1. /\ stage[e] = "publish" /\ stage' = [stage EXCEPT ![e] = "done"]
      /\ \/ broker' = Append(broker, Message(e, 0)) /\ published' = published \cup {e}
            /\ missed' = missed
         \/ missed' = missed \cup {e} /\ UNCHANGED <<broker, published>>
      /\ UNCHANGED <<client, consuming, bound, memory, inHand, step, dlq, unsent, posts,
                     accepted, crashes, disconnects>>
  BY DEF Publish, PublishFails, queues
<1>2. Message(e, 0) \in Messages /\ broker \in Seq(Messages)
  BY DEF Message, Messages, WebhookInv, TypeOK
<1>3. \/ Queue' = Queue \cup {Message(e, 0)} /\ published' = published \cup {e}
      \/ Queue' = Queue /\ published' = published
  <2>1. Elements(Append(broker, Message(e, 0))) = Elements(broker) \cup {Message(e, 0)}
    BY <1>2, AppendElements
  <2> QED
    BY <1>1, <2>1 DEF Queue
<1>4. TypeOK'
  <2>1. Append(broker, Message(e, 0)) \in Seq(Messages)
    BY <1>2
  <2>2. broker' \in Seq(Messages)
    BY <1>1, <1>2, <2>1
  <2> QED
    BY <1>1, <2>2 DEF WebhookInv, TypeOK
<1>5. ConsumerKnown' /\ HandCovered'
  BY <1>1, <1>3 DEF WebhookInv, ConsumerKnown, HandCovered, Queued
<1>6. RetriesPosted'
  BY <1>1, <1>3 DEF WebhookInv, TypeOK, RetriesPosted, Message
<1>7. PublishedNeverLost'
  <2>1. \A d : Queued(d) => Queued(d)'
    BY <1>3 DEF Queued
  <2>2. e \in published' => Queued(e)' \/ e \in published
    <3>1. Message(e, 0).event = e
      BY DEF Message
    <3> QED
      BY <1>3, <3>1 DEF Queued
  <2>3. \A d : InFlight(d) => InFlight(d)'
    BY <1>1, <2>1, InFlightIs DEF InFlight, Queued, Queue, Elements
  <2>4. Queued(e)' => InFlight(e)'
    BY DEF InFlight, Queued, Queue, Elements
  <2> QED
    BY <1>1, <1>3, <2>2, <2>3, <2>4 DEF WebhookInv, EventsAccountedFor, PublishedNeverLost
<1>8. OfferedNeverLost'
  BY <1>1 DEF WebhookInv, TypeOK, EventsAccountedFor, OfferedNeverLost, OnlyInMemory, InMemory
<1> QED
  BY <1>4, <1>5, <1>6, <1>7, <1>8 DEF WebhookInv, EventsAccountedFor

LEMMA PostFacts ==
  ASSUME TypeOK, NEW e \in Events, NEW ok \in BOOLEAN, Post(e, ok)
  PROVE  /\ posts' \in [Events -> 0 .. MaxPosts]
         /\ \A d \in Events : posts[d] \in Nat /\ posts'[d] \in Nat /\ posts'[d] >= posts[d]
         /\ posts'[e] > posts[e] \/ posts'[e] > 4
         /\ accepted \subseteq accepted' /\ accepted' \subseteq accepted \cup {e}
         /\ ok => e \in accepted'
<1> USE WebhookAssumption
<1>1. /\ MaxPosts \in Nat /\ MaxPosts > 4 /\ posts \in [Events -> 0 .. MaxPosts]
      /\ posts' = [posts EXCEPT ![e] = IF @ < MaxPosts THEN @ + 1 ELSE @]
      /\ accepted' = IF ok THEN accepted \cup {e} ELSE accepted
  BY DEF TypeOK, Post
<1>2. posts'[e] = (IF posts[e] < MaxPosts THEN posts[e] + 1 ELSE posts[e])
      /\ \A d \in Events \ {e} : posts'[d] = posts[d]
  BY <1>1
<1> QED
  BY <1>1, <1>2

LEMMA DrainKeeps ==
  ASSUME WebhookInv, Drain
  PROVE  WebhookInv'
<1> USE WebhookAssumption
<1> DEFINE e == Head(memory)
<1>1. /\ memory \in Seq(Events) /\ memory # <<>> /\ memory' = Tail(memory)
      /\ \/ /\ client = "nil"
            /\ \E ok \in BOOLEAN : /\ Post(e, ok)
                                  /\ missed' = IF ok THEN missed ELSE missed \cup {e}
         \/ client # "nil" /\ UNCHANGED <<missed, posts, accepted>>
      /\ UNCHANGED <<client, consuming, bound, broker, inHand, step, dlq, stage,
                     published, unsent, crashes, disconnects>>
  BY DEF WebhookInv, TypeOK, Drain
<1>2. e \in Events /\ Tail(memory) \in Seq(Events)
      /\ Elements(memory) = Elements(Tail(memory)) \cup {e}
  BY <1>1, TailElements
<1>3. Len(memory') <= MemoryCap
  BY <1>1 DEF WebhookInv, TypeOK
<1>4. /\ posts' \in [Events -> 0 .. MaxPosts]
      /\ \A d \in Events : posts[d] \in Nat /\ posts'[d] \in Nat /\ posts'[d] >= posts[d]
      /\ accepted \subseteq accepted' /\ accepted' \subseteq Events
      /\ missed \subseteq missed' /\ missed' \subseteq Events
      /\ client = "nil" => e \in accepted' \cup missed'
  BY <1>1, <1>2, PostFacts DEF WebhookInv, TypeOK
<1>5. TypeOK'
  BY <1>1, <1>2, <1>3, <1>4 DEF WebhookInv, TypeOK
<1>6. (ConsumerKnown /\ RetriesPosted /\ HandCovered)'
  BY <1>1, <1>4, ConsumerUntouched DEF WebhookInv, TypeOK
<1>7. PublishedNeverLost'
  BY <1>1, <1>4 DEF WebhookInv, TypeOK, EventsAccountedFor, PublishedNeverLost, InFlight
<1>8. OfferedNeverLost'
  <2>1. ASSUME NEW d, InMemory(d) PROVE InMemory(d)' \/ d = e
    <3>1. d \in Elements(memory') \/ d = e
      BY <1>1, <1>2, <2>1, InMemoryIs
    <3> QED
      BY <3>1 DEF InMemory, Elements
  <2> QED
    BY <1>1, <1>4, <2>1 DEF WebhookInv, EventsAccountedFor, OfferedNeverLost, OnlyInMemory
<1> QED
  BY <1>5, <1>6, <1>7, <1>8 DEF WebhookInv, EventsAccountedFor

(* What a step of the consumer leaves alone. *)
LEMMA OffersUntouched ==
  ASSUME OfferedNeverLost, UNCHANGED <<client, memory, stage, published, missed>>,
         accepted \subseteq accepted'
  PROVE  OfferedNeverLost'
BY DEF OfferedNeverLost, OnlyInMemory, InMemory

LEMMA ReceiveKeeps ==
  ASSUME WebhookInv, Receive
  PROVE  WebhookInv'
<1> USE WebhookAssumption
<1>1. /\ broker \in Seq(Messages) /\ broker # <<>>
      /\ consuming /\ client = "up" /\ inHand = Nothing
      /\ inHand' = Head(broker) /\ broker' = Tail(broker) /\ step' = "post"
      /\ UNCHANGED <<client, consuming, bound, memory, dlq, stage, published, unsent,
                     missed, posts, accepted, crashes, disconnects>>
  BY DEF WebhookInv, TypeOK, ConsumerKnown, Receive, history
<1>2. /\ inHand' \in Messages /\ broker' \in Seq(Messages)
      /\ Queue = Queue' \cup {inHand'}
  BY <1>1, TailElements DEF Queue
<1>3. inHand' # Nothing
  BY <1>2 DEF Messages
<1>4. TypeOK'
  BY <1>1, <1>2 DEF WebhookInv, TypeOK
<1>5. ConsumerKnown' /\ HandCovered'
  BY <1>1, <1>3 DEF WebhookInv, ConsumerKnown, HandCovered
<1>6. RetriesPosted'
  BY <1>1, <1>2 DEF WebhookInv, RetriesPosted
<1>7. PublishedNeverLost'
  <2>1. \A d : InFlight(d) => Queued(d)' \/ inHand'.event = d
    BY <1>1, <1>2, InFlightIs DEF Queued
  <2>2. \A d : Queued(d)' \/ inHand'.event = d => InFlight(d)'
    BY <1>3 DEF InFlight, Queued, Queue, Elements
  <2> QED
    BY <1>1, <2>1, <2>2 DEF WebhookInv, EventsAccountedFor, PublishedNeverLost
<1>8. OfferedNeverLost'
  BY <1>1, OffersUntouched DEF WebhookInv, EventsAccountedFor
<1> QED
  BY <1>4, <1>5, <1>6, <1>7, <1>8 DEF WebhookInv, EventsAccountedFor

LEMMA DeliverKeeps ==
  ASSUME WebhookInv, Deliver
  PROVE  WebhookInv'
<1> USE WebhookAssumption
<1>1. PICK ok \in BOOLEAN :
        /\ Post(inHand.event, ok)
        /\ step' = CASE ok -> "ack"
                     [] ~ok /\ LastTry(inHand.retry) -> "nack"
                     [] OTHER -> "republish"
  BY DEF Deliver
<1>2. /\ step = "post"
      /\ UNCHANGED <<client, consuming, bound, memory, broker, inHand, dlq, stage,
                     published, unsent, missed, crashes, disconnects>>
  BY DEF Deliver
<1>3. /\ inHand \in Messages /\ inHand # Nothing
      /\ inHand.event \in Events /\ inHand.retry \in 0 .. 3
  BY <1>2 DEF WebhookInv, TypeOK, ConsumerKnown, Messages
<1>4. /\ posts' \in [Events -> 0 .. MaxPosts]
      /\ \A d \in Events : posts[d] \in Nat /\ posts'[d] \in Nat /\ posts'[d] >= posts[d]
      /\ posts'[inHand.event] > posts[inHand.event] \/ posts'[inHand.event] > 4
      /\ accepted \subseteq accepted' /\ accepted' \subseteq accepted \cup {inHand.event}
      /\ ok => inHand.event \in accepted'
  BY <1>1, <1>3, PostFacts DEF WebhookInv
<1>5. step' \in {"ack", "nack", "republish"}
  BY <1>1
<1>6. TypeOK'
  BY <1>2, <1>3, <1>4, <1>5 DEF WebhookInv, TypeOK
<1>7. ConsumerKnown'
  BY <1>1, <1>2, <1>3, <1>5 DEF WebhookInv, ConsumerKnown, LastTry
<1>8. RetriesPosted'
  <2>1. Queue' = Queue /\ Queue \subseteq Messages
    BY <1>2 DEF Queue, Elements, WebhookInv, TypeOK
  <2>2. \A m \in Queue : posts'[m.event] >= m.retry
    BY <1>4, <2>1 DEF WebhookInv, RetriesPosted, Messages
  <2>3. posts'[inHand.event] >= inHand.retry + 1
    BY <1>2, <1>3, <1>4 DEF WebhookInv, RetriesPosted
  <2> QED
    BY <1>2, <1>5, <2>1, <2>2, <2>3 DEF RetriesPosted
<1>9. HandCovered'
  <2>1. \A d : Queued(d)' <=> Queued(d)
    BY <1>2 DEF Queued, Queue
  <2>2. step' = "ack" => inHand.event \in accepted'
    BY <1>1, <1>4
  <2> QED
    BY <1>2, <2>1, <2>2 DEF WebhookInv, HandCovered
<1>10. PublishedNeverLost'
  BY <1>2, <1>4 DEF WebhookInv, TypeOK, EventsAccountedFor, PublishedNeverLost, InFlight
<1>11. OfferedNeverLost'
  BY <1>2, <1>4, OffersUntouched DEF WebhookInv, EventsAccountedFor
<1> QED
  BY <1>6, <1>7, <1>8, <1>9, <1>10, <1>11 DEF WebhookInv, EventsAccountedFor

LEMMA RepublishKeeps ==
  ASSUME WebhookInv, Republish
  PROVE  WebhookInv'
<1> USE WebhookAssumption
<1> DEFINE m == Message(inHand.event, inHand.retry + 1)
<1>1. /\ step = "republish" /\ step' = "ack"
      /\ \/ broker' = Append(broker, m) /\ unsent' = unsent
         \/ broker' = broker /\ unsent' = unsent \cup {inHand.event}
      /\ UNCHANGED <<client, consuming, bound, memory, inHand, dlq, stage, published,
                     missed, posts, accepted, crashes, disconnects>>
  BY DEF Republish
<1>2. /\ inHand \in Messages /\ inHand # Nothing
      /\ inHand.event \in Events /\ inHand.retry \in 0 .. 2
  BY <1>1 DEF WebhookInv, TypeOK, ConsumerKnown, Messages, LastTry
<1>3. m \in Messages /\ m.event = inHand.event /\ m.retry = inHand.retry + 1
  BY <1>2 DEF Message, Messages
<1>4. Append(broker, m) \in Seq(Messages) /\ Elements(Append(broker, m)) = Queue \cup {m}
  BY <1>3, AppendElements DEF WebhookInv, TypeOK, Queue
<1> HIDE DEF m
<1>5. /\ broker' \in Seq(Messages) /\ Queue \subseteq Queue'
      /\ \/ Queue' = Queue \cup {m}
         \/ Queue' = Queue /\ inHand.event \in unsent'
  BY <1>1, <1>4 DEF Queue, WebhookInv, TypeOK
<1>6. TypeOK'
  BY <1>1, <1>2, <1>5 DEF WebhookInv, TypeOK
<1>7. ConsumerKnown'
  BY <1>1, <1>2 DEF WebhookInv, ConsumerKnown
<1>8. RetriesPosted'
  BY <1>1, <1>2, <1>3, <1>5 DEF WebhookInv, RetriesPosted
<1>9. HandCovered'
  BY <1>1, <1>3, <1>5 DEF WebhookInv, HandCovered, Queued
<1>10. PublishedNeverLost'
  <2>1. \A d : InFlight(d) => Queued(d)' \/ inHand'.event = d
    BY <1>1, <1>5, InFlightIs DEF Queued
  <2>2. \A d : Queued(d)' \/ inHand'.event = d => InFlight(d)'
    BY <1>1, <1>2 DEF InFlight, Queued, Queue, Elements
  <2> QED
    BY <1>1, <2>1, <2>2 DEF WebhookInv, EventsAccountedFor, PublishedNeverLost
<1>11. OfferedNeverLost'
  BY <1>1, OffersUntouched DEF WebhookInv, EventsAccountedFor
<1> QED
  BY <1>6, <1>7, <1>8, <1>9, <1>10, <1>11 DEF WebhookInv, EventsAccountedFor

LEMMA AckKeeps ==
  ASSUME WebhookInv, Ack \/ Nack
  PROVE  WebhookInv'
<1> USE WebhookAssumption
<1>1. /\ step \in {"ack", "nack"} /\ inHand' = Nothing /\ step' = "idle"
      /\ dlq' = IF step = "nack" /\ client = "up" THEN dlq \cup {inHand.event} ELSE dlq
      /\ UNCHANGED <<client, consuming, bound, memory, broker, stage, published, unsent,
                     missed, posts, accepted, crashes, disconnects>>
  BY DEF Ack, Nack, history
<1>2. /\ inHand \in Messages /\ inHand # Nothing /\ client \in {"up", "lost"}
      /\ inHand.event \in Events /\ inHand.retry \in 0 .. 3
  BY <1>1 DEF WebhookInv, TypeOK, ConsumerKnown, Messages
<1>3. step = "nack" => posts[inHand.event] >= 4
  <2>1. posts[inHand.event] \in Nat /\ posts[inHand.event] >= inHand.retry + 1
    BY <1>1, <1>2 DEF WebhookInv, TypeOK, RetriesPosted
  <2> QED
    BY <1>2, <2>1 DEF WebhookInv, ConsumerKnown, LastTry
<1>4. Queue' = Queue /\ \A d : Queued(d)' <=> Queued(d)
  BY <1>1 DEF Queue, Queued
<1>5. TypeOK'
  BY <1>1, <1>2 DEF WebhookInv, TypeOK
<1>6. (ConsumerKnown /\ RetriesPosted /\ HandCovered)'
  BY <1>1, <1>4 DEF WebhookInv, ConsumerKnown, RetriesPosted, HandCovered
<1>7. PublishedNeverLost'
  <2>1. inHand.event \in accepted \cup unsent \cup dlq' \/ Queued(inHand.event)
    BY <1>1, <1>2 DEF WebhookInv, HandCovered
  <2>2. \A d : InFlight(d) => Queued(d) \/ inHand.event = d
    BY InFlightIs
  <2>3. \A d : Queued(d) => InFlight(d)'
    BY <1>1 DEF InFlight, Queued, Queue, Elements
  <2>4. \A d \in dlq' : posts'[d] >= 4
    BY <1>1, <1>3 DEF WebhookInv, EventsAccountedFor, PublishedNeverLost
  <2> QED
    BY <1>1, <2>1, <2>2, <2>3, <2>4 DEF WebhookInv, EventsAccountedFor, PublishedNeverLost
<1>8. OfferedNeverLost'
  BY <1>1, OffersUntouched DEF WebhookInv, EventsAccountedFor
<1> QED
  BY <1>5, <1>6, <1>7, <1>8 DEF WebhookInv, EventsAccountedFor

(* What a connection that ends leaves in the queue. *)
LEMMA RequeuedFacts ==
  ASSUME WebhookInv
  PROVE  /\ Requeued \in Seq(Messages)
         /\ \/ Elements(Requeued) = Queue
            \/ inHand # Nothing /\ Elements(Requeued) = Queue \cup {inHand}
         /\ inHand # Nothing => \E m \in Elements(Requeued) : m.event = inHand.event
<1>1. CASE inHand # Nothing /\ client = "up"
  <2>1. inHand \in Messages /\ broker \in Seq(Messages) /\ Requeued = <<inHand>> \o broker
    BY <1>1 DEF WebhookInv, TypeOK, Requeued
  <2> QED
    BY <1>1, <2>1, ConsElements DEF Queue
<1>2. CASE ~(inHand # Nothing /\ client = "up")
  <2>1. Requeued = broker /\ broker \in Seq(Messages) /\ Elements(Requeued) = Queue
    BY <1>2 DEF WebhookInv, TypeOK, Requeued, Queue
  <2>2. inHand # Nothing => Queued(inHand.event)
    BY <1>2 DEF WebhookInv, TypeOK, ConsumerKnown, HandCovered
  <2> QED
    BY <2>1, <2>2 DEF Queued
<1> QED
  BY <1>1, <1>2

LEMMA LossKeeps ==
  ASSUME WebhookInv, Disconnect
  PROVE  WebhookInv'
<1> USE WebhookAssumption
<1>1. /\ disconnects < MaxDisconnects /\ disconnects' = disconnects + 1
      /\ client = "up" /\ client' = "lost" /\ consuming' = FALSE /\ broker' = Requeued
      /\ UNCHANGED <<bound, memory, inHand, step, dlq, stage, published, unsent, missed,
                     posts, accepted, crashes>>
  BY DEF Disconnect, history
<1>2. /\ broker' \in Seq(Messages) /\ Queue \subseteq Queue'
      /\ \A m \in Queue' : m \in Queue \/ (inHand # Nothing /\ m = inHand)
      /\ inHand # Nothing => \E m \in Queue' : m.event = inHand.event
  BY <1>1, RequeuedFacts DEF Queue
<1>3. TypeOK'
  <2>1. disconnects' \in 0 .. MaxDisconnects
    BY <1>1 DEF WebhookInv, TypeOK
  <2> QED
    BY <1>1, <1>2, <2>1 DEF WebhookInv, TypeOK
<1>4. ConsumerKnown'
  BY <1>1 DEF WebhookInv, ConsumerKnown
<1>5. RetriesPosted'
  <2>1. inHand # Nothing => posts[inHand.event] >= inHand.retry
    BY DEF WebhookInv, TypeOK, RetriesPosted, Messages
  <2> QED
    BY <1>1, <1>2, <2>1 DEF WebhookInv, RetriesPosted
<1>6. HandCovered'
  BY <1>1, <1>2 DEF WebhookInv, HandCovered, Queued
<1>7. PublishedNeverLost'
  <2>1. \A d : InFlight(d) => Queued(d)'
    BY <1>2, InFlightIs DEF Queued
  <2>2. \A d : Queued(d)' => InFlight(d)'
    BY DEF InFlight, Queued, Queue, Elements
  <2> QED
    BY <1>1, <2>1, <2>2 DEF WebhookInv, EventsAccountedFor, PublishedNeverLost
<1>8. OfferedNeverLost'
  BY <1>1 DEF WebhookInv, EventsAccountedFor, OfferedNeverLost, OnlyInMemory
<1> QED
  BY <1>3, <1>4, <1>5, <1>6, <1>7, <1>8 DEF WebhookInv, EventsAccountedFor

LEMMA CrashKeeps ==
  ASSUME WebhookInv, Crash
  PROVE  WebhookInv'
<1> USE WebhookAssumption
<1>1. /\ crashes < MaxCrashes /\ crashes' = crashes + 1
      /\ client' \in {"nil", "up"} /\ consuming' \in BOOLEAN /\ bound' \in BOOLEAN
      /\ consuming' => client' = "up"
      /\ memory' = <<>> /\ broker' = Requeued /\ inHand' = Nothing /\ step' = "idle"
      /\ stage' = [e \in Events |-> IF stage[e] = "idle" THEN "idle" ELSE "done"]
      /\ missed' = missed \cup {e \in Events : stage[e] = "publish" \/ OnlyInMemory(e)}
      /\ UNCHANGED <<dlq, published, unsent, posts, accepted, disconnects>>
  BY DEF Crash, Started
<1>2. /\ broker' \in Seq(Messages)
      /\ \A m \in Queue' : m \in Queue \/ (inHand # Nothing /\ m = inHand)
      /\ \A m \in Queue : m \in Queue'
      /\ inHand # Nothing => \E m \in Queue' : m.event = inHand.event
  BY <1>1, RequeuedFacts DEF Queue
<1>3. TypeOK'
  <2>1. memory' \in Seq(Events) /\ Len(memory') = 0
    BY <1>1
  <2>2. stage' \in [Events -> {"idle", "publish", "done"}]
    BY <1>1
  <2>3. missed' \subseteq Events
    BY <1>1 DEF WebhookInv, TypeOK
  <2> QED
    BY <1>1, <1>2, <2>1, <2>2, <2>3 DEF WebhookInv, TypeOK
<1>4. ConsumerKnown' /\ HandCovered'
  BY <1>1 DEF ConsumerKnown, HandCovered
<1>5. RetriesPosted'
  <2>1. inHand # Nothing => posts[inHand.event] >= inHand.retry
    BY DEF WebhookInv, TypeOK, RetriesPosted, Messages
  <2> QED
    BY <1>1, <1>2, <2>1 DEF WebhookInv, RetriesPosted
<1>6. PublishedNeverLost'
  <2>1. \A d : InFlight(d) => Queued(d)'
    BY <1>2, InFlightIs DEF Queued
  <2>2. \A d : Queued(d)' => InFlight(d)'
    BY DEF InFlight, Queued, Queue, Elements
  <2> QED
    BY <1>1, <2>1, <2>2 DEF WebhookInv, EventsAccountedFor, PublishedNeverLost
<1>7. OfferedNeverLost'
  <2> SUFFICES ASSUME NEW e \in Events, stage'[e] = "done"
               PROVE  e \in (published \cup accepted \cup missed)'
    BY DEF OfferedNeverLost
  <2>1. stage[e] \in {"publish", "done"}
    BY <1>1 DEF WebhookInv, TypeOK
  <2> QED
    BY <1>1, <2>1 DEF WebhookInv, EventsAccountedFor, OfferedNeverLost
<1> QED
  BY <1>3, <1>4, <1>5, <1>6, <1>7 DEF WebhookInv, EventsAccountedFor

-----------------------------------------------------------------------------
LEMMA NextKeeps == WebhookInv /\ [Next]_vars => WebhookInv'
<1> SUFFICES ASSUME WebhookInv, [Next]_vars PROVE WebhookInv'
  OBVIOUS
<1>1. ASSUME NEW e \in Events, Offer(e) \/ Publish(e) \/ PublishFails(e) PROVE WebhookInv'
  BY <1>1, OfferKeeps, PublishKeeps
<1>2. CASE Drain \/ ConsumerStep
  BY <1>2, DrainKeeps, ReceiveKeeps, DeliverKeeps, RepublishKeeps, AckKeeps DEF ConsumerStep
<1>3. CASE Disconnect \/ Crash
  BY <1>3, LossKeeps, CrashKeeps
<1>4. CASE Quiet \/ UNCHANGED vars
  BY <1>4 DEF Quiet, vars, queues, history, WebhookInv, TypeOK, ConsumerKnown, RetriesPosted,
              HandCovered, EventsAccountedFor, PublishedNeverLost, OfferedNeverLost,
              InFlight, Queued, Queue, OnlyInMemory, InMemory
<1> QED
  BY <1>1, <1>2, <1>3, <1>4 DEF Next

LEMMA WebhookInvHolds == Spec => []WebhookInv
<1> QED
  BY InitInv, NextKeeps, PTL DEF Spec

(* Every event that was offered is in the end accounted for in one of the ways
   the property names, through any number of restarts, lost connections and
   retries, and no event is dead-lettered before its fourth post. *)
THEOREM EventsAreAccountedFor == Spec => []EventsAccountedFor
<1>1. WebhookInv => EventsAccountedFor
  BY DEF WebhookInv
<1> QED
  BY <1>1, WebhookInvHolds, PTL

(* In particular no retry count passes 3. *)
THEOREM WebhooksTypeCorrect == Spec => []TypeOK
<1>1. WebhookInv => TypeOK
  BY DEF WebhookInv
<1> QED
  BY <1>1, WebhookInvHolds, PTL
-----------------------------------------------------------------------------
(* One delivery at a time, while the server and its connection last. *)

(* Without a client the channel posts each of its events once. *)
PostedOnce ==
  /\ broker = <<>> /\ inHand = Nothing
  /\ \A e \in Events :
       /\ posts[e] <= 1 /\ stage[e] # "publish"
       /\ stage[e] = "idle" => posts[e] = 0 /\ ~InMemory(e)
       /\ InMemory(e) => posts[e] = 0
  /\ \A i, j \in DOMAIN memory : memory[i] = memory[j] => i = j

ApartEvents(s) == \A i, j \in DOMAIN s : s[i].event = s[j].event => i = j

Carried(e) == Queued(e) \/ (inHand # Nothing /\ inHand.event = e)

(* With one an event has at most one message, which counts its posts, until
   it is accepted or given up. *)
PostedInTurn ==
  /\ \A e \in Events :
       /\ posts[e] <= 4
       /\ stage[e] # "done" => posts[e] = 0 /\ e \notin accepted /\ ~Carried(e)
  /\ ApartEvents(broker)
  /\ \A m \in Queue : posts[m.event] = m.retry /\ m.event \notin accepted
  /\ step \in {"post", "republish", "nack"} =>
       inHand.event \notin accepted /\ ~Queued(inHand.event)
  /\ step = "post" => posts[inHand.event] = inHand.retry
  /\ step = "republish" => posts[inHand.event] = inHand.retry + 1

OnceInv ==
  crashes + disconnects = 0 =>
    /\ client \in {"nil", "up"}
    /\ client = "nil" => PostedOnce
    /\ client = "up" => PostedInTurn

LEMMA TailApart ==
  ASSUME NEW S, NEW s \in Seq(S), s # <<>>, ApartEvents(s)
  PROVE  ApartEvents(Tail(s)) /\ \A m \in Elements(Tail(s)) : m.event # Head(s).event
<1>1. /\ Head(s) = s[1] /\ Len(s) \in Nat \ {0}
      /\ DOMAIN s = 1 .. Len(s) /\ DOMAIN Tail(s) = 1 .. Len(s) - 1
      /\ \A i \in 1 .. Len(s) - 1 : Tail(s)[i] = s[i + 1]
  OBVIOUS
<1>2. ApartEvents(Tail(s))
  <2> SUFFICES ASSUME NEW i \in 1 .. Len(s) - 1, NEW j \in 1 .. Len(s) - 1,
                      Tail(s)[i].event = Tail(s)[j].event
               PROVE  i = j
    BY <1>1 DEF ApartEvents
  <2>1. i + 1 \in DOMAIN s /\ j + 1 \in DOMAIN s /\ s[i + 1].event = s[j + 1].event
    BY <1>1
  <2> QED
    BY <2>1 DEF ApartEvents
<1>3. ASSUME NEW i \in 1 .. Len(s) - 1 PROVE Tail(s)[i].event # Head(s).event
  <2>1. i + 1 \in DOMAIN s /\ 1 \in DOMAIN s /\ i + 1 # 1
    BY <1>1
  <2> QED
    BY <1>1, <2>1 DEF ApartEvents
<1> QED
  BY <1>1, <1>2, <1>3 DEF Elements

LEMMA AppendApart ==
  ASSUME NEW S, NEW s \in Seq(S), NEW x \in S, ApartEvents(s),
         \A m \in Elements(s) : m.event # x.event
  PROVE  ApartEvents(Append(s, x))
<1>1. /\ DOMAIN s = 1 .. Len(s) /\ DOMAIN Append(s, x) = 1 .. Len(s) + 1
      /\ Append(s, x)[Len(s) + 1] = x
      /\ \A i \in 1 .. Len(s) : Append(s, x)[i] = s[i]
      /\ Len(s) \in Nat
  OBVIOUS
<1>2. \A i \in 1 .. Len(s) : s[i].event # x.event
  BY <1>1 DEF Elements
<1>3. \A i \in 1 .. Len(s) + 1 : i = Len(s) + 1 \/ i \in 1 .. Len(s)
  BY <1>1
<1> QED
  BY <1>1, <1>2, <1>3 DEF ApartEvents

LEMMA InitOnce == Init => OnceInv
<1> SUFFICES ASSUME Init PROVE OnceInv
  OBVIOUS
<1>1. /\ client \in {"nil", "up"} /\ memory = <<>> /\ broker = <<>>
      /\ inHand = Nothing /\ step = "idle" /\ accepted = {}
      /\ \A e \in Events : stage[e] = "idle" /\ posts[e] = 0
  BY DEF Init
<1>2. Queue = {} /\ ApartEvents(broker)
  BY <1>1 DEF Queue, Elements, ApartEvents
<1>3. PostedOnce
  BY <1>1 DEF PostedOnce, InMemory
<1>4. PostedInTurn
  BY <1>1, <1>2 DEF PostedInTurn, Carried, Queued
<1> QED
  BY <1>1, <1>3, <1>4 DEF OnceInv

(* The steps that move an event into the channel or out of it. *)
LEMMA OfferOnce ==
  ASSUME WebhookInv, NEW e \in Events, Offer(e), client = "nil", PostedOnce
  PROVE  PostedOnce'
<1>1. /\ memory \in Seq(Events) /\ stage \in [Events -> {"idle", "publish", "done"}]
      /\ stage[e] = "idle" /\ stage' = [stage EXCEPT ![e] = "done"]
      /\ memory' = Append(memory, e) \/ memory' = memory
      /\ broker' = broker /\ inHand' = inHand /\ posts' = posts
  BY DEF Offer, WebhookInv, TypeOK
<1>2. posts[e] = 0 /\ ~InMemory(e)
  BY <1>1 DEF PostedOnce
<1>3. /\ \A d \in Events : InMemory(d)' => InMemory(d) \/ d = e
      /\ \A i, j \in DOMAIN memory' : memory'[i] = memory'[j] => i = j
  <2>1. CASE memory' = memory
    BY <2>1 DEF PostedOnce, InMemory
  <2>2. CASE memory' = Append(memory, e)
    <3>1. /\ DOMAIN memory = 1 .. Len(memory) /\ DOMAIN memory' = 1 .. Len(memory) + 1
          /\ memory'[Len(memory) + 1] = e
          /\ \A i \in 1 .. Len(memory) : memory'[i] = memory[i]
          /\ \A i \in 1 .. Len(memory) + 1 : i = Len(memory) + 1 \/ i \in 1 .. Len(memory)
      BY <1>1, <2>2
    <3>2. \A i \in 1 .. Len(memory) : memory[i] # e
      BY <1>2, <3>1 DEF InMemory
    <3> QED
      BY <3>1, <3>2 DEF PostedOnce, InMemory
  <2> QED
    BY <1>1, <2>1, <2>2
<1>4. ASSUME NEW d \in Events
      PROVE  /\ posts'[d] <= 1 /\ stage'[d] # "publish"
             /\ stage'[d] = "idle" => posts'[d] = 0 /\ ~InMemory(d)'
             /\ InMemory(d)' => posts'[d] = 0
  <2>1. stage'[d] = IF d = e THEN "done" ELSE stage[d]
    BY <1>1
  <2> QED
    BY <1>1, <1>2, <1>3, <2>1 DEF PostedOnce
<1> QED
  BY <1>1, <1>3, <1>4 DEF PostedOnce

LEMMA DrainOnce ==
  ASSUME WebhookInv, Drain, client = "nil", PostedOnce
  PROVE  PostedOnce'
<1> USE WebhookAssumption
<1> DEFINE e == Head(memory)
<1>1. /\ memory \in Seq(Events) /\ memory # <<>> /\ memory' = Tail(memory)
      /\ stage' = stage /\ broker' = broker /\ inHand' = inHand
      /\ posts \in [Events -> 0 .. MaxPosts]
      /\ posts' = [posts EXCEPT ![e] = IF @ < MaxPosts THEN @ + 1 ELSE @]
  BY DEF Drain, Post, WebhookInv, TypeOK
<1>2. /\ DOMAIN memory = 1 .. Len(memory) /\ Len(memory) \in Nat \ {0}
      /\ DOMAIN memory' = 1 .. Len(memory) - 1
      /\ e \in Events /\ e = memory[1]
      /\ \A i \in DOMAIN memory' : i + 1 \in DOMAIN memory /\ memory'[i] = memory[i + 1]
  BY <1>1
<1> HIDE DEF e
<1>3. InMemory(e)
  BY <1>2 DEF InMemory
<1>4. \A d : InMemory(d)' => InMemory(d) /\ d # e
  <2> SUFFICES ASSUME NEW i \in DOMAIN memory'
               PROVE  InMemory(memory'[i]) /\ memory'[i] # e
    BY DEF InMemory
  <2>1. i + 1 \in DOMAIN memory /\ 1 \in DOMAIN memory /\ i + 1 # 1
    BY <1>2
  <2> QED
    BY <1>2, <2>1 DEF PostedOnce, InMemory
<1>5. \A i, j \in DOMAIN memory' : memory'[i] = memory'[j] => i = j
  <2> SUFFICES ASSUME NEW i \in DOMAIN memory', NEW j \in DOMAIN memory',
                      memory'[i] = memory'[j]
               PROVE  i = j
    OBVIOUS
  <2>1. i + 1 = j + 1
    BY <1>2 DEF PostedOnce
  <2> QED
    BY <1>2, <2>1
<1>6. posts[e] = 0 /\ stage[e] # "idle"
  BY <1>2, <1>3 DEF PostedOnce
<1>7. posts'[e] = 1 /\ \A d \in Events \ {e} : posts'[d] = posts[d]
  BY <1>1, <1>2, <1>6
<1>8. ASSUME NEW d \in Events
      PROVE  /\ posts'[d] <= 1 /\ stage'[d] # "publish"
             /\ stage'[d] = "idle" => posts'[d] = 0 /\ ~InMemory(d)'
             /\ InMemory(d)' => posts'[d] = 0
  <2>1. CASE d = e
    BY <1>1, <1>4, <1>6, <1>7, <2>1 DEF PostedOnce
  <2>2. CASE d # e
    BY <1>1, <1>4, <1>7, <2>2 DEF PostedOnce
  <2> QED
    BY <2>1, <2>2
<1> QED
  BY <1>1, <1>5, <1>8 DEF PostedOnce

(* Steps that change neither the messages nor what was posted. *)
LEMMA TurnUntouched ==
  ASSUME PostedInTurn, UNCHANGED <<broker, inHand, step, posts, accepted>>,
         \A d \in Events : stage'[d] # "done" => stage[d] # "done"
  PROVE  PostedInTurn'
<1>1. Queue' = Queue /\ \A d : (Queued(d)' <=> Queued(d)) /\ (Carried(d)' <=> Carried(d))
  BY DEF Queue, Queued, Carried
<1>2. ApartEvents(broker')
  BY DEF PostedInTurn
<1> QED
  BY <1>1, <1>2 DEF PostedInTurn

LEMMA PublishOnce ==
  ASSUME WebhookInv, NEW e \in Events, Publish(e) \/ PublishFails(e), PostedInTurn
  PROVE  PostedInTurn'
<1> DEFINE m == Message(e, 0)
<1>1. /\ stage[e] = "publish" /\ stage' = [stage EXCEPT ![e] = "done"]
      /\ broker' = Append(broker, m) \/ broker' = broker
      /\ UNCHANGED <<inHand, step, posts, accepted>>
      /\ stage \in [Events -> {"idle", "publish", "done"}]
  BY DEF Publish, PublishFails, queues, WebhookInv, TypeOK
<1>2. \A d \in Events : stage'[d] # "done" => stage[d] # "done" /\ d # e
  BY <1>1
<1>3. CASE broker' = broker
  BY <1>1, <1>2, <1>3, TurnUntouched
<1>4. CASE broker' = Append(broker, m)
  <2>1. m \in Messages /\ m.event = e /\ m.retry = 0 /\ broker \in Seq(Messages)
    BY DEF Message, Messages, WebhookInv, TypeOK
  <2> HIDE DEF m
  <2>2. posts[e] = 0 /\ e \notin accepted /\ ~Carried(e)
    BY <1>1 DEF PostedInTurn
  <2>3. Queue' = Queue \cup {m}
    BY <1>4, <2>1, AppendElements DEF Queue
  <2>4. \A d : Queued(d)' => Queued(d) \/ d = e
    BY <2>1, <2>3 DEF Queued
  <2>5. ApartEvents(broker')
    <3>1. ApartEvents(broker) /\ \A n \in Elements(broker) : n.event # m.event
      BY <2>1, <2>2 DEF PostedInTurn, Carried, Queued, Queue
    <3>2. ApartEvents(Append(broker, m))
      BY <2>1, <3>1, AppendApart
    <3> QED
      BY <1>4, <3>2
  <2>6. \A d \in Events : /\ posts'[d] <= 4
                          /\ stage'[d] # "done" => posts'[d] = 0 /\ d \notin accepted' /\ ~Carried(d)'
    BY <1>1, <1>2, <2>4 DEF PostedInTurn, Carried
  <2>7. \A n \in Queue' : posts'[n.event] = n.retry /\ n.event \notin accepted'
    BY <1>1, <2>1, <2>2, <2>3 DEF PostedInTurn
  <2>8. step' \in {"post", "republish", "nack"} =>
          inHand'.event \notin accepted' /\ ~Queued(inHand.event)'
    <3>1. step \in {"post", "republish", "nack"} => inHand.event # e
      BY <2>2 DEF Carried, WebhookInv, ConsumerKnown
    <3> QED
      BY <1>1, <2>4, <3>1 DEF PostedInTurn
  <2> QED
    BY <1>1, <2>5, <2>6, <2>7, <2>8 DEF PostedInTurn
<1> QED
  BY <1>1, <1>3, <1>4

LEMMA ReceiveOnce ==
  ASSUME WebhookInv, Receive, PostedInTurn
  PROVE  PostedInTurn'
<1>1. /\ broker \in Seq(Messages) /\ broker # <<>> /\ inHand = Nothing
      /\ inHand' = Head(broker) /\ broker' = Tail(broker) /\ step' = "post"
      /\ UNCHANGED <<stage, posts, accepted>>
  BY DEF Receive, history, WebhookInv, TypeOK
<1>2. Queue = Queue' \cup {inHand'}
  BY <1>1, TailElements DEF Queue
<1>3. ApartEvents(broker') /\ ~Queued(inHand.event)'
  <2>1. ApartEvents(Tail(broker)) /\ \A m \in Elements(Tail(broker)) : m.event # Head(broker).event
    BY <1>1, TailApart DEF PostedInTurn
  <2> QED
    BY <1>1, <2>1 DEF Queued, Queue
<1>4. \A d : Carried(d)' => Carried(d)
  BY <1>2 DEF Carried, Queued
<1>5. /\ posts'[inHand'.event] = inHand'.retry /\ inHand'.event \notin accepted'
      /\ \A m \in Queue' : posts'[m.event] = m.retry /\ m.event \notin accepted'
  BY <1>1, <1>2 DEF PostedInTurn
<1> QED
  BY <1>1, <1>3, <1>4, <1>5 DEF PostedInTurn

LEMMA DeliverOnce ==
  ASSUME WebhookInv, Deliver, PostedInTurn
  PROVE  PostedInTurn'
<1> USE WebhookAssumption
<1> DEFINE e == inHand.event
<1>1. PICK ok \in BOOLEAN :
        /\ Post(e, ok)
        /\ step' = CASE ok -> "ack"
                     [] ~ok /\ LastTry(inHand.retry) -> "nack"
                     [] OTHER -> "republish"
  BY DEF Deliver
<1>2. /\ step = "post" /\ UNCHANGED <<broker, inHand, stage>>
      /\ inHand # Nothing /\ e \in Events /\ inHand.retry \in 0 .. 3
      /\ posts \in [Events -> 0 .. MaxPosts]
  BY DEF Deliver, WebhookInv, TypeOK, ConsumerKnown, Messages
<1>3. posts[e] = inHand.retry /\ e \notin accepted /\ ~Queued(e) /\ stage[e] = "done"
  BY <1>2 DEF PostedInTurn, Carried, WebhookInv, TypeOK
<1>4. posts'[e] = inHand.retry + 1 /\ \A d \in Events \ {e} : posts'[d] = posts[d]
  <2>1. posts' = [posts EXCEPT ![e] = IF @ < MaxPosts THEN @ + 1 ELSE @]
    BY <1>1 DEF Post
  <2>2. posts[e] < MaxPosts
    BY <1>2, <1>3
  <2> QED
    BY <1>2, <1>3, <2>1, <2>2
<1>5. accepted' = IF ok THEN accepted \cup {e} ELSE accepted
  BY <1>1 DEF Post
<1>6. Queue' = Queue /\ \A d : (Queued(d)' <=> Queued(d)) /\ (Carried(d)' <=> Carried(d))
  BY <1>2 DEF Queue, Queued, Carried
<1>7. ApartEvents(broker')
  BY <1>2 DEF PostedInTurn
<1>8. \A d \in Events : /\ posts'[d] <= 4
                        /\ stage'[d] # "done" => posts'[d] = 0 /\ d \notin accepted' /\ ~Carried(d)'
  <2> SUFFICES ASSUME NEW d \in Events
               PROVE  /\ posts'[d] <= 4
                      /\ stage'[d] # "done" => posts'[d] = 0 /\ d \notin accepted' /\ ~Carried(d)'
    OBVIOUS
  <2>1. CASE d = e
    BY <1>2, <1>3, <1>4, <2>1
  <2>2. CASE d # e
    BY <1>2, <1>4, <1>5, <1>6, <2>2 DEF PostedInTurn
  <2> QED
    BY <2>1, <2>2
<1>9. \A m \in Queue' : posts'[m.event] = m.retry /\ m.event \notin accepted'
  <2>1. Queue \subseteq Messages
    BY DEF Queue, Elements, WebhookInv, TypeOK
  <2>2. \A m \in Queue : m.event \in Events /\ m.event # e
    BY <1>3, <2>1 DEF Queued, Messages
  <2> QED
    BY <1>4, <1>5, <1>6, <2>2 DEF PostedInTurn
<1>10. step' \in {"ack", "nack", "republish"} /\ (step' # "ack" => e \notin accepted')
  BY <1>1, <1>3, <1>5
<1> QED
  BY <1>2, <1>3, <1>4, <1>6, <1>7, <1>8, <1>9, <1>10 DEF PostedInTurn

LEMMA RepublishOnce ==
  ASSUME WebhookInv, Republish, PostedInTurn
  PROVE  PostedInTurn'
<1> DEFINE m == Message(inHand.event, inHand.retry + 1)
<1>1. /\ step = "republish" /\ step' = "ack"
      /\ broker' = Append(broker, m) \/ broker' = broker
      /\ UNCHANGED <<inHand, stage, posts, accepted>>
  BY DEF Republish
<1>2. /\ inHand # Nothing /\ inHand.event \in Events /\ inHand.retry \in 0 .. 2
      /\ broker \in Seq(Messages)
  BY <1>1 DEF WebhookInv, TypeOK, ConsumerKnown, Messages, LastTry
<1>3. m \in Messages /\ m.event = inHand.event /\ m.retry = inHand.retry + 1
  BY <1>2 DEF Message, Messages
<1> HIDE DEF m
<1>4. posts[m.event] = m.retry /\ m.event \notin accepted /\ ~Queued(m.event)
  BY <1>1, <1>3 DEF PostedInTurn
<1>5. Queue' \subseteq Queue \cup {m}
  <2>1. Elements(Append(broker, m)) = Elements(broker) \cup {m}
    BY <1>2, <1>3, AppendElements
  <2> QED
    BY <1>1, <2>1 DEF Queue
<1>6. ApartEvents(broker')
  <2>1. \A n \in Elements(broker) : n.event # m.event
    BY <1>4 DEF Queued, Queue
  <2>2. ApartEvents(Append(broker, m))
    BY <1>2, <1>3, <2>1, AppendApart DEF PostedInTurn
  <2> QED
    BY <1>1, <2>2 DEF PostedInTurn
<1>7. \A d : Carried(d)' => Carried(d)
  BY <1>1, <1>2, <1>3, <1>5 DEF Carried, Queued
<1>8. \A n \in Queue' : posts'[n.event] = n.retry /\ n.event \notin accepted'
  BY <1>1, <1>4, <1>5 DEF PostedInTurn
<1> QED
  BY <1>1, <1>6, <1>7, <1>8 DEF PostedInTurn

LEMMA AckOnce ==
  ASSUME Ack \/ Nack, PostedInTurn
  PROVE  PostedInTurn'
<1>1. inHand' = Nothing /\ step' = "idle" /\ UNCHANGED <<broker, stage, posts, accepted>>
  BY DEF Ack, Nack, history
<1>2. Queue' = Queue /\ \A d : Carried(d)' => Carried(d)
  BY <1>1 DEF Queue, Queued, Carried
<1>3. ApartEvents(broker')
  BY <1>1 DEF PostedInTurn
<1> QED
  BY <1>1, <1>2, <1>3 DEF PostedInTurn

LEMMA OnceKeeps == WebhookInv /\ OnceInv /\ [Next]_vars => OnceInv'
<1> SUFFICES ASSUME WebhookInv, OnceInv, [Next]_vars, (crashes + disconnects = 0)'
             PROVE  /\ client' \in {"nil", "up"}
                    /\ client' = "nil" => PostedOnce'
                    /\ client' = "up" => PostedInTurn'
  BY DEF OnceInv
<1>1. ~Crash /\ ~Disconnect
  BY WebhookAssumption DEF Crash, Disconnect, WebhookInv, TypeOK
<1>2. CASE UNCHANGED vars \/ Quiet
  <2>1. UNCHANGED vars
    BY <1>2 DEF Quiet
  <2>2. UNCHANGED <<client, memory, broker, inHand, step, stage, posts, accepted, crashes,
                    disconnects>>
    BY <2>1 DEF vars, queues, history
  <2>3. PostedOnce => PostedOnce'
    BY <2>2 DEF PostedOnce, InMemory
  <2> QED
    BY <2>2, <2>3, TurnUntouched DEF OnceInv
<1>3. ASSUME NEW e \in Events, Offer(e) PROVE OnceInv'
  <2>1. UNCHANGED <<client, broker, inHand, step, posts, accepted, crashes, disconnects>>
    BY <1>3 DEF Offer
  <2>2. \A d \in Events : stage'[d] # "done" => stage[d] # "done"
    BY <1>3 DEF Offer, WebhookInv, TypeOK
  <2> QED
    BY <1>3, <2>1, <2>2, OfferOnce, TurnUntouched DEF OnceInv
<1>4. ASSUME NEW e \in Events, Publish(e) \/ PublishFails(e) PROVE OnceInv'
  <2>1. UNCHANGED <<client, crashes, disconnects>> /\ stage[e] = "publish"
    BY <1>4 DEF Publish, PublishFails
  <2>2. ~PostedOnce
    BY <2>1 DEF PostedOnce
  <2> QED
    BY <1>4, <2>1, <2>2, PublishOnce DEF OnceInv
<1>5. CASE Drain
  <2>1. /\ UNCHANGED <<client, broker, inHand, step, stage, crashes, disconnects>>
        /\ client # "nil" => UNCHANGED <<posts, accepted>>
    BY <1>5 DEF Drain
  <2> QED
    BY <1>5, <2>1, DrainOnce, TurnUntouched DEF OnceInv
<1>6. CASE ConsumerStep
  <2>1. UNCHANGED <<client, crashes, disconnects>>
    BY <1>6 DEF ConsumerStep, Receive, Deliver, Republish, Ack, Nack
  <2>2. ~PostedOnce
    BY <1>6 DEF PostedOnce, ConsumerStep, Receive, Deliver, Republish, Ack, Nack,
                WebhookInv, ConsumerKnown
  <2> QED
    BY <1>6, <2>1, <2>2, ReceiveOnce, DeliverOnce, RepublishOnce, AckOnce
    DEF OnceInv, ConsumerStep
<1> QED
  BY <1>1, <1>2, <1>3, <1>4, <1>5, <1>6 DEF Next, OnceInv

(* While the server and its connection last, the merchant is not sent an event
   again that it accepted, and no event more than four times: the messages of
   the queue are of different events, and each counts the posts of its event. *)
THEOREM DeliveredOnce == Spec => []OnceAccepted
<1>1. WebhookInv /\ OnceInv => OnceAccepted
  <2> SUFFICES ASSUME WebhookInv, OnceInv, crashes + disconnects = 0
               PROVE  /\ \A e \in Events : posts[e] <= 4
                      /\ \A e \in accepted : ~InFlight(e) \/ (inHand # Nothing /\ inHand.event = e /\ step = "ack")
    BY DEF OnceAccepted
  <2>1. CASE PostedOnce
    <3>1. \A e : ~InFlight(e)
      BY <2>1 DEF PostedOnce, InFlight
    <3>2. \A e \in Events : posts[e] \in Nat /\ posts[e] <= 1
      BY <2>1, WebhookAssumption DEF PostedOnce, WebhookInv, TypeOK
    <3> QED
      BY <3>1, <3>2
  <2>2. CASE PostedInTurn
    <3> SUFFICES ASSUME NEW e \in accepted, InFlight(e)
                 PROVE  inHand # Nothing /\ inHand.event = e /\ step = "ack"
      BY <2>2 DEF PostedInTurn
    <3>1. ~Queued(e)
      BY <2>2 DEF PostedInTurn, Queued
    <3>2. inHand # Nothing /\ inHand.event = e
      BY <3>1, InFlightIs
    <3>3. step \in {"post", "republish", "ack", "nack"}
      BY <3>2 DEF WebhookInv, TypeOK, ConsumerKnown
    <3> QED
      BY <2>2, <3>2, <3>3 DEF PostedInTurn
  <2> QED
    BY <2>1, <2>2 DEF OnceInv
<1> QED
  BY <1>1, InitOnce, OnceKeeps, WebhookInvHolds, PTL DEF Spec
=============================================================================
