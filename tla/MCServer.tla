------------------------------ MODULE MCServer ------------------------------
(* Two registrations of one email, that of the seeded demo user, and a login;
   three streams of one user, a notice and an event for the user, and an event
   that cannot be read; a channel with room for one message. *)
EXTENDS Server, TLC

CONSTANTS s1, s2, s3, r1, r2, r3, n1, e1, e2, alice

ViewerMC == [s \in Streams |-> alice]
RecipientMC == [m \in Messages |-> IF m = e2 THEN Nobody ELSE alice]
FormMC ==
  r1 :> [kind |-> "register", email |-> "demo", password |-> "p1"] @@
  r2 :> [kind |-> "register", email |-> "demo", password |-> "p2"] @@
  r3 :> [kind |-> "login", email |-> "demo", password |-> "p2"]
DemoCurrenciesMC == <<"TRY", "USD">>

(* The three parts share the start and the stop of the process and the table
   of users, so each is explored against those and not against the others:
   requests and streams against a database no start has seeded, and a third
   stream without RabbitMQ.  The streams are alike and register in the order
   of their names.  No step that fairness is stated for leaves a part. *)
NoRequests == \A r \in Requests : turn[r] = "new"
NoMessages == waiting = Notices /\ published = {}
New(s) == channel[s] = "none"
NoStreams == \A s \in Streams : New(s)
InOrder == (New(s1) => New(s2)) /\ (New(s2) => New(s3))
Unseeded == db \in [tables : BOOLEAN, wallets : {<<>>}, cards : {<<>>}, accounts : {{}},
                    merchant : {0}, keys : {{}}]
Starts == NoRequests /\ NoStreams /\ NoMessages /\ ~redis /\ link = "nil"
Notifies ==
  /\ NoRequests /\ Unseeded /\ env = "production" /\ ~redis
  /\ InOrder /\ (New(s3) \/ (link = "nil" /\ ~bound))
Answers == NoStreams /\ NoMessages /\ Unseeded /\ link = "nil"
OnePart == Starts \/ Notifies \/ Answers
=============================================================================
