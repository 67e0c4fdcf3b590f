------------------------------- MODULE Server -------------------------------
(***************************************************************************)
(* The process around the payments, as main sets it up: it connects to the *)
(* database, to Redis and to RabbitMQ, starts the consumer, seeds, and then*)
(* serves registrations, logins and notification streams.  It may stop at  *)
(* any point; the database, the counters in Redis and the queue outlive it.*)
(***************************************************************************)
EXTENDS Startup, Notifications

CONSTANTS
  Environments,   \* the values of ENV
  MaxFaults       \* bound on failing calls, lost connections and stops

ASSUME ServerAssumption ==
  Environments \subseteq {"production", "development"} /\ MaxFaults \in Nat

VARIABLE faults

vars == <<startupVars, usersVars, limiterVars, notificationVars, faults>>

Init == LimiterInit /\ StartupInit /\ NotificationsInit /\ faults = 0

Works == UNCHANGED faults
Fails == faults < MaxFaults /\ faults' = faults + 1

(* Without PostgreSQL there is no start; without Redis nothing is limited, and
   without RabbitMQ nothing consumed. *)
StartServer ==
  /\ \E e \in Environments : (Boot(e) /\ Works) \/ (BootUnrepaired(e) /\ Fails)
  /\ redis' \in BOOLEAN
  /\ Connect \/ UNCHANGED notificationVars
  /\ UNCHANGED <<usersVars, turn, counterVars>>

Seed ==
  /\ (EnsureRow /\ Works) \/ (EnsureRowFails /\ Fails)
  /\ UNCHANGED <<told, limiterVars, notificationVars>>

(* The router accepts requests once everything is seeded. *)
Listen ==
  /\ Serve
  /\ UNCHANGED <<usersVars, limiterVars, notificationVars, faults>>

UserEdits == Edit /\ UNCHANGED <<usersVars, limiterVars, notificationVars, faults>>

HandleRequest(r) ==
  /\ phase = "serving"
  /\ (RequestStep(r) /\ Works) \/ (RequestFault(r) /\ Fails)
  /\ UNCHANGED <<startupVars, notificationVars>>

EndWindow == WindowEnds /\ UNCHANGED <<startupVars, usersVars, notificationVars, faults>>

NotificationStep ==
  /\ \/ /\ phase = "serving"
        /\ \/ \E s \in Streams : Register(s) \/ Leave(s) \/ StreamStep(s)
           \/ \E n \in Notices : NotifyUser(n)
     \/ SendEmail
     \/ \E e \in Events : PublishEvent(e)
     \/ ConsumerStep
  /\ UNCHANGED <<startupVars, usersVars, limiterVars, faults>>

LoseRabbitMQ ==
  /\ LoseLink /\ Fails
  /\ UNCHANGED <<startupVars, usersVars, limiterVars>>

Crash ==
  /\ Stop /\ LimiterStop /\ StopNotifications /\ Fails
  /\ UNCHANGED usersVars

(* Every request has been answered and every stream has ended. *)
Quiet ==
  /\ phase = "serving" /\ \A r \in Requests : turn[r] = "done"
  /\ serving = {} /\ emails = 0 /\ inHand = Nothing /\ (consuming => queue = <<>>)
  /\ UNCHANGED vars

Next ==
  \/ StartServer \/ Seed \/ Listen \/ UserEdits
  \/ \E r \in Requests : HandleRequest(r)
  \/ EndWindow
  \/ NotificationStep
  \/ LoseRabbitMQ \/ Crash
  \/ Quiet

Spec == Init /\ [][Next]_vars

(* The goroutines of the streams and of the consumer run, a request goes on to
   its next call, and time passes in Redis. *)
Fairness ==
  LET others == <<startupVars, usersVars, limiterVars, faults>>
  IN  /\ \A s \in Streams : WF_vars(StreamStep(s) /\ UNCHANGED others)
      /\ WF_vars(ConsumerStep /\ UNCHANGED others)
      /\ \A r \in Requests :
           WF_vars(Expire(r) /\ UNCHANGED <<startupVars, usersVars, notificationVars, faults>>)
      /\ WF_vars(EndWindow)

FairSpec == Spec /\ Fairness

-----------------------------------------------------------------------------
(* Properties. *)

(* Type correctness of all the process keeps and of all it leaves behind. *)
TypeOK ==
  UsersTypeOK /\ StartupTypeOK /\ NotificationsTypeOK /\ faults \in 0 .. MaxFaults

(* What registers through the limiter: no more requests than the limit pass on
   a counter, and what users are told of their accounts stays true. *)
AccessHolds == WithinLimit /\ AccountsAreTheirs

Unfinished == CutOff \/ Undelivered \/ Counting

(* What must happen in the end: a stream that was cut off ends, an event is
   forwarded while the consumer runs, and a counter goes away, unless the call
   that gives it its expiry was lost.  (Streams, events and requests are
   finitely many, so each of it happens if and only if all of it does.) *)
EndsInTime == Unfinished ~> ~Unfinished
=============================================================================
