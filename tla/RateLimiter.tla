----------------------------- MODULE RateLimiter -----------------------------
(***************************************************************************)
(* RedisRateLimiter.Limit for the requests of one address: a counter that  *)
(* INCR creates and increments, and an expiry that a second call gives it. *)
(* Redis (external) executes one command at a time, keeps the counter when *)
(* the server stops, and removes it when its expiry passes.                *)
(***************************************************************************)
EXTENDS Naturals, FiniteSets

CONSTANTS Requests, Limit

ASSUME LimiterAssumption == Limit \in Nat \ {0} /\ IsFiniteSet(Requests)

VARIABLES
  redis,     \* the server has a client: Redis answered when it started
  count,     \* the value of the counter, 0 while its key does not exist
  expires,   \* the key has an expiry
  turn,      \* turn[r]: where request r is
  admitted,  \* history: the requests this counter has let pass
  endless    \* history: the call that gives this counter its expiry was lost

counterVars == <<count, expires, admitted, endless>>
limiterVars == <<redis, turn, counterVars>>

LimiterInit ==
  /\ redis = FALSE
  /\ count = 0 /\ expires = FALSE
  /\ turn = [r \in Requests |-> "new"]
  /\ admitted = {} /\ endless = FALSE

Go(r, where) == turn' = [turn EXCEPT ![r] = where]

Admits(n) == n <= Limit

(* Without a client nothing is limited. *)
Unlimited(r) ==
  /\ turn[r] = "new" /\ ~redis
  /\ Go(r, "passed")
  /\ UNCHANGED <<redis, counterVars>>

(* Mutation: the expiry is set only when the limit is reached. *)
IncrExpiringAtLimit(r) ==
  /\ turn[r] = "new" /\ redis
  /\ count' = count + 1
  /\ admitted' = IF Admits(count') THEN admitted \cup {r} ELSE admitted
  /\ Go(r, IF count' = Limit THEN "expire" ELSE IF Admits(count') THEN "passed" ELSE "refused")
  /\ UNCHANGED <<redis, expires, endless>>

(* The first request of a counter goes on to set its expiry. *)
Incr(r) ==
  /\ turn[r] = "new" /\ redis
  /\ count' = count + 1
  /\ admitted' = IF Admits(count') THEN admitted \cup {r} ELSE admitted
  /\ Go(r, IF count' = 1 THEN "expire" ELSE IF Admits(count') THEN "passed" ELSE "refused")
  /\ UNCHANGED <<redis, expires, endless>>

(* INCR returns an error, which lets the request pass; it may have been
   executed all the same. *)
IncrFails(r) ==
  /\ turn[r] = "new" /\ redis
  /\ \/ UNCHANGED <<count, endless>>
     \/ count' = count + 1 /\ endless' = (endless \/ count = 0)
  /\ Go(r, "passed")
  /\ UNCHANGED <<redis, expires, admitted>>

Expire(r) ==
  /\ turn[r] = "expire"
  /\ expires' = TRUE
  /\ Go(r, "passed")
  /\ UNCHANGED <<redis, count, admitted, endless>>

(* Its error is not looked at. *)
ExpireFails(r) ==
  /\ turn[r] = "expire"
  /\ \/ expires' = TRUE /\ UNCHANGED endless
     \/ endless' = TRUE /\ UNCHANGED expires
  /\ Go(r, "passed")
  /\ UNCHANGED <<redis, count, admitted>>

WindowEnds ==
  /\ expires
  /\ count' = 0 /\ expires' = FALSE
  /\ admitted' = {} /\ endless' = FALSE
  /\ UNCHANGED <<redis, turn>>

(* The server stops with its requests. *)
LimiterStop ==
  /\ endless' = (endless \/ \E r \in Requests : turn[r] = "expire")
  /\ turn' = [r \in Requests |-> IF turn[r] = "new" THEN "new" ELSE "done"]
  /\ UNCHANGED <<redis, count, expires, admitted>>

-----------------------------------------------------------------------------
(* Properties. *)

(* No more than Limit requests pass on one counter. *)
WithinLimit == Cardinality(admitted) <= Limit

(* A counter that exists and must go away: the call that gives it its expiry
   was not lost.  Otherwise its address is refused for ever. *)
Counting == count > 0 /\ ~endless
=============================================================================
