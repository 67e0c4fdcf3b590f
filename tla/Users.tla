------------------------------- MODULE Users -------------------------------
(***************************************************************************)
(* Registration and login, behind the rate limiter of their routes.  The   *)
(* email is looked up before the row is inserted, and what decides between *)
(* two registrations is the UNIQUE constraint on it.                       *)
(***************************************************************************)
EXTENDS RateLimiter

CONSTANTS
  Emails,
  Passwords,
  Form,      \* Form[r]: [kind, email, password] of request r
  NoUser

ASSUME UsersAssumption ==
  /\ Form \in [Requests -> [kind : {"register", "login"}, email : Emails,
                            password : Passwords]]
  /\ NoUser \notin Passwords

VARIABLES
  users,     \* users[e]: the password of the row with email e, or NoUser
  told       \* told[r]: the response to r, or "nothing"

usersVars == <<users, told>>

UsersInit ==
  /\ users = [e \in Emails |-> NoUser]
  /\ told = [r \in Requests |-> "nothing"]

Email(r) == Form[r].email
Registered(e) == users[e] # NoUser

Tell(r, response) ==
  /\ Go(r, "done")
  /\ told' = [told EXCEPT ![r] = response]
  /\ UNCHANGED <<redis, counterVars>>

Refuse(r) == turn[r] = "refused" /\ Tell(r, "too many requests") /\ UNCHANGED users

(* UserService.Register up to the INSERT: a failing look-up counts as no user. *)
CheckEmail(r) ==
  /\ turn[r] = "passed" /\ Form[r].kind = "register"
  /\ \/ Registered(Email(r)) /\ Tell(r, "exists")
     \/ ~Registered(Email(r)) /\ Go(r, "insert") /\ UNCHANGED <<redis, counterVars, told>>
  /\ UNCHANGED users

CheckEmailFails(r) ==
  /\ turn[r] = "passed" /\ Form[r].kind = "register"
  /\ Go(r, "insert")
  /\ UNCHANGED <<redis, counterVars, usersVars>>

Store(r) == users' = [users EXCEPT ![Email(r)] = Form[r].password]

(* Mutation: no UNIQUE constraint on the email. *)
InsertUserAnyway(r) ==
  /\ turn[r] = "insert"
  /\ Store(r) /\ Tell(r, "created")

InsertUser(r) ==
  /\ turn[r] = "insert"
  /\ \/ ~Registered(Email(r)) /\ Store(r) /\ Tell(r, "created")
     \/ Registered(Email(r)) /\ UNCHANGED users /\ Tell(r, "error")

(* The INSERT returns an error; it may have been executed all the same. *)
InsertUserFails(r) ==
  /\ turn[r] = "insert"
  /\ \/ UNCHANGED users
     \/ ~Registered(Email(r)) /\ Store(r)
  /\ Tell(r, "error")

(* UserService.Login: the response carries a token for the user. *)
Login(r) ==
  /\ turn[r] = "passed" /\ Form[r].kind = "login"
  /\ Tell(r, IF users[Email(r)] = Form[r].password THEN "welcome" ELSE "invalid")
  /\ UNCHANGED users

LoginFails(r) ==
  /\ turn[r] = "passed" /\ Form[r].kind = "login"
  /\ Tell(r, "invalid")
  /\ UNCHANGED users

RequestStep(r) ==
  \/ (Unlimited(r) \/ Incr(r) \/ Expire(r)) /\ UNCHANGED usersVars
  \/ Refuse(r) \/ CheckEmail(r) \/ InsertUser(r) \/ Login(r)

RequestFault(r) ==
  \/ (IncrFails(r) \/ ExpireFails(r)) /\ UNCHANGED usersVars
  \/ CheckEmailFails(r) \/ InsertUserFails(r) \/ LoginFails(r)

-----------------------------------------------------------------------------
(* Properties. *)

UsersTypeOK ==
  /\ redis \in BOOLEAN /\ count \in 0 .. Cardinality(Requests) /\ expires \in BOOLEAN
  /\ turn \in [Requests -> {"new", "expire", "passed", "refused", "insert", "done"}]
  /\ admitted \subseteq Requests /\ endless \in BOOLEAN
  /\ users \in [Emails -> Passwords \cup {NoUser}]
  /\ told \in [Requests -> {"nothing", "too many requests", "created", "exists",
                            "error", "welcome", "invalid"}]

(* Whoever is told that an account was created, or is welcomed, has the
   password of the account, for good; one email is created once. *)
AccountsAreTheirs ==
  /\ \A r \in Requests :
       told[r] \in {"created", "welcome"} => users[Email(r)] = Form[r].password
  /\ \A r, s \in Requests :
       (told[r] = "created" /\ told[s] = "created" /\ Email(r) = Email(s)) => r = s
=============================================================================
