------------------------------- MODULE Startup -------------------------------
(***************************************************************************)
(* The start of the server against a database that outlives it: Connect    *)
(* repairs old rows, and main ensures the gateway tables and, outside      *)
(* production, a demo user and a merchant, row after row, without a        *)
(* transaction.  Each row is looked for and inserted if it was not found;  *)
(* an error of either is logged at most.  Between two starts users spend,  *)
(* delete and close what was seeded.                                       *)
(***************************************************************************)
EXTENDS Users, Sequences, Functions

CONSTANTS
  DemoCurrencies,  \* the currencies of the demo user's wallets, in their order
  Seeded,          \* the password of a seeded user
  MaxEdits         \* bound: what users do to seeded rows

ASSUME StartupAssumption ==
  /\ DemoCurrencies \in Seq({"TRY", "USD", "EUR"})
  /\ Seeded \in Passwords /\ {"demo", "foodeli"} \subseteq Emails
  /\ MaxEdits \in Nat

VARIABLES
  db,        \* the tables below
  phase,     \* "down", "starting" or "serving"
  env,       \* the value of ENV at the start
  todo,      \* the rows the start has still to ensure
  held,      \* the wallet ID it works with, 0 for one without a row
  warned,    \* a statement of this start has failed
  misread,   \* history: a row was not found by a look-up that failed
  edits

startupVars == <<db, phase, env, todo, held, warned, misread, edits>>

(* Wallets and cards are numbered in the order of their insertion; merchant is
   the settlement wallet of the merchant's row, 0 if there is none. *)
EmptyDB == [tables |-> FALSE, wallets |-> <<>>, cards |-> <<>>, accounts |-> {},
            merchant |-> 0, keys |-> {}]

Wallet(owner, currency) ==
  [owner |-> owner, currency |-> currency, open |-> TRUE, funded |-> owner = "demo"]
Card(wallet) == [wallet |-> wallet, open |-> TRUE, encrypted |-> TRUE]

(* A database from before cards were encrypted. *)
OldDB == [EmptyDB EXCEPT !.wallets = <<Wallet("demo", "TRY")>>,
                         !.cards = <<[Card(1) EXCEPT !.encrypted = FALSE]>>]

StartupInit ==
  /\ \/ db = EmptyDB /\ UsersInit
     \/ /\ db = OldDB
        /\ users = [e \in Emails |-> IF e = "demo" THEN Seeded ELSE NoUser]
        /\ told = [r \in Requests |-> "nothing"]
  /\ phase = "down" /\ env = "production" /\ todo = <<>> /\ held = 0
  /\ warned = FALSE /\ misread = FALSE /\ edits = 0

-----------------------------------------------------------------------------
(* The rows in their order. *)

Row(kind, key) == [kind |-> kind, key |-> key]

DemoRows ==
  <<Row("user", "demo")>>
    \o [i \in DOMAIN DemoCurrencies |-> Row("wallet", DemoCurrencies[i])]
    \o <<Row("card", "demo")>>

Tables == Row("tables", "gateway")

GatewayRows ==
  <<Tables, Row("account", "clearing"), Row("account", "fee"), Row("user", "foodeli"),
    Row("settlement", "TRY"), Row("merchant", "foodeli"), Row("key", "live"),
    Row("key", "test")>>

AfterDemo == SubSeq(todo, Len(todo) - Len(GatewayRows) + 1, Len(todo))

Belongs(i, owner, currency) ==
  db.wallets[i].owner = owner /\ db.wallets[i].currency = currency

(* Mutation: a wallet is inserted without looking for it. *)
NoWallets(owner, currency) == {}

OpenWallets(owner, currency) ==
  {i \in DOMAIN db.wallets : db.wallets[i].open /\ Belongs(i, owner, currency)}

OpenCards(wallet) == {i \in DOMAIN db.cards : db.cards[i].open /\ db.cards[i].wallet = wallet}

Once(condition) == IF condition THEN {1} ELSE {}

(* What ensuring a row comes to: the IDs a look-up finds, whether the INSERT
   passes the constraints, the tables after it, and what is left to ensure
   when it fails. *)
Plan(found, accepted, new, otherwise) ==
  [found |-> found, accepted |-> accepted, new |-> new, otherwise |-> otherwise]

PlanOf(row) ==
  CASE row.kind = "user" ->
         Plan(Once(Registered(row.key)), ~Registered(row.key), db,
              IF row.key = "demo" THEN AfterDemo ELSE <<>>)
    [] row.kind = "wallet" ->
         Plan(OpenWallets("demo", row.key), TRUE,
              [db EXCEPT !.wallets = Append(@, Wallet("demo", row.key))], Tail(todo))
    [] row.kind = "card" ->
         Plan(OpenCards(held), held # 0,
              [db EXCEPT !.cards = Append(@, Card(held))], Tail(todo))
    [] row.kind = "tables" ->
         Plan({}, TRUE, [db EXCEPT !.tables = TRUE], Tail(todo))
    [] row.kind = "account" ->
         Plan(Once(row.key \in db.accounts), db.tables /\ row.key \notin db.accounts,
              [db EXCEPT !.accounts = @ \cup {row.key}], Tail(todo))
    [] row.kind = "settlement" ->
         Plan(OpenWallets("foodeli", "TRY"), TRUE,
              [db EXCEPT !.wallets = Append(@, Wallet("foodeli", "TRY"))], <<>>)
    [] row.kind = "merchant" ->
         Plan(Once(db.merchant # 0), db.tables /\ db.merchant = 0,
              [db EXCEPT !.merchant = held], <<>>)
    [] row.kind = "key" ->
         Plan(Once(row.key \in db.keys), db.tables /\ row.key \notin db.keys,
              [db EXCEPT !.keys = @ \cup {row.key}], Tail(todo))

(* The ID of the TRY wallet and of the settlement wallet is kept. *)
Hold(row, id) ==
  held' = IF row.key = "TRY" THEN id ELSE held

Keep(row) == todo' = Tail(todo) /\ UNCHANGED <<db, users, warned>>

Insert(row, plan, rest) ==
  /\ plan.accepted
  /\ db' = plan.new
  /\ users' = IF row.kind = "user" THEN [users EXCEPT ![row.key] = Seeded] ELSE users
  /\ Hold(row, Len(db'.wallets))
  /\ todo' = rest

GiveUp(row, plan) ==
  /\ Hold(row, 0)
  /\ warned' = TRUE /\ todo' = plan.otherwise
  /\ UNCHANGED <<db, users>>

Starting == phase = "starting" /\ todo # <<>>

(* The statements do what they can. *)
EnsureRow ==
  /\ Starting
  /\ LET row == Head(todo)
         plan == PlanOf(row)
     IN  \/ \E id \in plan.found : Hold(row, id) /\ Keep(row)
         \/ plan.found = {} /\ Insert(row, plan, Tail(todo)) /\ UNCHANGED warned
         \/ plan.found = {} /\ ~plan.accepted /\ GiveUp(row, plan)
  /\ UNCHANGED <<phase, env, misread, edits>>

(* The look-up fails and the row is inserted, or the INSERT fails, and may have
   been executed all the same. *)
EnsureRowFails ==
  /\ Starting
  /\ LET row == Head(todo)
         plan == PlanOf(row)
     IN  \/ /\ \E rest \in {Tail(todo), plan.otherwise} : Insert(row, plan, rest)
            /\ warned' = TRUE
            /\ misread' = (misread \/ plan.found # {})
         \/ GiveUp(row, plan) /\ UNCHANGED misread
  /\ UNCHANGED <<phase, env, edits>>

-----------------------------------------------------------------------------
(* Connect, up to the deletion of the cards that are not encrypted. *)

(* A deleted card is not open any more; its number is not given again. *)
Encrypted(cards) ==
  [i \in DOMAIN cards |->
     IF cards[i].encrypted THEN cards[i] ELSE [cards[i] EXCEPT !.open = FALSE]]

RowsToEnsure(e) == IF e = "production" THEN <<Tables>> ELSE DemoRows \o GatewayRows

Boot(e) ==
  /\ phase = "down"
  /\ phase' = "starting" /\ env' = e
  /\ todo' = RowsToEnsure(e)
  /\ db' = [db EXCEPT !.cards = Encrypted(@)]
  /\ held' = 0 /\ warned' = FALSE
  /\ UNCHANGED <<misread, edits>>

(* The DELETE fails, which is logged. *)
BootUnrepaired(e) ==
  /\ phase = "down"
  /\ phase' = "starting" /\ env' = e
  /\ todo' = RowsToEnsure(e)
  /\ held' = 0 /\ warned' = TRUE
  /\ UNCHANGED <<db, misread, edits>>

Serve ==
  /\ phase = "starting" /\ todo = <<>>
  /\ phase' = "serving"
  /\ UNCHANGED <<db, env, todo, held, warned, misread, edits>>

Stop ==
  /\ phase # "down"
  /\ phase' = "down" /\ todo' = <<>> /\ held' = 0
  /\ UNCHANGED <<db, env, warned, misread, edits>>

-----------------------------------------------------------------------------
(* What users do to the rows: spend a balance, delete an empty wallet, close
   a card. *)

Edit ==
  /\ phase = "serving" /\ edits < MaxEdits
  /\ edits' = edits + 1
  /\ \/ \E i \in DOMAIN db.wallets :
          /\ db.wallets[i].open
          /\ db' = IF db.wallets[i].funded THEN [db EXCEPT !.wallets[i].funded = FALSE]
                                           ELSE [db EXCEPT !.wallets[i].open = FALSE]
     \/ \E i \in DOMAIN db.cards :
          db.cards[i].open /\ db' = [db EXCEPT !.cards[i].open = FALSE]
  /\ UNCHANGED <<phase, env, todo, held, warned, misread>>

-----------------------------------------------------------------------------
(* Properties. *)

StartupTypeOK ==
  /\ db.tables \in BOOLEAN
  /\ db.wallets \in Seq([owner : {"demo", "foodeli"}, currency : {"TRY", "USD", "EUR"},
                         open : BOOLEAN, funded : BOOLEAN])
  /\ db.cards \in Seq([wallet : DOMAIN db.wallets, open : BOOLEAN, encrypted : BOOLEAN])
  /\ db.accounts \subseteq {"clearing", "fee"}
  /\ db.merchant \in DOMAIN db.wallets \cup {0}
  /\ db.keys \subseteq {"live", "test"}
  /\ phase \in {"down", "starting", "serving"} /\ env \in {"production", "development"}
  /\ held \in DOMAIN db.wallets \cup {0}
  /\ {warned, misread} \subseteq BOOLEAN /\ edits \in 0 .. MaxEdits

Open == {w \in DOMAIN db.wallets : db.wallets[w].open}

(* A demonstration serves when all its rows are there, whatever earlier starts
   broke off or users deleted, unless a statement of this start failed. *)
SeedsInPlace ==
  (phase = "starting" /\ todo = <<>> /\ env = "development" /\ ~warned) =>
    /\ Registered("demo") /\ Registered("foodeli")
    /\ \A c \in Range(DemoCurrencies) : \E w \in Open : Belongs(w, "demo", c)
    /\ \E w \in Open : \E i \in OpenCards(w) :
         Belongs(w, "demo", "TRY") /\ db.cards[i].encrypted
    /\ db.tables /\ db.accounts = {"clearing", "fee"}
    /\ db.merchant # 0 /\ db.keys = {"live", "test"}

(* No start gives an owner a second open wallet in a currency, or a wallet a
   second open card, unless a look-up failed; an API key has a merchant, and a
   merchant a wallet of its owner's to be paid into. *)
SeededOnce ==
  /\ ~misread =>
       /\ \A v, w \in Open :
            Belongs(v, db.wallets[w].owner, db.wallets[w].currency) => v = w
       /\ \A i \in DOMAIN db.wallets : Cardinality(OpenCards(i)) <= 1
  /\ db.keys # {} => db.merchant # 0
  /\ db.merchant # 0 => Belongs(db.merchant, "foodeli", "TRY")

SeedsHold == SeedsInPlace /\ SeededOnce
=============================================================================
