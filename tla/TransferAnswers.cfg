SPECIFICATION FairSpec
CONSTANTS
  alice = alice
  bob = bob
  k1 = k1
  k2 = k2
  k3 = k3
  NoKey = NoKey
  MaxInt = 1000
  Significand = 100000
  NoOne = NoOne
  Users <- UsersMC
  Keys <- KeysRing
  Amounts <- AmountsMC
  Deletions <- DeletionsRing
  Openings <- OpeningsMC
  Inputs <- InputsRing
  Transfers = {t1, t2}
  Deletes = {d1}
  MaxWallet = 3
  SeedCount = 3
  SeedWallet <- SeedRing
  QueueCap = 1
  WebhookURLSet = FALSE
  MaxCrashes = 1
PROPERTIES
  RequestsAnswered
INVARIANTS
  WaitChainsAscend

