SPECIFICATION Spec
CONSTANTS
  alice = alice
  bob = bob
  k1 = k1
  k2 = k2
  k3 = k3
  NoKey = NoKey
  MaxInt = 46
  Significand = 504
  NoOne = NoOne
  Users <- UsersMC
  Keys <- KeysMC
  Amounts <- AmountsMC
  Deletions <- DeletionsMC
  Openings <- OpeningsMC
  Inputs <- InputsMC
  Transfers = {t1, t2}
  Deletes = {d1}
  MaxWallet = 4
  SeedCount = 3
  SeedWallet <- SeedMC
  QueueCap = 1
  WebhookURLSet = TRUE
  MaxCrashes = 1
INVARIANT OneWalletPerCurrency
