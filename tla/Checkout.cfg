SPECIFICATION Spec
CONSTANTS
  alice = alice
  bob = bob
  w1 = w1
  w2 = w2
  foodeli = foodeli
  kiosk = kiosk
  s1 = s1
  s2 = s2
  Users <- UsersMC
  Currencies <- CurrenciesMC
  Wallets <- WalletsMC
  WalletRow <- WalletRowMC
  Merchants <- MerchantsMC
  MerchantRow <- MerchantRowMC
  Seedings <- SeedingsMC
  MaxInt = 16383
  NoOne = NoOne
  Sessions = {s1, s2}
  SessionInputs <- SessionInputsMC
  Payments = {p1, p2}
  PayInputs <- PayInputsMC
  MaxCrashes = 1
  NoTx = NoTx
SYMMETRY Symmetric
INVARIANTS TypeOK PaymentsSettled SuccessMeansPaid ChecksHoldAtCommit
PROPERTIES PaidIsFinal
