SPECIFICATION FairSpec
CONSTANTS
  alice = alice
  bob = bob
  w1 = w1
  w2 = w2
  w3 = w3
  foodeli = foodeli
  kiosk = kiosk
  s1 = s1
  s2 = s2
  v1 = v1
  Users <- UsersMC
  Currencies <- CurrenciesMC
  Wallets <- WalletsMC
  WalletRow <- WalletRowMC
  Merchants <- MerchantsMC
  MerchantRow <- MerchantRowMC
  Seedings <- SeedingsMC
  MaxInt = 1000000
  NoOne = NoOne
  NoKey = NoKey
  NoTx = NoTx
  Keys = {k1}
  Sessions = {s1, s2}
  SessionInputs <- SessionInputsMC
  Payments = {p1, p2}
  PayInputs <- PayInputsMC
  Charges = {c1}
  Today <- TodayMC
  PaymentCards <- PaymentCardsMC
  ChargeInputs <- ChargeInputsMC
  Cards = {v1}
  CardInputs <- CardInputsMC
  CardPayments = {q1}
  CardPayInputs <- CardPayInputsMC
  MaxCrashes = 1
CONSTRAINT OnePart
INVARIANTS MoneySafe
PROPERTIES RequestsAnswered
