SPECIFICATION RecordedSpec
CONSTANTS
  alice = alice
  bob = bob
  w1 = w1
  w2 = w2
  foodeli = foodeli
  kiosk = kiosk
  k1 = k1
  Users <- UsersMC
  Currencies <- CurrenciesMC
  Wallets <- WalletsMC
  WalletRow <- WalletRowMC
  Merchants <- MerchantsMC
  MerchantRow <- MerchantRowMC
  Seedings <- SeedingsMC
  MaxInt = 524287
  NoOne = NoOne
  NoKey = NoKey
  Keys = {k1}
  Today <- TodayMC
  PaymentCards <- PaymentCardsMC
  ChargeInputs <- ChargeInputsMC
  Charges = {c1, c2}
  MaxCrashes = 1
  Drawn <- DrawnMC
SYMMETRY Symmetric
INVARIANTS TypeOK LedgerBalanced AccountsMatchLedger SuccessMeansSettled OrderlyKeysWork CardNumbersSound
