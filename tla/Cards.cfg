SPECIFICATION FairSpec
CONSTANTS
  alice = alice
  w1 = w1
  w2 = w2
  c1 = c1
  c2 = c2
  Users <- UsersMC
  Wallets <- WalletsMC
  Opening <- OpeningMC
  Cards = {c1, c2}
  CardInputs <- CardInputsMC
  Payments = {p1, p2}
  PayInputs <- PayInputsMC
  MaxCrashes = 1
  NoOne = NoOne
INVARIANTS TypeOK SpendingMatchesRecords ApprovedMeansRecorded ChecksHoldAtCommit
  TwoCardsOnlyByOverlapOrReopening
PROPERTIES RequestsAnswered
