SPECIFICATION FairSpec
CONSTANTS
  s1 = s1
  s2 = s2
  s3 = s3
  r1 = r1
  r2 = r2
  r3 = r3
  n1 = n1
  e1 = e1
  e2 = e2
  alice = alice
  Requests = {r1, r2, r3}
  Limit = 2
  Emails = {"demo", "foodeli"}
  Passwords = {"p1", "p2", "seeded"}
  Form <- FormMC
  NoUser = NoUser
  DemoCurrencies <- DemoCurrenciesMC
  Seeded = "seeded"
  MaxEdits = 2
  Users = {alice}
  Streams = {s1, s2, s3}
  Viewer <- ViewerMC
  Notices = {n1}
  Events = {e1, e2}
  Recipient <- RecipientMC
  BufferCap = 1
  EmailCap = 1
  NoStream = NoStream
  Nobody = Nobody
  Nothing = Nothing
  Environments = {"production", "development"}
  MaxFaults = 2
CONSTRAINT OnePart
INVARIANTS TypeOK StreamsReached EventsNotLost SeedsHold AccessHolds
PROPERTIES EndsInTime
