SPECIFICATION FairSpec
CHECK_DEADLOCK FALSE
CONSTANTS
  alice = alice
  bob = bob
  g1 = g1
  g2 = g2
  r1 = r1
  r2 = r2
  r3 = r3
  Absent = Absent
  Omitted = Omitted
  Pending = Pending
  None = None
  SuiteCount = 2
  RankCount = 3
  IntLimit = 1000
  Shuffles <- MCShuffles
  Players = {alice}
  Games = {g1, g2}
  Requests = {r1, r2}
  Bets = {0, 2}
  TieBets = {0}
  TopUps = {}
  StartTokens <- StartWith3
  StartGames <- SecondGameUnknown
  Exclusive = TRUE
  MaxFaults = 0
PROPERTY UnknownGameAnswered
