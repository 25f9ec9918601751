SPECIFICATION FairCasinoSpec
CHECK_DEADLOCK FALSE
CONSTANTS
  SuiteCount = 2
  RankCount = 3
  IntLimit = 1000
  p1 = p1
  p2 = p2
  g1 = g1
  g2 = g2
  r1 = r1
  r2 = r2
  v1 = v1
  v2 = v2
  v3 = v3
  ann = ann
  bob = bob
  Absent = Absent
  Omitted = Omitted
  Pending = Pending
  None = None
  Shuffles <- MCShuffles
  Players = {p1, p2}
  Games = {g1}
  Requests = {r1}
  Bets = {2}
  TieBets = {0}
  TopUps = {3}
  StartTokens <- NoPlayers
  StartGames <- NoGames
  Exclusive = FALSE
  MaxFaults = 1
  Visits = {v1, v2, v3}
  Names = {ann, Omitted}
  DefaultTokens = 3
  Informed = TRUE
INVARIANTS
  CasinoTypeOK
  AnsweredIdsHaveRows
  NameHasOneOwner
  NoVisitForgotten
PROPERTY InformedClientsAnswered
