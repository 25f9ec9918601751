SPECIFICATION Spec
CHECK_DEADLOCK FALSE
CONSTANTS
  SuiteCount = 2
  RankCount = 3
  IntLimit = 10
  alice = alice
  bob = bob
  g1 = g1
  g2 = g2
  r1 = r1
  r2 = r2
  r3 = r3
  Absent = Absent
  Omitted = Omitted
  Pending = Pending
  None = None
  Shuffles <- MCShuffles
  Players = {alice, bob}
  Games = {g1, g2}
  Requests = {r1, r2, r3}
  Bets = {0, 2}
  TieBets = {0, 1}
  TopUps = {3}
  StartTokens <- SerialStartTokens
  StartGames <- SerialStartGames
  Exclusive = TRUE
  MaxFaults = 0
SYMMETRY SerialSymmetry
INVARIANTS
  BalanceMatchesAnswers
  AnsweredBetLeavesTokensAlone
  AnswerShowsDealtCards
  WarResolvedOnce
PROPERTY ImplementsCasinoWar
