SPECIFICATION Spec
CHECK_DEADLOCK FALSE
SYMMETRY RequestSymmetry
CONSTANTS
  SuiteCount = 2
  RankCount = 3
  IntLimit = 1000
  alice = alice
  bob = bob
  g1 = g1
  g2 = g2
  r1 = r1
  r2 = r2
  r3 = r3
  Absent = Absent
  Omitted = Omitted
  Pending = Pending
  None = None
  Shuffles <- MCShuffles
  Players = {alice, bob}
  Games = {g1}
  Requests = {r1, r2}
  Bets = {0, 2}
  TieBets = {0, 2}
  TopUps = {3}
  StartTokens <- CoreStartTokens
  StartGames <- CoreStartGames
  Exclusive = FALSE
  MaxFaults = 1
INVARIANTS
  TypeOK
  TopWithinDeck
  WholeDecks
  UndealtBounded
  WarOnlyAfterTie
  AnsweredBetLeavesGameAlone
  NoBetStranded
  OverdraftOnlyByTieBet
PROPERTIES DealtCardsStable TokensMoveByBets
