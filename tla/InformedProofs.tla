--------------------------- MODULE InformedProofs ---------------------------
(***************************************************************************)
(* Proofs about Casino, for all values of its constants: what bets promise *)
(* about tokens, and what they promise to clients that bet with the ids    *)
(* they were given, holds while players and games come into being.         *)
(*                                                                         *)
(* A step of the whole server is a step of the bets or one of the lobby    *)
(* (CasinoStep), and the lobby only adds rows (LobbyAdds).  An invariant   *)
(* of the bets is disturbed by the latter in what it says of rows that do  *)
(* not exist; an informed client has nothing in flight that looks for one. *)
(***************************************************************************)
EXTENDS AccountProofs, CasinoProofs

LEMMA CasinoStep ==
  ASSUME [CasinoNext]_casinoVars
  PROVE  [Next]_vars \/ (Lobby!Serve /\ UNCHANGED betVars)
<1>1. CASE CasinoNext
  BY <1>1 DEF CasinoNext, Next, Play, Arrivals
<1>2. CASE UNCHANGED casinoVars
  BY <1>2 DEF casinoVars
<1> QED BY <1>1, <1>2

\* A new player has the default tokens, and a new game nothing on the table.
LobbyRows ==
  /\ \A p \in Players :
       \/ player'[p] = player[p]
       \/ player[p] = Absent /\ player'[p] = DefaultTokens
  /\ \A g \in Games :
       \/ game'[g] = game[g]
       \/ game[g] = Absent /\ game'[g].table = 0

LEMMA PlayerAdded ==
  ASSUME CasinoIInv, NEW i \in playerInserts, UNCHANGED game,
         Lobby!StorePlayer(i) \/ UNCHANGED player
  PROVE  LobbyRows
<1>1. /\ player \in [Players -> Int32 \cup {Absent}]
      /\ player[i.id] = Absent
  BY DEF CasinoIInv, IInv, TypeOK, RepositoryTypeOK, LobbyInv, PlayerInsertOK, HasRow
<1> QED BY <1>1 DEF LobbyRows, Lobby!StorePlayer

LEMMA GameAdded ==
  ASSUME CasinoIInv, NEW i \in gameInserts, UNCHANGED player,
         Lobby!StoreGame(i) \/ UNCHANGED game
  PROVE  LobbyRows
<1>1. game \in [Games -> Row \cup {Absent}] /\ game[i.id] = Absent
  BY DEF CasinoIInv, IInv, TypeOK, RepositoryTypeOK, LobbyInv, GameInsertOK
<1> QED BY <1>1 DEF LobbyRows, Lobby!StoreGame

LEMMA LobbyAdds ==
  ASSUME CasinoIInv, Lobby!Serve
  PROVE  LobbyRows
<1>1. CASE UNCHANGED <<player, game>>
  BY <1>1 DEF LobbyRows
<1>2. CASE Lobby!Welcome
  BY <1>1, <1>2
     DEF Lobby!Welcome, Lobby!CreatePlayer, Lobby!CreateGame, Lobby!GetPlayerById,
         Lobby!Visit
<1>3. CASE Lobby!Statements
  BY <1>1, <1>3, PlayerAdded, GameAdded
     DEF Lobby!Statements, Lobby!InsertPlayer, Lobby!InsertGame, Lobby!SelectPlayer
<1>4. CASE Lobby!StatementFaults
  BY <1>1, <1>4, PlayerAdded, GameAdded
     DEF Lobby!StatementFaults, Lobby!FailPlayerInsert, Lobby!FailGameInsert,
         Lobby!FailLookup
<1> QED BY <1>2, <1>3, <1>4 DEF Lobby!Serve

-----------------------------------------------------------------------------
(***************************************************************************)
(* Tokens.                                                                 *)
(***************************************************************************)
LEMMA CasinoMoves ==
  ASSUME CasinoIInv, MInv, [CasinoNext]_casinoVars
  PROVE  MInv' /\ TokensMove
<1>1. CASE [Next]_vars
  BY <1>1, NextMoves DEF CasinoIInv
<1>2. CASE Lobby!Serve /\ UNCHANGED betVars
  <2>1. MInv'
    BY <1>2 DEF betVars, MInv, PaysBettor, SetsTokens, Repays
  <2>2. TokensMove
    BY <1>2, LobbyAdds DEF LobbyRows, TokensMove
  <2> QED BY <2>1, <2>2
<1> QED BY <1>1, <1>2, CasinoStep

LEMMA CasinoSolvent ==
  ASSUME CasinoIInv, BInv, BalancesSmall, [CasinoNext]_casinoVars
  PROVE  BInv'
<1>1. CASE [Next]_vars
  BY <1>1, NextBInv DEF CasinoIInv
<1>2. CASE Lobby!Serve /\ UNCHANGED betVars
  <2>1. LobbyRows
    BY <1>2, LobbyAdds
  <2>2. Small(0) /\ ~ (DefaultTokens < 0)
    BY IntLimitAssumption, CasinoAssumption DEF Small, NatInt32
  <2>3. \A g \in Games : game'[g] # Absent => Small(game'[g].table)
    BY <2>1, <2>2 DEF BInv, LobbyRows
  <2>4. \A p \in Players : player'[p] # Absent /\ player'[p] < 0 => TieBettor(p)
    BY <2>1, <2>2 DEF BInv, LobbyRows
  <2> QED
    BY <1>2, <2>3, <2>4
       DEF betVars, BInv, ReadSmall, ExtensionCovered, SettlementCovered, TieBettor
<1> QED BY <1>1, <1>2, CasinoStep

\* Also beside the lobby, a balance moves only by the reply of a bet of its
\* player or to the count of a top-up: no INSERT gives a player that exists new
\* tokens.
THEOREM CasinoTokensMoveOnlyByBets == CasinoSpec => TokensMoveByBets
<1>1. CasinoInit => MInv
  BY DEF CasinoInit, Init, MInv
<1>2. CasinoIInv /\ MInv /\ [CasinoNext]_casinoVars => MInv' /\ TokensMove
  BY CasinoMoves
<1>3. CasinoSpec => [][TokensMove]_vars
  BY <1>1, <1>2, CasinoInvariance, PTL DEF CasinoSpec
<1>4. TokensMove => \A p \in Players : player[p] # Absent /\ player'[p] # player[p] =>
       \/ \E s \in settlements \ settlements' :
            /\ input[s.req].player = p
            /\ player'[p] = Wrap(player[p] + s.reply.value)
       \/ \E u \in topUps \ topUps' :
            /\ input[u.req].player = p
            /\ player'[p] = input[u.req].tokens
  BY DEF TokensMove
<1> QED BY <1>3, <1>4, PTL DEF TokensMoveByBets

\* Also beside the lobby, only a player who has placed a tie bet can be below
\* zero, as long as balances are small enough for every payment to be an Int.
THEOREM CasinoOverdraftNeedsTieBet ==
  ASSUME StartsSolvent
  PROVE  CasinoSpec /\ []BalancesSmall => []OverdraftOnlyByTieBet
<1>1. CasinoInit => BInv
  BY InitBInv DEF CasinoInit
<1>2. CasinoIInv /\ BInv /\ BalancesSmall /\ [CasinoNext]_casinoVars => BInv'
  BY CasinoSolvent
<1>3. BInv => OverdraftOnlyByTieBet
  BY DEF BInv, OverdraftOnlyByTieBet, TieBettor
<1> QED BY <1>1, <1>2, <1>3, CasinoInvariance, PTL DEF CasinoSpec

-----------------------------------------------------------------------------
(***************************************************************************)
(* Clients that bet with the ids they were given.                          *)
(***************************************************************************)
\* What a request names has rows.
Named(r) ==
  input[r] # None =>
    /\ player[input[r].player] # Absent
    /\ input[r].kind = "bet" => game[input[r].game] # Absent

BetsHaveRows == \A r \in Requests : Named(r)

\* An id of an answer has a row.
LEMMA ToldHaveRows ==
  ASSUME CasinoIInv
  PROVE  /\ \A p \in Registered : player[p] # Absent
         /\ \A g \in Opened \cap Games : game[g] # Absent
<1>1. \A v \in Visits : ReplyOK(v)
  BY DEF CasinoIInv, LobbyInv
<1>2. None \notin Players /\ None \notin Games
  BY CasinoAssumption
<1>3. \A p \in Registered : player[p] # Absent
  BY <1>1, <1>2 DEF Registered, Welcomed, ReplyOK, HasRow
<1>4. \A g \in Opened \cap Games : game[g] # Absent
  BY <1>1, <1>2 DEF Opened, Welcomed, ReplyOK
<1> QED BY <1>3, <1>4

\* Rows stay, and what was asked is not changed.
LEMMA RowsStay ==
  ASSUME CasinoIInv, [CasinoNext]_casinoVars
  PROVE  /\ \A p \in Players : player[p] # Absent => player'[p] # Absent
         /\ \A g \in Games : game[g] # Absent => game'[g] # Absent
<1>1. GameKept
  BY CasinoNextInv
<1>2. \A p \in Players : player[p] # Absent => player'[p] # Absent
  BY CasinoStep, BetsKeepPlayers, LobbyAdds DEF CasinoIInv, PlayerStep, LobbyRows
<1> QED BY <1>1, <1>2 DEF GameKept

\* A request is sent with ids that have rows.
LEMMA PlayNames ==
  ASSUME Informed, CasinoIInv, BetsHaveRows, NEW r \in Requests, Play(r)
  PROVE  BetsHaveRows'
<1>1. PICK in \in Inputs :
        /\ input[r] = None /\ input' = [input EXCEPT ![r] = in]
        /\ UNCHANGED <<player, game>>
  BY DEF Play, RequestBet, UpdatePlayerToken, Submit, Inputs
<1>2. /\ input'[r] = in
      /\ \A o \in Requests : o # r => input'[o] = input[o]
  BY <1>1 DEF CasinoIInv, IInv, TypeOK
<1>3. /\ in.player \in Registered
      /\ in.kind = "bet" => in.game \in Opened
  BY <1>2 DEF Play
<1>4. in.kind = "bet" => in.game \in Games
  BY <1>1 DEF Inputs, BetInputs, TopUpInputs
<1>5. /\ player[in.player] # Absent
      /\ in.kind = "bet" => game[in.game] # Absent
  BY <1>3, <1>4, ToldHaveRows
<1> QED BY <1>1, <1>2, <1>5 DEF BetsHaveRows, Named

\* Nothing else changes what was asked.
LEMMA InputsKept ==
  ASSUME Statements \/ StatementFaults \/ Crash
  PROVE  input' = input
BY DEF Statements, StatementFaults, Crash, GetGame, GetPlayer, Arrive, UpdateGameDeck,
   UpdatePlayer, UpdateGame, UpdateTokens, FailRead, FailExtension, FailSettlement,
   FailTokens

LEMMA NextNames ==
  ASSUME Informed, CasinoIInv, BetsHaveRows, [CasinoNext]_casinoVars
  PROVE  BetsHaveRows'
<1>1. CASE \E r \in Requests : Play(r)
  BY <1>1, PlayNames
<1>2. CASE input' = input
  <2>1. ASSUME NEW r \in Requests, input[r] # None
        PROVE  input[r].player \in Players /\ (input[r].kind = "bet" => input[r].game \in Games)
    BY <2>1 DEF CasinoIInv, IInv, TypeOK, Inputs, BetInputs, TopUpInputs
  <2> QED BY <1>2, <2>1, RowsStay DEF BetsHaveRows, Named
<1> QED
  BY <1>1, <1>2, InputsKept DEF CasinoNext, casinoVars, vars, betVars

\* The lobby leaves a request in order that names what exists.
LEMMA LobbyFlight ==
  ASSUME CasinoIInv, FInv, BetsHaveRows, Lobby!Serve, UNCHANGED betVars,
         IInv', GameKept, NEW r \in Requests
  PROVE  FlightOK(r)'
<1>1. SameRequest(r)
  BY DEF betVars, SameRequest, ReadsOf, ExtensionsOf, SettlementsOf
<1>2. FlightOK(r) /\ IInv /\ Named(r)
  BY DEF FInv, BetsHaveRows
<1>3. Unsent(r)' /\ ReadsAlone(r)' /\ BetFits(r)'
  BY <1>1, <1>2
     DEF FlightOK, SameRequest, Unsent, ReadsAlone, BetFits, Accepted, Deals
<1>4. HalvesMoved(r)' /\ AnsweredIsDone(r)'
  BY <1>1, <1>2, HalvesKept DEF FlightOK
<1>5. ReadsExact(r)'
  <2>1. \A q \in ReadsOf(r) :
          /\ ~ (q.game = Absent /\ input[r].kind = "bet")
          /\ q.player # Absent
    BY <1>2 DEF FlightOK, ReadsExact, Named, Unsent
  <2> QED BY <1>1, <2>1 DEF SameRequest, ReadsExact
<1>6. ~ Stranded(r)'
  BY <1>1, <1>2 DEF FlightOK, SameRequest, Stranded, Named, Open
<1> QED BY <1>3, <1>4, <1>5, <1>6 DEF FlightOK

LEMMA NextInformed ==
  ASSUME Informed, CasinoIInv, FInv, BetsHaveRows, [CasinoNext]_casinoVars
  PROVE  FInv' /\ BetsHaveRows'
<1>1. BetsHaveRows'
  BY NextNames
<1>2. CASE [Next]_vars
  BY <1>1, <1>2, NextFInv
<1>3. CASE Lobby!Serve /\ UNCHANGED betVars
  <2>1. IInv' /\ GameKept
    BY CasinoNextInv DEF CasinoIInv
  <2>2. \A r \in Requests : FlightOK(r)'
    BY <1>3, <2>1, LobbyFlight
  <2>3. \A u \in topUps' : input'[u.req] \in TopUpInputs /\ ReadsOf(u.req)' = {}
    BY <1>3 DEF FInv, betVars, ReadsOf
  <2> QED BY <1>1, <2>1, <2>2, <2>3 DEF FInv
<1> QED BY <1>2, <1>3, CasinoStep

\* A new game is not looked at by what is in flight.
LEMMA CasinoSingle ==
  ASSUME CasinoIInv, OInv, FInv', NeverAtLastPair, [CasinoNext]_casinoVars
  PROVE  OInv'
<1>1. CASE [Next]_vars
  BY <1>1, NextOInv
<1>2. CASE Lobby!Serve /\ UNCHANGED betVars
  BY <1>2
     DEF betVars, OInv, ReadAway, ExtensionCarries, Single, SettlementsOf,
         ExtensionsOf, Accepted
<1> QED BY <1>1, <1>2, CasinoStep

-----------------------------------------------------------------------------
\* Beside the lobby, the statements of a request fit together as they do
\* without it, and a bet or a top-up names rows that exist.
THEOREM InformedInvariance ==
  ASSUME Informed
  PROVE  CasinoSpec => [](FInv /\ BetsHaveRows)
<1>1. CasinoInit => FInv /\ BetsHaveRows
  BY InitFInv DEF CasinoInit, Init, BetsHaveRows, Named
<1>2. CasinoIInv /\ FInv /\ BetsHaveRows /\ [CasinoNext]_casinoVars
        => FInv' /\ BetsHaveRows'
  BY NextInformed
<1> QED BY <1>1, <1>2, CasinoInvariance, PTL DEF CasinoSpec

\* No bet of an informed client is forgotten, whatever is created, fails or
\* crashes meanwhile: every bet names rows that exist, and one with all its
\* fields has an answer, or a statement in flight that goes on with it, or lost
\* its process.  Of uninformed clients this is false: a bet on a game that does
\* not exist hangs.
THEOREM InformedNotStranded ==
  ASSUME Informed
  PROVE  CasinoSpec => [](BetsHaveRows /\ NoBetStranded)
<1>1. FInv => NoBetStranded
  BY DEF FInv, FlightOK, Stranded, NoBetStranded, ReadsOf, ExtensionsOf,
     SettlementsOf
<1> QED BY <1>1, InformedInvariance, PTL

\* Beside the lobby, an answered bet leaves the game alone.
THEOREM InformedLeaveGameAlone ==
  ASSUME Informed
  PROVE  CasinoSpec => []AnsweredBetLeavesGameAlone
<1>1. FInv => AnsweredBetLeavesGameAlone
  BY DEF FInv, FlightOK, AnsweredIsDone, Accepted, AnsweredBetLeavesGameAlone,
     ExtensionsOf, SettlementsOf
<1> QED BY <1>1, InformedInvariance, PTL

\* And, away from the last pair of a deck, the tokens too.
THEOREM InformedLeaveTokensAlone ==
  ASSUME Informed
  PROVE  CasinoSpec /\ []NeverAtLastPair => []AnsweredBetLeavesTokensAlone
<1>1. CasinoInit => OInv
  BY InitOInv DEF CasinoInit
<1>2. CasinoIInv /\ OInv /\ FInv' /\ NeverAtLastPair /\ [CasinoNext]_casinoVars
        => OInv'
  BY CasinoSingle
<1>3. OInv => AnsweredBetLeavesTokensAlone
  BY DEF OInv, Single, Accepted, SettlementsOf, AnsweredBetLeavesTokensAlone
<1>4. CasinoSpec => []FInv
  BY InformedInvariance, PTL
<1> QED BY <1>1, <1>2, <1>3, <1>4, CasinoInvariance, PTL DEF CasinoSpec

-----------------------------------------------------------------------------
(***************************************************************************)
(* Informed clients that wait, in a server whose statements succeed.       *)
(***************************************************************************)
\* The rows that requests play on are not the ones that the lobby adds.
LEMMA PlayedRowsSame ==
  ASSUME FInv, BetsHaveRows, LobbyRows
  PROVE  /\ \A r \in Requests : input[r] \in BetInputs =>
              game'[input[r].game] = game[input[r].game]
         /\ \A e \in extensions : game'[e.game] = game[e.game]
         /\ \A s \in settlements : game'[s.game] = game[s.game]
<1>1. \A g \in Games : game[g] # Absent => game'[g] = game[g]
  BY DEF LobbyRows
<1>2. ASSUME NEW r \in Requests, input[r] \in BetInputs
      PROVE  input[r].game \in Games /\ game[input[r].game] # Absent
  BY <1>2, NoneAssumption DEF BetsHaveRows, Named, BetInputs, Inputs
<1>3. IInv
  BY DEF FInv
<1> QED BY <1>1, <1>2, <1>3, ExtensionTypes, SettlementInGame

LEMMA LobbyNoFault ==
  ASSUME WaitingClients, faults = 0, Lobby!Serve
  PROVE  faults' = 0
<1>1. ~ Lobby!Fault
  BY DEF WaitingClients, Lobby!Fault
<1> QED
  BY <1>1
     DEF Lobby!Serve, Lobby!Welcome, Lobby!Statements, Lobby!StatementFaults,
         Lobby!CreatePlayer, Lobby!CreateGame, Lobby!GetPlayerById, Lobby!Visit,
         Lobby!InsertPlayer, Lobby!InsertGame, Lobby!SelectPlayer,
         Lobby!FailPlayerInsert, Lobby!FailGameInsert, Lobby!FailLookup

LEMMA LobbySerial ==
  ASSUME WaitingClients, CasinoIInv, SInv, FInv', BetsHaveRows,
         Lobby!Serve, UNCHANGED betVars
  PROVE  SInv'
<1>1. /\ FInv /\ IInv /\ Apart /\ lost = {} /\ faults = 0
      /\ \A r \in Requests : SerialOK(r)
  BY DEF SInv, FInv
<1>2. /\ \A r \in Requests : input[r] \in BetInputs =>
           game'[input[r].game] = game[input[r].game]
      /\ \A e \in extensions : game'[e.game] = game[e.game]
      /\ \A s \in settlements : game'[s.game] = game[s.game]
  BY <1>1, LobbyAdds, PlayedRowsSame
<1>3. UNCHANGED <<input, reads, extensions, settlements, answer, lost>>
  BY DEF betVars
<1>4. \A r \in Requests :
        /\ ExtensionsOf(r)' = ExtensionsOf(r) /\ SettlementsOf(r)' = SettlementsOf(r)
        /\ ReadsOf(r)' = ReadsOf(r) /\ Open(r)' = Open(r)
  BY <1>3 DEF ExtensionsOf, SettlementsOf, ReadsOf, Open
<1>5. \A s \in settlements :
        Took(s)' = Took(s) /\ SettlementServes(s)' = SettlementServes(s)
  BY <1>2, <1>3 DEF Took, SettlementServes, Shows
<1>6. \A e \in extensions : ExtensionServes(e)' = ExtensionServes(e)
  BY <1>2, <1>3, <1>5 DEF ExtensionServes, SettlementsOf
<1>7. ASSUME NEW r \in Requests PROVE \A q \in ReadsOf(r) : ReadServes(q) => ReadServes(q)'
  <2> SUFFICES ASSUME NEW q \in reads, q.game \notin {Absent, Pending}
               PROVE  input[q.req] \in BetInputs /\ q.req \in Requests
    BY <1>2, <1>3 DEF ReadServes, ReadsOf
  <2> QED BY <1>1 DEF IInv, ReadOK, TypeOK, ReadRecords, Inputs, TopUpInputs
<1>8. ASSUME NEW r \in Requests PROVE SerialOK(r)'
  <2>1. SerialOK(r)
    BY <1>1
  <2>2. \A s \in SettlementsOf(r) : SettlementShape(s)
    BY <2>1 DEF SerialOK
  <2>3. Open(r) =>
          /\ \A q \in ReadsOf(r) : ReadServes(q)'
          /\ \A e \in ExtensionsOf(r) : ExtensionServes(e)'
          /\ \A s \in SettlementsOf(r) : SettlementServes(s)'
    BY <1>5, <1>6, <1>7, <2>1 DEF SerialOK, ExtensionsOf, SettlementsOf
  <2>4. Twins(r)' = Twins(r)
    BY <1>3, <1>4 DEF Twins, RoundResponse
  <2>5. answer[r] # None /\ answer[r].cards # <<>> /\ ~ WonWar(answer[r]) =>
          /\ input[r] \in BetInputs /\ game'[input[r].game] # Absent
          /\ Shows(game'[input[r].game], answer[r].cards)
    BY <1>2, <2>1 DEF SerialOK
  <2> QED BY <1>3, <1>4, <2>1, <2>2, <2>3, <2>4, <2>5 DEF SerialOK
<1>9. Apart'
  BY <1>1, <1>3, ApartKept
<1>10. faults' = 0
  BY <1>1, LobbyNoFault
<1> QED BY <1>1, <1>3, <1>8, <1>9, <1>10 DEF SInv

\* A new game has no war.
LEMMA LobbyCount ==
  ASSUME IsFiniteSet(Requests), CInv, LobbyRows, UNCHANGED betVars
  PROVE  CInv'
<1>1. UNCHANGED <<input, settlements, answer, lost>>
  BY DEF betVars
<1>2. ASSUME NEW g \in Games PROVE WarsCounted(g)'
  <2>1. Settling(g)' = Settling(g)
    BY <1>1 DEF Settling, Open
  <2>2. game'[g] = game[g] \/ (game[g] = Absent /\ ~ (game'[g].table > 0))
    BY DEF LobbyRows
  <2>3. Standing(g)' => Standing(g)
    BY <1>1, <2>1, <2>2 DEF Standing
  <2>4. WarsResolved(g)' = WarsResolved(g) /\ WarsOpened(g)' = WarsOpened(g)
    BY <1>1 DEF WarsResolved, WarsOpened, Answered
  <2> QED BY <2>3, <2>4, QuietCount DEF CInv
<1> QED BY <1>2 DEF CInv

LEMMA CasinoSerial ==
  ASSUME WaitingClients, CasinoIInv, SInv, FInv', BetsHaveRows,
         [CasinoNext]_casinoVars
  PROVE  SInv'
<1>1. CASE [Next]_vars
  BY <1>1, NextSInv
<1>2. CASE Lobby!Serve /\ UNCHANGED betVars
  BY <1>2, LobbySerial
<1> QED BY <1>1, <1>2, CasinoStep

LEMMA CasinoCount ==
  ASSUME WaitingClients, IsFiniteSet(Requests), CasinoIInv, SInv, SInv', CInv,
         [CasinoNext]_casinoVars
  PROVE  CInv'
<1>1. CASE [Next]_vars
  BY <1>1, NextCInv
<1>2. CASE Lobby!Serve /\ UNCHANGED betVars
  BY <1>2, LobbyAdds, LobbyCount
<1> QED BY <1>1, <1>2, CasinoStep

\* What waiting clients can rely on, they can rely on while others create
\* players and games: nobody moves the game under an open bet.
THEOREM InformedSerialInvariance ==
  ASSUME Informed, WaitingClients
  PROVE  CasinoSpec => []SInv
<1>1. CasinoInit => SInv
  BY InitSInv DEF CasinoInit
<1>2. CasinoIInv /\ SInv /\ FInv' /\ BetsHaveRows /\ [CasinoNext]_casinoVars => SInv'
  BY CasinoSerial
<1>3. CasinoSpec => []FInv /\ []BetsHaveRows
  BY InformedInvariance, PTL
<1> QED BY <1>1, <1>2, <1>3, CasinoInvariance, PTL DEF CasinoSpec

\* The cards they are shown were dealt from their game, be it a new one.
THEOREM InformedShownDealtCards ==
  ASSUME Informed, WaitingClients
  PROVE  CasinoSpec => []AnswerShowsDealtCards
<1>1. SInv => AnswerShowsDealtCards
  BY DEF SInv, SerialOK, AnswerShowsDealtCards, Shows, WonWar
<1> QED BY <1>1, InformedSerialInvariance, PTL

\* And no war is resolved by two answers.
THEOREM InformedWarsResolvedOnce ==
  ASSUME Informed, WaitingClients, IsFiniteSet(Requests)
  PROVE  CasinoSpec => []WarResolvedOnce
<1>1. CasinoInit => CInv
  BY InitCInv DEF CasinoInit
<1>2. CasinoIInv /\ SInv /\ SInv' /\ CInv /\ [CasinoNext]_casinoVars => CInv'
  BY CasinoCount
<1>3. CInv => WarResolvedOnce
  BY CountedOnce
<1> QED BY <1>1, <1>2, <1>3, InformedSerialInvariance, CasinoInvariance, PTL DEF CasinoSpec
=============================================================================
