---------------------------- MODULE BalanceProofs ----------------------------
(***************************************************************************)
(* Proofs about balances, for all values of the constants: validateBet and *)
(* the condition of UPDATE_PLAYER keep every player who places no tie bet  *)
(* at zero or above, as long as no balance comes near the largest Int; and *)
(* balances move by what bets reply and top-ups ask for, and no other way. *)
(***************************************************************************)
EXTENDS GameServiceProofs

\* A war may pay twice a stake that is at most the balance.
Small(n) == 3 * n < IntLimit

BalancesSmall == \A p \in Players : player[p] # Absent => Small(player[p])

\* A behaviour starts with balances as the API documents them, and with stakes
\* that could have been bet.
StartsSolvent ==
  /\ \A p \in Players : StartTokens[p] # Absent => StartTokens[p] >= 0
  /\ \A rows \in StartGames, g \in Games :
       rows[g] # Absent => Small(rows[g].table)

TieBettor(p) ==
  \E r \in Requests :
    /\ input[r] # None /\ input[r].kind = "bet" /\ input[r].player = p
    /\ input[r].tieBet \notin {0, Omitted}

\* What was read is small, as it was when it was read ...
ReadSmall(q) ==
  /\ q.game \notin {Absent, Pending} => Small(q.game.table)
  /\ q.player \notin {Absent, Pending} => Small(q.player)

\* ... an extension carries a balance that covers the bet, and the stake of
\* the war it was asked for, which is the bet ...
ExtensionCovered(e) ==
  /\ input[e.req] \in BetInputs
  /\ Small(e.tokens) /\ input[e.req].bet <= e.tokens
  /\ e.row.table \in {0, input[e.req].bet}

\* ... and a settlement without a tie bet sets no negative balance.
SettlementCovered(s) ==
  /\ input[s.req] \in BetInputs /\ s.player = input[s.req].player
  /\ Small(s.row.table)
  /\ input[s.req].tieBet \in {0, Omitted} => s.to >= 0

BInv ==
  /\ \A g \in Games : game[g] # Absent => Small(game[g].table)
  /\ \A q \in reads : ReadSmall(q)
  /\ \A e \in extensions : ExtensionCovered(e)
  /\ \A s \in settlements : SettlementCovered(s)
  /\ \A u \in topUps : u.to >= 0
  /\ \A p \in Players : player[p] # Absent /\ player[p] < 0 => TieBettor(p)

-----------------------------------------------------------------------------
(***************************************************************************)
(* Arithmetic without wrapping.                                            *)
(***************************************************************************)
LEMMA SmallRemainder ==
  ASSUME NEW d \in Nat \ {0}, NEW a \in 0 .. d - 1
  PROVE  a % d = a
OBVIOUS

\* An Int expression whose exact result is an Int yields it.
LEMMA WrapExact == \A n \in Int32 : Wrap(n) = n
<1> SUFFICES ASSUME NEW n \in Int32 PROVE Wrap(n) = n
  OBVIOUS
<1> DEFINE a == n + IntLimit
           d == 2 * IntLimit
<1>1. IntLimit \in Nat \ {0} /\ n \in Int
  BY IntLimitAssumption DEF Int32
<1>2. d \in Nat \ {0} /\ a \in 0 .. d - 1
  BY <1>1 DEF Int32
<1>3. Wrap(n) = (a % d) - IntLimit
  BY DEF Wrap
<1> HIDE DEF a, d
<1>4. a % d = a
  BY <1>2, SmallRemainder
<1> QED BY <1>1, <1>3, <1>4 DEF a

\* What a plain bet that the balance covers can do to it.
LEMMA RoundPays ==
  ASSUME NEW tokens \in Int, Small(tokens), NEW bet \in Nat, bet <= tokens,
         NEW result \in {"win", "war", "loss"}
  PROVE  /\ RoundTokens(result, bet, 0) \in Int
         /\ 0 <= tokens + RoundTokens(result, bet, 0)
         /\ tokens + RoundTokens(result, bet, 0) < IntLimit
<1>1. IntLimit \in Nat \ {0}
  BY IntLimitAssumption
<1>2. bet \in Int32 /\ -bet \in Int32
  BY <1>1 DEF Int32, Small
<1>3. RoundTokens(result, bet, 0) \in {bet, -bet}
  <2>1. bet - 0 = bet /\ -bet - 0 = -bet
    OBVIOUS
  <2>2. Wrap(bet) = bet /\ Wrap(-bet) = -bet
    BY <1>2, WrapExact
  <2> QED BY <2>1, <2>2 DEF RoundTokens
<1> QED BY <1>1, <1>3 DEF Small

LEMMA WarPays ==
  ASSUME NEW tokens \in Int, Small(tokens), NEW bet \in Nat, bet <= tokens,
         NEW result
  PROVE  /\ WarTokens(result, bet) \in Int
         /\ 0 <= tokens + WarTokens(result, bet)
         /\ tokens + WarTokens(result, bet) < IntLimit
<1>1. IntLimit \in Nat \ {0}
  BY IntLimitAssumption
<1>2. bet \in Int32 /\ -bet \in Int32 /\ bet * 2 \in Int32
  BY <1>1 DEF Int32, Small
<1>3. WarTokens(result, bet) \in {bet, -bet, bet * 2}
  BY <1>2, WrapExact DEF WarTokens
<1> QED BY <1>1, <1>3 DEF Small

LEMMA ForfeitPays ==
  ASSUME NEW tokens \in Nat, Small(tokens), NEW stake \in Nat, Small(stake)
  PROVE  /\ ForfeitTokens(stake) \in Int
         /\ 0 <= tokens + ForfeitTokens(stake)
         /\ tokens + ForfeitTokens(stake) < IntLimit
<1>1. IntLimit \in Nat \ {0}
  BY IntLimitAssumption
<1>2. /\ ForfeitTokens(stake) \in Nat
      /\ 2 * ForfeitTokens(stake) <= stake + 1
  BY DEF ForfeitTokens
<1> QED BY <1>1, <1>2 DEF Small

-----------------------------------------------------------------------------
(***************************************************************************)
(* What the handlers of a covered bet add.                                 *)
(***************************************************************************)
Covered(r, gm, tokens) ==
  /\ Handling(r, gm, tokens)
  /\ Small(tokens) /\ input[r].bet <= tokens
  /\ Small(gm.table)

HandlerPays(rest) ==
  /\ \A e \in extensions' : e \in rest \/ ExtensionCovered(e)
  /\ \A s \in settlements' : s \in settlements \/ SettlementCovered(s)

LEMMA CoveredTypes ==
  ASSUME NEW r, NEW gm, NEW tokens, Covered(r, gm, tokens)
  PROVE  /\ input[r] \in BetInputs /\ input[r].bet \in Nat /\ tokens \in Nat
         /\ Small(input[r].bet) /\ gm.table \in Nat
<1>1. input[r] \in BetInputs /\ input[r].bet \in NatInt32
  BY InputTypes DEF Covered, Handling
<1>2. tokens \in Int32 /\ gm.table \in NatInt32
  BY DEF Covered, Handling, RowOK, Row
<1> QED BY <1>1, <1>2, IntLimitAssumption DEF Covered, Small, NatInt32, Int32

LEMMA SettlementPays ==
  ASSUME NEW r, NEW gm, NEW tokens, Covered(r, gm, tokens),
         NEW newTop, NEW stake, Small(stake), NEW response,
         input[r].tieBet \in {0, Omitted} =>
           /\ response.value \in Int
           /\ 0 <= tokens + response.value
           /\ tokens + response.value < IntLimit
  PROVE  SettlementCovered(Settlement(r, gm, tokens, newTop, stake, response))
<1> DEFINE s == Settlement(r, gm, tokens, newTop, stake, response)
<1>1. /\ s.req = r /\ s.player = input[r].player /\ s.row.table = stake
      /\ s.to = Wrap(tokens + response.value)
  BY DEF Settlement
<1>2. ASSUME input[r].tieBet \in {0, Omitted} PROVE s.to >= 0
  <2>1. tokens \in Nat /\ IntLimit \in Nat
    BY CoveredTypes, IntLimitAssumption
  <2>2. tokens + response.value \in Int32
    BY <1>2, <2>1 DEF Int32
  <2>3. s.to = tokens + response.value
    BY <1>1, <2>2, WrapExact
  <2> QED BY <1>2, <2>3
<1> HIDE DEF s
<1>3. SettlementCovered(s)
  BY <1>1, <1>2, CoveredTypes DEF SettlementCovered
<1> QED BY <1>3 DEF s

LEMMA ExtendPays ==
  ASSUME NEW r, NEW gm, NEW tokens, Covered(r, gm, tokens),
         gm.table \in {0, input[r].bet}, NEW newDeck
  PROVE  ExtensionCovered(Extension(r, gm, tokens, newDeck))
BY DEF Extension, ExtensionCovered, Covered, Handling

LEMMA HandleBetPays ==
  ASSUME NEW r, NEW gm, NEW tokens, NEW rest, Covered(r, gm, tokens),
         gm.table = 0, HandleBet(r, gm, tokens, rest)
  PROVE  HandlerPays(rest)
<1>1. \A e \in extensions' : e \in rest \/ ExtensionCovered(e)
  BY ExtendPays DEF HandleBet, Extend
<1>2. SettlementCovered(RoundSettlement(r, gm, tokens)) \/ input[r].tieBet = Omitted
  <2> SUFFICES ASSUME input[r].tieBet # Omitted
               PROVE  SettlementCovered(RoundSettlement(r, gm, tokens))
    OBVIOUS
  <2> DEFINE response == RoundResponse(r, gm)
             stake == RoundStake(response.result, input[r].bet)
             cards == CardsAt(gm, gm.top)
             betResult == RoundResult(CardValue(cards[1]), CardValue(cards[2]),
                                      input[r].tieBet)
  <2>1. Small(stake)
    <3>1. stake \in {0, input[r].bet}
      BY DEF RoundStake
    <3> QED BY <3>1, CoveredTypes, IntLimitAssumption DEF Small
  <2>2. response.value = RoundTokens(betResult, input[r].bet, input[r].tieBet)
    BY DEF RoundResponse, BetResponse
  <2>3. ASSUME input[r].tieBet = 0
        PROVE  /\ response.value \in Int
               /\ 0 <= tokens + response.value
               /\ tokens + response.value < IntLimit
    <3>1. betResult \in {"win", "war", "loss"}
      BY <2>3 DEF RoundResult
    <3> HIDE DEF betResult, response
    <3>2. input[r].bet \in Nat /\ tokens \in Int /\ Small(tokens) /\ input[r].bet <= tokens
      BY CoveredTypes DEF Covered
    <3> QED BY <2>2, <2>3, <3>1, <3>2, RoundPays
  <2>4. RoundSettlement(r, gm, tokens) =
          Settlement(r, gm, tokens, gm.top + 2, stake, response)
    BY DEF RoundSettlement
  <2> HIDE DEF stake, response
  <2> QED BY <2>1, <2>3, <2>4, SettlementPays
<1>3. \A s \in settlements' : s \in settlements \/ SettlementCovered(s)
  BY <1>2 DEF HandleBet
<1> QED BY <1>1, <1>3 DEF HandlerPays

LEMMA HandleWarPays ==
  ASSUME NEW r, NEW gm, NEW tokens, NEW rest, Covered(r, gm, tokens),
         gm.table = input[r].bet, HandleWar(r, gm, tokens, rest)
  PROVE  HandlerPays(rest)
<1>1. \A e \in extensions' : e \in rest \/ ExtensionCovered(e)
  BY ExtendPays DEF HandleWar, Extend
<1> DEFINE response == WarResponse(r, gm)
<1>2. SettlementCovered(Settlement(r, gm, tokens, gm.top + 5, 0, response))
  <2>1. \E result : response.value = WarTokens(result, input[r].bet)
    BY DEF WarResponse, BetResponse
  <2> HIDE DEF response
  <2>2. input[r].bet \in Nat /\ tokens \in Int /\ Small(tokens) /\ input[r].bet <= tokens
    BY CoveredTypes DEF Covered
  <2>3. Small(0)
    BY IntLimitAssumption DEF Small
  <2> QED BY <2>1, <2>2, <2>3, WarPays, SettlementPays
<1>3. \A s \in settlements' : s \in settlements \/ SettlementCovered(s)
  BY <1>2 DEF HandleWar
<1> QED BY <1>1, <1>3 DEF HandlerPays

LEMMA HandleForfeitPays ==
  ASSUME NEW r, NEW gm, NEW tokens, Covered(r, gm, tokens),
         HandleForfeit(r, gm, tokens)
  PROVE  HandlerPays(extensions)
<1> DEFINE response == BetResponse("forfeit", "surrender", ForfeitTokens(gm.table), <<>>)
<1>1. response.value = ForfeitTokens(gm.table)
  BY DEF BetResponse
<1>2. SettlementCovered(Settlement(r, gm, tokens, gm.top, 0, response))
  <2> HIDE DEF response
  <2>1. gm.table \in Nat /\ tokens \in Nat /\ Small(tokens) /\ Small(gm.table)
    BY CoveredTypes DEF Covered
  <2>2. Small(0)
    BY IntLimitAssumption DEF Small
  <2> QED BY <1>1, <2>1, <2>2, ForfeitPays, SettlementPays
<1> QED BY <1>2 DEF HandleForfeit, HandlerPays

\* validateBet lets a bet pass only when the balance it read covers it.
LEMMA ServeBetPays ==
  ASSUME TypeOK, NEW r \in Requests, input[r] \in BetInputs,
         NEW gm \in Row \cup {Absent}, NEW tokens \in Int32 \cup {Absent},
         gm # Absent => RowOK(gm) /\ Small(gm.table),
         tokens # Absent => Small(tokens),
         ServeBet(r, gm, tokens)
  PROVE  HandlerPays(extensions)
<1>1. CASE UNCHANGED <<extensions, settlements>>
  BY <1>1 DEF HandlerPays
<1>2. CASE /\ gm # Absent /\ tokens # Absent /\ input[r].bet # Omitted
           /\ tokens >= input[r].bet
  <2>1. Covered(r, gm, tokens)
    <3>1. input[r].bet \in NatInt32 /\ tokens \in Int32
      BY <1>2, GameServiceAssumption DEF BetInputs
    <3>2. input[r].bet <= tokens
      BY <1>2, <3>1, IntLimitAssumption DEF NatInt32, Int32
    <3> QED BY <1>2, <3>1, <3>2 DEF Covered, Handling
  <2>2. CASE gm.table = 0 /\ HandleBet(r, gm, tokens, extensions)
    BY <2>1, <2>2, HandleBetPays
  <2>3. CASE HandleForfeit(r, gm, tokens)
    BY <2>1, <2>3, HandleForfeitPays
  <2>4. CASE input[r].bet = gm.table /\ HandleWar(r, gm, tokens, extensions)
    BY <2>1, <2>4, HandleWarPays
  <2> QED BY <1>1, <1>2, <2>2, <2>3, <2>4 DEF ServeBet
<1> QED BY <1>1, <1>2 DEF ServeBet

-----------------------------------------------------------------------------
(***************************************************************************)
(* The invariant.                                                          *)
(***************************************************************************)
\* What every step may do to the tables: a balance below zero belongs to a
\* player who has placed a tie bet.
TablesPaid ==
  /\ \A g \in Games : game'[g] # Absent => Small(game'[g].table)
  /\ \A p \in Players :
       player'[p] # Absent /\ player'[p] < 0 => TieBettor(p)

LEMMA BalanceStep ==
  ASSUME IInv, BInv, InputStep, TablesPaid,
         \A q \in reads' : ReadSmall(q),
         \A e \in extensions' : e.req \in Requests /\ ExtensionCovered(e),
         \A s \in settlements' : s.req \in Requests /\ SettlementCovered(s),
         \A u \in topUps' : u.to >= 0
  PROVE  BInv'
<1>1. \A r \in Requests : input[r] \in Inputs => input'[r] = input[r]
  BY DEF InputStep
<1>2. BetInputs \subseteq Inputs
  BY DEF Inputs
<1>3. \A p \in Players : TieBettor(p) => TieBettor(p)'
  <2>1. \A r \in Requests : input[r] # None => input[r] \in Inputs
    BY DEF IInv, TypeOK
  <2> QED BY <1>1, <2>1 DEF TieBettor
<1>4. \A e \in extensions' : ExtensionCovered(e)'
  BY <1>1, <1>2 DEF ExtensionCovered
<1>5. \A s \in settlements' : SettlementCovered(s)'
  BY <1>1, <1>2 DEF SettlementCovered
<1>6. \A q \in reads' : ReadSmall(q)'
  BY DEF ReadSmall
<1> QED BY <1>3, <1>4, <1>5, <1>6 DEF BInv, TablesPaid

LEMMA TablesStayPaid == ASSUME BInv, UNCHANGED <<player, game>> PROVE TablesPaid
BY DEF BInv, TablesPaid

LEMMA CasGamePaid ==
  ASSUME IInv, BInv, NEW g, NEW cur, NEW row, Small(row.table),
         game' \in {game, CasGame(g, cur, row)}
  PROVE  \A h \in Games : game'[h] # Absent => Small(game'[h].table)
BY DEF IInv, TypeOK, RepositoryTypeOK, BInv, CasGame

LEMMA CasPlayerPaid ==
  ASSUME IInv, BInv, NEW p, NEW from, NEW to \in Int32, to >= 0 \/ TieBettor(p),
         player' \in {player, CasPlayer(p, from, to)}
  PROVE  \A o \in Players : player'[o] # Absent /\ player'[o] < 0 => TieBettor(o)
<1>1. ~ (to >= 0) <=> to < 0
  BY IntLimitAssumption DEF Int32
<1>2. \A o \in Players : player'[o] = player[o] \/ (o = p /\ player'[o] = to)
  BY DEF IInv, TypeOK, RepositoryTypeOK, CasPlayer
<1> QED BY <1>1, <1>2 DEF BInv

\* A balance that a settlement sets below zero is that of a tie bettor.
LEMMA SettlementPaid ==
  ASSUME IInv, BInv, NEW s \in settlements
  PROVE  /\ s.req \in Requests /\ s.to \in Int32 /\ Small(s.row.table)
         /\ s.to >= 0 \/ TieBettor(s.player)
<1>1. s.req \in Requests /\ s.to \in Int32 /\ SettlementCovered(s)
  BY SettlementTypes DEF BInv
<1>2. input[s.req] # None /\ input[s.req].kind = "bet"
  BY <1>1, NoneAssumption DEF SettlementCovered, Inputs, BetInputs
<1> QED BY <1>1, <1>2 DEF SettlementCovered, TieBettor

LEMMA ExtensionRequest ==
  ASSUME IInv, NEW e \in extensions
  PROVE  e.req \in Requests /\ e.tokens \in Int32 /\ ExtensionOK(e)
BY DEF IInv, ExtensionOK, ExtensionRecords

\* The stake of an extension is a bet that a small balance covered.
LEMMA ExtensionSmall ==
  ASSUME IInv, BInv, NEW e \in extensions
  PROVE  Small(e.row.table)
<1>1. e.tokens \in Int32 /\ ExtensionOK(e) /\ ExtensionCovered(e)
  BY ExtensionRequest DEF BInv
<1>2. input[e.req].bet \in NatInt32
  BY <1>1, GameServiceAssumption DEF ExtensionOK, BetInputs
<1>3. (e.row.table \in Int /\ e.row.table <= e.tokens) \/ e.row.table = 0
  BY <1>1, <1>2, IntLimitAssumption DEF ExtensionCovered, NatInt32
<1> QED BY <1>1, <1>3, IntLimitAssumption DEF ExtensionCovered, Small, Int32

\* The rows a bet waited for have arrived.
LEMMA ArrivePays ==
  ASSUME IInv, BInv, NEW q \in reads, NEW now, ReadOK(now), now.req = q.req,
         ReadSmall(now), Arrive(q, now), UNCHANGED <<player, game, input>>
  PROVE  BInv'
<1>1. /\ TypeOK /\ q.req \in Requests /\ input[q.req] \in Inputs
      /\ InputStep /\ TablesPaid
  BY InputUnchanged, TablesStayPaid DEF IInv, ReadOK, ReadRecords
<1>2. \A p \in reads' : ReadSmall(p)
  BY DEF BInv, Arrive
<1>3. /\ \A e \in extensions : e.req \in Requests /\ ExtensionCovered(e)
      /\ \A s \in settlements : s.req \in Requests /\ SettlementCovered(s)
      /\ \A u \in topUps : u.to >= 0
  BY ExtensionRequest, SettlementTypes DEF BInv
<1>4. CASE now.game = Pending \/ now.player = Pending
  BY <1>1, <1>2, <1>3, <1>4, BalanceStep DEF Arrive
<1>5. CASE /\ now.game # Pending /\ now.player # Pending
           /\ input[q.req].kind = "bet"
  <2>1. /\ ServeBet(q.req, now.game, now.player) /\ topUps' = topUps
        /\ input[q.req] \in BetInputs
    BY <1>1, <1>5 DEF Arrive, Inputs, TopUpInputs
  <2>2. /\ now.game \in Row \cup {Absent} /\ now.player \in Int32 \cup {Absent}
        /\ now.game # Absent => RowOK(now.game) /\ Small(now.game.table)
        /\ now.player # Absent => Small(now.player)
    BY <1>5 DEF ReadOK, ReadRecords, ReadSmall
  <2>3. HandlerPays(extensions)
    BY <1>1, <2>1, <2>2, ServeBetPays
  <2>4. /\ \A e \in extensions' : e.req \in Requests
        /\ \A s \in settlements' : s.req \in Requests
    BY ArriveOK DEF ExtensionOK, ExtensionRecords, SettlementOK, SettlementRecords
  <2> QED BY <1>1, <1>2, <1>3, <2>1, <2>3, <2>4, BalanceStep DEF HandlerPays
<1>6. CASE /\ now.game # Pending /\ now.player # Pending
           /\ input[q.req].kind = "topUp"
  <2>1. /\ ServeTopUp(q.req, now.player) /\ UNCHANGED <<extensions, settlements>>
        /\ input[q.req] \in TopUpInputs
    BY <1>1, <1>6 DEF Arrive, Inputs, BetInputs
  <2>2. input[q.req].tokens >= 0
    <3>1. input[q.req].tokens \in NatInt32
      BY <2>1, GameServiceAssumption DEF TopUpInputs
    <3> QED BY <3>1, IntLimitAssumption DEF NatInt32
  <2>3. \A u \in topUps' : u.to >= 0
    BY <1>3, <2>1, <2>2 DEF ServeTopUp
  <2> QED BY <1>1, <1>2, <1>3, <2>1, <2>3, BalanceStep
<1> QED BY <1>4, <1>5, <1>6 DEF Arrive

LEMMA ReadsPay ==
  ASSUME IInv, BInv, BalancesSmall, NEW q \in reads, GetGame(q) \/ GetPlayer(q)
  PROVE  BInv'
<1>1. ReadOK(q) /\ ReadSmall(q) /\ UNCHANGED <<player, game, input>>
  BY DEF IInv, BInv, GetGame, GetPlayer
<1>2. CASE GetGame(q)
  <2> DEFINE g == input[q.req].game
             now == [q EXCEPT !.game = game[g]]
  <2>1. q.game = Pending /\ input[q.req] \in BetInputs /\ g \in Games
    BY <1>1, <1>2, AbsentNotRow DEF GetGame, ReadOK, BetInputs
  <2>2. /\ now.req = q.req /\ now.game = game[g] /\ now.player = q.player
        /\ now \in ReadRecords
    BY <1>1, <2>1 DEF ReadOK, ReadRecords, IInv, TypeOK, RepositoryTypeOK
  <2>3. Arrive(q, now)
    BY <1>2 DEF GetGame
  <2> HIDE DEF now
  <2>4. ReadOK(now)
    <3>1. game[g] # Absent => RowOK(game[g]) /\ game[g].top <= game[g].top
      BY <2>1 DEF IInv, RowOK, Row
    <3>2. game[g] # Absent => CopyOf(game[g], game[g].top, g)
      BY <3>1 DEF CopyOf, SameCards
    <3> QED BY <1>1, <2>1, <2>2, <3>1, <3>2 DEF ReadOK
  <2>5. ReadSmall(now)
    BY <1>1, <2>1, <2>2 DEF ReadSmall, BInv
  <2> QED BY <1>1, <2>2, <2>3, <2>4, <2>5, ArrivePays
<1>3. CASE GetPlayer(q)
  <2> DEFINE p == input[q.req].player
             now == [q EXCEPT !.player = player[p]]
  <2>1. p \in Players
    BY <1>1 DEF ReadOK, Inputs, BetInputs, TopUpInputs
  <2>2. /\ now.req = q.req /\ now.game = q.game /\ now.player = player[p]
        /\ now \in ReadRecords
    BY <1>1, <2>1 DEF ReadOK, ReadRecords, IInv, TypeOK, RepositoryTypeOK
  <2>3. Arrive(q, now)
    BY <1>3 DEF GetPlayer
  <2> HIDE DEF now
  <2>4. ReadOK(now) /\ ReadSmall(now)
    BY <1>1, <2>1, <2>2 DEF ReadOK, ReadSmall, BalancesSmall
  <2> QED BY <1>1, <2>2, <2>3, <2>4, ArrivePays
<1> QED BY <1>2, <1>3

\* An extension has been stored with the stake it carried, and its bet goes on.
LEMMA UpdateGameDeckPays ==
  ASSUME IInv, BInv, NEW e \in extensions, UpdateGameDeck(e)
  PROVE  BInv'
<1>1. /\ TypeOK /\ e.req \in Requests /\ e.tokens \in Int32 /\ ExtensionOK(e)
      /\ ExtensionCovered(e)
  BY ExtensionRequest DEF IInv, BInv
<1>2. Small(e.row.table)
  BY ExtensionSmall
<1>3. UNCHANGED <<player, input, reads, topUps, lost>>
  BY DEF UpdateGameDeck
<1>4. TablesPaid
  <2>1. game' \in {game, CasGame(e.game, e.cur, e.row)}
    BY DEF UpdateGameDeck
  <2> QED BY <1>2, <1>3, <2>1, CasGamePaid DEF TablesPaid, BInv
<1>5. InputStep
  BY <1>3, InputUnchanged
<1>6. /\ \A x \in extensions' : x.req \in Requests
      /\ \A s \in settlements' : s.req \in Requests
  BY UpdateGameDeckPreserves DEF IInv, TypeOK, ExtensionRecords, SettlementRecords
<1>7. HandlerPays(extensions)
  <2>1. CASE e.req \in lost
    BY <2>1 DEF UpdateGameDeck, HandlerPays
  <2>2. CASE e.req \notin lost
    <3>1. Covered(e.req, e.row, e.tokens)
      BY <1>1, <1>2 DEF Covered, Handling, ExtensionOK, ExtensionCovered
    <3>2. e.row.table > 0 => e.row.table = input[e.req].bet
      BY <1>1 DEF ExtensionCovered
    <3>3. HandlerPays(extensions \ {e})
      BY <2>2, <3>1, <3>2, HandleBetPays, HandleWarPays DEF UpdateGameDeck
    <3> QED BY <3>3 DEF HandlerPays
  <2> QED BY <2>1, <2>2
<1> QED BY <1>3, <1>4, <1>5, <1>6, <1>7, BalanceStep DEF HandlerPays, BInv

\* One half of a settlement has run or failed.
LEMMA HalfPays ==
  ASSUME IInv, BInv, NEW s \in settlements, NEW part,
         \/ UpdatePlayer(s) \/ UpdateGame(s) \/ FailSettlement(s, part)
  PROVE  BInv'
<1>1. /\ s.req \in Requests /\ s.to \in Int32 /\ Small(s.row.table)
      /\ s.to >= 0 \/ TieBettor(s.player)
      /\ s \in SettlementRecords /\ SettlementCovered(s)
  BY SettlementPaid, SettlementTypes DEF SettlementOK, BInv
<1>2. /\ player' \in {player, CasPlayer(s.player, s.from, s.to)}
      /\ game' \in {game, CasGame(s.game, s.cur, s.row)}
      /\ UNCHANGED <<input, reads, extensions, topUps>>
  BY DEF UpdatePlayer, UpdateGame, FailSettlement
<1>3. TablesPaid
  BY <1>1, <1>2, CasGamePaid, CasPlayerPaid DEF TablesPaid
<1>4. \A t \in settlements' : t \in settlements \/ \E left : t = [s EXCEPT !.todo = left]
  BY DEF UpdatePlayer, UpdateGame, FailSettlement, Settle
<1>5. \A left : LET t == [s EXCEPT !.todo = left] IN
        t.req \in Requests /\ SettlementCovered(t)
  BY <1>1 DEF SettlementRecords, SettlementCovered
<1>6. \A t \in settlements' : t.req \in Requests /\ SettlementCovered(t)
  BY <1>4, <1>5, SettlementTypes DEF BInv
<1>7. InputStep
  BY <1>2, InputUnchanged
<1> QED BY <1>2, <1>3, <1>6, <1>7, ExtensionRequest, BalanceStep DEF BInv

LEMMA TopUpPays ==
  ASSUME IInv, BInv, NEW u \in topUps, UpdateTokens(u) \/ FailTokens(u)
  PROVE  BInv'
<1>1. u.to \in Int32 /\ u.to >= 0
  BY DEF IInv, TypeOK, TopUpRecords, BInv
<1>2. /\ player' \in {player, CasPlayer(u.player, u.from, u.to)}
      /\ topUps' \in {topUps, topUps \ {u}}
      /\ UNCHANGED <<game, input, reads, extensions, settlements>>
  BY DEF UpdateTokens, FailTokens
<1>3. TablesPaid
  BY <1>1, <1>2, CasPlayerPaid DEF TablesPaid, BInv
<1>4. InputStep
  BY <1>2, InputUnchanged
<1> QED
  BY <1>2, <1>3, <1>4, ExtensionRequest, SettlementTypes, BalanceStep DEF BInv

\* A failed read, a failed extension or a crash only takes statements away.
LEMMA DroppedPays ==
  ASSUME IInv, BInv,
         \/ \E q \in reads : FailRead(q)
         \/ \E e \in extensions : FailExtension(e)
         \/ Crash
  PROVE  BInv'
<1>1. /\ reads' \subseteq reads /\ extensions' \subseteq extensions
      /\ UNCHANGED <<player, game, input, settlements, topUps>>
  BY DEF FailRead, FailExtension, Crash
<1>2. TablesPaid /\ InputStep
  BY <1>1, InputUnchanged, TablesStayPaid
<1> QED
  BY <1>1, <1>2, ExtensionRequest, SettlementTypes, BalanceStep DEF BInv

LEMMA SubmitPays ==
  ASSUME IInv, BInv, NEW r \in Requests, NEW in \in Inputs,
         NEW awaited \in {Absent, Pending}, Submit(r, in, awaited)
  PROVE  BInv'
<1>1. /\ UNCHANGED <<player, game, extensions, settlements, topUps>>
      /\ reads' = reads \cup {[req |-> r, game |-> awaited, player |-> Pending]}
      /\ input' = [input EXCEPT ![r] = in] /\ input[r] = None
  BY DEF Submit
<1>2. InputStep
  BY <1>1, NoneAssumption DEF InputStep, IInv, TypeOK
<1>3. \A q \in reads' : ReadSmall(q)
  BY <1>1 DEF BInv, ReadSmall
<1> QED
  BY <1>1, <1>2, <1>3, TablesStayPaid, ExtensionRequest, SettlementTypes, BalanceStep
     DEF BInv

LEMMA InitBInv == ASSUME StartsSolvent PROVE Init => BInv
<1> SUFFICES ASSUME Init PROVE BInv
  OBVIOUS
<1>1. \A p \in Players : player[p] # Absent => ~ (player[p] < 0)
  <2>1. player \in [Players -> Int32 \cup {Absent}] /\ player = StartTokens
    BY RepositoryAssumption DEF Init, RepositoryInit
  <2> QED BY <2>1, IntLimitAssumption DEF StartsSolvent, Int32
<1>2. \A g \in Games : game[g] # Absent => Small(game[g].table)
  BY DEF Init, RepositoryInit, StartsSolvent
<1> QED BY <1>1, <1>2 DEF Init, BInv

LEMMA NextBInv == IInv /\ BInv /\ BalancesSmall /\ [Next]_vars => BInv'
<1> SUFFICES ASSUME IInv, BInv, BalancesSmall, [Next]_vars PROVE BInv'
  OBVIOUS
<1>1. CASE Arrivals
  BY <1>1, SubmitPays DEF Arrivals, RequestBet, UpdatePlayerToken, Inputs
<1>2. CASE Statements
  BY <1>2, ReadsPay, UpdateGameDeckPays, HalfPays, TopUpPays DEF Statements
<1>3. CASE StatementFaults
  BY <1>3, DroppedPays, HalfPays, TopUpPays DEF StatementFaults
<1>4. CASE UNCHANGED vars
  BY <1>4
     DEF vars, BInv, ReadSmall, ExtensionCovered, SettlementCovered, TieBettor
<1> QED BY <1>1, <1>2, <1>3, <1>4, DroppedPays DEF Next

-----------------------------------------------------------------------------
(***************************************************************************)
(* Where tokens come from.                                                 *)
(***************************************************************************)
\* A settlement stores what it replies ...
Repays(s) == s.to = Wrap(s.from + s.reply.value)

\* ... to the player of its bet, and a top-up stores the count it was sent.
PaysBettor(s) ==
  input[s.req] \in BetInputs /\ s.player = input[s.req].player /\ Repays(s)

SetsTokens(u) ==
  /\ input[u.req] \in TopUpInputs
  /\ u.player = input[u.req].player /\ u.to = input[u.req].tokens

MInv ==
  /\ \A s \in settlements : PaysBettor(s)
  /\ \A u \in topUps : SetsTokens(u)

\* What one step may do to the balances.
TokensMove ==
  \A p \in Players : player[p] # Absent /\ player'[p] # player[p] =>
    \/ \E s \in settlements \ settlements' :
         /\ input[s.req].player = p
         /\ player'[p] = Wrap(player[p] + s.reply.value)
    \/ \E u \in topUps \ topUps' :
         input[u.req].player = p /\ player'[p] = input[u.req].tokens

\* Settlements are made by Settlement.
LEMMA HandlersRepay ==
  ASSUME NEW r, NEW gm, NEW tokens, NEW rest,
         \/ HandleBet(r, gm, tokens, rest)
         \/ HandleWar(r, gm, tokens, rest)
         \/ HandleForfeit(r, gm, tokens)
  PROVE  \A s \in settlements' \ settlements :
           s.req = r /\ s.player = input[r].player /\ Repays(s)
<1> DEFINE Pays(s) == s.req = r /\ s.player = input[r].player /\ Repays(s)
<1>1. \A top, stake, response :
        Pays(Settlement(r, gm, tokens, top, stake, response))
  BY DEF Settlement, Repays
<1> HIDE DEF Pays
<1>2. CASE HandleBet(r, gm, tokens, rest)
  <2>1. \A s \in settlements' \ settlements : s = RoundSettlement(r, gm, tokens)
    BY <1>2 DEF HandleBet
  <2> QED BY <1>1, <2>1 DEF RoundSettlement, Pays
<1>3. CASE HandleWar(r, gm, tokens, rest)
  <2>1. \A s \in settlements' \ settlements :
          s = Settlement(r, gm, tokens, gm.top + 5, 0, WarResponse(r, gm))
    BY <1>3 DEF HandleWar
  <2> QED BY <1>1, <2>1 DEF Pays
<1>4. CASE HandleForfeit(r, gm, tokens)
  BY <1>1, <1>4 DEF HandleForfeit, Pays
<1> QED BY <1>2, <1>3, <1>4

LEMMA MovesStep ==
  ASSUME IInv, InputStep,
         \A s \in settlements' : s.req \in Requests /\ PaysBettor(s),
         \A u \in topUps' : u.req \in Requests /\ SetsTokens(u)
  PROVE  MInv'
<1>1. \A r \in Requests : input[r] \in Inputs => input'[r] = input[r]
  BY DEF InputStep
<1>2. BetInputs \subseteq Inputs /\ TopUpInputs \subseteq Inputs
  BY DEF Inputs
<1>3. \A s \in settlements' : PaysBettor(s)'
  BY <1>1, <1>2 DEF PaysBettor, Repays
<1>4. \A u \in topUps' : SetsTokens(u)'
  BY <1>1, <1>2 DEF SetsTokens
<1> QED BY <1>3, <1>4 DEF MInv

LEMMA TopUpRequest ==
  ASSUME IInv, NEW u \in topUps PROVE u.req \in Requests /\ u \in TopUpRecords
BY DEF IInv, TypeOK, TopUpRecords

\* A step that leaves the balances and makes settlements in a handler.
LEMMA ServedMoves ==
  ASSUME IInv, MInv, UNCHANGED <<player, input>>, topUps' = topUps,
         NEW r \in Requests, input[r] \in BetInputs,
         \A s \in settlements' \ settlements :
           s.req = r /\ s.player = input[r].player /\ Repays(s)
  PROVE  MInv' /\ TokensMove
<1>1. \A s \in settlements' : s.req \in Requests /\ PaysBettor(s)
  BY SettlementTypes DEF MInv, PaysBettor
<1>2. \A u \in topUps' : u.req \in Requests /\ SetsTokens(u)
  BY TopUpRequest DEF MInv
<1>3. InputStep
  BY InputUnchanged
<1> QED BY <1>1, <1>2, <1>3, MovesStep DEF TokensMove

LEMMA ArriveMoves ==
  ASSUME IInv, MInv, NEW q \in reads, NEW now, Arrive(q, now), ReadOK(q),
         UNCHANGED <<player, input>>
  PROVE  MInv' /\ TokensMove
<1> DEFINE r == q.req
<1>1. r \in Requests /\ input[r] \in Inputs /\ InputStep
  BY InputUnchanged DEF ReadOK, ReadRecords
<1>2. CASE UNCHANGED <<settlements, topUps>>
  BY <1>2, <1>1, SettlementTypes, TopUpRequest, MovesStep DEF MInv, TokensMove
<1>3. CASE /\ input[r].kind = "bet" /\ ServeBet(r, now.game, now.player)
           /\ topUps' = topUps
  <2>1. input[r] \in BetInputs
    BY <1>1, <1>3 DEF Inputs, TopUpInputs
  <2>2. \/ settlements' = settlements
        \/ HandleBet(r, now.game, now.player, extensions)
        \/ HandleWar(r, now.game, now.player, extensions)
        \/ HandleForfeit(r, now.game, now.player)
    BY <1>3 DEF ServeBet
  <2>3. \A s \in settlements' \ settlements :
          s.req = r /\ s.player = input[r].player /\ Repays(s)
    BY <2>2, HandlersRepay
  <2> QED BY <1>1, <1>3, <2>1, <2>3, ServedMoves
<1>4. CASE /\ input[r].kind = "topUp" /\ ServeTopUp(r, now.player)
           /\ settlements' = settlements
  <2>1. input[r] \in TopUpInputs
    BY <1>1, <1>4 DEF Inputs, BetInputs
  <2>2. \A u \in topUps' : u.req \in Requests /\ SetsTokens(u)
    BY <1>1, <1>4, <2>1, TopUpRequest DEF ServeTopUp, SetsTokens, MInv
  <2> QED BY <1>1, <1>4, <2>2, SettlementTypes, MovesStep DEF MInv, TokensMove
<1> QED BY <1>2, <1>3, <1>4 DEF Arrive

LEMMA UpdateGameDeckMoves ==
  ASSUME IInv, MInv, NEW e \in extensions, UpdateGameDeck(e)
  PROVE  MInv' /\ TokensMove
<1> DEFINE rest == extensions \ {e}
<1>1. e.req \in Requests /\ input[e.req] \in BetInputs
  BY ExtensionRequest DEF ExtensionOK
<1>2. UNCHANGED <<player, input>> /\ topUps' = topUps
  BY DEF UpdateGameDeck
<1>3. \/ settlements' = settlements
      \/ HandleBet(e.req, e.row, e.tokens, rest)
      \/ HandleWar(e.req, e.row, e.tokens, rest)
  BY DEF UpdateGameDeck
<1>4. \A s \in settlements' \ settlements :
        s.req = e.req /\ s.player = input[e.req].player /\ Repays(s)
  BY <1>3, HandlersRepay
<1> QED BY <1>1, <1>2, <1>4, ServedMoves

\* A compare-and-set changes the balance it names, and only from what it
\* expects there.
LEMMA CasPlayerMoves ==
  ASSUME IInv, NEW o, NEW from, NEW to,
         player' \in {player, CasPlayer(o, from, to)},
         NEW p \in Players, player'[p] # player[p]
  PROVE  p = o /\ player[p] = from /\ player'[p] = to
BY DEF IInv, TypeOK, RepositoryTypeOK, CasPlayer

LEMMA HalfMoves ==
  ASSUME IInv, MInv, NEW s \in settlements, NEW part,
         \/ UpdatePlayer(s) \/ UpdateGame(s) \/ FailSettlement(s, part)
  PROVE  MInv' /\ TokensMove
<1>1. /\ s.req \in Requests /\ s \in SettlementRecords /\ PaysBettor(s)
  BY SettlementTypes DEF SettlementOK, MInv
<1>2. UNCHANGED <<input, topUps>> /\ InputStep
  BY InputUnchanged DEF UpdatePlayer, UpdateGame, FailSettlement
<1>3. \A t \in settlements' : t \in settlements \/ \E left : t = [s EXCEPT !.todo = left]
  BY DEF UpdatePlayer, UpdateGame, FailSettlement, Settle
<1>4. \A left : LET t == [s EXCEPT !.todo = left] IN
        t.req \in Requests /\ PaysBettor(t)
  BY <1>1 DEF SettlementRecords, PaysBettor, Repays
<1>5. MInv'
  <2>1. \A t \in settlements' : t.req \in Requests /\ PaysBettor(t)
    BY <1>3, <1>4, SettlementTypes DEF MInv
  <2> QED BY <1>2, <2>1, TopUpRequest, MovesStep DEF MInv
<1>6. ASSUME NEW p \in Players, player'[p] # player[p]
      PROVE  /\ s \in settlements \ settlements'
             /\ input[s.req].player = p
             /\ player'[p] = Wrap(player[p] + s.reply.value)
  <2>1. player' \in {player, CasPlayer(s.player, s.from, s.to)}
    BY DEF UpdatePlayer, UpdateGame, FailSettlement
  <2>2. p = s.player /\ player[p] = s.from /\ player'[p] = s.to
    BY <1>6, <2>1, CasPlayerMoves
  <2>3. s \notin settlements'
    <3>1. UpdatePlayer(s)
      BY <1>6 DEF UpdateGame, FailSettlement
    <3>2. \A t \in settlements' :
            t \in settlements \ {s} \/ t = [s EXCEPT !.todo = s.todo \ {"player"}]
      BY <3>1 DEF UpdatePlayer, Settle
    <3>3. [s EXCEPT !.todo = s.todo \ {"player"}].todo = s.todo \ {"player"}
      BY <1>1 DEF SettlementRecords
    <3> QED BY <3>1, <3>2, <3>3 DEF UpdatePlayer
  <2> QED BY <1>1, <2>2, <2>3 DEF PaysBettor, Repays
<1>7. TokensMove
  BY <1>6 DEF TokensMove
<1> QED BY <1>5, <1>7

LEMMA TopUpMoves ==
  ASSUME IInv, MInv, NEW u \in topUps, UpdateTokens(u) \/ FailTokens(u)
  PROVE  MInv' /\ TokensMove
<1>1. /\ \/ player' = CasPlayer(u.player, u.from, u.to) /\ topUps' = topUps \ {u}
         \/ player' = player /\ topUps' \in {topUps, topUps \ {u}}
      /\ settlements' = settlements /\ input' = input
      /\ SetsTokens(u) /\ InputStep
  BY InputUnchanged DEF UpdateTokens, FailTokens, MInv
<1>2. MInv'
  BY <1>1, SettlementTypes, TopUpRequest, MovesStep DEF MInv
<1>3. \A p \in Players : player'[p] # player[p] =>
        /\ u \in topUps \ topUps'
        /\ input[u.req].player = p /\ player'[p] = input[u.req].tokens
  BY <1>1, CasPlayerMoves DEF SetsTokens
<1> QED BY <1>2, <1>3 DEF TokensMove

LEMMA NextMoves == IInv /\ MInv /\ [Next]_vars => MInv' /\ TokensMove
<1> SUFFICES ASSUME IInv, MInv, [Next]_vars PROVE MInv' /\ TokensMove
  OBVIOUS
<1>1. ASSUME UNCHANGED <<player, settlements, topUps>>, InputStep
      PROVE  MInv' /\ TokensMove
  BY <1>1, SettlementTypes, TopUpRequest, MovesStep DEF MInv, TokensMove
<1>2. ASSUME NEW r \in Requests, NEW in \in Inputs, NEW awaited, Submit(r, in, awaited)
      PROVE  MInv' /\ TokensMove
  <2>1. InputStep
    BY <1>2, NoneAssumption DEF InputStep, IInv, TypeOK, Submit
  <2> QED BY <1>1, <1>2, <2>1 DEF Submit
<1>3. CASE Arrivals
  BY <1>2, <1>3 DEF Arrivals, RequestBet, UpdatePlayerToken, Inputs
<1>4. ASSUME NEW q \in reads, GetGame(q) \/ GetPlayer(q) PROVE MInv' /\ TokensMove
  <2>1. ReadOK(q)
    BY DEF IInv
  <2> QED BY <1>4, <2>1, ArriveMoves DEF GetGame, GetPlayer
<1>5. CASE Statements
  BY <1>4, <1>5, UpdateGameDeckMoves, HalfMoves, TopUpMoves DEF Statements
<1>6. CASE \/ \E q \in reads : FailRead(q)
           \/ \E e \in extensions : FailExtension(e)
           \/ Crash
  <2>1. UNCHANGED <<player, settlements, topUps, input>>
    BY <1>6 DEF FailRead, FailExtension, Crash
  <2> QED BY <1>1, <2>1, InputUnchanged
<1>7. CASE StatementFaults
  BY <1>6, <1>7, HalfMoves, TopUpMoves DEF StatementFaults
<1>8. CASE UNCHANGED vars
  BY <1>1, <1>8, InputUnchanged DEF vars
<1> QED BY <1>3, <1>5, <1>6, <1>7, <1>8 DEF Next

-----------------------------------------------------------------------------
\* However bets, top-ups, failures and crashes interleave: as long as balances
\* are small enough for every payment to be an Int, only a player who has
\* placed a tie bet can be below zero.
THEOREM OverdraftNeedsTieBet ==
  ASSUME StartsSolvent
  PROVE  Spec /\ []BalancesSmall => []OverdraftOnlyByTieBet
<1>1. Init => BInv
  BY InitBInv
<1>2. IInv /\ BInv /\ BalancesSmall /\ [Next]_vars => BInv'
  BY NextBInv
<1>3. BInv => OverdraftOnlyByTieBet
  BY DEF BInv, OverdraftOnlyByTieBet, TieBettor
<1> QED BY <1>1, <1>2, <1>3, Invariance, PTL DEF Spec

\* In one step a balance moves by the reply of one settlement of the player,
\* whose half is then done, or to the count of one top-up: no UPDATE stores
\* tokens over a balance it has not seen.
THEOREM TokensMoveOnlyByBets == Spec => TokensMoveByBets
<1>1. Init => MInv
  BY DEF Init, MInv
<1>2. IInv /\ MInv /\ [Next]_vars => MInv' /\ TokensMove
  BY NextMoves
<1>3. TokensMove => \A p \in Players : player[p] # Absent /\ player'[p] # player[p] =>
       \/ \E s \in settlements \ settlements' :
            /\ input[s.req].player = p
            /\ player'[p] = Wrap(player[p] + s.reply.value)
       \/ \E u \in topUps \ topUps' :
            /\ input[u.req].player = p
            /\ player'[p] = input[u.req].tokens
  BY DEF TokensMove
<1> QED BY <1>1, <1>2, <1>3, Invariance, PTL DEF Spec, TokensMoveByBets
=============================================================================
