---------------------------- MODULE GameService ----------------------------
(***************************************************************************)
(* Bets and token updates as the server runs them: GameServiceImpl.kt over *)
(* RepositoryPgImpl.kt, answered through GameApiImpl.kt.                   *)
(*                                                                         *)
(* Handlers and callbacks share no memory but the random generator of the  *)
(* deck, so each counts as one step, whichever event loop runs it: what a  *)
(* request can observe of others is what its statements find.  Statements  *)
(* in flight are the elements of reads, extensions, settlements and        *)
(* topUps.  They travel on a pool of connections, so the database may run  *)
(* them in any order.  An action runs one statement and the callback that  *)
(* awaits it: a callback touches only its own request, so nothing can tell *)
(* its later delivery apart, except a crash, which has an action.          *)
(*                                                                         *)
(* No callback learns whether the compare-and-set of an UPDATE matched.    *)
(***************************************************************************)
EXTENDS Repository

CONSTANTS
  Requests,     \* the requests of a behaviour
  Bets,         \* values of the field bet; Omitted when the body lacks it
  TieBets,      \* values of the field tieBet; Omitted when the body lacks it
  TopUps,       \* values of tokenCount in PUT /player/{playerId}
  Exclusive,    \* clients wait for the answer before naming its player or game
  MaxFaults,    \* bound: crashes and failed statements in a behaviour
  Omitted,      \* a field missing from the request body
  Pending,      \* a SELECT that has not run yet
  None          \* no request, no answer

ASSUME GameServiceAssumption ==
  /\ Bets \subseteq NatInt32 \cup {Omitted}
  /\ TieBets \subseteq NatInt32 \cup {Omitted}
  /\ TopUps \subseteq NatInt32
  /\ Exclusive \in BOOLEAN
  /\ MaxFaults \in Nat
  /\ {Omitted, Pending} \cap Int = {}
  /\ Pending \notin Row \cup {Absent}

BetInputs ==
  [kind : {"bet"}, game : Games, player : Players, bet : Bets, tieBet : TieBets]
\* Left out: a body without tokenCount, which fails in the handler (500) before
\* any statement, as a bet without playerId does.
TopUpInputs == [kind : {"topUp"}, player : Players, tokens : TopUps]
Inputs == BetInputs \cup TopUpInputs

ASSUME NoneAssumption == None \notin Inputs

VARIABLES
  input,        \* what a request asks for; None before it is sent
  reads,        \* SELECTs of requests still waiting for one of them
  extensions,   \* UPDATEs of extendGameDeck in flight
  settlements,  \* the pair of UPDATEs of a bet, while one is in flight
  topUps,       \* UPDATEs of updatePlayerToken in flight
  answer,       \* the response a request got; None before
  lost,         \* requests that no callback goes on with: their process
                \* crashed or their extension failed
  faults        \* crashes and failed statements so far

vars == <<player, game, input, reads, extensions, settlements, topUps,
          answer, lost, faults>>

(***************************************************************************)
(* Responses.  by names the handler that produced it.                      *)
(***************************************************************************)
Handlers == {"round", "war", "forfeit", "topUp", "error"}

Answers == [status : {200, 404, 409, 500}, by : Handlers,
            result : BetResults \cup {"none"}, value : Int32,
            cards : Seq(CardIds)]

ASSUME NoAnswerAssumption == None \notin Answers

BetResponse(handler, betResult, tokens, shown) ==
  [status |-> 200, by |-> handler, result |-> betResult, value |-> tokens,
   cards |-> shown]

ErrorResponse(code) ==
  [status |-> code, by |-> "error", result |-> "none", value |-> 0,
   cards |-> <<>>]

TopUpResponse ==
  [status |-> 200, by |-> "topUp", result |-> "none", value |-> 0,
   cards |-> <<>>]

\* The request was sent and its process still owes it a response.
Open(r) == input[r] # None /\ answer[r] = None /\ r \notin lost

\* Completing a promise a second time throws: the first answer stands.
Respond(r, response) ==
  answer' = IF Open(r) THEN [answer EXCEPT ![r] = response] ELSE answer

(***************************************************************************)
(* Statements in flight.                                                   *)
(***************************************************************************)
Parts == {"player", "game"}

ReadRecords ==
  [req : Requests, game : Row \cup {Absent, Pending},
   player : Int32 \cup {Absent, Pending}]

\* cur is the top_card_index compared, row the values set; tokens is the
\* player's balance the continuation will use.
ExtensionRecords ==
  [req : Requests, game : Games, cur : Nat, row : Row, tokens : Int32]

\* todo: the halves not executed yet; reply: sent when both have been.
SettlementRecords ==
  [req : Requests, player : Players, from : Int32, to : Int32,
   game : Games, cur : Nat, row : Row, reply : Answers,
   todo : SUBSET Parts]

TopUpRecords ==
  [req : Requests, player : Players, from : Int32, to : Int32]

\* Mutation: the stake of a war is not cleared when it is settled.
SettlementKeepsStake(r, gm, tokens, newTop, stake, response) ==
  [req |-> r, player |-> input[r].player,
   from |-> tokens, to |-> Wrap(tokens + response.value),
   game |-> input[r].game, cur |-> gm.top,
   row |-> [deck |-> gm.deck, top |-> newTop,
            table |-> IF stake = 0 THEN gm.table ELSE stake],
   reply |-> response, todo |-> Parts]

Settlement(r, gm, tokens, newTop, stake, response) ==
  [req |-> r, player |-> input[r].player,
   from |-> tokens, to |-> Wrap(tokens + response.value),
   game |-> input[r].game, cur |-> gm.top,
   row |-> [deck |-> gm.deck, top |-> newTop, table |-> stake],
   reply |-> response, todo |-> Parts]

\* Mutation: the new deck is one card short.
ExtensionShort(r, gm, tokens, newDeck) ==
  [req |-> r, game |-> input[r].game, cur |-> gm.top,
   row |-> [gm EXCEPT !.deck = gm.deck \o SubSeq(newDeck, 1, DeckSize - 1)],
   tokens |-> tokens]

\* extendGameDeck: a shuffled deck after the cards already there.
Extension(r, gm, tokens, newDeck) ==
  [req |-> r, game |-> input[r].game, cur |-> gm.top,
   row |-> [deck |-> gm.deck \o newDeck, top |-> gm.top, table |-> gm.table],
   tokens |-> tokens]

\* Mutation: a deck is asked for while most of the last one is undealt.
NeedsDeckEarly(gm, nextCardIndex) == nextCardIndex + DeckSize >= Len(gm.deck)

NeedsDeck(gm, nextCardIndex) == nextCardIndex + 1 >= Len(gm.deck)

\* The player's and the casino's card, dealt from the 0-based index at.
CardsAt(gm, at) == <<gm.deck[at + 1], gm.deck[at + 2]>>

-----------------------------------------------------------------------------
Init ==
  /\ RepositoryInit
  /\ input = [r \in Requests |-> None]
  /\ reads = {}
  /\ extensions = {}
  /\ settlements = {}
  /\ topUps = {}
  /\ answer = [r \in Requests |-> None]
  /\ lost = {}
  /\ faults = 0

(***************************************************************************)
(* Requests arrive: GameApiImpl hands them to the service, which issues    *)
(* its SELECTs before it returns to the event loop.                        *)
(***************************************************************************)
\* With Exclusive clients nobody else is using the player or the game.
Admissible(in) ==
  Exclusive =>
    \A r \in Requests : Open(r) =>
      /\ input[r].player # in.player
      /\ in.kind = "bet" /\ input[r].kind = "bet" => input[r].game # in.game

Submit(r, in, gameAwaited) ==
  /\ input[r] = None
  /\ Admissible(in)
  /\ input' = [input EXCEPT ![r] = in]
  /\ reads' = reads \cup
       {[req |-> r, game |-> gameAwaited, player |-> Pending]}
  /\ UNCHANGED <<player, game, extensions, settlements, topUps, answer, lost,
                 faults>>

\* POST /game/{gameid}/bet: getGame and getPlayer are issued together.
RequestBet(r) ==
  \E in \in BetInputs : Submit(r, in, Pending)

\* PUT /player/{playerId}: getPlayer alone.
UpdatePlayerToken(r) ==
  \E in \in TopUpInputs : Submit(r, in, Absent)

(***************************************************************************)
(* The handlers of a bet.  gm and tokens are the rows as they were read,   *)
(* rest is the extensions in flight besides the one being continued.       *)
(***************************************************************************)
Extend(r, gm, tokens, rest) ==
  \E newDeck \in Shuffles :
    extensions' = rest \cup {Extension(r, gm, tokens, newDeck)}

RoundResponse(r, gm) ==
  LET cards == CardsAt(gm, gm.top)
      bet == input[r].bet
      tieBet == input[r].tieBet
      betResult == RoundResult(CardValue(cards[1]), CardValue(cards[2]), tieBet)
  IN BetResponse("round", betResult, RoundTokens(betResult, bet, tieBet), cards)

\* Mutation: the index moves past one of the two cards.
RoundSettlementOneCard(r, gm, tokens) ==
  LET response == RoundResponse(r, gm)
  IN Settlement(r, gm, tokens, gm.top + 1,
                RoundStake(response.result, input[r].bet), response)

RoundSettlement(r, gm, tokens) ==
  LET response == RoundResponse(r, gm)
  IN Settlement(r, gm, tokens, gm.top + 2,
                RoundStake(response.result, input[r].bet), response)

\* handleBet goes on with the deck it has after asking for another one; it
\* settles unless a card or the field tieBet is missing (an exception in a
\* callback: logged, and no response).
HandleBet(r, gm, tokens, rest) ==
  /\ IF NeedsDeck(gm, gm.top + 1)
       THEN Extend(r, gm, tokens, rest)
       ELSE extensions' = rest
  /\ settlements' =
       IF gm.top + 2 <= Len(gm.deck) /\ input[r].tieBet # Omitted
         THEN settlements \cup {RoundSettlement(r, gm, tokens)}
         ELSE settlements
  /\ UNCHANGED answer

WarResponse(r, gm) ==
  LET cards == CardsAt(gm, gm.top + 3)
      betResult == WarResult(CardValue(cards[1]), CardValue(cards[2]))
  IN BetResponse("war", betResult, WarTokens(betResult, input[r].bet), cards)

\* handleWar: three cards are burned.  A win is answered and stores nothing.
HandleWar(r, gm, tokens, rest) ==
  IF NeedsDeck(gm, gm.top + 3)
    THEN /\ Extend(r, gm, tokens, rest)
         /\ UNCHANGED <<settlements, answer>>
    ELSE LET response == WarResponse(r, gm)
         IN /\ extensions' = rest
            /\ IF response.result = "win"
                 THEN /\ Respond(r, response)
                      /\ UNCHANGED settlements
                 ELSE /\ settlements' = settlements \cup
                           {Settlement(r, gm, tokens, gm.top + 5, 0, response)}
                      /\ UNCHANGED answer

\* Mutation: the half stake is answered but not stored.
HandleForfeitUnpaid(r, gm, tokens) ==
  LET response == BetResponse("forfeit", "surrender", ForfeitTokens(gm.table), <<>>)
      settlement == Settlement(r, gm, tokens, gm.top, 0, response)
  IN /\ settlements' = settlements \cup {[settlement EXCEPT !.todo = {"game"}]}
     /\ UNCHANGED <<extensions, answer>>

\* Mutation: the stake stays on the table.
HandleForfeitKeepsStake(r, gm, tokens) ==
  LET response == BetResponse("forfeit", "surrender", ForfeitTokens(gm.table), <<>>)
  IN /\ settlements' = settlements \cup
          {Settlement(r, gm, tokens, gm.top, gm.table, response)}
     /\ UNCHANGED <<extensions, answer>>

\* handleForfeit: half the stake comes back, no card is dealt.
HandleForfeit(r, gm, tokens) ==
  LET response == BetResponse("forfeit", "surrender", ForfeitTokens(gm.table), <<>>)
  IN /\ settlements' = settlements \cup
          {Settlement(r, gm, tokens, gm.top, 0, response)}
     /\ UNCHANGED <<extensions, answer>>

\* validateBet, then handleBet or handleWarBet.  A missing row or bet is an
\* exception in the callback of the two reads.
ServeBet(r, gm, tokens) ==
  \/ /\ gm = Absent \/ tokens = Absent \/ input[r].bet = Omitted
     /\ UNCHANGED <<extensions, settlements, answer>>
  \/ /\ gm # Absent /\ tokens # Absent /\ input[r].bet # Omitted
     /\ \/ /\ tokens < input[r].bet
           /\ Respond(r, ErrorResponse(409))
           /\ UNCHANGED <<extensions, settlements>>
        \/ /\ tokens >= input[r].bet /\ gm.table = 0
           /\ HandleBet(r, gm, tokens, extensions)
        \/ /\ tokens >= input[r].bet /\ gm.table > 0
           /\ \/ /\ input[r].bet = 0
                 /\ HandleForfeit(r, gm, tokens)
              \/ /\ input[r].bet = gm.table
                 /\ HandleWar(r, gm, tokens, extensions)
              \/ /\ input[r].bet \notin {0, gm.table}
                 /\ Respond(r, ErrorResponse(409))
                 /\ UNCHANGED <<extensions, settlements>>

\* updatePlayerToken: the new count replaces the one just read.
ServeTopUp(r, tokens) ==
  \/ /\ tokens = Absent
     /\ Respond(r, ErrorResponse(404))
     /\ UNCHANGED topUps
  \/ /\ tokens # Absent
     /\ topUps' = topUps \cup
          {[req |-> r, player |-> input[r].player, from |-> tokens,
            to |-> input[r].tokens]}
     /\ UNCHANGED answer

(***************************************************************************)
(* Statements run.                                                         *)
(***************************************************************************)
\* The rows q has by now are now.game and now.player.
Arrive(q, now) ==
  \/ /\ now.game = Pending \/ now.player = Pending
     /\ reads' = (reads \ {q}) \cup {now}
     /\ UNCHANGED <<extensions, settlements, topUps, answer>>
  \/ /\ now.game # Pending /\ now.player # Pending
     /\ reads' = reads \ {q}
     /\ \/ /\ input[q.req].kind = "bet"
           /\ ServeBet(q.req, now.game, now.player)
           /\ UNCHANGED topUps
        \/ /\ input[q.req].kind = "topUp"
           /\ ServeTopUp(q.req, now.player)
           /\ UNCHANGED <<extensions, settlements>>

GetGame(q) ==
  /\ q.game = Pending
  /\ Arrive(q, [q EXCEPT !.game = game[input[q.req].game]])
  /\ UNCHANGED <<player, game, input, lost, faults>>

GetPlayer(q) ==
  /\ q.player = Pending
  /\ Arrive(q, [q EXCEPT !.player = player[input[q.req].player]])
  /\ UNCHANGED <<player, game, input, lost, faults>>

\* Mutation: the bet that needed the deck is not resumed.
UpdateGameDeckOnly(e) ==
  /\ game' = CasGame(e.game, e.cur, e.row)
  /\ extensions' = extensions \ {e}
  /\ UNCHANGED <<player, input, reads, settlements, topUps, answer, lost, faults>>

\* The deck is stored and the bet handler that asked for it goes on with its
\* own copy, whether or not the UPDATE matched the row.
UpdateGameDeck(e) ==
  LET rest == extensions \ {e}
  IN /\ game' = CasGame(e.game, e.cur, e.row)
     /\ \/ /\ e.req \in lost
           /\ extensions' = rest
           /\ UNCHANGED <<settlements, answer>>
        \/ /\ e.req \notin lost /\ e.row.table = 0
           /\ HandleBet(e.req, e.row, e.tokens, rest)
        \/ /\ e.req \notin lost /\ e.row.table > 0
           /\ HandleWar(e.req, e.row, e.tokens, rest)
     /\ UNCHANGED <<player, input, reads, topUps, lost, faults>>

\* Mutation: the bet is answered when the first half has run.
SettleEarly(s, part) ==
  LET left == s.todo \ {part}
      others == settlements \ {s}
  IN /\ settlements' = IF left = {} THEN others
                       ELSE others \cup {[s EXCEPT !.todo = left]}
     /\ Respond(s.req, s.reply)

\* One half of the pair has run: the bet is answered when both have.
Settle(s, part) ==
  LET left == s.todo \ {part}
      others == settlements \ {s}
  IN IF left = {}
       THEN /\ settlements' = others
            /\ Respond(s.req, s.reply)
       ELSE /\ settlements' = others \cup {[s EXCEPT !.todo = left]}
            /\ UNCHANGED answer

UpdatePlayer(s) ==
  /\ "player" \in s.todo
  /\ player' = CasPlayer(s.player, s.from, s.to)
  /\ Settle(s, "player")
  /\ UNCHANGED <<game, input, reads, extensions, topUps, lost, faults>>

UpdateGame(s) ==
  /\ "game" \in s.todo
  /\ game' = CasGame(s.game, s.cur, s.row)
  /\ Settle(s, "game")
  /\ UNCHANGED <<player, input, reads, extensions, topUps, lost, faults>>

UpdateTokens(u) ==
  /\ player' = CasPlayer(u.player, u.from, u.to)
  /\ topUps' = topUps \ {u}
  /\ Respond(u.req, TopUpResponse)
  /\ UNCHANGED <<game, input, reads, extensions, settlements, lost, faults>>

(***************************************************************************)
(* Faults.  A failed statement fails the promise (500).  The database has  *)
(* refused it, or the connection broke: then nobody can say whether it     *)
(* runs, at once, after any other statement or never.  So it is dropped,   *)
(* or it stays in flight and only its answer is given.                     *)
(***************************************************************************)
Fault == faults < MaxFaults /\ faults' = faults + 1

FailRead(q) ==
  /\ Fault
  /\ reads' = reads \ {q}
  /\ Respond(q.req, ErrorResponse(500))
  /\ UNCHANGED <<player, game, input, extensions, settlements, topUps, lost>>

\* The bet that asked for the deck does not go on, even if the deck is stored.
FailExtension(e) ==
  /\ Fault
  /\ extensions' \in {extensions, extensions \ {e}}
  /\ lost' = lost \cup {e.req}
  /\ Respond(e.req, ErrorResponse(500))
  /\ UNCHANGED <<player, game, input, reads, settlements, topUps>>

\* The other half of the pair is neither cancelled nor undone.
FailSettlement(s, part) ==
  /\ Fault
  /\ part \in s.todo
  /\ \/ UNCHANGED settlements
     \/ settlements' = (settlements \ {s}) \cup
          (IF s.todo = {part} THEN {} ELSE {[s EXCEPT !.todo = @ \ {part}]})
  /\ Respond(s.req, ErrorResponse(500))
  /\ UNCHANGED <<player, game, input, reads, extensions, topUps, lost>>

FailTokens(u) ==
  /\ Fault
  /\ topUps' \in {topUps, topUps \ {u}}
  /\ Respond(u.req, ErrorResponse(500))
  /\ UNCHANGED <<player, game, input, reads, extensions, settlements, lost>>

\* The process dies and is started again.  An UPDATE already sent stays in
\* flight: the database may run it at any time, or never see it.
Crash ==
  /\ Fault
  /\ lost' = {r \in Requests : input[r] # None}
  /\ reads' = {}
  /\ UNCHANGED <<player, game, input, extensions, settlements, topUps, answer>>

-----------------------------------------------------------------------------
Arrivals == \E r \in Requests : RequestBet(r) \/ UpdatePlayerToken(r)

Statements ==
  \/ \E q \in reads : GetGame(q) \/ GetPlayer(q)
  \/ \E e \in extensions : UpdateGameDeck(e)
  \/ \E s \in settlements : UpdatePlayer(s) \/ UpdateGame(s)
  \/ \E u \in topUps : UpdateTokens(u)

StatementFaults ==
  \/ \E q \in reads : FailRead(q)
  \/ \E e \in extensions : FailExtension(e)
  \/ \E s \in settlements, part \in Parts : FailSettlement(s, part)
  \/ \E u \in topUps : FailTokens(u)

Next == Arrivals \/ Statements \/ StatementFaults \/ Crash

Spec == Init /\ [][Next]_vars

\* The database and the callbacks get to every statement of a request whose
\* process lives; no client has to send one and nothing has to fail.
StatementsOf(r) ==
  /\ r \notin lost
  /\ \/ \E q \in reads : q.req = r /\ (GetGame(q) \/ GetPlayer(q))
     \/ \E e \in extensions : e.req = r /\ UpdateGameDeck(e)
     \/ \E s \in settlements : s.req = r /\ (UpdatePlayer(s) \/ UpdateGame(s))
     \/ \E u \in topUps : u.req = r /\ UpdateTokens(u)

Fairness == \A r \in Requests : WF_vars(StatementsOf(r))

FairSpec == Spec /\ Fairness

-----------------------------------------------------------------------------
\* Every variable and every statement in flight has the shape declared above.
TypeOK ==
  /\ RepositoryTypeOK
  /\ input \in [Requests -> Inputs \cup {None}]
  /\ reads \subseteq ReadRecords
  /\ extensions \subseteq ExtensionRecords
  /\ settlements \subseteq SettlementRecords
  /\ topUps \subseteq TopUpRecords
  /\ answer \in [Requests -> Answers \cup {None}]
  /\ lost \subseteq Requests
  /\ faults \in 0 .. MaxFaults

\* The rows that a statement in flight may store.
UnstoredRows == {e.row : e \in extensions} \cup {s.row : s \in settlements}

\* No bet, extension or mix of them leaves a game pointing past the end of
\* its deck, from where the next handleBet could not read a card
\* (handleBet, handleWar and extendGameDeck each store a deck with an index).
TopWithinDeck == \A row \in StoredRows \cup UnstoredRows : TopInDeck(row)

\* A card that was dealt stays where it was dealt: whatever copies of a deck
\* the UPDATEs in flight carry, none takes cards back or rewrites the dealt
\* part (the condition top_card_index = $2 of UPDATE_GAME).
DealtCardsStable ==
  [][\A g \in Games : game[g] # Absent =>
       /\ game'[g] # Absent
       /\ game'[g].top >= game[g].top
       /\ \A i \in 1 .. game[g].top : game'[g].deck[i] = game[g].deck[i]]_vars

\* A game's cards are always complete decks with each card once, also when
\* two bets extend the deck at the same time (extendGameDeck).
WholeDecks == \A row \in StoredRows : IsWholeDecks(row.deck)

\* Decks do not pile up: however many bets ask for one at the same time, at
\* most one deck is stored beyond the few cards that were too few for a war
\* (the column deck is never shortened).
UndealtBounded == \A row \in StoredRows : FewUndealt(row)

\* Tokens lie on a table only while the last two dealt cards tie, even when
\* an extension that carries an old stake runs after the war was settled.
WarOnlyAfterTie == \A row \in StoredRows : TieOnTable(row)

\* Once a round or a lost or tied war is answered, what its second settlement
\* or its extension still has in flight can no longer change the game: the
\* row has moved past the index they compare (handleBet goes on after it
\* asked for a new deck, so one bet may issue five UPDATEs).
AnsweredBetLeavesGameAlone ==
  \A r \in Requests :
    answer[r] # None /\ answer[r].status = 200 =>
      /\ \A e \in extensions : e.req = r => e.cur < game[e.game].top
      /\ \A s \in settlements :
           s.req = r /\ "game" \in s.todo => s.cur < game[s.game].top

\* No valid bet is forgotten: as long as it is unanswered and its process
\* lives, one of its statements is in flight, and the callback of that one
\* goes on with it (handleBet and handleWar through extendGameDeck, the pair
\* of UPDATEs, a failure of any of them).
NoBetStranded ==
  \A r \in Requests :
    /\ Open(r)
    /\ input[r].kind = "bet"
    /\ input[r].bet # Omitted /\ input[r].tieBet # Omitted
    /\ game[input[r].game] # Absent /\ player[input[r].player] # Absent
    => \E x \in reads \cup extensions \cup settlements : x.req = r

\* Only a tie bet, which validateBet never looks at, takes a balance below
\* zero: with plain bets, the balance compared by UPDATE_PLAYER is the one
\* that was checked, however bets of one player interleave.
OverdraftOnlyByTieBet ==
  \A p \in Players : player[p] # Absent /\ player[p] < 0 =>
    \E r \in Requests :
      /\ input[r] # None /\ input[r].kind = "bet" /\ input[r].player = p
      /\ input[r].tieBet \notin {0, Omitted}

\* However bets, top-ups, failures and restarts overlap, a balance changes only
\* by what a bet of the player replies, once for each of its settlements, or to
\* the count of a top-up: no UPDATE overwrites tokens it has not seen (the
\* condition token_count = $2 of UPDATE_PLAYER).
TokensMoveByBets ==
  [][\A p \in Players : player[p] # Absent /\ player'[p] # player[p] =>
       \/ \E s \in settlements \ settlements' :
            /\ input[s.req].player = p
            /\ player'[p] = Wrap(player[p] + s.reply.value)
       \/ \E u \in topUps \ topUps' :
            /\ input[u.req].player = p
            /\ player'[p] = input[u.req].tokens]_vars
=============================================================================
