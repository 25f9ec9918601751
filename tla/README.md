# Casino War server: a verification project in TLA+

The repository is a small Kotlin server (Vert.x, PostgreSQL) for the card game
Casino War.  Players and games are rows of two tables; every HTTP request reads
rows, computes, and writes them back with compare-and-set `UPDATE`s, without a
transaction.  What a unit test with mocks does not reach is what happens
between those statements.  This directory models that, checks it with TLC and
proves part of it with TLAPS.

Paths below are relative to `src/main/kotlin/com/casinowars/server/` of the
repository unless they start otherwise.

## Inventory

| Component | State | Operations | Module |
|---|---|---|---|
| Bets and token updates, `service/GameServiceImpl.kt` | none of its own: locals captured by callbacks while statements are in flight | `requestBet` (`handleBet`, `handleWarBet`, `handleWar`, `handleForfeit`, `validateBet`, `extendGameDeck`), `updatePlayerToken` | `GameService` |
| Creation and lookup, same file | none of its own | `createGame`, `createPlayer`, `getPlayerById`; `getGameById` is not reachable from the API | `Lobby` |
| Bet rules, same file and `api/models/BetResult.kt` | none | result, tokens and stake of a round, a war, a forfeit | `BetRules` |
| Deck, `deck/` | a fixed list of cards, a random generator | `generateShuffledDeck`, `indexToCard` | `CardDeck` |
| Repository, `repository/RepositoryPgImpl.kt` | tables `player` and `game` (`sql/create_tables.sql`) | one SQL statement per method | `Repository` (rows, updates), `GameService` (reads of bets and top-ups), `Lobby` (inserts, lookups) |
| HTTP handlers, `api/GameApiImpl.kt` | none | map JSON to a service call and its outcome to a status | `GameService` for bets and token updates, `Lobby` for the rest |
| Life cycle, `Launcher.kt`, `MainVerticle.kt`, `modules/DbModule.kt` | deployed verticle, listening socket, pool | start, deploy, stop | not modelled, see below |
| Configuration, Guice modules, YAML | read once at start | - | not modelled: nothing changes after start |
| `swagger.yaml`, Swagger UI, build | - | - | not modelled; `swagger.yaml` is read for input ranges and promised responses |

How they interact.  `GameApiImpl` calls `GameServiceImpl`, which issues
statements through `RepositoryPgImpl` and returns a future.  Handlers and
callbacks share no memory except the random generator of the deck, so each of
them counts as one step, whichever event loop runs it; requests meet only in the
rows that their statements read and write.  The statements go through a pool
of up to 20 connections (`db-config.yaml`), so statements that are in flight
together execute in any order.  A server process may die at any moment; several
processes may share the database, which adds nothing: they share no memory
either way.  Creation and bets meet in the tables `player` and `game`, and in
the process they both die with (`Casino`).

What is hard here, and where (`PROJECT.json` lists each hazard at its line):

* A bet is two reads, then two independent compare-and-sets, one on
  `token_count` and one on `top_card_index`.  `RepositoryPgImpl` never looks at
  the number of changed rows, so a compare-and-set that missed counts as a
  success.
* `handleBet` asks for a longer deck and, lacking a `return`, goes on with the
  deck it has.  One bet can then issue an extension, two settlements and one
  answer, in many orders.
* An extension and a forfeit leave `top_card_index` alone, so a
  compare-and-set on it cannot tell the row from before and after them.
* An exception thrown in a callback is logged and completes no promise.
* Half of a settlement may fail or be lost with the process.
* `createPlayer` and `createGame` draw an id first and insert it afterwards; an
  `INSERT` that failed, or whose process died, may have stored its row all the
  same.  Only the table keeps a name from being given out twice.

Properties that make the components correct: a game row always is a legal game
(complete decks, an index inside of them, dealt cards that stay, a stake only
after a tie); a balance changes by what the answers say; every well-formed
request is answered; and, to a client that waits for its answers, a bet is
atomic.

## Modules

| Module | What it is |
|---|---|
| `CardDeck` | card ids and values, shuffles, complete decks |
| `BetRules` | the arithmetic of a bet, with 32-bit wrap-around (`Wrap`, `IntLimit`) |
| `Repository` | the tables `player` and `game`, their rows, and the compare-and-set of each `UPDATE` (`CasPlayer`, `CasGame`) |
| `GameService` | the server: requests, statements in flight, handlers, faults; its safety properties |
| `CasinoWar` | the abstract game: atomic rounds, wars, forfeits and top-ups |
| `SerialPlay` | what clients that wait for answers get: accounting of answers, the refinement of `CasinoWar`, liveness, and the documented properties the code does not have |
| `Lobby` | `createPlayer`, `createGame`, `getPlayerById`: visits, their statements in flight, faults |
| `Casino` | the whole server: `GameService` and `Lobby` over the same tables, in one process; the promises that span both |
| `MCGameService`, `MCSerialPlay`, `MCCasino` | constants for TLC |
| `GameServiceProofs` | theorems about `GameService`: rows and decks |
| `FlightProofs` | theorems about what one request has in flight |
| `BalanceProofs` | theorems about balances: overdrafts, and what moves tokens |
| `SerialProofs` | theorems about what waiting clients are told |
| `RefinementProofs` | the theorem that the server implements `CasinoWar` for them |
| `AccountProofs` | what answers add up to, and that a bet is settled once |
| `CasinoProofs` | theorems about `Casino`: rows, ids, names, visits |
| `InformedProofs` | theorems about bets in `Casino`, next to new players and games |

Operators called `...IsLoss`, `...Doubled`, `...Unconditional`, `...KeepsDeck`,
`...KeepsStake`, `...Short`, `...OneCard`, `...Unpaid`, `...Only`, `...Early`,
`...Silent`, `...NullIndex` and `NeverTaken` are mutations: a plausible mistake
in the operator they stand before, used to confirm that a property notices it.
No action uses them.

### State and actions of `GameService`

`player` and `game` are the tables.  `reads`, `extensions`, `settlements` and
`topUps` hold the statements in flight, each with the values the code captured
for it and for the callback that awaits it:

* a record of `reads` is the `CompositeFuture` of `requestBet` (or the single
  read of `updatePlayerToken`); a row still to come is `Pending`, a row that
  does not exist is `Absent`;
* a record of `extensions` is the `UPDATE` of `extendGameDeck`; its callback
  goes on with `row`, the local copy, whether or not the update matched;
* a record of `settlements` is the pair of `UPDATE`s and their composite; `todo`
  names the halves still in flight and `reply` is sent when both are done;
* a record of `topUps` is the `UPDATE` of `updatePlayerToken`.

`input` and `answer` are the requests and their responses, `lost` the requests
that no callback goes on with, because their process died or their extension
failed.

| Action | Code |
|---|---|
| `RequestBet`, `UpdatePlayerToken` | handler and service method up to the first await |
| `GetGame`, `GetPlayer` | one `SELECT`; with the last one of a request, its whole handler (`ServeBet`, `ServeTopUp`) |
| `UpdateGameDeck` | the `UPDATE` of an extension and its callback, `handleBet` or `handleWar` again |
| `UpdatePlayer`, `UpdateGame` | one half of a settlement; the second one answers |
| `UpdateTokens` | the `UPDATE` of a top-up and its answer |
| `FailRead`, `FailExtension`, `FailSettlement`, `FailTokens` | a failed statement, answered with 500; an `UPDATE` may run all the same, at once or much later |
| `Crash` | the process dies; sent `UPDATE`s stay in flight and may still run |

An action runs a statement together with the callback that awaits it.  The
callback only touches its own request (it answers it, or issues later
statements), so delivering it later gives no state of the tables that issuing
those statements and running them later does not give; a crash in between is
`Crash` before the later statements run.

A statement fails because the database refuses it or because its connection
breaks.  In the second case nobody can say whether PostgreSQL runs it, or when.
So a failed `UPDATE` or `INSERT` is dropped or stays in flight; if it stays, it
runs like any other, but its promise has failed: the answer 500 stands, and an
extension that is stored this late does not resume the bet that asked for it.

Left out: the names of cards and players, error texts, the random generator
(any element of `Shuffles` may come next), bets without `playerId` and
token updates without `tokenCount` (the `!!` of `GameApiImpl` throws and they are
rejected with 500 before any statement is sent, so they touch no state), and the
unused methods
`getGameById` and `getPlayerSessionById`.

`Exclusive` restricts the clients, not the server: when it is `TRUE` a request
is sent only while no unanswered request names the same player or game.

`StartGames` and `StartTokens` let a behaviour begin in the middle of a game.
`StartGamesAssumption` asks of the starting rows what an earlier game leaves:
complete decks, an index inside, a stake only after a tie, at most one undealt
deck beyond the cards that are too few for a war.

### State and actions of `Lobby`, and the composition

A *visit* is a request to create a player, create a game or look a player up.
`visit` and `reply` are the requests and their responses, `gone` the visits that
died with their process; `playerInserts`, `gameInserts` and `lookups` are the
statements in flight, with the ids that were drawn for them; `playerName` is the
column `player_name`, beside the `token_count` that is `player`.

| Action | Code |
|---|---|
| `CreatePlayer`, `CreateGame`, `GetPlayerById` | handler and service method up to the statement; a missing `name` or `playerid` throws in the handler and is answered with 500 |
| `InsertPlayer`, `InsertGame`, `SelectPlayer` | the statement and its callbacks up to the response |
| `FailPlayerInsert`, `FailGameInsert`, `FailLookup` | a failed statement, answered with 500; an `INSERT` may store its row all the same, then or later |
| `Crash` | the process dies; sent `INSERT`s may still run |

`UUID.randomUUID` is a choice among ids that no row, no `INSERT` and no lookup
has.  A name that is taken makes `INSERT` fail (`unique(player_name)`), and the
code treats that like every failure: 500, where `swagger.yaml` documents 409.
The columns `deck` of a new row are one shuffle, `top_card_index` and
`table_tokens` 0; `player_id` of `game` is left out, since no statement that is
ever executed reads it.

`Casino` EXTENDS `GameService` and INSTANCEs `Lobby` on the same `player`,
`game` and `faults`.  A step belongs to one of them and leaves the private
variables of the other alone (`betVars`, `lobbyVars`), except for a crash, which
is a step of both.  With `Informed`, clients bet only with ids of players and
games that responses gave them, as a real client does.

### The refinement

`SerialPlay` maps `GameService` to `CasinoWar`.  A bet takes effect in
`CasinoWar` with the first of its two `UPDATE`s: from then on the mapped balance
or table (`TokensOf`, `RowOf`) counts the other half as done, if its comparison
will succeed.  Of a deck only the number of dealt cards and the last two are
mapped, so extensions are invisible.  A won war is a stuttering step, as in the
code.

## Runs

All runs use a deck of two suites of three ranks (6 cards, so that wars, last
pairs and extensions happen within two or three bets) and two shuffles, one of
which begins with a tie.  `IntLimit` is 1000, far from any balance reached,
except in `serial_pass`, where it is 10: there a tie win on a balance of 3, which
pays 10, is stored as -7, so the accounting and the refinement are checked
across the wrap-around of Ints.

| Run | Instance | Shows |
|---|---|---|
| `core_pass` | two unrestricted requests, two players, one game that starts new, at war, at the last pair, at the last card or with no card left; top-ups; at most one failed statement or crash | `TypeOK`, `TopWithinDeck`, `WholeDecks`, `UndealtBounded`, `WarOnlyAfterTie`, `AnsweredBetLeavesGameAlone`, `NoBetStranded`, `OverdraftOnlyByTieBet`, `DealtCardsStable`, `TokensMoveByBets` |
| `serial_pass` | three requests of waiting clients, two players, two games: one near the end of its deck, one at war with no card left or with five; small Ints; no faults | `BalanceMatchesAnswers`, `AnsweredBetLeavesTokensAlone`, `AnswerShowsDealtCards`, `WarResolvedOnce`, `ImplementsCasinoWar` |
| `liveness_pass` | two requests, one unknown player, one unknown game, bodies without `bet` or `tieBet`, a deck at each of its ends; fairness | `ValidBetAnswered` |
| `casino_pass` | empty tables, three visits with one name or none, two player ids, one game id, one bet of an informed client, one failed statement or crash; fairness | `CasinoTypeOK`, `AnsweredIdsHaveRows`, `NameHasOneOwner`, `NoVisitForgotten`, `InformedClientsAnswered` |
| `tie_bet_overdraft` | one waiting client | `NonNegativeTokens` fails: `validateBet` ignores the tie bet |
| `unknown_game` | an unknown game, fairness | `UnknownGameAnswered` fails: the request hangs, no 404 |
| `unknown_player` | `casino_pass` without fairness | `UnknownPlayerRefused` fails: `createGame` accepts any player id |
| `war_win` | a war | `FoughtWarIsResolved` fails: a won war stays on the table |
| `double_forfeit` | a war, two overlapping bets of 0 | `WarResolvedOnce` fails: both are paid half of the stake |
| `stake_returns` | a war, two overlapping bets | `ForfeitEndsWar` fails: an extension stores the stake it read before the forfeit |
| `double_settlement` | one waiting client, last pair of the deck | `BalanceMatchesAnswers` fails: the second settlement of a bet runs after the next bet |
| `lost_update` | two overlapping bets of one player | `BalanceMatchesAnswers` fails: both are answered, one is not stored |

Why these bounds are enough to be interesting.  Two requests already give every
overlap of two bets, of a bet and an extension, of two extensions, of forfeits
and of a bet and a top-up; with the fall-through of `handleBet` that is up to
eight UPDATEs in flight.  The starting rows place the boundary cases of a deck
(last pair, last card, empty, too short for a war) one bet away.  Three visits
are two clients that want one name and the game of one of them, or one client
that retries after a failure; the bet of the fourth request then runs on rows
that this very behaviour created.  The proofs remove the bounds for the
properties they cover.

`serial_pass` avoids the last pair of a deck on purpose: its game `g1` has an odd
index, which a war leaves, and an odd index meets the last card instead; `g2` is
at war where the next war needs a deck, or just does not.  With the last pair,
`BalanceMatchesAnswers`, `AnsweredBetLeavesTokensAlone` and the refinement are
false; `double_settlement` shows it.  What `AnsweredBetLeavesTokensAlone` says in
`serial_pass` therefore is that the composite waits for both halves.  Safety runs use symmetry over requests, and
`serial_pass` over players, which start equal; runs with fairness use none.

`CHECK_DEADLOCK FALSE` is set everywhere: a behaviour stops when its requests
are used up.

Fairness (`FairSpec`, `FairCasinoSpec`) is weak fairness of the statements of
each request and of each visit while its process lives: no callback blocks, and
the pool serves its queue, so every statement gets its turn.  Nothing is promised
to a request whose process died, clients are not obliged to send anything, and
no fairness is put on faults.

## What the runs found

Each is an entry of `findings` in `PROJECT.json`, with the line that says
otherwise.

1. A tie bet is not validated (`service/GameServiceImpl.kt:201` compares `bet`
   twice), so a balance may become negative.
2. A bet on an unknown game, or by an unknown player, is never answered.
3. A won war changes nothing: the stake stays on the table, and since the index
   does not move either, the next bet on it is decided by the same cards.  The
   only way out of it is to forfeit.
4. `handleBet` settles a bet twice when the last pair of the deck is dealt.  For
   the game this is harmless (`AnsweredBetLeavesGameAlone`); for the balance it
   is not, even with a client that waits for each answer.
5. Overlapping bets of a player are all answered with 200, and the balance shows
   one of them.
6. `POST /game` answers 200 for a player that does not exist.  (Bets on that game
   by players that exist work all the same: a game belongs to nobody.)
7. Two forfeits of one war that overlap are both paid: a forfeit leaves the
   index alone, so the condition of the second `UPDATE` still holds.
8. An extension asked for before a forfeit and stored after it puts the
   forfeited stake back on the table, for the same reason.

Two more were seen on the way and have no run of their own: a balance near the
largest Int, which `PUT /player` accepts, wraps below zero with the next win; and
a taken name is answered with 500, not 409.

## Proofs

### Rows and decks

`GameServiceProofs` holds for every value of the constants that satisfies the
assumptions of `CardDeck`, `BetRules`, `Repository` and `GameService` (decks of
more than four cards; shuffles that have every card; bets and top-ups that are
Ints of at least 0 or missing; legal starting rows): any number of players, games,
requests, failures and crashes, any shuffles.

* `TypeCorrect`: `Spec => []TypeOK`.
* `WithinDeck`: `Spec => []TopWithinDeck`.
* `StakeAfterTie`: `Spec => []WarOnlyAfterTie`.
* `DecksStayWhole`: `Spec => []WholeDecks`.
* `DecksDoNotPile`: `Spec => []UndealtBounded`.
* `DealtStable`: `Spec => DealtCardsStable`.

They follow from one inductive invariant, `IInv` (`Invariance`).  The properties
alone are not inductive, because a step may store a row that was read and
changed long before.  `IInv` therefore says of every row that a request carries
(in `reads`, `extensions` and `settlements`) that it is legal (`RowOK`: the index
inside, complete decks, a stake only after a tie, few cards left undealt) and that
it is a copy (`CopyOf`) of the stored row: the index its `UPDATE` compares is one
the stored row has reached, and both have the same cards below it.  A
compare-and-set that matches then replaces the stored row by one that agrees with
it on everything dealt; one that misses changes nothing; and since a stored row
only grows (`GameStep`), all other copies remain copies (`CopyKept`).  Handlers
enter the argument through what they may add (`NewExtension`, `NewSettlement`),
proved once per handler and used both after reads and after extensions.

### The whole server

`CasinoProofs` carries this over to the whole server, from the further
assumptions of `Casino` (a new player's tokens are an Int of at least 0; the
values that stand for "no row", "no request" and "no field" are told apart from
names, ids, inputs and responses).

* `CasinoTypeCorrect`: `CasinoSpec => []CasinoTypeOK`.
* `IdsUsable`: `CasinoSpec => []AnsweredIdsHaveRows`.
* `NamesUnique`: `CasinoSpec => []NameHasOneOwner`.
* `GamesSafe`: `CasinoSpec => []TopWithinDeck /\ []WarOnlyAfterTie /\ []WholeDecks
  /\ []UndealtBounded`.
* `CasinoDealtStable`: `CasinoSpec => DealtCardsStable`.
* `VisitsPursued`: `CasinoSpec => []NoVisitForgotten`, the safety half of what
  `InformedClientsAnswered` says of visits.

The invariant `CasinoIInv` is `IInv` together with `LobbyInv`: every `INSERT` in
flight carries an id that has no row yet and that no other `INSERT` carries, a
name belongs to one row, and a response 200 to `createPlayer` names the row with
the visit's own name.  The two components rely on each other through little: of
the lobby, the bets need that a row that exists is never replaced (`GameKept`);
of the bets, the lobby needs that they create no rows and remove none
(`GameStep`, `PlayerStep`).  Those are proved of each component's steps, and the
lemmas `KeptPreserves` and `LobbyPreserves` turn them into the invariant of the
other.

### What one request has in flight

`FlightProofs` adds to `IInv` what the statements of one request have to do with
each other (`FInv`, theorem `FlightInvariance`), again for all constants.  The one
further assumption is that the value for "not answered yet" is not an answer.

* `AnsweredLeavesGameAlone`: `Spec => []AnsweredBetLeavesGameAlone`.
* `NobodyStranded`: `Spec => []NoBetStranded`, the safety half of
  `ValidBetAnswered`: whatever overlaps and fails, a valid bet always has a
  statement in flight whose callback goes on with it.

The argument is that a bet asks for one extension at most; that all its `UPDATE`s
of the game compare one index (`BetFits`); that an extension of a war, and the
settlement of a forfeit, are alone in flight; and that a settlement is answered
when both of its halves are done (`HalvesMoved`), so that after the answer the game
has passed the index that the leftovers compare (`AnsweredIsDone`).  `FInv` has to say
which statement a callback of a settled or failed request can still belong to,
since `handleBet` goes on after it asked for an extension.

### Balances

`BalanceProofs` proves `OverdraftNeedsTieBet`:
`Spec /\ []BalancesSmall => []OverdraftOnlyByTieBet`, from `StartsSolvent` (the
starting balances are not negative and the starting stakes small).
`BalancesSmall` keeps every stored balance under a third of the largest Int, so that
no sum wraps; without it the property is false, as noted above.  The invariant
`BInv` follows the balance that a bet was validated against: through the read, into
the extension (whose callback settles a round without validating again), to the
value that the settlement stores.

`TokensMoveOnlyByBets`: `Spec => TokensMoveByBets` needs none of that.  Its
invariant `MInv` says of every settlement in flight that it pays the player of its
bet what it will reply, wrapped around (`Repays`), and of every top-up that it
carries the count it was sent.  A compare-and-set that matches adds to the balance
it finds; one that misses changes nothing.  This is how far the code keeps accounts
when requests overlap; `lost_update` shows that it does not keep more.

### Clients that wait

`SerialProofs` is about clients that send a request only when no open one names its
player or game, and a server whose statements succeed (`WaitingClients`:
`Exclusive` and `MaxFaults = 0`); any number of such clients play at the same time.
Findings 7 and 8 show that `WarResolvedOnce` and its like are false without it.

* `AnswersShowDealtCards`: `Spec => []AnswerShowsDealtCards`.
* `WarsResolvedOnce`: `Spec => []WarResolvedOnce`, for a finite set of requests
  (the property counts them).

The invariant `SInv` (`SerialInvariance`) says that open requests have no player
and no game in common (`Apart`), so that what an open bet read is still stored
(`ReadServes`); that its extension and its settlements will match, unless the other
settlement of the same bet already did (`ExtensionServes`, `SettlementServes`,
`Took`); and that the two settlements of a bet reply the same (`Twins`), because
appending a deck does not change the cards about to be dealt.  It holds at the
last pair of a deck too, where one bet settles twice; that is why the cards shown and
the wars are right there although the balance is not (finding 4).  `CInv` counts: the
wars resolved, and the one that stands, are at most those opened and those there at
the start.  A war `Standing` on a game is read from the stake, or, while a bet is
being settled, from what that bet will reply.

### The refinement

`RefinementProofs` proves `ImplementsTheGame`:
`Spec /\ []NeverAtLastPair => ImplementsCasinoWar`, for waiting clients
(`WaitingClients`, as above) and all values of the other constants: balances that
wrap around included.  `NeverAtLastPair` says that no stored game is between two
rounds with exactly one pair of cards undealt.  There `handleBet` settles twice and
finding 4 shows that the balance goes wrong; a game played by rounds alone gets
there at the end of its deck, so the theorem covers such a game up to that point.
The mapping also needs that the value for "no row" does not look like a table
(`NoTableAssumption`).

`SInv` leaves open what the balance does, and whether a bet has one settlement or
two.  The invariant `RInv` (`AtomicInvariance`) adds, request by request
(`AtomicOK`): one `UPDATE` or one pair of them is in flight at most, and nothing
after the answer (`OneAtATime`); what was read of the player is still stored
(`ReadFunded`, `TokenUpdateHits`); the deck that an extension stores is long enough,
so the callback goes on to exactly one settlement (`ExtensionFunded`); and both
halves of a settlement will match, and together they do what the rules say to the
row and the balance they were computed from (`SettlementHits`, `Plays`).

From it, a game or a player has at most one settlement (`OneSettlement`), so the
choice in the mapping is that settlement (`HalvesMapped`) and everything else is
mapped as stored (`RestMapped`).  The first half of a settlement then is a `Round`, a
`War` or a `Forfeit` (`FirstHalfSeen`), the second half is invisible
(`SecondHalfUnseen`), and so are reads, arrivals and extensions (`QuietStep`,
`DeckStep`); the `UPDATE` of a top-up is a `TopUp` (`TopUpSeen`).

### What answers add up to

`AccountProofs` proves `AnswersAddUp`:
`Spec /\ []NeverAtLastPair => []BalanceMatchesAnswers`, for waiting clients and a
finite set of requests (the property sums over them), balances that wrap around
included.  Like the property, it is about players for whom no top-up was sent: an
answer to `PUT /player` names no tokens.  `NeverAtLastPair` is needed for the reason above: at the last pair the
leftover `UPDATE` of the player can charge or pay a bet again once later bets have
brought the balance back (finding 4, run `double_settlement`).

The invariant `AInv` (`BooksAreKept`) says that somebody could keep books: a gain
for each request, and for each set of requests their total, such that the balance of
a player without top-ups is the first one plus the total of the player's bets
(`Balanced`).  The gain
of a request (`Credited`) is 0 until the half of its settlement that moves the tokens
is done, then what its reply names, and the answer names the same.  So the books also
are right between the two halves, where `BalanceMatchesAnswers` says nothing.  Each
step changes the gain of one request at most, and `TotalsUpdated` brings the totals
along; `WrapTwice` is why a balance may be wrapped around after each bet or once
after the sum.

That the totals are what the fold in `BalanceMatchesAnswers` computes
(`SumIsTotal`) looks like an induction over sets.  It is done without one: if a set of
requests had a fold that differs from its total there would be a minimal one, since
inclusion of finite sets is well-founded (`Minimal`), and taking one request out of it
contradicts that.

### A bet is settled once

`AnsweredLeavesTokensAlone`:
`Spec /\ []NeverAtLastPair => []AnsweredBetLeavesTokensAlone`, for any clients, waiting
or not, any failed statements and any crashes.  The invariant `OInv` adds to `FInv`
that a request has one extension or one settlement, not both, and neither once it is
accepted (`Single`).  For that, no row that was read may be at the last pair
(`ReadAway`), and the extension must carry what makes its callback settle and not
extend again: a balance that covers the bet, and a deck that is long enough
(`ExtensionCarries`).

### Bets in the whole server

`InformedProofs` carries what bets promise over to `Casino`.  A step of the whole
server is a step of the bets or one of the lobby (`CasinoStep`), and the lobby only
adds rows: a player with the default tokens, a game with nothing on the table
(`LobbyAdds`).

* `CasinoTokensMoveOnlyByBets`: `CasinoSpec => TokensMoveByBets`.
* `CasinoOverdraftNeedsTieBet`: `CasinoSpec /\ []BalancesSmall =>
  []OverdraftOnlyByTieBet`, from `StartsSolvent`; that a created player starts with
  at least 0 tokens is an assumption of `Casino`.

For clients that bet with ids they were given (`Informed`):

* `InformedInvariance`: `CasinoSpec => [](FInv /\ BetsHaveRows)`.
* `InformedNotStranded`: `CasinoSpec => [](BetsHaveRows /\ NoBetStranded)`.
* `InformedLeaveGameAlone`: `CasinoSpec => []AnsweredBetLeavesGameAlone`.
* `InformedLeaveTokensAlone`: `CasinoSpec /\ []NeverAtLastPair =>
  []AnsweredBetLeavesTokensAlone`.

`FInv` says that a read misses only rows that do not exist, and that nobody is stranded
on rows that do.  A row that is created after a read missed it would break both, and
that is what an uninformed client can meet; it is left waiting (finding 2).  An informed
client has seen the answer of the `INSERT`, so its bets name rows (`BetsHaveRows`,
from `AnsweredIdsHaveRows`), its reads never miss, and new rows are not its own.

For such clients that wait as well (`WaitingClients`):

* `InformedSerialInvariance`: `CasinoSpec => []SInv`.
* `InformedShownDealtCards`: `CasinoSpec => []AnswerShowsDealtCards`.
* `InformedWarsResolvedOnce`: `CasinoSpec => []WarResolvedOnce`, for a finite set of
  requests.

The rows that `SInv` speaks of are those that something in flight or an answer names;
they exist, so the lobby leaves them as they are (`PlayedRowsSame`), and a game it adds
has no war that would count (`LobbyCount`).

### Only model-checked

* `ValidBetAnswered` and `InformedClientsAnswered`: liveness under fairness.
* The findings, which are counterexamples.

## Not modelled

* The life cycle.  `MainVerticle.start` sets up the routes in one callback,
  starts listening without looking at the result, and completes the start
  promise; `Launcher` reacts to hooks that Vert.x calls.  When they are called,
  and what a pool that is closed does to its statements, is decided outside of
  this repository.  Its effect on requests and rows is that of `Crash`.
* Configuration, YAML and dependency injection: read once at start.
* The Swagger UI under `webroot`: minified third-party scripts, served as files.
  Nothing of the game is in them.
* `getGameById` and `getPlayerSessionById`, which nothing calls.
* Names that are too long for their column, and other contents that make a
  statement fail: to the server they look like a failed statement.
* The precision of the Float that halves a stake: `ForfeitTokens` is exact, the
  code only for stakes up to 2^24.

## Plan

Done: the server's operations (`GameService`, `Lobby`), their composition
(`Casino`), the rules and the deck, the abstract game and the refinement for
waiting clients, and the proofs above.

Not done: the balance at the last pair of a deck, where a bet settles twice: which of
the two settlements a waiting client's tokens can follow, and how far an abstract
game that allows for it is implemented without `NeverAtLastPair`.  The refinement and
the accounts of waiting clients are proved of the bets alone, over rows that are
there from the start: `CasinoWar` has no step that opens a game, and the accounts
begin with the first balances, not with those that `INSERT`s store.
