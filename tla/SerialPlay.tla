----------------------------- MODULE SerialPlay -----------------------------
(***************************************************************************)
(* What GameService gives clients that wait for an answer before they use  *)
(* its player or its game again: the balances their answers add up to, the *)
(* answers the API documents, and the abstract game CasinoWar.             *)
(***************************************************************************)
EXTENDS GameService, FiniteSetsExt

BetsOf(p) == {r \in Requests :
  input[r] # None /\ input[r].kind = "bet" /\ input[r].player = p}

TopUpsOf(p) == {r \in Requests :
  input[r] # None /\ input[r].kind = "topUp" /\ input[r].player = p}

\* The tokens an answer says the player gained; a won war hands back the bet
\* it never took ("no deduction for this turn or change in data").
AnsweredGain(r) ==
  IF answer[r].status # 200 \/ (answer[r].by = "war" /\ answer[r].result = "win")
    THEN 0
    ELSE answer[r].value

\* When all bets of a player have been answered, none with a 500, and nobody
\* sent a PUT /player for it, the balance is the starting balance plus the
\* tokens of the answers, as an Int: the answers to a client that only bets tell
\* everything that happened to its tokens, also when winnings or a balance wrap
\* around.
BalanceMatchesAnswers ==
  \A p \in Players :
    /\ player[p] # Absent
    /\ TopUpsOf(p) = {}
    /\ \A r \in BetsOf(p) : answer[r] # None /\ answer[r].status # 500
    => player[p] = Wrap(StartTokens[p] + MapThenSumSet(AnsweredGain, BetsOf(p)))

\* Once a bet is answered, its settlement has taken the tokens it will ever
\* take: nothing in flight can charge or pay it again (the pair of UPDATEs of
\* handleBet, handleWarBet and handleForfeit).
AnsweredBetLeavesTokensAlone ==
  \A r \in Requests : answer[r] # None /\ answer[r].status = 200 =>
    \A s \in settlements : s.req = r => "player" \notin s.todo

\* The cards an answer shows were dealt from the game the bet was placed on,
\* and stay in its dealt part.  The cards of a won war are not dealt: the
\* index does not move.
AnswerShowsDealtCards ==
  \A r \in Requests :
    /\ answer[r] # None
    /\ answer[r].cards # <<>>
    /\ ~ (answer[r].by = "war" /\ answer[r].result = "win")
    => LET row == game[input[r].game]
       IN \E i \in 1 .. row.top - 1 :
            answer[r].cards = <<row.deck[i], row.deck[i + 1]>>

\* The answers that opened a war on a game, and those that resolved one: a won
\* war is fought again.
Answered(g, handler) ==
  {r \in Requests : /\ input[r] # None /\ answer[r] # None
                     /\ answer[r].by = handler /\ input[r].game = g}
WarsOpened(g) == {r \in Answered(g, "round") : answer[r].result = "war"}
WarsResolved(g) ==
  Answered(g, "forfeit") \cup {r \in Answered(g, "war") : answer[r].result # "win"}

\* A game that starts at war has had one more opened.
WarsAtStart(g) ==
  IF \E rows \in StartGames : rows[g] # Absent /\ rows[g].table > 0 THEN 1 ELSE 0

\* README.adoc: a bet of 0 or of the stake resolves the war, and the next one
\* is a round: no stake is paid back, won or lost by two answers.
WarResolvedOnce ==
  \A g \in Games :
    Cardinality(WarsResolved(g)) <= Cardinality(WarsOpened(g)) + WarsAtStart(g)

-----------------------------------------------------------------------------
(***************************************************************************)
(* The abstract game.  A bet takes effect with the first of its two        *)
(* UPDATEs: from then on the other one counts as done.                     *)
(***************************************************************************)
HalfDone(part) == {s \in settlements : s.todo = {part}}

TokensOf(p) ==
  IF \E s \in HalfDone("player") : s.player = p /\ s.from = player[p]
    THEN (CHOOSE s \in HalfDone("player") : s.player = p /\ s.from = player[p]).to
    ELSE player[p]

RowOf(g) ==
  IF \E s \in HalfDone("game") : s.game = g /\ s.cur = game[g].top
    THEN (CHOOSE s \in HalfDone("game") : s.game = g /\ s.cur = game[g].top).row
    ELSE game[g]

\* The last two cards dealt; <<>> before the first round.
ShownOf(row) == IF row.top < 2 THEN <<>> ELSE CardsAt(row, row.top - 2)

TableOf(row) ==
  IF row = Absent
    THEN Absent
    ELSE [dealt |-> row.top, shown |-> ShownOf(row), stake |-> row.table]

\* No table looks like a game that does not exist.
ASSUME NoTableAssumption ==
  Absent \notin [dealt : Nat, shown : Seq(CardIds), stake : NatInt32]

Column(field) ==
  [g \in Games |-> IF RowOf(g) = Absent THEN Absent ELSE TableOf(RowOf(g))[field]]

Abstract == INSTANCE CasinoWar WITH
  BetValues <- Bets \ {Omitted},
  TieBetValues <- TieBets \ {Omitted},
  NoRow <- Absent,
  InitialTokens <- StartTokens,
  InitialTables <- {[g \in Games |-> TableOf(rows[g])] : rows \in StartGames},
  tokens <- [p \in Players |-> TokensOf(p)],
  dealt <- Column("dealt"),
  shown <- Column("shown"),
  stake <- Column("stake")

\* Served to clients that wait, by a server whose statements succeed, every
\* bet is one round, war or forfeit of the abstract game, and an extension of
\* the deck cannot be seen in it.
ImplementsCasinoWar == Abstract!CWSpec

-----------------------------------------------------------------------------
\* A bet on an existing game by an existing player, with all its fields, is
\* answered: no path through an extension, a war or the pair of UPDATEs
\* forgets the promise.  Only statements get to run; nothing has to fail.
ValidBetAnswered ==
  \A r \in Requests :
    ( /\ input[r] # None
      /\ input[r].kind = "bet"
      /\ input[r].bet # Omitted /\ input[r].tieBet # Omitted
      /\ game[input[r].game] # Absent /\ player[input[r].player] # Absent )
      ~> (answer[r] # None)

\* swagger.yaml documents 404 "Game not found" for a bet on an unknown game:
\* such a bet is answered.
UnknownGameAnswered ==
  \A r \in Requests :
    (input[r] # None /\ input[r].kind = "bet" /\ game[input[r].game] = Absent)
      ~> (answer[r] # None)

\* tokenCount has minimum 0 in swagger.yaml: no balance is negative.
NonNegativeTokens == \A p \in Players : player[p] # Absent => player[p] >= 0

\* README.adoc: betting the stake again resolves the war.  The answer to a war
\* that was fought leaves no stake on the table.
FoughtWarIsResolved ==
  [][\A r \in Requests :
       answer[r] = None /\ answer'[r] # None /\ answer'[r].by = "war"
         => game'[input[r].game].table = 0]_vars

\* README.adoc: betting 0 resolves the war too.  Between two rounds or wars,
\* a stake that was taken off the table does not come back to it.
ForfeitEndsWar ==
  [][\A g \in Games :
       game[g] # Absent /\ game'[g].top = game[g].top /\ game[g].table = 0
         => game'[g].table = 0]_vars
=============================================================================
