----------------------------- MODULE Repository -----------------------------
(***************************************************************************)
(* The tables player and game (create_tables.sql) and the statements of    *)
(* RepositoryPgImpl.kt that change a row.  PostgreSQL runs one statement   *)
(* atomically, and the code puts no two of them into a transaction.  An    *)
(* UPDATE is a compare-and-set on token_count or top_card_index; the code  *)
(* never looks at the number of rows it changed.                           *)
(***************************************************************************)
EXTENDS CardDeck, BetRules

CONSTANTS
  Players,      \* player ids a request may name
  Games,        \* game ids a request may name
  Absent,       \* the id has no row
  StartTokens,  \* Players -> token_count, or Absent
  StartGames    \* functions Games -> row, or Absent

Row == [deck : Seq(CardIds), top : Nat, table : NatInt32]

TopInDeck(row) == row.top <= Len(row.deck)

\* There is a stake only after a tie of the last two cards.
TieOnTable(row) ==
  row.table > 0 =>
    /\ row.top >= 2
    /\ CardValue(row.deck[row.top - 1]) = CardValue(row.deck[row.top])

\* At most one deck beyond the cards that are too few for a war is undealt.
FewUndealt(row) == Len(row.deck) - row.top <= DeckSize + 4

ASSUME RepositoryAssumption ==
  /\ StartTokens \in [Players -> Int32 \cup {Absent}]
  /\ StartGames \subseteq [Games -> Row \cup {Absent}]
  /\ Absent \notin Int \cup Row

\* A behaviour may start with games in progress: rows that serial play leaves.
ASSUME StartGamesAssumption ==
  \A rows \in StartGames, g \in Games : rows[g] # Absent =>
    /\ TopInDeck(rows[g])
    /\ TieOnTable(rows[g])
    /\ FewUndealt(rows[g])
    /\ IsWholeDecks(rows[g].deck)

VARIABLES
  player,  \* the table player: id -> token_count, or Absent
  game     \* the table game: id -> row, or Absent

RepositoryInit ==
  /\ player = StartTokens
  /\ game \in StartGames

RepositoryTypeOK ==
  /\ player \in [Players -> Int32 \cup {Absent}]
  /\ game \in [Games -> Row \cup {Absent}]

StoredRows == {game[g] : g \in {h \in Games : game[h] # Absent}}

\* Mutation: no condition on token_count.
CasPlayerUnconditional(p, from, to) ==
  IF player[p] # Absent THEN [player EXCEPT ![p] = to] ELSE player

\* UPDATE player SET token_count = to WHERE token_count = from AND id = p
CasPlayer(p, from, to) ==
  IF player[p] = from THEN [player EXCEPT ![p] = to] ELSE player

\* Mutation: no condition on top_card_index.
CasGameUnconditional(g, cur, row) ==
  IF game[g] # Absent THEN [game EXCEPT ![g] = row] ELSE game

\* Mutation: the column deck is not among those set.
CasGameKeepsDeck(g, cur, row) ==
  IF game[g] # Absent /\ game[g].top = cur
    THEN [game EXCEPT ![g] = [row EXCEPT !.deck = game[g].deck]]
    ELSE game

\* UPDATE game SET ... WHERE id = g AND top_card_index = cur
CasGame(g, cur, row) ==
  IF game[g] # Absent /\ game[g].top = cur
    THEN [game EXCEPT ![g] = row]
    ELSE game
=============================================================================
