--------------------------- MODULE MCGameService ---------------------------
(***************************************************************************)
(* GameService on small instances: two suites of three ranks.              *)
(***************************************************************************)
EXTENDS GameService, TLC

CONSTANTS alice, bob, g1, g2, r1, r2, r3

Tie == <<0, 3, 1, 2, 4, 5>>
Mixed == <<2, 1, 0, 3, 4, 5>>

MCShuffles == {Tie, Mixed}

At(deck, top, table) == [deck |-> deck, top |-> top, table |-> table]

\* Rows that serial play reaches: a new game, a war on the table, the last
\* pair of the deck, its last card, and no card left.
CoreStartGames ==
  {[g \in {g1} |-> row] :
     row \in {At(Tie, 0, 0), At(Tie, 2, 2), At(Mixed, 4, 0),
              At(Mixed \o Tie, 11, 0), At(Mixed, 6, 0)}}
CoreStartTokens == [p \in {alice, bob} |-> 3]

RequestSymmetry == Permutations(Requests)
=============================================================================
