---------------------------- MODULE MCSerialPlay ----------------------------
(***************************************************************************)
(* SerialPlay on small instances: two suites of three ranks.               *)
(***************************************************************************)
EXTENDS SerialPlay, TLC

CONSTANTS alice, bob, g1, g2, r1, r2, r3

Tie == <<0, 3, 1, 2, 4, 5>>
Mixed == <<2, 1, 0, 3, 4, 5>>

\* A deck whose last pair ties.
TieAtEnd == <<4, 3, 0, 1, 2, 5>>

MCShuffles == {Tie, Mixed}

At(deck, top, table) == [deck |-> deck, top |-> top, table |-> table]

\* Games that meet no last pair within the requests of the run.  g1 has fought
\* a war, so its index is odd: a round away from the last card of its deck, or
\* at it.  g2 is at war, with no card left or with the five that a war needs.
SerialStartGames ==
  {(g1 :> At(Mixed \o Tie, 9, 0) @@ g2 :> At(TieAtEnd, 6, 2)),
   (g1 :> At(Mixed \o Tie, 11, 0) @@ g2 :> At(Mixed \o Mixed, 4, 2))}
SerialStartTokens == [p \in Players |-> 3]

\* Players and requests are interchangeable; the games start differently.
SerialSymmetry == Permutations(Requests) \cup Permutations(Players)

StartWith3 == [p \in Players |-> 3]
BobUnknown == (alice :> 3 @@ bob :> Absent)

NewGame == {g1 :> At(Mixed, 0, 0), g1 :> At(Tie, 0, 0)}
AtWar == {g1 :> At(Mixed \o Mixed, 4, 2), g1 :> At(Tie, 2, 2)}
LastPair == {g1 :> At(Mixed, 4, 0)}
SecondGameUnknown == {(g1 :> At(Mixed, 0, 0) @@ g2 :> Absent)}

\* The last pair, the last card, no card, and a war too long for the deck.
SecondGameUnknownAtEnds ==
  {(g1 :> row @@ g2 :> Absent) :
     row \in {At(Mixed, 4, 0), At(Mixed \o Tie, 11, 0), At(Mixed, 6, 0),
              At(Tie, 2, 2)}}
=============================================================================
