------------------------------ MODULE CardDeck ------------------------------
(***************************************************************************)
(* The deck (DeckManager.kt, Ranks.kt, Suites.kt).  A card is its index    *)
(* suite * 13 + rank; two cards are compared by rank alone.  A game's deck *)
(* is a sequence of indices that starts as one shuffled deck and has whole *)
(* shuffled decks appended to it.  The code's lists start at 0: its        *)
(* deck[i] is deck[i + 1] here.                                            *)
(***************************************************************************)
EXTENDS Integers, Sequences

CONSTANTS
  SuiteCount,   \* number of suites: 4 in the program
  RankCount,    \* number of ranks: 13 in the program
  Shuffles      \* the orders generateShuffledDeck can return

DeckSize == SuiteCount * RankCount

CardIds == 0 .. DeckSize - 1

\* The rank of a card: what handleBet and handleWar compare.
CardValue(card) == card % RankCount

\* Every card exactly once: what shuffling ids yields.
IsShuffle(s) == \A c \in CardIds : \E i \in 1 .. Len(s) : s[i] = c

ASSUME CardDeckAssumption ==
  /\ SuiteCount \in Nat \ {0}
  /\ RankCount \in Nat \ {0}
  /\ DeckSize \in Nat
  /\ DeckSize > 4
  /\ \A s \in Shuffles : s \in Seq(CardIds) /\ Len(s) = DeckSize /\ IsShuffle(s)

\* The i-th deck of a game: positions (i-1) * DeckSize + 1 .. i * DeckSize.
DeckOf(cards, i) == SubSeq(cards, (i - 1) * DeckSize + 1, i * DeckSize)

\* The cards form complete decks, none of which has a card twice.
IsWholeDecks(cards) ==
  /\ Len(cards) % DeckSize = 0
  /\ \A i \in 1 .. Len(cards) \div DeckSize : IsShuffle(DeckOf(cards, i))
=============================================================================
