----------------------------- MODULE CasinoWar -----------------------------
(***************************************************************************)
(* What the server promises a client that waits for its answers: every     *)
(* accepted bet happens in one step, which deals cards after those already *)
(* dealt, moves the player's tokens by what those cards are worth and puts *)
(* the stake of a war on the table or takes it off.  Requests, statements, *)
(* the deck and its extensions, and answers are not part of it.            *)
(***************************************************************************)
EXTENDS CardDeck, BetRules

CONSTANTS
  Players, Games,
  BetValues, TieBetValues, TopUps,
  NoRow,          \* the player or the game does not exist
  InitialTokens,  \* Players -> tokens or NoRow
  InitialTables   \* functions Games -> [dealt, shown, stake] or NoRow

VARIABLES
  tokens,  \* a player's tokens
  dealt,   \* how many cards of a game have been dealt
  shown,   \* the last two of them
  stake    \* the stake of a game's war, 0 when it has none

cwVars == <<tokens, dealt, shown, stake>>

CWInit ==
  /\ tokens = InitialTokens
  /\ \E tables \in InitialTables :
       LET Column(field) ==
             [g \in Games |-> IF tables[g] = NoRow THEN NoRow ELSE tables[g][field]]
       IN /\ dealt = Column("dealt")
          /\ shown = Column("shown")
          /\ stake = Column("stake")

\* p can bet this much on g.
Seated(p, g, bet) ==
  /\ tokens[p] # NoRow /\ dealt[g] # NoRow
  /\ tokens[p] >= bet

Gain(p, n) == tokens' = [tokens EXCEPT ![p] = Wrap(tokens[p] + n)]

Round(p, g) ==
  \E bet \in BetValues, tieBet \in TieBetValues :
    /\ Seated(p, g, bet)
    /\ stake[g] = 0
    /\ dealt' = [dealt EXCEPT ![g] = @ + 2]
    /\ \E mine, casinos \in CardIds :
         LET result == RoundResult(CardValue(mine), CardValue(casinos), tieBet)
         IN /\ shown' = [shown EXCEPT ![g] = <<mine, casinos>>]
            /\ stake' = [stake EXCEPT ![g] = RoundStake(result, bet)]
            /\ Gain(p, RoundTokens(result, bet, tieBet))

\* Three cards are burned.  A won war is answered, but changes nothing: the
\* game stays in it, with the same cards still to come.
War(p, g) ==
  /\ Seated(p, g, stake[g])
  /\ stake[g] > 0 /\ stake[g] \in BetValues
  /\ dealt' = [dealt EXCEPT ![g] = @ + 5]
  /\ stake' = [stake EXCEPT ![g] = 0]
  /\ \E mine, casinos \in CardIds :
       LET result == WarResult(CardValue(mine), CardValue(casinos))
       IN /\ result # "win"
          /\ shown' = [shown EXCEPT ![g] = <<mine, casinos>>]
          /\ Gain(p, WarTokens(result, stake[g]))

Forfeit(p, g) ==
  /\ Seated(p, g, 0)
  /\ stake[g] > 0 /\ 0 \in BetValues
  /\ stake' = [stake EXCEPT ![g] = 0]
  /\ Gain(p, ForfeitTokens(stake[g]))
  /\ UNCHANGED <<dealt, shown>>

TopUp(p) ==
  /\ tokens[p] # NoRow
  /\ \E n \in TopUps : tokens' = [tokens EXCEPT ![p] = n]
  /\ UNCHANGED <<dealt, shown, stake>>

CWNext ==
  \/ \E p \in Players, g \in Games : Round(p, g) \/ War(p, g) \/ Forfeit(p, g)
  \/ \E p \in Players : TopUp(p)

CWSpec == CWInit /\ [][CWNext]_cwVars
=============================================================================
