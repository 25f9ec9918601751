------------------------------ MODULE BetRules ------------------------------
(***************************************************************************)
(* The arithmetic of a bet (GameServiceImpl.kt, BetResult.kt): the result  *)
(* two card values give, the tokens the player gains or loses, and the     *)
(* stake a tie leaves on the table.  Token counts are Kotlin Ints, which   *)
(* wrap silently; IntLimit is 2^31 in the program.                         *)
(***************************************************************************)
EXTENDS Integers

CONSTANT IntLimit   \* an Int is in -IntLimit .. IntLimit - 1

ASSUME IntLimitAssumption == IntLimit \in Nat \ {0}

Int32 == -IntLimit .. IntLimit - 1
NatInt32 == 0 .. IntLimit - 1

\* The value an Int expression yields when its exact result is n.
Wrap(n) == ((n + IntLimit) % (2 * IntLimit)) - IntLimit

BetResults == {"win", "war", "surrender", "loss", "tiewin"}

\* A round: one card each.  A tie opens a war unless a tie bet was placed.
RoundResult(playerValue, casinoValue, tieBet) ==
  IF playerValue = casinoValue
    THEN IF tieBet > 0 THEN "tiewin" ELSE "war"
    ELSE IF playerValue > casinoValue THEN "win" ELSE "loss"

RoundTokens(result, bet, tieBet) ==
  Wrap(CASE result = "tiewin" -> tieBet * 10 - bet
         [] result = "win"    -> bet - tieBet
         [] OTHER             -> -bet - tieBet)

\* Mutation: what the round costs, not the bet, is put on the table.
RoundStakeIsLoss(result, bet) == IF result = "war" THEN -bet ELSE 0

RoundStake(result, bet) == IF result = "war" THEN bet ELSE 0

\* A war: one more card each, a second tie wins.
WarResult(playerValue, casinoValue) ==
  IF playerValue = casinoValue THEN "tiewin"
  ELSE IF playerValue > casinoValue THEN "win" ELSE "loss"

\* Mutation: a lost war costs the stake on the table a second time.
WarTokensDoubled(result, bet) ==
  Wrap(IF result = "loss" THEN -bet * 2 ELSE bet)

WarTokens(result, bet) ==
  Wrap(CASE result = "tiewin" -> bet * 2
         [] result = "win"    -> bet
         [] OTHER             -> -bet)

\* (stake * 0.5f).roundToInt() for a stake >= 0: half the stake, halves up.
\* Exact while the stake is below 2^24, where a Float holds every integer.
ForfeitTokens(stake) == (stake + 1) \div 2
=============================================================================
