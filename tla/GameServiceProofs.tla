------------------------- MODULE GameServiceProofs -------------------------
(***************************************************************************)
(* Proofs about GameService, for all values of its constants.              *)
(***************************************************************************)
EXTENDS GameService, SequenceTheorems, TLAPS

\* An Int expression yields an Int.
LEMMA WrapType == \A n \in Int : Wrap(n) \in Int32
<1> SUFFICES ASSUME NEW n \in Int PROVE Wrap(n) \in Int32
  OBVIOUS
<1>1. IntLimit \in Nat /\ IntLimit > 0
  BY IntLimitAssumption
<1> DEFINE m == n + IntLimit
           w == 2 * IntLimit
<1>2. m \in Int /\ w \in Int /\ w > 0
  BY <1>1
<1>3. m % w \in 0 .. w - 1
  <2> HIDE DEF m, w
  <2> QED BY <1>2
<1>4. Wrap(n) = (m % w) - IntLimit
  BY DEF Wrap
<1> QED
  <2>1. w - IntLimit = IntLimit BY <1>1
  <2> HIDE DEF m
  <2> QED BY <1>1, <1>3, <1>4, <2>1 DEF Int32

\* The tokens of a round and of a war are Ints.
LEMMA TokensType ==
  ASSUME NEW bet \in NatInt32, NEW tieBet \in NatInt32, NEW result \in BetResults
  PROVE  /\ RoundTokens(result, bet, tieBet) \in Int32
         /\ WarTokens(result, bet) \in Int32
<1>1. bet \in Int /\ tieBet \in Int
  BY IntLimitAssumption DEF NatInt32
<1>2. RoundTokens(result, bet, tieBet) \in Int32
  <2> DEFINE exact == CASE result = "tiewin" -> tieBet * 10 - bet
                        [] result = "win"    -> bet - tieBet
                        [] OTHER             -> -bet - tieBet
  <2>1. exact \in Int BY <1>1
  <2> HIDE DEF exact
  <2>2. Wrap(exact) \in Int32 BY <2>1, WrapType
  <2> QED BY <2>2 DEF RoundTokens, exact
<1>3. WarTokens(result, bet) \in Int32
  <2> DEFINE exact == CASE result = "tiewin" -> bet * 2
                        [] result = "win"    -> bet
                        [] OTHER             -> -bet
  <2>1. exact \in Int BY <1>1
  <2> HIDE DEF exact
  <2>2. Wrap(exact) \in Int32 BY <2>1, WrapType
  <2> QED BY <2>2 DEF WarTokens, exact
<1> QED BY <1>2, <1>3

\* Half of a stake is at most the stake.
LEMMA ForfeitType == \A stake \in NatInt32 : ForfeitTokens(stake) \in Int32
BY IntLimitAssumption DEF NatInt32, Int32, ForfeitTokens

-----------------------------------------------------------------------------
(***************************************************************************)
(* Complete decks.                                                         *)
(***************************************************************************)
LEMMA DivisionExact ==
  ASSUME NEW d \in Nat \ {0}, NEW a \in Nat, a % d = 0
  PROVE  a \div d \in Nat /\ a = (a \div d) * d
OBVIOUS

LEMMA DivisionOfMultiple ==
  ASSUME NEW d \in Nat \ {0}, NEW n \in Nat
  PROVE  (n * d) % d = 0 /\ (n * d) \div d = n
OBVIOUS

LEMMA NextMultiple ==
  ASSUME NEW d \in Nat \ {0}, NEW n \in Nat
  PROVE  n * d \in Nat /\ (n + 1) * d = n * d + d
OBVIOUS

LEMMA EarlierMultiple ==
  ASSUME NEW d \in Nat \ {0}, NEW n \in Nat, NEW i \in 1 .. n
  PROVE  /\ (i - 1) * d \in Nat /\ i * d = (i - 1) * d + d
         /\ i * d <= n * d
OBVIOUS

\* One shuffled deck is a complete deck.
LEMMA OneDeckIsWhole == \A newDeck \in Shuffles : IsWholeDecks(newDeck)
<1> SUFFICES ASSUME NEW newDeck \in Shuffles PROVE IsWholeDecks(newDeck)
  OBVIOUS
<1>1. /\ newDeck \in Seq(CardIds) /\ Len(newDeck) = 1 * DeckSize /\ IsShuffle(newDeck)
      /\ DeckSize \in Nat \ {0}
  BY CardDeckAssumption
<1>2. Len(newDeck) % DeckSize = 0 /\ Len(newDeck) \div DeckSize = 1
  BY <1>1, DivisionOfMultiple
<1>3. (1 - 1) * DeckSize + 1 = 1 /\ 1 * DeckSize = Len(newDeck)
  BY <1>1
<1>4. DeckOf(newDeck, 1) = newDeck
  BY <1>1, <1>3, SubSeqFull DEF DeckOf
<1> QED BY <1>1, <1>2, <1>4 DEF IsWholeDecks

\* A deck appended to complete decks leaves complete decks.
LEMMA WholeDecksGrow ==
  ASSUME NEW cards \in Seq(CardIds), IsWholeDecks(cards), NEW newDeck \in Shuffles
  PROVE  IsWholeDecks(cards \o newDeck)
<1> DEFINE n == Len(cards) \div DeckSize
           longer == cards \o newDeck
<1>1. /\ newDeck \in Seq(CardIds) /\ Len(newDeck) = DeckSize /\ IsShuffle(newDeck)
      /\ DeckSize \in Nat \ {0}
  BY CardDeckAssumption
<1>2. Len(cards) \in Nat
  BY LenProperties
<1>3. n \in Nat /\ Len(cards) = n * DeckSize
  BY <1>1, <1>2, DivisionExact DEF IsWholeDecks
<1>4. /\ longer \in Seq(CardIds)
      /\ Len(longer) = Len(cards) + DeckSize
  BY <1>1, <1>2, ConcatProperties
<1> HIDE DEF n, longer
<1>5. Len(longer) = (n + 1) * DeckSize /\ n + 1 \in Nat
  BY <1>1, <1>3, <1>4, NextMultiple
<1>6. Len(longer) % DeckSize = 0 /\ Len(longer) \div DeckSize = n + 1
  BY <1>1, <1>5, DivisionOfMultiple
<1>7. ASSUME NEW i \in 1 .. n + 1 PROVE IsShuffle(DeckOf(longer, i))
  <2>1. CASE i \in 1 .. n
    <3>1. IsShuffle(DeckOf(cards, i))
      BY <2>1 DEF IsWholeDecks, n
    <3>2. DeckOf(longer, i) = DeckOf(cards, i)
      <4> DEFINE from == (i - 1) * DeckSize
      <4>1. /\ from \in Nat /\ i * DeckSize = from + DeckSize
            /\ i * DeckSize <= Len(cards)
        BY <1>1, <1>3, <2>1, EarlierMultiple
      <4> HIDE DEF from
      <4>2. from + 1 \in 1 .. Len(cards) /\ i * DeckSize \in 1 .. Len(cards)
        BY <1>1, <1>2, <4>1
      <4> QED BY <1>1, <4>2, SubSeqOfConcat1 DEF DeckOf, longer, from
    <3> QED BY <3>1, <3>2
  <2>2. CASE i = n + 1
    <3>1. DeckOf(longer, i) = newDeck
      <4>1. (i - 1) * DeckSize = Len(cards) /\ i * DeckSize = Len(cards) + DeckSize
        BY <1>1, <1>3, <2>2, NextMultiple
      <4>2. DeckOf(longer, i) = SubSeq(longer, Len(cards) + 1, Len(cards) + DeckSize)
        BY <4>1 DEF DeckOf
      <4>3. SubSeq(longer, Len(cards) + 1, Len(cards) + DeckSize)
              = SubSeq(newDeck, 1, DeckSize)
        <5>1. /\ Len(cards) + 1 \in Len(cards) + 1 .. Len(cards) + Len(newDeck)
              /\ Len(cards) + DeckSize \in Len(cards) + 1 .. Len(cards) + Len(newDeck)
              /\ (Len(cards) + 1) - Len(cards) = 1
              /\ (Len(cards) + DeckSize) - Len(cards) = DeckSize
          BY <1>1, <1>2
        <5> QED BY <1>1, <5>1, SubSeqOfConcat2 DEF longer
      <4> QED BY <1>1, <4>2, <4>3, SubSeqFull
    <3> QED BY <1>1, <3>1
  <2> QED BY <1>3, <2>1, <2>2
<1> QED BY <1>6, <1>7 DEF IsWholeDecks, longer

-----------------------------------------------------------------------------
(***************************************************************************)
(* Rows, and the copies of rows that requests carry.                       *)
(***************************************************************************)
RowOK(row) ==
  /\ row \in Row
  /\ TopInDeck(row) /\ TieOnTable(row) /\ FewUndealt(row)
  /\ IsWholeDecks(row.deck)

\* The cards two copies of a deck agree on.
SameCards(row, other, n) == \A i \in 1 .. n : row.deck[i] = other.deck[i]

\* A round can be dealt from the row, or a war.
LEMMA CardsType ==
  ASSUME NEW row \in Row, NEW at \in Nat, at + 2 <= Len(row.deck)
  PROVE  /\ CardsAt(row, at) \in Seq(CardIds)
         /\ CardsAt(row, at)[1] = row.deck[at + 1]
         /\ CardsAt(row, at)[2] = row.deck[at + 2]
<1>1. row.deck \in Seq(CardIds)
  BY DEF Row
<1>2. at + 1 \in 1 .. Len(row.deck) /\ at + 2 \in 1 .. Len(row.deck)
  <2>1. Len(row.deck) \in Nat BY <1>1, LenProperties
  <2> QED BY <2>1
<1>3. row.deck[at + 1] \in CardIds /\ row.deck[at + 2] \in CardIds
  BY <1>1, <1>2, ElementOfSeq
<1> QED BY <1>3 DEF CardsAt

\* What a handler may add for request r, which read the row gm: an extension
\* that keeps the row's index, stake and cards ...
NewExtension(e, r, gm) ==
  /\ e \in ExtensionRecords
  /\ input[r] \in BetInputs /\ input[r].bet # Omitted
  /\ e.req = r /\ e.game = input[r].game
  /\ e.cur = gm.top /\ e.row.top = gm.top /\ e.row.table = gm.table
  /\ RowOK(e.row)
  /\ SameCards(e.row, gm, gm.top)

\* ... and a settlement that moves its index up and keeps its deck.
NewSettlement(s, r, gm) ==
  /\ s \in SettlementRecords
  /\ s.req = r /\ s.game = input[r].game
  /\ s.cur = gm.top /\ s.row.top >= gm.top /\ s.row.deck = gm.deck
  /\ s.todo = Parts
  /\ RowOK(s.row)

\* A round asks for a deck when few cards are left, and is settled unless a
\* card or the field tieBet is missing.
RoundStep(r, gm, rest) ==
  /\ \/ extensions' = rest
     \/ \E e : NewExtension(e, r, gm) /\ extensions' = rest \cup {e}
  /\ \/ settlements' = settlements
     \/ \E s : /\ NewSettlement(s, r, gm) /\ s.row.top > s.cur
              /\ settlements' = settlements \cup {s}
  /\ \/ \E e \in extensions' : e.req = r
     \/ \E s \in settlements' : s.req = r
     \/ input[r].tieBet = Omitted
  /\ answer' = answer

\* A war or a forfeit does one of three: ask for a deck, answer, or settle.
WarStep(r, gm, rest) ==
  \/ /\ \E e : NewExtension(e, r, gm) /\ extensions' = rest \cup {e}
     /\ UNCHANGED <<settlements, answer>>
  \/ /\ extensions' = rest /\ settlements' = settlements
     /\ \E response \in Answers : Respond(r, response)
  \/ /\ extensions' = rest /\ answer' = answer
     /\ \E s : NewSettlement(s, r, gm) /\ settlements' = settlements \cup {s}

HandlerAdds(r, gm, rest) ==
  /\ \A e \in extensions' : e \in rest \/ NewExtension(e, r, gm)
  /\ \A s \in settlements' : s \in settlements \/ NewSettlement(s, r, gm)
  /\ answer' \in [Requests -> Answers \cup {None}]

\* A handler runs for a bet that was validated on a row that was read.
Handling(r, gm, tokens) ==
  /\ TypeOK
  /\ r \in Requests
  /\ input[r] \in BetInputs /\ input[r].bet # Omitted
  /\ RowOK(gm)
  /\ tokens \in Int32

LEMMA ExtensionAdds ==
  ASSUME NEW r, NEW gm, NEW tokens, NEW newDeck \in Shuffles,
         Handling(r, gm, tokens), Len(gm.deck) <= gm.top + 4
  PROVE  NewExtension(Extension(r, gm, tokens, newDeck), r, gm)
<1> DEFINE e == Extension(r, gm, tokens, newDeck)
<1>1. /\ gm.deck \in Seq(CardIds) /\ gm.top \in Nat /\ gm.table \in NatInt32
      /\ gm.top <= Len(gm.deck) /\ TieOnTable(gm)
      /\ gm = [deck |-> gm.deck, top |-> gm.top, table |-> gm.table]
  BY DEF Handling, RowOK, Row, TopInDeck
<1>2. newDeck \in Seq(CardIds)
  BY CardDeckAssumption
<1> DEFINE longer == gm.deck \o newDeck
<1>3. /\ longer \in Seq(CardIds)
      /\ Len(longer) = Len(gm.deck) + Len(newDeck)
      /\ \A i \in 1 .. Len(gm.deck) : longer[i] = gm.deck[i]
  BY <1>1, <1>2, ConcatProperties
<1>4. Len(gm.deck) \in Nat /\ Len(newDeck) \in Nat
  BY <1>1, <1>2, LenProperties
<1> HIDE DEF longer
<1>5. e = [req |-> r, game |-> input[r].game, cur |-> gm.top,
           row |-> [deck |-> longer, top |-> gm.top, table |-> gm.table],
           tokens |-> tokens]
  BY <1>1 DEF Extension, longer
<1>6. e.row \in Row
  BY <1>1, <1>3, <1>5 DEF Row
<1>7. SameCards(e.row, gm, gm.top)
  BY <1>1, <1>3, <1>4, <1>5 DEF SameCards
<1>8. TopInDeck(e.row)
  BY <1>1, <1>3, <1>4, <1>5 DEF TopInDeck
<1>9. TieOnTable(e.row)
  BY <1>1, <1>5, <1>7 DEF TieOnTable, SameCards
<1>10. e \in ExtensionRecords
  BY <1>1, <1>5, <1>6 DEF Handling, ExtensionRecords, BetInputs
<1>11. FewUndealt(e.row)
  <2>1. Len(newDeck) = DeckSize
    BY CardDeckAssumption
  <2>2. Len(e.row.deck) = Len(gm.deck) + DeckSize /\ e.row.top = gm.top
    BY <1>3, <1>5, <2>1
  <2> QED BY <1>1, <1>4, <2>1, <2>2 DEF FewUndealt
<1>12. IsWholeDecks(e.row.deck)
  <2>1. e.row.deck = longer
    BY <1>5
  <2>2. IsWholeDecks(gm.deck)
    BY DEF Handling, RowOK
  <2>3. IsWholeDecks(longer)
    BY <1>1, <2>2, WholeDecksGrow DEF longer
  <2> QED BY <2>1, <2>3
<1> QED
  BY <1>5, <1>6, <1>7, <1>8, <1>9, <1>10, <1>11, <1>12
     DEF NewExtension, RowOK, Handling

\* A settlement from the row: what has to hold of its index, stake and reply.
LEMMA SettlementAdds ==
  ASSUME NEW r, NEW gm, NEW tokens, Handling(r, gm, tokens),
         NEW newTop \in Nat, newTop >= gm.top, newTop <= Len(gm.deck),
         NEW stake \in NatInt32,
         TieOnTable([deck |-> gm.deck, top |-> newTop, table |-> stake]),
         NEW response \in Answers
  PROVE  NewSettlement(Settlement(r, gm, tokens, newTop, stake, response), r, gm)
<1> DEFINE s == Settlement(r, gm, tokens, newTop, stake, response)
<1>1. gm.deck \in Seq(CardIds) /\ gm.top \in Nat
  BY DEF Handling, RowOK, Row
<1>2. s.row = [deck |-> gm.deck, top |-> newTop, table |-> stake]
  BY DEF Settlement
<1>3. RowOK(s.row)
  <2>1. Len(gm.deck) \in Nat /\ DeckSize \in Nat
    BY <1>1, LenProperties, CardDeckAssumption
  <2>2. FewUndealt(s.row)
    BY <1>1, <1>2, <2>1 DEF FewUndealt, Handling, RowOK
  <2> QED BY <1>1, <1>2, <2>2 DEF Handling, RowOK, Row, TopInDeck
<1>4. Wrap(tokens + response.value) \in Int32
  <2>1. tokens \in Int /\ response.value \in Int
    BY IntLimitAssumption DEF Handling, Answers, Int32
  <2> QED BY <2>1, WrapType
<1>5. s \in SettlementRecords
  BY <1>1, <1>3, <1>4 DEF Settlement, SettlementRecords, Handling, BetInputs, RowOK
<1> QED
  BY <1>2, <1>3, <1>5 DEF NewSettlement, Settlement

LEMMA RespondType ==
  ASSUME TypeOK, NEW r \in Requests, NEW response \in Answers,
         Respond(r, response)
  PROVE  answer' \in [Requests -> Answers \cup {None}]
BY DEF TypeOK, Respond

\* The row has too few cards for a round or a war when a deck is asked for.
LEMMA FewCards ==
  ASSUME NEW r, NEW gm, NEW tokens, Handling(r, gm, tokens),
         NeedsDeck(gm, gm.top + 1) \/ NeedsDeck(gm, gm.top + 3)
  PROVE  Len(gm.deck) <= gm.top + 4
<1>1. gm.deck \in Seq(CardIds) /\ gm.top \in Nat
  BY DEF Handling, RowOK, Row
<1>2. Len(gm.deck) \in Nat
  BY <1>1, LenProperties
<1> QED BY <1>1, <1>2 DEF NeedsDeck

\* Asking for a deck adds one extension.
LEMMA ExtendAdds ==
  ASSUME NEW r, NEW gm, NEW tokens, NEW rest, Handling(r, gm, tokens),
         Len(gm.deck) <= gm.top + 4, Extend(r, gm, tokens, rest)
  PROVE  \E e : NewExtension(e, r, gm) /\ extensions' = rest \cup {e}
BY ExtensionAdds DEF Extend

LEMMA InputTypes ==
  ASSUME NEW r, NEW gm, NEW tokens, Handling(r, gm, tokens)
  PROVE  /\ input[r].bet \in NatInt32
         /\ input[r].tieBet # Omitted => input[r].tieBet \in NatInt32
BY GameServiceAssumption DEF Handling, BetInputs

\* A round leaves a stake only when its two cards tie.
LEMMA RoundAdds ==
  ASSUME NEW r, NEW gm, NEW tokens, Handling(r, gm, tokens),
         gm.top + 2 <= Len(gm.deck), input[r].tieBet # Omitted
  PROVE  /\ NewSettlement(RoundSettlement(r, gm, tokens), r, gm)
         /\ RoundSettlement(r, gm, tokens).row.top > RoundSettlement(r, gm, tokens).cur
<1> DEFINE response == RoundResponse(r, gm)
           cards == CardsAt(gm, gm.top)
           bet == input[r].bet
           tieBet == input[r].tieBet
           betResult == RoundResult(CardValue(cards[1]), CardValue(cards[2]), tieBet)
           stake == RoundStake(betResult, bet)
           newTop == gm.top + 2
<1>1. gm \in Row /\ gm.top \in Nat
  BY DEF Handling, RowOK, Row
<1>2. /\ cards \in Seq(CardIds)
      /\ cards[1] = gm.deck[gm.top + 1] /\ cards[2] = gm.deck[gm.top + 2]
  BY <1>1, CardsType
<1>3. bet \in NatInt32 /\ tieBet \in NatInt32
  BY InputTypes
<1>4. betResult \in BetResults
  BY DEF RoundResult, BetResults
<1>5. response = BetResponse("round", betResult, RoundTokens(betResult, bet, tieBet), cards)
  BY DEF RoundResponse
<1>6. RoundTokens(betResult, bet, tieBet) \in Int32
  BY <1>3, <1>4, TokensType
<1>7. response \in Answers
  <2> HIDE DEF cards, betResult, response
  <2> QED BY <1>2, <1>4, <1>5, <1>6 DEF BetResponse, Answers, Handlers
<1>8. stake \in NatInt32 /\ (stake > 0 => betResult = "war")
  <2> HIDE DEF betResult
  <2> QED BY <1>3, IntLimitAssumption DEF RoundStake, NatInt32
<1>9. betResult = "war" => CardValue(cards[1]) = CardValue(cards[2])
  <2> HIDE DEF cards
  <2> QED BY DEF RoundResult
<1>10. TieOnTable([deck |-> gm.deck, top |-> newTop, table |-> stake])
  <2>1. newTop >= 2 /\ newTop - 1 = gm.top + 1
    BY <1>1
  <2> HIDE DEF stake, cards, betResult
  <2> QED BY <1>2, <1>8, <1>9, <2>1 DEF TieOnTable
<1>11. RoundSettlement(r, gm, tokens) = Settlement(r, gm, tokens, newTop, stake, response)
  BY <1>5 DEF RoundSettlement, BetResponse
<1>12. newTop \in Nat /\ newTop > gm.top /\ newTop >= gm.top /\ newTop <= Len(gm.deck)
  BY <1>1
<1> HIDE DEF newTop, stake, response
<1>13. NewSettlement(RoundSettlement(r, gm, tokens), r, gm)
  BY <1>7, <1>8, <1>10, <1>11, <1>12, SettlementAdds
<1>14. /\ RoundSettlement(r, gm, tokens).row.top = newTop
       /\ RoundSettlement(r, gm, tokens).cur = gm.top
  BY <1>11 DEF Settlement
<1> QED BY <1>12, <1>13, <1>14

LEMMA HandleBetStep ==
  ASSUME NEW r, NEW gm, NEW tokens, NEW rest, Handling(r, gm, tokens),
         HandleBet(r, gm, tokens, rest)
  PROVE  RoundStep(r, gm, rest)
<1>1. CASE NeedsDeck(gm, gm.top + 1)
  <2>1. PICK e : NewExtension(e, r, gm) /\ extensions' = rest \cup {e}
    BY <1>1, ExtendAdds, FewCards DEF HandleBet
  <2>2. e \in extensions' /\ e.req = r
    BY <2>1 DEF NewExtension
  <2> QED BY <2>1, <2>2, RoundAdds DEF HandleBet, RoundStep
<1>2. CASE ~ NeedsDeck(gm, gm.top + 1)
  <2>1. gm.top + 2 <= Len(gm.deck)
    <3>1. gm.deck \in Seq(CardIds) /\ gm.top \in Nat
      BY DEF Handling, RowOK, Row
    <3>2. Len(gm.deck) \in Nat
      BY <3>1, LenProperties
    <3> QED BY <1>2, <3>1, <3>2 DEF NeedsDeck
  <2>2. extensions' = rest /\ answer' = answer
    BY <1>2 DEF HandleBet
  <2>3. CASE input[r].tieBet = Omitted
    BY <2>2, <2>3 DEF HandleBet, RoundStep
  <2>4. CASE input[r].tieBet # Omitted
    <3> DEFINE s == RoundSettlement(r, gm, tokens)
    <3>1. NewSettlement(s, r, gm) /\ s.row.top > s.cur
      BY <2>1, <2>4, RoundAdds
    <3>2. settlements' = settlements \cup {s} /\ s.req = r
      BY <2>1, <2>4, <3>1 DEF HandleBet, NewSettlement
    <3> HIDE DEF s
    <3> QED BY <2>2, <3>1, <3>2 DEF RoundStep
  <2> QED BY <2>3, <2>4
<1> QED BY <1>1, <1>2

\* A war that is not short of cards is dealt from them, and clears the stake.
LEMMA WarResponseType ==
  ASSUME NEW r, NEW gm, NEW tokens, Handling(r, gm, tokens),
         ~ NeedsDeck(gm, gm.top + 3)
  PROVE  /\ WarResponse(r, gm) \in Answers
         /\ gm.top + 5 <= Len(gm.deck)
<1> DEFINE cards == CardsAt(gm, gm.top + 3)
           betResult == WarResult(CardValue(cards[1]), CardValue(cards[2]))
<1>1. gm \in Row /\ gm.top \in Nat /\ Len(gm.deck) \in Nat
  BY LenProperties DEF Handling, RowOK, Row
<1>2. gm.top + 5 <= Len(gm.deck) /\ gm.top + 3 \in Nat
  BY <1>1 DEF NeedsDeck
<1>3. cards \in Seq(CardIds)
  BY <1>1, <1>2, CardsType
<1>4. betResult \in BetResults
  BY DEF WarResult, BetResults
<1>5. WarTokens(betResult, input[r].bet) \in Int32
  <2>1. 0 \in NatInt32 BY IntLimitAssumption DEF NatInt32
  <2>2. input[r].bet \in NatInt32 BY InputTypes
  <2> QED BY <1>4, <2>1, <2>2, TokensType
<1>6. WarResponse(r, gm) =
        BetResponse("war", betResult, WarTokens(betResult, input[r].bet), cards)
  BY DEF WarResponse
<1> HIDE DEF cards, betResult
<1> QED BY <1>2, <1>3, <1>4, <1>5, <1>6 DEF BetResponse, Answers, Handlers

\* Nothing is on the table after a war or a forfeit is settled.
LEMMA NoStake ==
  ASSUME NEW deck, NEW top
  PROVE  TieOnTable([deck |-> deck, top |-> top, table |-> 0]) /\ 0 \in NatInt32
BY IntLimitAssumption DEF TieOnTable, NatInt32

LEMMA HandleWarStep ==
  ASSUME NEW r, NEW gm, NEW tokens, NEW rest, Handling(r, gm, tokens),
         HandleWar(r, gm, tokens, rest)
  PROVE  WarStep(r, gm, rest)
<1>1. CASE NeedsDeck(gm, gm.top + 3)
  BY <1>1, ExtendAdds, FewCards DEF HandleWar, WarStep
<1>2. CASE ~ NeedsDeck(gm, gm.top + 3)
  <2> DEFINE response == WarResponse(r, gm)
             settlement == Settlement(r, gm, tokens, gm.top + 5, 0, response)
  <2>1. response \in Answers /\ gm.top + 5 <= Len(gm.deck)
    BY <1>2, WarResponseType
  <2>2. NewSettlement(settlement, r, gm)
    <3>1. gm.top \in Nat
      BY DEF Handling, RowOK, Row
    <3>2. gm.top + 5 \in Nat /\ gm.top + 5 >= gm.top
      BY <3>1
    <3>3. TieOnTable([deck |-> gm.deck, top |-> gm.top + 5, table |-> 0])
      BY NoStake
    <3> HIDE DEF response
    <3> QED BY <2>1, <3>2, <3>3, NoStake, SettlementAdds
  <2>3. /\ extensions' = rest
        /\ \/ Respond(r, response) /\ settlements' = settlements
           \/ settlements' = settlements \cup {settlement} /\ answer' = answer
    BY <1>2 DEF HandleWar
  <2> HIDE DEF response, settlement
  <2> QED BY <2>1, <2>2, <2>3 DEF WarStep
<1> QED BY <1>1, <1>2

LEMMA HandleForfeitStep ==
  ASSUME NEW r, NEW gm, NEW tokens, Handling(r, gm, tokens),
         HandleForfeit(r, gm, tokens)
  PROVE  WarStep(r, gm, extensions)
<1> DEFINE response == BetResponse("forfeit", "surrender", ForfeitTokens(gm.table), <<>>)
           settlement == Settlement(r, gm, tokens, gm.top, 0, response)
<1>1. gm.table \in NatInt32 /\ gm.top \in Nat /\ gm.top <= Len(gm.deck)
  BY DEF Handling, RowOK, Row, TopInDeck
<1>2. response \in Answers
  <2>1. ForfeitTokens(gm.table) \in Int32
    BY <1>1, ForfeitType
  <2>2. << >> \in Seq(CardIds)
    OBVIOUS
  <2> QED BY <2>1, <2>2 DEF BetResponse, Answers, Handlers, BetResults
<1>3. NewSettlement(settlement, r, gm)
  <2>1. TieOnTable([deck |-> gm.deck, top |-> gm.top, table |-> 0])
    BY NoStake
  <2>2. gm.top >= gm.top
    BY <1>1
  <2> HIDE DEF response
  <2> QED BY <1>1, <1>2, <2>1, <2>2, NoStake, SettlementAdds
<1>4. /\ settlements' = settlements \cup {settlement}
      /\ extensions' = extensions /\ answer' = answer
  BY DEF HandleForfeit
<1> HIDE DEF settlement
<1> QED BY <1>3, <1>4 DEF WarStep

\* What the steps have in common.
LEMMA StepAdds ==
  ASSUME TypeOK, NEW r \in Requests, NEW gm, NEW rest,
         RoundStep(r, gm, rest) \/ WarStep(r, gm, rest)
  PROVE  HandlerAdds(r, gm, rest)
<1>1. answer' \in [Requests -> Answers \cup {None}]
  BY RespondType DEF RoundStep, WarStep, TypeOK
<1> QED BY <1>1 DEF RoundStep, WarStep, HandlerAdds

\* Whatever branch a bet takes: it is dropped because something is missing,
\* or one of the handlers runs.
LEMMA ServeBetStep ==
  ASSUME TypeOK, NEW r \in Requests, input[r] \in BetInputs,
         NEW gm \in Row \cup {Absent}, gm # Absent => RowOK(gm),
         NEW tokens \in Int32 \cup {Absent},
         ServeBet(r, gm, tokens)
  PROVE  \/ /\ gm = Absent \/ tokens = Absent \/ input[r].bet = Omitted
            /\ UNCHANGED <<extensions, settlements, answer>>
         \/ /\ gm # Absent /\ tokens # Absent /\ input[r].bet # Omitted
            /\ \/ gm.table = 0 /\ RoundStep(r, gm, extensions)
               \/ WarStep(r, gm, extensions)
<1>1. CASE gm = Absent \/ tokens = Absent \/ input[r].bet = Omitted
  BY <1>1 DEF ServeBet
<1>2. CASE gm # Absent /\ tokens # Absent /\ input[r].bet # Omitted
  <2>1. Handling(r, gm, tokens)
    BY <1>2 DEF Handling
  <2>2. CASE Respond(r, ErrorResponse(409)) /\ UNCHANGED <<extensions, settlements>>
    <3>1. ErrorResponse(409) \in Answers
      BY IntLimitAssumption DEF ErrorResponse, Answers, Handlers, Int32
    <3> QED BY <1>2, <2>2, <3>1 DEF WarStep
  <2>3. CASE gm.table = 0 /\ HandleBet(r, gm, tokens, extensions)
    BY <1>2, <2>1, <2>3, HandleBetStep
  <2>4. CASE HandleForfeit(r, gm, tokens)
    BY <1>2, <2>1, <2>4, HandleForfeitStep
  <2>5. CASE HandleWar(r, gm, tokens, extensions)
    BY <1>2, <2>1, <2>5, HandleWarStep
  <2> QED BY <1>2, <2>2, <2>3, <2>4, <2>5 DEF ServeBet
<1> QED BY <1>1, <1>2

LEMMA ServeBetAdds ==
  ASSUME TypeOK, NEW r \in Requests, input[r] \in BetInputs,
         NEW gm \in Row \cup {Absent}, gm # Absent => RowOK(gm),
         NEW tokens \in Int32 \cup {Absent},
         ServeBet(r, gm, tokens)
  PROVE  \/ UNCHANGED <<extensions, settlements, answer>>
         \/ gm # Absent /\ HandlerAdds(r, gm, extensions)
BY ServeBetStep, StepAdds

-----------------------------------------------------------------------------
(***************************************************************************)
(* The inductive invariant.  Every row a request carries is a legal row and *)
(* agrees with the stored row on all cards up to the index it will compare,*)
(* an index the stored row has reached.                                    *)
(***************************************************************************)
CopyOf(row, cur, g) ==
  /\ game[g] # Absent
  /\ cur <= game[g].top
  /\ SameCards(row, game[g], cur)

ReadOK(q) ==
  /\ q \in ReadRecords
  /\ input[q.req] \in Inputs
  /\ q.game # Absent => input[q.req] \in BetInputs
  /\ q.game \notin {Absent, Pending} =>
       /\ RowOK(q.game)
       /\ CopyOf(q.game, q.game.top, input[q.req].game)

ExtensionOK(e) ==
  /\ e \in ExtensionRecords
  /\ input[e.req] \in BetInputs /\ input[e.req].bet # Omitted
  /\ e.game = input[e.req].game
  /\ RowOK(e.row) /\ e.row.top = e.cur
  /\ CopyOf(e.row, e.cur, e.game)

SettlementOK(s) ==
  /\ s \in SettlementRecords
  /\ RowOK(s.row) /\ s.row.top >= s.cur
  /\ CopyOf(s.row, s.cur, s.game)

IInv ==
  /\ TypeOK
  /\ \A g \in Games : game[g] # Absent => RowOK(game[g])
  /\ \A q \in reads : ReadOK(q)
  /\ \A e \in extensions : ExtensionOK(e)
  /\ \A s \in settlements : SettlementOK(s)

\* What every step may do to the stored rows, and to the inputs.
RowGrows(old, new) ==
  /\ RowOK(new)
  /\ new.top >= old.top
  /\ SameCards(new, old, old.top)

GameKept ==
  /\ game' \in [Games -> Row \cup {Absent}]
  /\ \A g \in Games : game'[g] # Absent => RowOK(game'[g])
  /\ \A g \in Games : game[g] # Absent =>
       game'[g] # Absent /\ RowGrows(game[g], game'[g])

\* Bets create no rows.
GameStep ==
  /\ game' \in [Games -> Row \cup {Absent}]
  /\ \A g \in Games : game[g] = Absent => game'[g] = Absent
  /\ \A g \in Games : game[g] # Absent =>
       game'[g] # Absent /\ RowGrows(game[g], game'[g])

\* Nor do they create players, or remove any.
PlayerStep == \A p \in Players : (player'[p] = Absent) <=> (player[p] = Absent)

InputStep ==
  /\ input' \in [Requests -> Inputs \cup {None}]
  /\ \A r \in Requests : input[r] \in Inputs => input'[r] = input[r]

LEMMA AbsentNotRow == Absent \notin Row /\ Pending \notin Row /\ Absent # Pending
BY GameServiceAssumption, RepositoryAssumption

LEMMA GameUnchanged == ASSUME IInv, UNCHANGED game PROVE GameStep
<1>1. \A g \in Games : game[g] # Absent => game[g] \in Row
  BY DEF IInv, TypeOK, RepositoryTypeOK
<1>2. \A row \in Row : row.top \in Nat /\ row.top >= row.top
  BY DEF Row
<1> QED BY <1>1, <1>2 DEF GameStep, RowGrows, SameCards, IInv, TypeOK, RepositoryTypeOK

LEMMA StepKeeps == ASSUME GameStep PROVE GameKept
BY DEF GameStep, GameKept, RowGrows

LEMMA AbsentNotInt == Absent \notin Int32
BY RepositoryAssumption, IntLimitAssumption DEF Int32

LEMMA CasPlayerStep ==
  ASSUME TypeOK, NEW p, NEW from \in Int32, NEW to \in Int32,
         player' \in {player, CasPlayer(p, from, to)}
  PROVE  PlayerStep
<1>1. player \in [Players -> Int32 \cup {Absent}]
  BY DEF TypeOK, RepositoryTypeOK
<1>2. CASE player' = player
  BY <1>2 DEF PlayerStep
<1>3. CASE player' # player
  <2>1. player' = [player EXCEPT ![p] = to] /\ player[p] = from
    BY <1>3 DEF CasPlayer
  <2> QED BY <1>1, <2>1, AbsentNotInt DEF PlayerStep
<1> QED BY <1>2, <1>3

LEMMA InputUnchanged == ASSUME IInv, UNCHANGED input PROVE InputStep
BY DEF IInv, TypeOK, InputStep

\* A compare-and-set whose row is a copy up to the index it compares.
LEMMA CasGameStep ==
  ASSUME IInv, NEW g \in Games, NEW cur \in Nat, NEW row,
         RowOK(row), row.top >= cur, CopyOf(row, cur, g),
         game' \in {game, CasGame(g, cur, row)}
  PROVE  GameStep
<1>1. CASE game' = game
  BY <1>1, GameUnchanged
<1>2. CASE game' # game
  <2>1. game' = [game EXCEPT ![g] = row] /\ game[g] # Absent /\ game[g].top = cur
    BY <1>2 DEF CasGame
  <2>2. game \in [Games -> Row \cup {Absent}] /\ row \in Row
    BY DEF IInv, TypeOK, RepositoryTypeOK, RowOK
  <2>3. game'[g] = row /\ \A h \in Games : h # g => game'[h] = game[h]
    BY <2>1, <2>2
  <2>4. RowGrows(game[g], row)
    BY <2>1 DEF RowGrows, CopyOf
  <2>5. \A h \in Games : game[h] # Absent => RowGrows(game[h], game[h])
    <3>1. \A h \in Games : game[h] # Absent => game[h].top \in Nat
      BY <2>2 DEF Row
    <3> QED BY <3>1 DEF IInv, RowGrows, SameCards
  <2>6. row # Absent
    BY <2>2, AbsentNotRow
  <2>7. game' \in [Games -> Row \cup {Absent}]
    BY <2>1, <2>2
  <2> QED BY <2>1, <2>3, <2>4, <2>5, <2>6, <2>7 DEF GameStep
<1> QED BY <1>1, <1>2

\* A copy stays a copy: the stored row keeps the cards and the index.
LEMMA CopyKept ==
  ASSUME IInv, GameKept, NEW row, NEW cur \in Nat, NEW g \in Games,
         CopyOf(row, cur, g)
  PROVE  CopyOf(row, cur, g)'
<1>1. game[g] # Absent /\ cur <= game[g].top /\ SameCards(row, game[g], cur)
  BY DEF CopyOf
<1>2. game'[g] # Absent /\ RowGrows(game[g], game'[g])
  BY <1>1 DEF GameKept
<1>3. game[g].top \in Nat /\ game'[g].top \in Nat
  BY <1>1, <1>2 DEF IInv, TypeOK, RowGrows, RowOK, Row
<1>4. cur <= game'[g].top
  BY <1>1, <1>2, <1>3 DEF RowGrows
<1>5. SameCards(row, game'[g], cur)
  BY <1>1, <1>2, <1>3 DEF RowGrows, SameCards
<1> QED BY <1>2, <1>4, <1>5 DEF CopyOf

LEMMA ReadKept ==
  ASSUME IInv, GameKept, InputStep, NEW q, ReadOK(q)
  PROVE  ReadOK(q)'
<1>1. q.req \in Requests /\ input'[q.req] = input[q.req]
  BY DEF ReadOK, ReadRecords, InputStep
<1>2. q.game \notin {Absent, Pending} =>
        CopyOf(q.game, q.game.top, input[q.req].game)'
  <2> SUFFICES ASSUME q.game \notin {Absent, Pending}
               PROVE  CopyOf(q.game, q.game.top, input[q.req].game)'
    OBVIOUS
  <2>1. q.game.top \in Nat /\ input[q.req].game \in Games
    BY DEF ReadOK, RowOK, Row, BetInputs
  <2>2. CopyOf(q.game, q.game.top, input[q.req].game)
    BY DEF ReadOK
  <2>3. PICK g \in Games : g = input[q.req].game
    BY <2>1
  <2>4. CopyOf(q.game, q.game.top, g)'
    BY <2>1, <2>2, <2>3, CopyKept
  <2> QED BY <1>1, <2>3, <2>4 DEF CopyOf
<1> QED BY <1>1, <1>2 DEF ReadOK

LEMMA ExtensionKept ==
  ASSUME IInv, GameKept, InputStep, NEW e, ExtensionOK(e)
  PROVE  ExtensionOK(e)'
<1>1. e.req \in Requests /\ e.cur \in Nat /\ e.game \in Games
  BY DEF ExtensionOK, ExtensionRecords
<1>2. input'[e.req] = input[e.req]
  BY <1>1 DEF ExtensionOK, InputStep, Inputs
<1>3. CopyOf(e.row, e.cur, e.game)'
  BY <1>1, CopyKept DEF ExtensionOK
<1> QED BY <1>2, <1>3 DEF ExtensionOK

LEMMA SettlementKept ==
  ASSUME IInv, GameKept, NEW s, SettlementOK(s)
  PROVE  SettlementOK(s)'
<1>1. s.cur \in Nat /\ s.game \in Games
  BY DEF SettlementOK, SettlementRecords
<1>2. CopyOf(s.row, s.cur, s.game)'
  BY <1>1, CopyKept DEF SettlementOK
<1> QED BY <1>2 DEF SettlementOK

\* What a handler adds for a request whose row is a copy is a copy too.
LEMMA HandlerOK ==
  ASSUME IInv, NEW r \in Requests, input[r] \in BetInputs,
         NEW gm, RowOK(gm), CopyOf(gm, gm.top, input[r].game),
         NEW rest \in SUBSET extensions, HandlerAdds(r, gm, rest)
  PROVE  /\ \A e \in extensions' : ExtensionOK(e)
         /\ \A s \in settlements' : SettlementOK(s)
<1>1. ASSUME NEW e, NewExtension(e, r, gm) PROVE ExtensionOK(e)
  <2>1. SameCards(e.row, gm, gm.top) /\ e.cur = gm.top /\ e.game = input[r].game
    BY <1>1 DEF NewExtension
  <2>2. CopyOf(e.row, e.cur, e.game)
    BY <2>1 DEF CopyOf, SameCards
  <2> QED BY <1>1, <2>1, <2>2 DEF NewExtension, ExtensionOK
<1>2. ASSUME NEW s, NewSettlement(s, r, gm) PROVE SettlementOK(s)
  <2>1. s.row.deck = gm.deck /\ s.cur = gm.top /\ s.game = input[r].game
    BY <1>2 DEF NewSettlement
  <2>2. CopyOf(s.row, s.cur, s.game)
    BY <2>1 DEF CopyOf, SameCards
  <2> QED BY <1>2, <2>1, <2>2 DEF NewSettlement, SettlementOK
<1> QED BY <1>1, <1>2 DEF HandlerAdds, IInv

\* It suffices to look at the elements each action leaves in flight.
LEMMA KeptPreserves ==
  ASSUME IInv, GameKept, InputStep,
         player' \in [Players -> Int32 \cup {Absent}],
         topUps' \subseteq TopUpRecords,
         answer' \in [Requests -> Answers \cup {None}],
         lost' \subseteq Requests, faults' \in 0 .. MaxFaults,
         \A q \in reads' : ReadOK(q) \/ ReadOK(q)',
         \A e \in extensions' : ExtensionOK(e),
         \A s \in settlements' : SettlementOK(s)
  PROVE  IInv'
<1>1. \A q \in reads' : ReadOK(q)'
  BY ReadKept
<1>2. \A e \in extensions' : ExtensionOK(e)'
  BY ExtensionKept
<1>3. \A s \in settlements' : SettlementOK(s)'
  BY SettlementKept
<1>4. \A g \in Games : game'[g] # Absent => RowOK(game'[g])
  BY DEF GameKept
<1>5. TypeOK'
  <2>1. reads' \subseteq ReadRecords
    BY <1>1 DEF ReadOK
  <2>2. extensions' \subseteq ExtensionRecords
    BY <1>2 DEF ExtensionOK
  <2>3. settlements' \subseteq SettlementRecords
    BY <1>3 DEF SettlementOK
  <2> QED BY <2>1, <2>2, <2>3 DEF TypeOK, RepositoryTypeOK, GameKept, InputStep
<1> QED BY <1>1, <1>2, <1>3, <1>4, <1>5 DEF IInv

LEMMA StepPreserves ==
  ASSUME IInv, GameStep, InputStep,
         player' \in [Players -> Int32 \cup {Absent}],
         topUps' \subseteq TopUpRecords,
         answer' \in [Requests -> Answers \cup {None}],
         lost' \subseteq Requests, faults' \in 0 .. MaxFaults,
         \A q \in reads' : ReadOK(q) \/ ReadOK(q)',
         \A e \in extensions' : ExtensionOK(e),
         \A s \in settlements' : SettlementOK(s)
  PROVE  IInv'
<1>1. GameKept
  BY DEF GameStep, GameKept, RowGrows
<1> QED BY <1>1, KeptPreserves

LEMMA InitIInv == Init => IInv
<1> SUFFICES ASSUME Init PROVE IInv
  OBVIOUS
<1>1. game \in [Games -> Row \cup {Absent}]
  BY RepositoryAssumption DEF Init, RepositoryInit
<1>2. \A g \in Games : game[g] # Absent => RowOK(game[g])
  BY <1>1, StartGamesAssumption DEF Init, RepositoryInit, RowOK
<1>3. TypeOK
  BY <1>1, RepositoryAssumption, GameServiceAssumption
     DEF Init, RepositoryInit, TypeOK, RepositoryTypeOK
<1> QED BY <1>2, <1>3 DEF Init, IInv

\* The shape of a balance survives a compare-and-set.
LEMMA CasPlayerType ==
  ASSUME TypeOK, NEW p, NEW from, NEW to \in Int32,
         player' \in {player, CasPlayer(p, from, to)}
  PROVE  player' \in [Players -> Int32 \cup {Absent}]
BY DEF TypeOK, RepositoryTypeOK, CasPlayer

\* The responses that are not computed from cards.
LEMMA FixedResponses ==
  /\ TopUpResponse \in Answers
  /\ \A code \in {404, 409, 500} : ErrorResponse(code) \in Answers
BY IntLimitAssumption DEF TopUpResponse, ErrorResponse, Answers, Handlers, Int32

\* A request arrives.
LEMMA SubmitPreserves ==
  ASSUME IInv, NEW r \in Requests, NEW in \in Inputs, NEW awaited,
         \/ awaited = Absent
         \/ awaited = Pending /\ in \in BetInputs,
         Submit(r, in, awaited)
  PROVE  IInv' /\ GameStep
<1>1. input' = [input EXCEPT ![r] = in] /\ input[r] = None
  BY DEF Submit
<1>2. InputStep
  BY <1>1, NoneAssumption DEF InputStep, IInv, TypeOK
<1>3. GameStep
  BY GameUnchanged DEF Submit
<1> DEFINE q == [req |-> r, game |-> awaited, player |-> Pending]
<1>4. input'[r] = in
  BY <1>1 DEF IInv, TypeOK
<1>5. ReadOK(q)'
  BY <1>4, AbsentNotRow DEF ReadOK, ReadRecords
<1>6. \A p \in reads' : ReadOK(p) \/ ReadOK(p)'
  BY <1>5 DEF Submit, IInv
<1>7. /\ player' \in [Players -> Int32 \cup {Absent}]
      /\ topUps' \subseteq TopUpRecords
      /\ answer' \in [Requests -> Answers \cup {None}]
      /\ lost' \subseteq Requests /\ faults' \in 0 .. MaxFaults
      /\ \A e \in extensions' : ExtensionOK(e)
      /\ \A s \in settlements' : SettlementOK(s)
  BY DEF Submit, IInv, TypeOK, RepositoryTypeOK
<1> QED BY <1>2, <1>3, <1>6, <1>7, StepPreserves

LEMMA ServeTopUpOK ==
  ASSUME IInv, NEW r \in Requests, input[r] \in TopUpInputs,
         NEW tokens \in Int32 \cup {Absent}, ServeTopUp(r, tokens)
  PROVE  /\ topUps' \subseteq TopUpRecords
         /\ answer' \in [Requests -> Answers \cup {None}]
<1>0. TypeOK
  BY DEF IInv
<1>1. CASE tokens = Absent
  BY <1>0, <1>1, FixedResponses, RespondType DEF ServeTopUp, TypeOK
<1>2. CASE tokens # Absent
  <2>1. input[r].player \in Players /\ input[r].tokens \in Int32
    <3>1. input[r].player \in Players /\ input[r].tokens \in TopUps
      BY DEF TopUpInputs
    <3>2. NatInt32 \subseteq Int32
      BY IntLimitAssumption DEF NatInt32, Int32
    <3> QED BY <3>1, <3>2, GameServiceAssumption
  <2>2. [req |-> r, player |-> input[r].player, from |-> tokens,
         to |-> input[r].tokens] \in TopUpRecords
    BY <1>2, <2>1 DEF TopUpRecords
  <2> QED BY <1>0, <1>2, <2>2 DEF ServeTopUp, TypeOK
<1> QED BY <1>1, <1>2

\* One of the SELECTs of a request has run, and its handler if it was the last.
LEMMA ArriveOK ==
  ASSUME IInv, NEW q \in reads, NEW now, ReadOK(now), now.req = q.req,
         Arrive(q, now)
  PROVE  /\ \A p \in reads' : ReadOK(p)
         /\ \A e \in extensions' : ExtensionOK(e)
         /\ \A s \in settlements' : SettlementOK(s)
         /\ topUps' \subseteq TopUpRecords
         /\ answer' \in [Requests -> Answers \cup {None}]
<1>0. TypeOK /\ q.req \in Requests /\ input[q.req] \in Inputs
  BY DEF IInv, ReadOK, ReadRecords
<1>1. \A p \in reads' : ReadOK(p)
  BY DEF IInv, Arrive
<1>2. CASE now.game = Pending \/ now.player = Pending
  BY <1>0, <1>1, <1>2 DEF Arrive, IInv, TypeOK
<1>3. CASE /\ now.game # Pending /\ now.player # Pending
           /\ input[q.req].kind = "bet"
  <2>1. input[q.req] \in BetInputs
    BY <1>0, <1>3 DEF Inputs, TopUpInputs
  <2>2. ServeBet(q.req, now.game, now.player) /\ topUps' = topUps
    BY <1>3 DEF Arrive
  <2>3. /\ now.game \in Row \cup {Absent} /\ now.player \in Int32 \cup {Absent}
        /\ now.game # Absent => RowOK(now.game)
    BY <1>3 DEF ReadOK, ReadRecords
  <2>4. CASE UNCHANGED <<extensions, settlements, answer>>
    BY <1>0, <1>1, <2>2, <2>4 DEF IInv, TypeOK
  <2>5. CASE now.game # Absent /\ HandlerAdds(q.req, now.game, extensions)
    <3>1. CopyOf(now.game, now.game.top, input[q.req].game)
      BY <1>3, <2>5 DEF ReadOK
    <3>2. /\ \A e \in extensions' : ExtensionOK(e)
          /\ \A s \in settlements' : SettlementOK(s)
      BY <1>0, <2>1, <2>3, <2>5, <3>1, HandlerOK
    <3> QED BY <1>0, <1>1, <2>2, <2>5, <3>2 DEF HandlerAdds, TypeOK
  <2> QED BY <1>0, <2>1, <2>2, <2>3, <2>4, <2>5, ServeBetAdds
<1>4. CASE /\ now.game # Pending /\ now.player # Pending
           /\ input[q.req].kind = "topUp"
  <2>1. input[q.req] \in TopUpInputs
    BY <1>0, <1>4 DEF Inputs, BetInputs
  <2>2. ServeTopUp(q.req, now.player) /\ UNCHANGED <<extensions, settlements>>
    BY <1>4 DEF Arrive
  <2>3. now.player \in Int32 \cup {Absent}
    BY <1>4 DEF ReadOK, ReadRecords
  <2> QED BY <1>0, <1>1, <2>1, <2>2, <2>3, ServeTopUpOK DEF IInv
<1> QED BY <1>2, <1>3, <1>4 DEF Arrive

LEMMA GetGamePreserves == ASSUME IInv, NEW q \in reads, GetGame(q) PROVE IInv' /\ GameStep
<1> DEFINE g == input[q.req].game
           now == [q EXCEPT !.game = game[g]]
<1>1. ReadOK(q) /\ q.game = Pending
  BY DEF IInv, GetGame
<1>2. /\ input[q.req] \in BetInputs /\ g \in Games
  BY <1>1, AbsentNotRow DEF ReadOK, BetInputs
<1>3. /\ now.game = game[g] /\ now.req = q.req /\ now.player = q.player
      /\ now \in ReadRecords
  BY <1>1, <1>2 DEF ReadOK, ReadRecords, IInv, TypeOK, RepositoryTypeOK
<1>4. game[g] # Absent => RowOK(game[g]) /\ CopyOf(game[g], game[g].top, g)
  <2>1. game[g] # Absent => RowOK(game[g])
    BY <1>2 DEF IInv
  <2>2. game[g] # Absent => game[g].top <= game[g].top
    BY <2>1 DEF RowOK, Row
  <2> QED BY <2>1, <2>2 DEF CopyOf, SameCards
<1>5. ReadOK(now)
  <2> HIDE DEF now
  <2> QED BY <1>1, <1>2, <1>3, <1>4 DEF ReadOK
<1>6. Arrive(q, now) /\ UNCHANGED <<player, game, input, lost, faults>>
  BY DEF GetGame
<1>7. GameStep /\ InputStep
  BY <1>6, GameUnchanged, InputUnchanged
<1> HIDE DEF now
<1> QED
  BY <1>3, <1>5, <1>6, <1>7, ArriveOK, StepPreserves DEF IInv, TypeOK, RepositoryTypeOK

LEMMA GetPlayerPreserves ==
  ASSUME IInv, NEW q \in reads, GetPlayer(q)
  PROVE  IInv' /\ GameStep
<1> DEFINE p == input[q.req].player
           now == [q EXCEPT !.player = player[p]]
<1>1. ReadOK(q)
  BY DEF IInv
<1>2. p \in Players
  BY <1>1 DEF ReadOK, Inputs, BetInputs, TopUpInputs
<1>3. /\ now.game = q.game /\ now.req = q.req
      /\ now \in ReadRecords
  <2>1. q \in ReadRecords
    BY <1>1 DEF ReadOK
  <2>2. player[p] \in Int32 \cup {Absent}
    BY <1>2 DEF IInv, TypeOK, RepositoryTypeOK
  <2> QED BY <2>1, <2>2 DEF ReadRecords
<1>4. ReadOK(now)
  <2> HIDE DEF now
  <2> QED BY <1>1, <1>3 DEF ReadOK
<1>5. Arrive(q, now) /\ UNCHANGED <<player, game, input, lost, faults>>
  BY DEF GetPlayer
<1>6. GameStep /\ InputStep
  BY <1>5, GameUnchanged, InputUnchanged
<1> HIDE DEF now
<1> QED
  BY <1>3, <1>4, <1>5, <1>6, ArriveOK, StepPreserves DEF IInv, TypeOK, RepositoryTypeOK

\* An extension ran and its bet goes on.
LEMMA UpdateGameDeckPreserves ==
  ASSUME IInv, NEW e \in extensions, UpdateGameDeck(e)
  PROVE  IInv' /\ GameStep
<1> DEFINE rest == extensions \ {e}
<1>1. ExtensionOK(e) /\ TypeOK
  BY DEF IInv
<1>2. e.req \in Requests /\ e.game \in Games /\ e.cur \in Nat /\ e.tokens \in Int32
  BY <1>1 DEF ExtensionOK, ExtensionRecords
<1>3. e.row.top >= e.cur
  BY <1>1, <1>2 DEF ExtensionOK
<1>4. GameStep
  <2>1. game' \in {game, CasGame(e.game, e.cur, e.row)}
    BY DEF UpdateGameDeck
  <2> QED BY <1>1, <1>2, <1>3, <2>1, CasGameStep DEF ExtensionOK
<1>5. InputStep
  BY InputUnchanged DEF UpdateGameDeck
<1>6. CASE e.req \in lost
  BY <1>4, <1>5, <1>6, StepPreserves DEF UpdateGameDeck, IInv, TypeOK, RepositoryTypeOK
<1>7. CASE e.req \notin lost
  <2>1. Handling(e.req, e.row, e.tokens)
    BY <1>1, <1>2 DEF Handling, ExtensionOK
  <2>2. HandlerAdds(e.req, e.row, rest)
    <3>1. \/ HandleBet(e.req, e.row, e.tokens, rest)
          \/ HandleWar(e.req, e.row, e.tokens, rest)
      BY <1>7 DEF UpdateGameDeck
    <3> QED BY <1>1, <1>2, <2>1, <3>1, HandleBetStep, HandleWarStep, StepAdds
  <2>3. CopyOf(e.row, e.row.top, input[e.req].game) /\ input[e.req] \in BetInputs
    BY <1>1 DEF ExtensionOK
  <2>4. rest \in SUBSET extensions
    OBVIOUS
  <2>5. /\ \A x \in extensions' : ExtensionOK(x)
        /\ \A s \in settlements' : SettlementOK(s)
    BY <1>1, <1>2, <2>2, <2>3, <2>4, HandlerOK DEF ExtensionOK
  <2> QED
    BY <1>4, <1>5, <2>2, <2>5, StepPreserves
       DEF UpdateGameDeck, HandlerAdds, IInv, TypeOK, RepositoryTypeOK
<1> QED BY <1>4, <1>6, <1>7

\* What is left of a settlement is one.
LEMMA TodoOK ==
  ASSUME NEW s, SettlementOK(s), NEW left \in SUBSET Parts
  PROVE  SettlementOK([s EXCEPT !.todo = left])
<1> DEFINE t == [s EXCEPT !.todo = left]
<1>1. s \in SettlementRecords
  BY DEF SettlementOK
<1>2. t \in SettlementRecords /\ t.row = s.row /\ t.cur = s.cur /\ t.game = s.game
  BY <1>1 DEF SettlementRecords
<1>3. SettlementOK(t)
  <2> HIDE DEF t
  <2> QED BY <1>2 DEF SettlementOK
<1> QED BY <1>3

LEMMA SettleOK ==
  ASSUME IInv, NEW s \in settlements, NEW part, Settle(s, part)
  PROVE  /\ \A t \in settlements' : SettlementOK(t)
         /\ answer' \in [Requests -> Answers \cup {None}]
<1> DEFINE left == s.todo \ {part}
<1>1. SettlementOK(s) /\ TypeOK
  BY DEF IInv
<1>2. s.req \in Requests /\ s.reply \in Answers /\ left \in SUBSET Parts
  BY <1>1 DEF SettlementOK, SettlementRecords
<1>3. SettlementOK([s EXCEPT !.todo = left])
  BY <1>1, <1>2, TodoOK
<1>4. \A t \in settlements' : SettlementOK(t)
  BY <1>3 DEF Settle, IInv
<1>5. Respond(s.req, s.reply) \/ answer' = answer
  BY DEF Settle
<1> QED BY <1>1, <1>2, <1>4, <1>5, RespondType DEF TypeOK

LEMMA SettlementTypes ==
  ASSUME IInv, NEW s \in settlements
  PROVE  /\ SettlementOK(s) /\ TypeOK
         /\ s.req \in Requests /\ s.game \in Games /\ s.cur \in Nat
         /\ s.to \in Int32 /\ s.reply \in Answers /\ s.todo \in SUBSET Parts
BY DEF IInv, SettlementOK, SettlementRecords

LEMMA UpdatePlayerPreserves ==
  ASSUME IInv, NEW s \in settlements, UpdatePlayer(s)
  PROVE  IInv' /\ GameStep
<1>1. player' \in [Players -> Int32 \cup {Absent}]
  BY SettlementTypes, CasPlayerType DEF UpdatePlayer
<1>2. GameStep /\ InputStep
  BY GameUnchanged, InputUnchanged DEF UpdatePlayer
<1>3. Settle(s, "player") /\ UNCHANGED <<reads, extensions, topUps, lost, faults>>
  BY DEF UpdatePlayer
<1> QED BY <1>1, <1>2, <1>3, SettleOK, StepPreserves DEF IInv, TypeOK

LEMMA UpdateGamePreserves ==
  ASSUME IInv, NEW s \in settlements, UpdateGame(s)
  PROVE  IInv' /\ GameStep
<1>1. GameStep
  <2>1. game' \in {game, CasGame(s.game, s.cur, s.row)}
    BY DEF UpdateGame
  <2> QED BY <2>1, SettlementTypes, CasGameStep DEF SettlementOK
<1>2. InputStep
  BY InputUnchanged DEF UpdateGame
<1>3. Settle(s, "game") /\ UNCHANGED <<player, reads, extensions, topUps, lost, faults>>
  BY DEF UpdateGame
<1> QED BY <1>1, <1>2, <1>3, SettleOK, StepPreserves DEF IInv, TypeOK, RepositoryTypeOK

LEMMA FaultType == ASSUME TypeOK, Fault PROVE faults' \in 0 .. MaxFaults
<1>1. faults \in 0 .. MaxFaults /\ MaxFaults \in Nat
  BY GameServiceAssumption DEF TypeOK
<1>2. faults < MaxFaults /\ faults' = faults + 1
  BY DEF Fault
<1> QED BY <1>1, <1>2

LEMMA UpdateTokensPreserves ==
  ASSUME IInv, NEW u \in topUps, UpdateTokens(u) \/ FailTokens(u)
  PROVE  IInv' /\ GameStep
<1>1. u.to \in Int32 /\ u.req \in Requests /\ TypeOK
  BY DEF IInv, TypeOK, TopUpRecords
<1>2. player' \in [Players -> Int32 \cup {Absent}]
  BY <1>1, CasPlayerType DEF UpdateTokens, FailTokens
<1>3. answer' \in [Requests -> Answers \cup {None}]
  BY <1>1, FixedResponses, RespondType DEF UpdateTokens, FailTokens
<1>4. GameStep /\ InputStep
  BY GameUnchanged, InputUnchanged DEF UpdateTokens, FailTokens
<1>5. faults' \in 0 .. MaxFaults
  <2>1. faults' = faults \/ Fault
    BY DEF UpdateTokens, FailTokens
  <2> QED BY <1>1, <2>1, FaultType DEF TypeOK
<1> QED
  BY <1>2, <1>3, <1>4, <1>5, StepPreserves
     DEF UpdateTokens, FailTokens, IInv, TypeOK

LEMMA FailReadPreserves ==
  ASSUME IInv, NEW q \in reads, FailRead(q)
  PROVE  IInv' /\ GameStep
<1>1. q.req \in Requests /\ TypeOK
  BY DEF IInv, ReadOK, ReadRecords
<1>2. answer' \in [Requests -> Answers \cup {None}]
  BY <1>1, FixedResponses, RespondType DEF FailRead
<1>3. GameStep /\ InputStep
  BY GameUnchanged, InputUnchanged DEF FailRead
<1>4. faults' \in 0 .. MaxFaults
  BY <1>1, FaultType DEF FailRead
<1> QED BY <1>2, <1>3, <1>4, StepPreserves DEF FailRead, IInv, TypeOK, RepositoryTypeOK

LEMMA FailExtensionPreserves ==
  ASSUME IInv, NEW e \in extensions, FailExtension(e)
  PROVE  IInv' /\ GameStep
<1>1. ExtensionOK(e) /\ TypeOK
  BY DEF IInv
<1>2. e.req \in Requests
  BY <1>1 DEF ExtensionOK, ExtensionRecords
<1>3. GameStep /\ InputStep
  BY GameUnchanged, InputUnchanged DEF FailExtension
<1>4. answer' \in [Requests -> Answers \cup {None}]
  BY <1>1, <1>2, FixedResponses, RespondType DEF FailExtension
<1>5. faults' \in 0 .. MaxFaults
  BY <1>1, FaultType DEF FailExtension
<1> QED
  BY <1>2, <1>3, <1>4, <1>5, StepPreserves
     DEF FailExtension, IInv, TypeOK, RepositoryTypeOK

LEMMA FailSettlementPreserves ==
  ASSUME IInv, NEW s \in settlements, NEW part, FailSettlement(s, part)
  PROVE  IInv' /\ GameStep
<1>1. /\ SettlementOK(s) /\ TypeOK
      /\ s.req \in Requests /\ s.todo \in SUBSET Parts
  BY SettlementTypes
<1>2. GameStep /\ InputStep
  BY GameUnchanged, InputUnchanged DEF FailSettlement
<1>3. \A t \in settlements' : SettlementOK(t)
  <2>1. [s EXCEPT !.todo = @ \ {part}] = [s EXCEPT !.todo = s.todo \ {part}]
    OBVIOUS
  <2>2. SettlementOK([s EXCEPT !.todo = s.todo \ {part}])
    BY <1>1, TodoOK
  <2> QED BY <2>1, <2>2 DEF FailSettlement, IInv
<1>4. answer' \in [Requests -> Answers \cup {None}]
  BY <1>1, FixedResponses, RespondType DEF FailSettlement
<1>5. faults' \in 0 .. MaxFaults
  BY <1>1, FaultType DEF FailSettlement
<1> QED
  BY <1>2, <1>3, <1>4, <1>5, StepPreserves
     DEF FailSettlement, IInv, TypeOK, RepositoryTypeOK

LEMMA CrashPreserves == ASSUME IInv, Crash PROVE IInv' /\ GameStep
<1>1. GameStep /\ InputStep
  BY GameUnchanged, InputUnchanged DEF Crash
<1>2. faults' \in 0 .. MaxFaults
  BY FaultType DEF Crash, IInv
<1> QED BY <1>1, <1>2, StepPreserves DEF Crash, IInv, TypeOK, RepositoryTypeOK

\* No step breaks the invariant, or does more to a row than GameStep.
LEMMA NextIInv == IInv /\ [Next]_vars => IInv' /\ GameStep
<1> SUFFICES ASSUME IInv, [Next]_vars PROVE IInv' /\ GameStep
  OBVIOUS
<1>1. CASE Arrivals
  <2>1. PICK r \in Requests : RequestBet(r) \/ UpdatePlayerToken(r)
    BY <1>1 DEF Arrivals
  <2>2. CASE RequestBet(r)
    BY <2>2, SubmitPreserves DEF RequestBet, Inputs
  <2>3. CASE UpdatePlayerToken(r)
    BY <2>3, SubmitPreserves DEF UpdatePlayerToken, Inputs
  <2> QED BY <2>1, <2>2, <2>3
<1>2. CASE Statements
  BY <1>2, GetGamePreserves, GetPlayerPreserves, UpdateGameDeckPreserves,
     UpdatePlayerPreserves, UpdateGamePreserves, UpdateTokensPreserves
     DEF Statements
<1>3. CASE StatementFaults
  BY <1>3, FailReadPreserves, FailExtensionPreserves, FailSettlementPreserves,
     UpdateTokensPreserves DEF StatementFaults
<1>4. CASE UNCHANGED vars
  <2>1. UNCHANGED vars
    BY <1>4
  <2>2. GameStep /\ InputStep
    BY <2>1, GameUnchanged, InputUnchanged DEF vars
  <2> QED BY <2>1, <2>2, StepPreserves DEF vars, IInv, TypeOK, RepositoryTypeOK
<1> QED BY <1>1, <1>2, <1>3, <1>4, CrashPreserves DEF Next

\* The inductive invariant holds in every state of every behaviour: the rows
\* that requests carry through callbacks are copies of the stored ones.
THEOREM Invariance == Spec => []IInv
<1>1. Init => IInv
  BY InitIInv
<1>2. IInv /\ [Next]_vars => IInv'
  BY NextIInv
<1> QED BY <1>1, <1>2, PTL DEF Spec

\* Every variable and every statement in flight keeps its shape; in particular
\* all token counts are Ints and all stored rows are rows.
THEOREM TypeCorrect == Spec => []TypeOK
<1>1. IInv => TypeOK
  BY DEF IInv
<1> QED BY <1>1, Invariance, PTL

\* However many requests, extensions, failures and crashes interleave, no game
\* points past the end of its deck, and no UPDATE in flight would make it.
THEOREM WithinDeck == Spec => []TopWithinDeck
<1>1. IInv => TopWithinDeck
  BY DEF IInv, ExtensionOK, SettlementOK, RowOK, TopWithinDeck, StoredRows,
         UnstoredRows
<1> QED BY <1>1, Invariance, PTL

\* However they interleave, a stake lies on a table only after a tie.
THEOREM StakeAfterTie == Spec => []WarOnlyAfterTie
<1>1. IInv => WarOnlyAfterTie
  BY DEF IInv, RowOK, WarOnlyAfterTie, StoredRows
<1> QED BY <1>1, Invariance, PTL

\* However they interleave, decks do not pile up: extensions of one game that
\* overlap leave it at most one deck beyond the cards too few for a war.
THEOREM DecksDoNotPile == Spec => []UndealtBounded
<1>1. IInv => UndealtBounded
  BY DEF IInv, RowOK, UndealtBounded, StoredRows
<1> QED BY <1>1, Invariance, PTL

\* However they interleave, a game's cards are complete decks: two extensions
\* of one game cannot leave a card of the deck missing or doubled.
THEOREM DecksStayWhole == Spec => []WholeDecks
<1>1. IInv => WholeDecks
  BY DEF IInv, RowOK, WholeDecks, StoredRows
<1> QED BY <1>1, Invariance, PTL

\* However they interleave, dealt cards stay dealt: no UPDATE of a game moves
\* its index back or changes a card below it.
THEOREM DealtStable == Spec => DealtCardsStable
<1> DEFINE Stable ==
      \A g \in Games : game[g] # Absent =>
        /\ game'[g] # Absent
        /\ game'[g].top >= game[g].top
        /\ \A i \in 1 .. game[g].top : game'[g].deck[i] = game[g].deck[i]
<1>1. IInv /\ [Next]_vars => [Stable]_vars
  <2>1. IInv /\ [Next]_vars => GameStep
    BY NextIInv
  <2>2. GameStep => Stable
    BY DEF GameStep, RowGrows, SameCards
  <2> QED BY <2>1, <2>2
<1>2. Spec => [][Stable]_vars
  <2> HIDE DEF Stable
  <2> QED BY <1>1, Invariance, PTL DEF Spec
<1> QED BY <1>2 DEF DealtCardsStable
=============================================================================
