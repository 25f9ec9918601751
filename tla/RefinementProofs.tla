-------------------------- MODULE RefinementProofs --------------------------
(***************************************************************************)
(* Proof that the server implements CasinoWar for clients that wait for    *)
(* their answers, for all values of the other constants, as long as no     *)
(* game is left with exactly one pair of its deck undealt: each bet is one *)
(* round, war or forfeit, done with the first of its two UPDATEs.          *)
(***************************************************************************)
EXTENDS SerialProofs

\* handleBet settles a bet on the last pair twice (see the run
\* double_settlement): no game stands there between two rounds.
NeverAtLastPair ==
  \A row \in StoredRows : row.table = 0 => row.top + 2 # Len(row.deck)

TokenUpdatesOf(r) == {u \in topUps : u.req = r}

\* What the settlement of a bet in does to the row it was computed from, and
\* to the tokens.
PlaysRound(s, in, row) ==
  LET bet == in.bet
      tieBet == in.tieBet
  IN /\ row.table = 0 /\ tieBet # Omitted
     /\ s.row.top = row.top + 2
     /\ \E mine, casinos \in CardIds :
          LET result == RoundResult(CardValue(mine), CardValue(casinos), tieBet)
          IN /\ ShownOf(s.row) = <<mine, casinos>>
             /\ s.row.table = RoundStake(result, bet)
             /\ s.to = Wrap(s.from + RoundTokens(result, bet, tieBet))

FightsWar(s, in, row) ==
  /\ row.table > 0 /\ in.bet = row.table
  /\ s.row.top = row.top + 5 /\ s.row.table = 0
  /\ \E mine, casinos \in CardIds :
       LET result == WarResult(CardValue(mine), CardValue(casinos))
       IN /\ result # "win"
          /\ ShownOf(s.row) = <<mine, casinos>>
          /\ s.to = Wrap(s.from + WarTokens(result, row.table))

PaysBack(s, in, row) ==
  /\ row.table > 0 /\ in.bet = 0
  /\ s.row.top = row.top /\ s.row.table = 0
  /\ ShownOf(s.row) = ShownOf(row)
  /\ s.to = Wrap(s.from + ForfeitTokens(row.table))

Plays(s, in, row) ==
  /\ s.cur = row.top
  /\ in.bet # Omitted /\ in.bet <= s.from
  /\ PlaysRound(s, in, row) \/ FightsWar(s, in, row) \/ PaysBack(s, in, row)

\* Nobody else moves the tokens of an open request: what it has read, and what
\* it computed from that, is still stored, and both halves of its settlement
\* will match.
ReadFunded(q) ==
  q.player \notin {Absent, Pending} => q.player = player[input[q.req].player]

ExtensionFunded(e) ==
  /\ e.tokens = player[input[e.req].player] /\ input[e.req].bet <= e.tokens
  /\ e.row.table > 0 => input[e.req].bet = e.row.table
  /\ e.row.top + 4 < Len(e.row.deck)

SettlementHits(s) ==
  /\ s.player = input[s.req].player
  /\ "player" \in s.todo => player[s.player] = s.from
  /\ "game" \in s.todo => game[s.game].top = s.cur
  /\ s.todo = Parts => Plays(s, input[s.req], game[s.game])

TokenUpdateHits(u) ==
  /\ u.player = input[u.req].player /\ u.to = input[u.req].tokens
  /\ player[u.player] = u.from

\* A request has one UPDATE or one pair of them in flight, and none after its
\* answer.
OneAtATime(r) ==
  /\ \A s1, s2 \in SettlementsOf(r) : s1 = s2
  /\ \A u1, u2 \in TokenUpdatesOf(r) : u1 = u2
  /\ SettlementsOf(r) # {} => ExtensionsOf(r) = {}
  /\ ~ Open(r) =>
       ExtensionsOf(r) = {} /\ SettlementsOf(r) = {} /\ TokenUpdatesOf(r) = {}

AtomicOK(r) ==
  /\ OneAtATime(r)
  /\ \A q \in ReadsOf(r) : ReadFunded(q)
  /\ \A e \in ExtensionsOf(r) : ExtensionFunded(e)
  /\ \A s \in SettlementsOf(r) : SettlementHits(s)
  /\ \A u \in TokenUpdatesOf(r) : TokenUpdateHits(u)

RInv == SInv /\ \A r \in Requests : AtomicOK(r)

-----------------------------------------------------------------------------
(***************************************************************************)
(* What the handlers add.                                                  *)
(***************************************************************************)
CoveredExtension(e, r, gm, tokens) ==
  /\ e.req = r /\ e.tokens = tokens /\ input[r].bet <= tokens
  /\ e.row.table = gm.table
  /\ gm.table > 0 => input[r].bet = gm.table
  /\ e.row.top + 4 < Len(e.row.deck)

CoveredSettlement(s, r, gm, tokens) ==
  /\ s.req = r /\ s.player = input[r].player /\ s.from = tokens
  /\ s.game = input[r].game /\ s.cur = gm.top /\ s.todo = Parts
  /\ Plays(s, input[r], gm)

\* Nothing more, a longer deck, or a settlement: one of them.
Continues(r, gm, tokens, rest) ==
  \/ /\ extensions' = rest /\ settlements' = settlements
     /\ answer' = answer \/ \E response \in Answers : Respond(r, response)
  \/ /\ \E e : CoveredExtension(e, r, gm, tokens) /\ extensions' = rest \cup {e}
     /\ settlements' = settlements /\ answer' = answer
  \/ /\ extensions' = rest /\ answer' = answer
     /\ \E s : /\ CoveredSettlement(s, r, gm, tokens)
               /\ settlements' = settlements \cup {s}

LEMMA ExtendContinues ==
  ASSUME NEW r, NEW gm, NEW tokens, NEW rest, Handling(r, gm, tokens),
         input[r].bet <= tokens, gm.table > 0 => input[r].bet = gm.table,
         Extend(r, gm, tokens, rest)
  PROVE  \E e : CoveredExtension(e, r, gm, tokens) /\ extensions' = rest \cup {e}
<1>1. PICK newDeck \in Shuffles :
        extensions' = rest \cup {Extension(r, gm, tokens, newDeck)}
  BY DEF Extend
<1> DEFINE e == Extension(r, gm, tokens, newDeck)
           longer == gm.deck \o newDeck
<1>2. /\ gm.deck \in Seq(CardIds) /\ gm.top \in Nat /\ gm.top <= Len(gm.deck)
      /\ newDeck \in Seq(CardIds) /\ Len(newDeck) = DeckSize
      /\ DeckSize \in Nat /\ DeckSize > 4
  BY <1>1, CardDeckAssumption DEF Handling, RowOK, Row, TopInDeck
<1>3. Len(longer) = Len(gm.deck) + DeckSize /\ Len(gm.deck) \in Nat
  BY <1>2, ConcatProperties, LenProperties
<1>4. /\ e.req = r /\ e.tokens = tokens /\ e.row.table = gm.table
      /\ e.row.top = gm.top /\ e.row.deck = longer
  BY DEF Extension
<1> HIDE DEF e, longer
<1>5. e.row.top + 4 < Len(e.row.deck)
  BY <1>2, <1>3, <1>4
<1>6. CoveredExtension(e, r, gm, tokens)
  BY <1>4, <1>5 DEF CoveredExtension
<1> QED BY <1>1, <1>6 DEF e

\* The last two cards of a row from which as many were dealt.
LEMMA ShownCards ==
  ASSUME NEW gm, RowOK(gm), NEW at \in Nat, at + 2 <= Len(gm.deck),
         NEW row, row.deck = gm.deck, row.top = at + 2
  PROVE  /\ ShownOf(row) = CardsAt(gm, at)
         /\ CardsAt(gm, at)[1] \in CardIds /\ CardsAt(gm, at)[2] \in CardIds
         /\ ShownOf(row) = <<CardsAt(gm, at)[1], CardsAt(gm, at)[2]>>
<1>1. CardsAt(gm, at)[1] \in CardIds /\ CardsAt(gm, at)[2] \in CardIds
  BY CardsType DEF RowOK, Row
<1>2. ~ (row.top < 2) /\ row.top - 2 = at
  OBVIOUS
<1>3. ShownOf(row) = CardsAt(gm, at)
  BY <1>2 DEF ShownOf, CardsAt
<1> QED BY <1>1, <1>3 DEF CardsAt

LEMMA RoundContinues ==
  ASSUME NEW r, NEW gm, NEW tokens, NEW rest, Handling(r, gm, tokens),
         input[r].bet <= tokens, gm.table = 0, gm.top + 2 # Len(gm.deck),
         HandleBet(r, gm, tokens, rest)
  PROVE  Continues(r, gm, tokens, rest)
<1> DEFINE s == RoundSettlement(r, gm, tokens)
           cards == CardsAt(gm, gm.top)
           bet == input[r].bet
           tieBet == input[r].tieBet
           betResult == RoundResult(CardValue(cards[1]), CardValue(cards[2]), tieBet)
<1>1. /\ gm.top \in Nat /\ gm.deck \in Seq(CardIds) /\ Len(gm.deck) \in Nat
      /\ bet # Omitted
  BY LenProperties DEF Handling, RowOK, Row
<1>2. CASE NeedsDeck(gm, gm.top + 1)
  <2>1. ~ (gm.top + 2 <= Len(gm.deck))
    BY <1>1, <1>2 DEF NeedsDeck
  <2>2. /\ settlements' = settlements /\ answer' = answer
        /\ Extend(r, gm, tokens, rest)
    BY <1>2, <2>1 DEF HandleBet
  <2> QED BY <2>2, ExtendContinues DEF Continues
<1>3. CASE /\ ~ NeedsDeck(gm, gm.top + 1)
           /\ ~ (gm.top + 2 <= Len(gm.deck) /\ tieBet # Omitted)
  BY <1>3 DEF HandleBet, Continues
<1>4. CASE /\ ~ NeedsDeck(gm, gm.top + 1)
           /\ gm.top + 2 <= Len(gm.deck) /\ tieBet # Omitted
  <2>1. /\ settlements' = settlements \cup {s} /\ answer' = answer
        /\ extensions' = rest
    BY <1>4 DEF HandleBet
  <2>2. /\ s.req = r /\ s.player = input[r].player /\ s.from = tokens
        /\ s.game = input[r].game /\ s.cur = gm.top /\ s.todo = Parts
        /\ s.row.deck = gm.deck /\ s.row.top = gm.top + 2
        /\ s.row.table = RoundStake(betResult, bet)
        /\ s.to = Wrap(tokens + RoundTokens(betResult, bet, tieBet))
    BY DEF RoundSettlement, Settlement, RoundResponse, BetResponse
  <2>3. /\ cards[1] \in CardIds /\ cards[2] \in CardIds
        /\ ShownOf(s.row) = <<cards[1], cards[2]>>
    <3> HIDE DEF s
    <3>1. RowOK(gm)
      BY DEF Handling
    <3> QED BY <1>1, <1>4, <2>2, <3>1, ShownCards
  <2> HIDE DEF s
  <2>4. PlaysRound(s, input[r], gm)
    <3> HIDE DEF cards
    <3> QED BY <1>4, <2>2, <2>3 DEF PlaysRound
  <2>5. CoveredSettlement(s, r, gm, tokens)
    BY <1>1, <2>2, <2>4 DEF CoveredSettlement, Plays
  <2> QED BY <2>1, <2>5 DEF Continues
<1> QED BY <1>2, <1>3, <1>4

LEMMA WarContinues ==
  ASSUME NEW r, NEW gm, NEW tokens, NEW rest, Handling(r, gm, tokens),
         input[r].bet <= tokens, gm.table > 0, input[r].bet = gm.table,
         HandleWar(r, gm, tokens, rest)
  PROVE  Continues(r, gm, tokens, rest)
<1> DEFINE response == WarResponse(r, gm)
           s == Settlement(r, gm, tokens, gm.top + 5, 0, response)
           cards == CardsAt(gm, gm.top + 3)
           betResult == WarResult(CardValue(cards[1]), CardValue(cards[2]))
<1>1. /\ gm.top \in Nat /\ gm.deck \in Seq(CardIds) /\ Len(gm.deck) \in Nat
      /\ input[r].bet # Omitted
  BY LenProperties DEF Handling, RowOK, Row
<1>2. CASE NeedsDeck(gm, gm.top + 3)
  <2>1. /\ settlements' = settlements /\ answer' = answer
        /\ Extend(r, gm, tokens, rest)
    BY <1>2 DEF HandleWar
  <2> QED BY <2>1, ExtendContinues DEF Continues
<1>3. CASE ~ NeedsDeck(gm, gm.top + 3) /\ response.result = "win"
  <2>1. response \in Answers
    BY <1>3, WarResponseType
  <2>2. extensions' = rest /\ settlements' = settlements /\ Respond(r, response)
    BY <1>3 DEF HandleWar
  <2> HIDE DEF response
  <2> QED BY <2>1, <2>2 DEF Continues
<1>4. CASE ~ NeedsDeck(gm, gm.top + 3) /\ response.result # "win"
  <2>1. /\ settlements' = settlements \cup {s} /\ answer' = answer
        /\ extensions' = rest
    BY <1>4 DEF HandleWar
  <2>2. response.result = betResult /\ response.value = WarTokens(betResult, gm.table)
    BY DEF WarResponse, BetResponse
  <2>3. /\ s.req = r /\ s.player = input[r].player /\ s.from = tokens
        /\ s.game = input[r].game /\ s.cur = gm.top /\ s.todo = Parts
        /\ s.row.deck = gm.deck /\ s.row.top = gm.top + 5 /\ s.row.table = 0
        /\ s.to = Wrap(tokens + WarTokens(betResult, gm.table))
    BY <2>2 DEF Settlement
  <2>4. betResult # "win"
    BY <1>4, <2>2
  <2>5. /\ cards[1] \in CardIds /\ cards[2] \in CardIds
        /\ ShownOf(s.row) = <<cards[1], cards[2]>>
    <3> HIDE DEF s, response
    <3>1. gm.top + 3 \in Nat /\ (gm.top + 3) + 2 <= Len(gm.deck)
          /\ s.row.top = (gm.top + 3) + 2
      BY <1>1, <1>4, <2>3 DEF NeedsDeck
    <3>2. RowOK(gm)
      BY DEF Handling
    <3> QED BY <2>3, <3>1, <3>2, ShownCards
  <2> HIDE DEF s, response
  <2>6. FightsWar(s, input[r], gm)
    <3> HIDE DEF cards
    <3> QED BY <2>3, <2>4, <2>5 DEF FightsWar
  <2>7. CoveredSettlement(s, r, gm, tokens)
    BY <1>1, <2>3, <2>6 DEF CoveredSettlement, Plays
  <2> QED BY <2>1, <2>7 DEF Continues
<1> QED BY <1>2, <1>3, <1>4

LEMMA ForfeitContinues ==
  ASSUME NEW r, NEW gm, NEW tokens, Handling(r, gm, tokens),
         input[r].bet <= tokens, gm.table > 0, input[r].bet = 0,
         HandleForfeit(r, gm, tokens)
  PROVE  Continues(r, gm, tokens, extensions)
<1> DEFINE response == BetResponse("forfeit", "surrender", ForfeitTokens(gm.table), <<>>)
           s == Settlement(r, gm, tokens, gm.top, 0, response)
<1>1. input[r].bet # Omitted
  BY DEF Handling
<1>2. /\ settlements' = settlements \cup {s} /\ answer' = answer
      /\ extensions' = extensions
  BY DEF HandleForfeit
<1>3. /\ s.req = r /\ s.player = input[r].player /\ s.from = tokens
      /\ s.game = input[r].game /\ s.cur = gm.top /\ s.todo = Parts
      /\ s.row.deck = gm.deck /\ s.row.top = gm.top /\ s.row.table = 0
      /\ s.to = Wrap(tokens + ForfeitTokens(gm.table))
  BY DEF Settlement, BetResponse
<1> HIDE DEF s
<1>4. ShownOf(s.row) = ShownOf(gm)
  BY <1>3 DEF ShownOf, CardsAt
<1>5. CoveredSettlement(s, r, gm, tokens)
  BY <1>1, <1>3, <1>4 DEF CoveredSettlement, Plays, PaysBack
<1> QED BY <1>2, <1>5 DEF Continues

LEMMA ServeBetContinues ==
  ASSUME TypeOK, NEW r \in Requests, input[r] \in BetInputs,
         NEW gm \in Row \cup {Absent}, gm # Absent => RowOK(gm),
         gm # Absent /\ gm.table = 0 => gm.top + 2 # Len(gm.deck),
         NEW tokens \in Int32 \cup {Absent},
         ServeBet(r, gm, tokens)
  PROVE  \/ UNCHANGED <<extensions, settlements, answer>>
         \/ gm # Absent /\ tokens # Absent /\ Continues(r, gm, tokens, extensions)
<1>1. CASE gm = Absent \/ tokens = Absent \/ input[r].bet = Omitted
  BY <1>1 DEF ServeBet
<1>2. CASE gm # Absent /\ tokens # Absent /\ input[r].bet # Omitted
  <2>1. Handling(r, gm, tokens)
    BY <1>2 DEF Handling
  <2>2. CASE Respond(r, ErrorResponse(409)) /\ UNCHANGED <<extensions, settlements>>
    BY <1>2, <2>2, FixedResponses DEF Continues
  <2>3. input[r].bet \in Int /\ tokens \in Int
    <3>1. input[r].bet \in NatInt32
      BY <1>2, GameServiceAssumption DEF BetInputs
    <3> QED BY <1>2, <3>1, IntLimitAssumption DEF NatInt32, Int32
  <2>4. CASE tokens >= input[r].bet /\ gm.table = 0
             /\ HandleBet(r, gm, tokens, extensions)
    BY <1>2, <2>1, <2>3, <2>4, RoundContinues
  <2>5. CASE tokens >= input[r].bet /\ gm.table > 0 /\ input[r].bet = 0
             /\ HandleForfeit(r, gm, tokens)
    BY <1>2, <2>1, <2>3, <2>5, ForfeitContinues
  <2>6. CASE tokens >= input[r].bet /\ gm.table > 0 /\ input[r].bet = gm.table
             /\ HandleWar(r, gm, tokens, extensions)
    BY <1>2, <2>1, <2>3, <2>6, WarContinues
  <2> QED BY <1>2, <2>2, <2>4, <2>5, <2>6 DEF ServeBet
<1> QED BY <1>1, <1>2

-----------------------------------------------------------------------------
(***************************************************************************)
(* What a step leaves as it was.                                           *)
(***************************************************************************)
\* Only the tokens of an open request's player change.
TokensAlone(r) ==
  /\ \A p \in Players : player'[p] # player[p] => Open(r) /\ p = input[r].player
  /\ \A u \in topUps \cup topUps' : u.req # r => (u \in topUps' <=> u \in topUps)

\* An answered request has nothing left to do.
LEMMA InFlightOpen ==
  ASSUME RInv, NEW r \in Requests
  PROVE  /\ ~ Open(r) =>
              /\ ReadsOf(r) = {} /\ ExtensionsOf(r) = {} /\ SettlementsOf(r) = {}
              /\ TokenUpdatesOf(r) = {}
         /\ Open(r) => input[r] \in Inputs /\ input[r].player \in Players
<1>1. /\ IInv /\ FlightOK(r) /\ lost = {} /\ OneAtATime(r)
  BY DEF RInv, SInv, FInv, AtomicOK
<1>2. ReadsOf(r) # {} => Open(r)
  BY <1>1 DEF FlightOK, ReadsAlone, Unsent, Open
<1>3. Open(r) => input[r] \in Inputs
  BY <1>1 DEF IInv, TypeOK, Open
<1> QED BY <1>1, <1>2, <1>3 DEF OneAtATime, Inputs, BetInputs, TopUpInputs

LEMMA AtomicKept ==
  ASSUME RInv, NEW r \in Requests, OnlyTouches(r), GameAlone(r), TokensAlone(r),
         NEW o \in Requests, o # r
  PROVE  AtomicOK(o)'
<1>1. SInv /\ FInv /\ IInv /\ AtomicOK(o)
  BY DEF RInv, SInv, FInv
<1>2. /\ ReadsOf(o)' = ReadsOf(o) /\ ExtensionsOf(o)' = ExtensionsOf(o)
      /\ SettlementsOf(o)' = SettlementsOf(o)
      /\ answer'[o] = answer[o] /\ input'[o] = input[o]
      /\ Open(o)' = Open(o)
  BY UntouchedSame DEF SameRequest, OnlyTouches, Open
<1>3. TokenUpdatesOf(o)' = TokenUpdatesOf(o)
  BY DEF TokensAlone, TokenUpdatesOf
<1>4. OneAtATime(o)'
  BY <1>1, <1>2, <1>3 DEF AtomicOK, OneAtATime
<1>5. CASE ~ Open(o)
  BY <1>2, <1>3, <1>4, <1>5, InFlightOpen DEF AtomicOK
<1>6. CASE Open(o)
  <2>1. player'[input[o].player] = player[input[o].player]
    BY <1>1, <1>6, InFlightOpen DEF TokensAlone, SInv, Apart
  <2>2. input[o] \in BetInputs => game'[input[o].game] = game[input[o].game]
    BY <1>1, <1>6 DEF GameAlone, SInv, Apart, BetInputs
  <2>3. \A q \in ReadsOf(o) : ReadFunded(q)'
    BY <1>1, <1>2, <2>1 DEF AtomicOK, ReadFunded, ReadsOf
  <2>4. \A e \in ExtensionsOf(o) : ExtensionFunded(e)'
    BY <1>1, <1>2, <2>1 DEF AtomicOK, ExtensionFunded, ExtensionsOf
  <2>5. \A s \in SettlementsOf(o) : SettlementHits(s)'
    <3> SUFFICES ASSUME NEW s \in SettlementsOf(o) PROVE SettlementHits(s)'
      OBVIOUS
    <3>1. s.req = o /\ game'[s.game] = game[s.game]
      BY <1>1, <2>2, FlightGame DEF SettlementsOf
    <3>2. SettlementHits(s)
      BY <1>1 DEF AtomicOK
    <3> QED BY <1>2, <2>1, <3>1, <3>2 DEF SettlementHits
  <2>6. \A u \in TokenUpdatesOf(o) : TokenUpdateHits(u)'
    BY <1>1, <1>2, <2>1 DEF AtomicOK, TokenUpdateHits, TokenUpdatesOf
  <2> QED BY <1>2, <1>3, <1>4, <2>3, <2>4, <2>5, <2>6 DEF AtomicOK
<1> QED BY <1>5, <1>6

LEMMA AtomicPreserves ==
  ASSUME RInv, SInv', NEW r \in Requests,
         OnlyTouches(r), GameAlone(r), TokensAlone(r), AtomicOK(r)'
  PROVE  RInv'
<1>1. \A o \in Requests : AtomicOK(o)'
  BY AtomicKept
<1> QED BY <1>1 DEF RInv

-----------------------------------------------------------------------------
(***************************************************************************)
(* The steps of one request.                                               *)
(***************************************************************************)
LEMMA SubmitAtomic ==
  ASSUME RInv, SInv', NEW r \in Requests, NEW in \in Inputs, NEW awaited,
         Submit(r, in, awaited)
  PROVE  RInv'
<1> DEFINE q == [req |-> r, game |-> awaited, player |-> Pending]
<1>1. SInv /\ TypeOK /\ FlightOK(r) /\ AtomicOK(r) /\ input[r] = None
  BY DEF RInv, SInv, FInv, IInv, Submit
<1>2. ~ Open(r)
  BY <1>1 DEF Open
<1>3. /\ ReadsOf(r) = {} /\ ExtensionsOf(r) = {} /\ SettlementsOf(r) = {}
      /\ TokenUpdatesOf(r) = {}
  BY <1>2, InFlightOpen
<1>4. /\ reads' = reads \cup {q} /\ input'[r] = in
      /\ \A o \in Requests : o # r => input'[o] = input[o]
      /\ UNCHANGED <<player, game, extensions, settlements, topUps, answer, lost>>
  BY <1>1 DEF Submit, TypeOK
<1>5. /\ ReadsOf(r)' = {q} /\ ExtensionsOf(r)' = {} /\ SettlementsOf(r)' = {}
      /\ TokenUpdatesOf(r)' = {}
  BY <1>3, <1>4 DEF ReadsOf, ExtensionsOf, SettlementsOf, TokenUpdatesOf
<1>6. q.req = r /\ q.player = Pending
  OBVIOUS
<1> HIDE DEF q
<1>7. AtomicOK(r)'
  BY <1>5, <1>6 DEF AtomicOK, OneAtATime, ReadFunded
<1>8. OnlyTouches(r) /\ GameAlone(r) /\ TokensAlone(r)
  BY <1>4, <1>6 DEF OnlyTouches, GameAlone, TokensAlone
<1> QED BY <1>7, <1>8, AtomicPreserves

\* A handler that goes on with the rows as they are stored.
LEMMA HandlerAtomic ==
  ASSUME RInv, NEW r \in Requests, NEW gm, NEW tokens, NEW rest \in SUBSET extensions,
         Open(r), UNCHANGED <<player, input, lost, topUps>>,
         tokens = player[input[r].player], gm = game'[input[r].game],
         ReadsOf(r)' = {}, SettlementsOf(r) = {}, TokenUpdatesOf(r) = {},
         \A e \in rest : e.req # r,
         Continues(r, gm, tokens, rest)
  PROVE  AtomicOK(r)'
<1>1. TokenUpdatesOf(r)' = {}
  BY DEF TokenUpdatesOf
<1>2. CASE extensions' = rest /\ settlements' = settlements
  <2>1. ExtensionsOf(r)' = {} /\ SettlementsOf(r)' = {}
    BY <1>2 DEF ExtensionsOf, SettlementsOf
  <2> QED BY <1>1, <2>1 DEF AtomicOK, OneAtATime
<1>3. ASSUME NEW e, CoveredExtension(e, r, gm, tokens), extensions' = rest \cup {e},
             settlements' = settlements, answer' = answer
      PROVE  AtomicOK(r)'
  <2>1. ExtensionsOf(r)' = {e} /\ SettlementsOf(r)' = {} /\ Open(r)'
    BY <1>3 DEF ExtensionsOf, SettlementsOf, CoveredExtension, Open
  <2>2. ExtensionFunded(e)'
    BY <1>3 DEF ExtensionFunded, CoveredExtension
  <2> QED BY <1>1, <2>1, <2>2 DEF AtomicOK, OneAtATime
<1>4. ASSUME NEW s, CoveredSettlement(s, r, gm, tokens), extensions' = rest,
             settlements' = settlements \cup {s}, answer' = answer
      PROVE  AtomicOK(r)'
  <2>1. ExtensionsOf(r)' = {} /\ SettlementsOf(r)' = {s} /\ Open(r)'
    BY <1>4 DEF ExtensionsOf, SettlementsOf, CoveredSettlement, Open
  <2>2. SettlementHits(s)'
    BY <1>4 DEF SettlementHits, CoveredSettlement
  <2> QED BY <1>1, <2>1, <2>2 DEF AtomicOK, OneAtATime
<1> QED BY <1>2, <1>3, <1>4 DEF Continues

LEMMA ContinuesTouches ==
  ASSUME TypeOK, NEW r \in Requests, NEW gm, NEW tokens, NEW rest \in SUBSET extensions,
         Continues(r, gm, tokens, rest),
         \A e \in extensions \ rest : e.req = r,
         \A q \in reads \cup reads' : q.req # r => (q \in reads' <=> q \in reads),
         UNCHANGED <<input, lost>>
  PROVE  OnlyTouches(r)
<1>1. \A e \in extensions \cup extensions' :
        e.req # r => (e \in extensions' <=> e \in extensions)
  BY DEF Continues, CoveredExtension
<1>2. \A s \in settlements \cup settlements' :
        s.req # r => (s \in settlements' <=> s \in settlements)
  BY DEF Continues, CoveredSettlement
<1>3. \A o \in Requests : o # r => answer'[o] = answer[o]
  BY RespondOnce DEF Continues
<1> QED BY <1>1, <1>2, <1>3 DEF OnlyTouches

\* The SELECTs of a request: what they have returned is stored.
LEMMA ReadsStored ==
  ASSUME RInv, NEW q \in reads, GetGame(q) \/ GetPlayer(q)
  PROVE  \E now : /\ ReadOK(now) /\ now.req = q.req
                  /\ now.game \notin {Absent, Pending} =>
                       now.game = game[input[q.req].game]
                  /\ now.player \notin {Absent, Pending} =>
                       now.player = player[input[q.req].player]
                  /\ Arrive(q, now)
                  /\ UNCHANGED <<player, game, input, lost, faults>>
<1>1. SInv /\ q \in ReadsOf(q.req) /\ q.req \in Requests
  BY DEF RInv, SInv, FInv, IInv, ReadOK, ReadRecords, ReadsOf
<1>2. q.player \notin {Absent, Pending} => q.player = player[input[q.req].player]
  BY <1>1 DEF RInv, AtomicOK, ReadFunded
<1> QED BY <1>1, <1>2, ReadArrives

\* What a step adds to the settlements has both halves still to come.
NoneHalfDone ==
  /\ settlements \subseteq settlements'
  /\ \A s \in settlements' \ settlements : s.todo = Parts

LEMMA ContinuesWhole ==
  ASSUME NEW r, NEW gm, NEW tokens, NEW rest, Continues(r, gm, tokens, rest)
  PROVE  NoneHalfDone
BY DEF Continues, CoveredSettlement, NoneHalfDone

LEMMA ArriveAtomic ==
  ASSUME NeverAtLastPair, RInv, SInv', NEW q \in reads, NEW now, ReadOK(now),
         now.req = q.req,
         now.game \notin {Absent, Pending} => now.game = game[input[q.req].game],
         now.player \notin {Absent, Pending} =>
           now.player = player[input[q.req].player],
         Arrive(q, now), UNCHANGED <<player, game, input, lost, faults>>
  PROVE  RInv' /\ NoneHalfDone
<1> DEFINE r == q.req
<1>1. /\ SInv /\ FInv /\ IInv /\ TypeOK /\ FlightOK(r) /\ r \in Requests
      /\ AtomicOK(r) /\ q \in ReadsOf(r)
  BY DEF RInv, SInv, FInv, IInv, ReadOK, ReadRecords, ReadsOf
<1>2. /\ ReadsOf(r) = {q} /\ Open(r) /\ input[r] \in Inputs
      /\ ExtensionsOf(r) = {} /\ SettlementsOf(r) = {}
  BY <1>1, InFlightOpen DEF FlightOK, ReadsAlone
<1>3. TokenUpdatesOf(r) = {}
  BY <1>1 DEF FInv, TokenUpdatesOf
<1>4. GameAlone(r)
  BY DEF GameAlone
<1>5. CASE now.game = Pending \/ now.player = Pending
  <2>1. /\ reads' = (reads \ {q}) \cup {now}
        /\ UNCHANGED <<extensions, settlements, topUps, answer>>
    BY <1>5 DEF Arrive
  <2>2. /\ ReadsOf(r)' = {now} /\ ExtensionsOf(r)' = {} /\ SettlementsOf(r)' = {}
        /\ TokenUpdatesOf(r)' = {}
    BY <1>2, <1>3, <2>1 DEF ReadsOf, ExtensionsOf, SettlementsOf, TokenUpdatesOf
  <2>3. ReadFunded(now)'
    BY DEF ReadFunded
  <2>4. AtomicOK(r)'
    BY <2>2, <2>3 DEF AtomicOK, OneAtATime
  <2>5. OnlyTouches(r) /\ TokensAlone(r)
    BY <2>1 DEF OnlyTouches, TokensAlone
  <2> QED BY <1>1, <1>4, <2>1, <2>4, <2>5, AtomicPreserves DEF NoneHalfDone
<1>6. CASE now.game # Pending /\ now.player # Pending /\ input[r].kind = "bet"
  <2>1. /\ reads' = reads \ {q} /\ topUps' = topUps
        /\ ServeBet(r, now.game, now.player)
    BY <1>6 DEF Arrive
  <2>2. ReadsOf(r)' = {} /\ input[r] \in BetInputs
    BY <1>2, <1>6, <2>1 DEF ReadsOf, Inputs, TopUpInputs
  <2>3. /\ now.game \in Row \cup {Absent} /\ now.player \in Int32 \cup {Absent}
        /\ now.game # Absent => RowOK(now.game) /\ now.game = game[input[r].game]
    BY <1>6 DEF ReadOK, ReadRecords
  <2>4. now.game # Absent /\ now.game.table = 0 =>
          now.game.top + 2 # Len(now.game.deck)
    BY <2>2, <2>3 DEF NeverAtLastPair, StoredRows, BetInputs
  <2>5. \/ UNCHANGED <<extensions, settlements, answer>>
        \/ /\ now.game # Absent /\ now.player # Absent
           /\ Continues(r, now.game, now.player, extensions)
    BY <1>1, <2>1, <2>2, <2>3, <2>4, ServeBetContinues
  <2>6. TokensAlone(r)
    BY <2>1 DEF TokensAlone
  <2>7. CASE UNCHANGED <<extensions, settlements, answer>>
    <3>1. /\ ExtensionsOf(r)' = {} /\ SettlementsOf(r)' = {}
          /\ TokenUpdatesOf(r)' = {}
      BY <1>2, <1>3, <2>1, <2>7 DEF ExtensionsOf, SettlementsOf, TokenUpdatesOf
    <3>2. AtomicOK(r)'
      BY <2>2, <3>1 DEF AtomicOK, OneAtATime
    <3>3. OnlyTouches(r)
      BY <2>1, <2>7 DEF OnlyTouches
    <3> QED BY <1>1, <1>4, <2>6, <2>7, <3>2, <3>3, AtomicPreserves DEF NoneHalfDone
  <2>8. CASE /\ now.game # Absent /\ now.player # Absent
             /\ Continues(r, now.game, now.player, extensions)
    <3>1. \A e \in extensions : e.req # r
      BY <1>2 DEF ExtensionsOf
    <3>2. now.player = player[input[r].player] /\ now.game = game'[input[r].game]
      BY <1>6, <2>3, <2>8
    <3>3. AtomicOK(r)'
      BY <1>1, <1>2, <1>3, <2>1, <2>2, <2>8, <3>1, <3>2, HandlerAtomic
    <3>4. \A p \in reads \cup reads' : p.req # r => (p \in reads' <=> p \in reads)
      BY <2>1
    <3>5. OnlyTouches(r)
      BY <1>1, <2>8, <3>4, ContinuesTouches
    <3> QED BY <1>1, <1>4, <2>6, <2>8, <3>3, <3>5, AtomicPreserves, ContinuesWhole
  <2> QED BY <2>5, <2>7, <2>8
<1>7. CASE now.game # Pending /\ now.player # Pending /\ input[r].kind = "topUp"
  <2>1. /\ reads' = reads \ {q} /\ UNCHANGED <<extensions, settlements>>
        /\ ServeTopUp(r, now.player)
    BY <1>7 DEF Arrive
  <2>2. /\ ReadsOf(r)' = {} /\ ExtensionsOf(r)' = {} /\ SettlementsOf(r)' = {}
    BY <1>2, <2>1 DEF ReadsOf, ExtensionsOf, SettlementsOf
  <2>3. CASE topUps' = topUps /\ Respond(r, ErrorResponse(404))
    <3>1. TokenUpdatesOf(r)' = {}
      BY <1>3, <2>3 DEF TokenUpdatesOf
    <3>2. AtomicOK(r)'
      BY <2>2, <3>1 DEF AtomicOK, OneAtATime
    <3>3. OnlyTouches(r) /\ TokensAlone(r)
      BY <1>1, <2>1, <2>3, FixedResponses, RespondOnce DEF OnlyTouches, TokensAlone
    <3> QED BY <1>1, <1>4, <2>1, <3>2, <3>3, AtomicPreserves DEF NoneHalfDone
  <2>4. CASE /\ now.player # Absent /\ answer' = answer
             /\ \E u : /\ u.req = r /\ u.player = input[r].player
                      /\ u.to = input[r].tokens /\ u.from = now.player
                      /\ topUps' = topUps \cup {u}
    <3>1. PICK u : /\ u.req = r /\ u.player = input[r].player
                   /\ u.to = input[r].tokens /\ u.from = now.player
                   /\ topUps' = topUps \cup {u}
      BY <2>4
    <3>2. TokenUpdatesOf(r)' = {u} /\ Open(r)'
      BY <1>2, <1>3, <2>4, <3>1 DEF TokenUpdatesOf, Open
    <3>3. TokenUpdateHits(u)'
      BY <1>7, <2>4, <3>1 DEF TokenUpdateHits
    <3>4. AtomicOK(r)'
      BY <2>2, <3>2, <3>3 DEF AtomicOK, OneAtATime
    <3>5. OnlyTouches(r) /\ TokensAlone(r)
      BY <2>1, <2>4, <3>1 DEF OnlyTouches, TokensAlone
    <3> QED BY <1>1, <1>4, <2>1, <3>4, <3>5, AtomicPreserves DEF NoneHalfDone
  <2>5. \/ topUps' = topUps /\ Respond(r, ErrorResponse(404))
        \/ /\ now.player # Absent /\ answer' = answer
           /\ \E u : /\ u.req = r /\ u.player = input[r].player
                    /\ u.to = input[r].tokens /\ u.from = now.player
                    /\ topUps' = topUps \cup {u}
    BY <2>1 DEF ServeTopUp
  <2> QED BY <2>3, <2>4, <2>5
<1> QED BY <1>5, <1>6, <1>7 DEF Arrive

\* The handler that asked for a deck goes on with it: the deck is stored, and
\* long enough.
LEMMA UpdateGameDeckAtomic ==
  ASSUME RInv, SInv', NEW e \in extensions, UpdateGameDeck(e)
  PROVE  RInv' /\ NoneHalfDone
<1> DEFINE r == e.req
           rest == extensions \ {e}
           g == input[r].game
<1>1. /\ SInv /\ FInv /\ IInv /\ TypeOK /\ FlightOK(r) /\ r \in Requests
      /\ ExtensionOK(e) /\ e \in ExtensionsOf(r) /\ SerialOK(r) /\ AtomicOK(r)
      /\ e.game = g /\ g \in Games /\ game[g] # Absent /\ r \notin lost
  BY ExtensionTypes DEF RInv, SInv, FInv, IInv, ExtensionsOf, ExtensionOK
<1>2. /\ Open(r) /\ SettlementsOf(r) = {} /\ ReadsOf(r) = {}
      /\ \A x \in rest : x.req # r
  BY <1>1, InFlightOpen
     DEF AtomicOK, OneAtATime, FlightOK, ReadsAlone, BetFits, ExtensionsOf
<1>3. TokenUpdatesOf(r) = {}
  <2>1. input[r] \notin TopUpInputs
    BY <1>1 DEF ExtensionOK, BetInputs, TopUpInputs
  <2> QED BY <1>1, <2>1 DEF FInv, TokenUpdatesOf
<1>4. UNCHANGED <<player, input, reads, topUps, lost, faults>>
  BY DEF UpdateGameDeck
<1>5. e.row = game'[g]
  <2>1. e.cur = game[g].top
    BY <1>1, <1>2 DEF SerialOK, ExtensionServes
  <2>2. game' = CasGame(g, e.cur, e.row)
    BY <1>1 DEF UpdateGameDeck
  <2> QED BY <1>1, <2>1, <2>2 DEF CasGame, TypeOK, RepositoryTypeOK
<1>6. e.tokens = player[input[r].player] /\ ExtensionFunded(e)
  BY <1>1 DEF AtomicOK, ExtensionFunded
<1>7. Handling(r, e.row, e.tokens) /\ e.row.table \in Nat /\ e.row.top \in Nat
  BY <1>1, IntLimitAssumption
     DEF Handling, ExtensionOK, ExtensionRecords, RowOK, Row, NatInt32
<1>8. e.row.top + 2 # Len(e.row.deck)
  BY <1>6, <1>7 DEF ExtensionFunded
<1>9. Continues(r, e.row, e.tokens, rest)
  <2>1. \/ e.row.table = 0 /\ HandleBet(r, e.row, e.tokens, rest)
        \/ e.row.table > 0 /\ HandleWar(r, e.row, e.tokens, rest)
    BY <1>1 DEF UpdateGameDeck
  <2> QED
    BY <1>6, <1>7, <1>8, <2>1, RoundContinues, WarContinues DEF ExtensionFunded
<1>10. /\ rest \in SUBSET extensions /\ \A x \in extensions \ rest : x.req = r
       /\ ReadsOf(r)' = {}
  BY <1>2, <1>4 DEF ReadsOf
<1> HIDE DEF rest
<1>11. AtomicOK(r)'
  BY <1>1, <1>2, <1>3, <1>4, <1>5, <1>6, <1>9, <1>10, HandlerAtomic
<1>12. OnlyTouches(r)
  BY <1>1, <1>4, <1>9, <1>10, ContinuesTouches
<1>13. GameAlone(r) /\ TokensAlone(r)
  BY <1>1, <1>4, UpdateGameDeckSerial DEF TokensAlone
<1> QED BY <1>1, <1>9, <1>11, <1>12, <1>13, AtomicPreserves, ContinuesWhole

\* A settlement is all that its bet has in flight.
LEMMA SettlementAlone ==
  ASSUME RInv, NEW s \in settlements
  PROVE  /\ s.req \in Requests /\ Open(s.req) /\ input[s.req] \in BetInputs
         /\ SettlementsOf(s.req) = {s} /\ ExtensionsOf(s.req) = {}
         /\ ReadsOf(s.req) = {} /\ TokenUpdatesOf(s.req) = {}
         /\ s.player = input[s.req].player /\ s.player \in Players
         /\ s.game = input[s.req].game /\ s.game \in Games
         /\ s.todo \subseteq Parts /\ s.todo # {}
         /\ SettlementHits(s)
<1> DEFINE r == s.req
<1>1. /\ SInv /\ FInv /\ IInv /\ r \in Requests /\ FlightOK(r) /\ AtomicOK(r)
      /\ s \in SettlementsOf(r) /\ s \in SettlementRecords
  BY SettlementTypes DEF RInv, SInv, FInv, SettlementOK, SettlementsOf
<1>2. /\ Open(r) /\ input[r] \in BetInputs /\ s.game = input[r].game
      /\ s.game \in Games /\ s.todo # {}
  BY <1>1, InFlightOpen, FlightGame DEF FlightOK, BetFits
<1>3. SettlementsOf(r) = {s} /\ ExtensionsOf(r) = {} /\ ReadsOf(r) = {}
  BY <1>1 DEF AtomicOK, OneAtATime, FlightOK, ReadsAlone
<1>4. TokenUpdatesOf(r) = {}
  <2>1. input[r] \notin TopUpInputs
    BY <1>2 DEF BetInputs, TopUpInputs
  <2> QED BY <1>1, <2>1 DEF FInv, TokenUpdatesOf
<1>5. SettlementHits(s) /\ s.player = input[r].player
  BY <1>1 DEF AtomicOK, SettlementHits
<1>6. s.player \in Players /\ s.todo \subseteq Parts
  BY <1>1 DEF SettlementRecords
<1> QED BY <1>1, <1>2, <1>3, <1>4, <1>5, <1>6

\* Both halves match.
LEMMA HalvesMatch ==
  ASSUME RInv, NEW s \in settlements
  PROVE  /\ UpdatePlayer(s) => player' = [player EXCEPT ![s.player] = s.to]
         /\ UpdateGame(s) => game' = [game EXCEPT ![s.game] = s.row]
<1>1. SettlementHits(s) /\ game[s.game] # Absent
  BY SettlementAlone, SettlementInGame DEF RInv, SInv, FInv
<1> QED BY <1>1 DEF UpdatePlayer, UpdateGame, CasPlayer, CasGame, SettlementHits

LEMMA SettlementAtomic ==
  ASSUME RInv, SInv', NEW s \in settlements, UpdatePlayer(s) \/ UpdateGame(s)
  PROVE  RInv'
<1> DEFINE r == s.req
<1>1. /\ r \in Requests /\ Open(r) /\ SettlementsOf(r) = {s}
      /\ ExtensionsOf(r) = {} /\ ReadsOf(r) = {} /\ TokenUpdatesOf(r) = {}
      /\ s.player = input[r].player /\ s.todo \subseteq Parts /\ SettlementHits(s)
  BY SettlementAlone
<1>2. SInv /\ s \in SettlementRecords
  BY SettlementTypes DEF RInv, SInv, FInv, SettlementOK
<1>3. UNCHANGED <<input, reads, extensions, topUps, lost>>
  BY DEF UpdatePlayer, UpdateGame
<1>4. PICK part \in Parts :
        /\ part \in s.todo /\ Settle(s, part)
        /\ \/ part = "game" /\ UpdateGame(s)
           \/ part = "player" /\ UpdatePlayer(s)
  BY DEF UpdatePlayer, UpdateGame, Parts
<1>5. /\ ExtensionsOf(r)' = {} /\ ReadsOf(r)' = {} /\ TokenUpdatesOf(r)' = {}
  BY <1>1, <1>3 DEF ExtensionsOf, ReadsOf, TokenUpdatesOf
<1>6. ASSUME s.todo \ {part} = {} PROVE AtomicOK(r)'
  <2>1. SettlementsOf(r)' = {}
    BY <1>1, <1>4, <1>6 DEF Settle, SettlementsOf
  <2> QED BY <1>5, <2>1 DEF AtomicOK, OneAtATime
<1>7. ASSUME s.todo \ {part} # {} PROVE AtomicOK(r)'
  <2>1. PICK t : /\ t = [s EXCEPT !.todo = s.todo \ {part}]
                 /\ settlements' = (settlements \ {s}) \cup {t}
                 /\ answer' = answer
    BY <1>4, <1>7 DEF Settle
  <2>2. /\ t.req = r /\ t.player = s.player /\ t.from = s.from /\ t.game = s.game
        /\ t.cur = s.cur /\ t.todo = s.todo \ {part}
    BY <1>2, <2>1 DEF SettlementRecords
  <2>3. SettlementsOf(r)' = {t} /\ Open(r)'
    BY <1>1, <1>3, <2>1, <2>2 DEF SettlementsOf, Open
  <2>4. t.todo # Parts
    BY <1>4, <2>2
  <2>5. SettlementHits(t)'
    <3>1. CASE part = "game"
      <4>1. player' = player
        BY <1>4, <3>1 DEF UpdateGame
      <4> QED BY <1>1, <1>3, <2>2, <2>4, <3>1, <4>1 DEF SettlementHits
    <3>2. CASE part = "player"
      <4>1. game' = game
        BY <1>4, <3>2 DEF UpdatePlayer
      <4> QED BY <1>1, <1>3, <2>2, <2>4, <3>2, <4>1 DEF SettlementHits
    <3> QED BY <3>1, <3>2 DEF Parts
  <2> QED BY <1>5, <2>3, <2>5 DEF AtomicOK, OneAtATime
<1>8. GameAlone(r) /\ OnlyTouches(r)
  BY <1>2, UpdateSettlementSerial
<1>9. TokensAlone(r)
  <2>1. player' = player \/ player' = [player EXCEPT ![s.player] = s.to]
    BY HalvesMatch DEF UpdateGame
  <2>2. \A p \in Players : player'[p] # player[p] => p = s.player
    BY <1>2, <2>1 DEF SInv, FInv, IInv, TypeOK, RepositoryTypeOK
  <2> QED BY <1>1, <1>3, <2>2 DEF TokensAlone
<1> QED BY <1>1, <1>6, <1>7, <1>8, <1>9, AtomicPreserves

LEMMA TokenUpdateAlone ==
  ASSUME RInv, NEW u \in topUps
  PROVE  /\ u.req \in Requests /\ Open(u.req) /\ input[u.req] \in TopUpInputs
         /\ TokenUpdatesOf(u.req) = {u} /\ SettlementsOf(u.req) = {}
         /\ ExtensionsOf(u.req) = {} /\ ReadsOf(u.req) = {}
         /\ TokenUpdateHits(u) /\ u.player = input[u.req].player
         /\ u.player \in Players
<1> DEFINE r == u.req
<1>1. /\ SInv /\ FInv /\ IInv /\ r \in Requests /\ FlightOK(r) /\ AtomicOK(r)
      /\ u \in TokenUpdatesOf(r) /\ input[r] \in TopUpInputs /\ ReadsOf(r) = {}
  BY DEF RInv, SInv, FInv, IInv, TypeOK, TopUpRecords, TokenUpdatesOf
<1>2. Open(r)
  BY <1>1, InFlightOpen
<1>3. input[r] \notin BetInputs
  BY <1>1 DEF BetInputs, TopUpInputs
<1>4. SettlementsOf(r) = {} /\ ExtensionsOf(r) = {}
  BY <1>1, <1>3 DEF FlightOK, BetFits
<1>5. TokenUpdatesOf(r) = {u} /\ TokenUpdateHits(u)
  BY <1>1 DEF AtomicOK, OneAtATime
<1>6. u.player = input[r].player /\ u.player \in Players
  BY <1>1, <1>5 DEF TokenUpdateHits, TopUpInputs
<1> QED BY <1>1, <1>2, <1>4, <1>5, <1>6

LEMMA UpdateTokensAtomic ==
  ASSUME RInv, SInv', NEW u \in topUps, UpdateTokens(u)
  PROVE  RInv' /\ player' = [player EXCEPT ![u.player] = u.to]
<1> DEFINE r == u.req
<1>1. /\ SInv /\ TypeOK /\ r \in Requests /\ Open(r) /\ TokenUpdatesOf(r) = {u}
      /\ SettlementsOf(r) = {} /\ ExtensionsOf(r) = {} /\ ReadsOf(r) = {}
      /\ player[u.player] = u.from /\ u.player = input[r].player
  BY TokenUpdateAlone DEF TokenUpdateHits, RInv, SInv, FInv, IInv
<1>2. /\ UNCHANGED <<game, input, reads, extensions, settlements, lost>>
      /\ topUps' = topUps \ {u} /\ Respond(r, TopUpResponse)
      /\ player' = [player EXCEPT ![u.player] = u.to]
  BY <1>1 DEF UpdateTokens, CasPlayer
<1>3. /\ ExtensionsOf(r)' = {} /\ SettlementsOf(r)' = {} /\ ReadsOf(r)' = {}
      /\ TokenUpdatesOf(r)' = {}
  BY <1>1, <1>2 DEF ExtensionsOf, SettlementsOf, ReadsOf, TokenUpdatesOf
<1>4. AtomicOK(r)'
  BY <1>3 DEF AtomicOK, OneAtATime
<1>5. OnlyTouches(r) /\ GameAlone(r)
  BY <1>1, <1>2, FixedResponses, RespondOnce DEF OnlyTouches, GameAlone
<1>6. TokensAlone(r)
  <2>1. \A p \in Players : player'[p] # player[p] => p = u.player
    BY <1>1, <1>2 DEF TypeOK, RepositoryTypeOK
  <2> QED BY <1>1, <1>2, <2>1 DEF TokensAlone
<1> QED BY <1>1, <1>2, <1>4, <1>5, <1>6, AtomicPreserves

LEMMA InitRInv == Init => RInv
<1> SUFFICES ASSUME Init PROVE RInv
  OBVIOUS
<1>1. SInv
  BY InitSInv
<1>2. ASSUME NEW r \in Requests PROVE AtomicOK(r)
  BY DEF Init, AtomicOK, OneAtATime, ReadsOf, ExtensionsOf, SettlementsOf,
         TokenUpdatesOf
<1> QED BY <1>1, <1>2 DEF RInv

LEMMA NextRInv ==
  ASSUME WaitingClients, NeverAtLastPair, RInv, [Next]_vars
  PROVE  RInv'
<1>1. SInv /\ SInv'
  BY NextSInv DEF RInv
<1>2. CASE Arrivals
  <2>1. PICK r \in Requests : RequestBet(r) \/ UpdatePlayerToken(r)
    BY <1>2 DEF Arrivals
  <2>2. \E in \in Inputs : \E awaited : Submit(r, in, awaited)
    BY <2>1 DEF RequestBet, UpdatePlayerToken, Inputs
  <2> QED BY <1>1, <2>2, SubmitAtomic
<1>3. CASE Statements
  BY <1>1, <1>3, ReadsStored, ArriveAtomic, UpdateGameDeckAtomic, SettlementAtomic,
     UpdateTokensAtomic DEF Statements
<1>4. CASE StatementFaults \/ Crash
  <2>1. ~ Fault
    BY <1>1, NoFault DEF SInv
  <2> QED
    BY <1>4, <2>1
       DEF StatementFaults, FailRead, FailExtension, FailSettlement, FailTokens, Crash
<1>5. CASE UNCHANGED vars
  <2>1. \A r \in Requests :
          /\ ExtensionsOf(r)' = ExtensionsOf(r) /\ SettlementsOf(r)' = SettlementsOf(r)
          /\ ReadsOf(r)' = ReadsOf(r) /\ TokenUpdatesOf(r)' = TokenUpdatesOf(r)
          /\ Open(r)' = Open(r)
    BY <1>5 DEF vars, ExtensionsOf, SettlementsOf, ReadsOf, TokenUpdatesOf, Open
  <2>2. \A r \in Requests : AtomicOK(r)'
    BY <1>5, <2>1 DEF vars, RInv, AtomicOK, OneAtATime, ReadFunded, ExtensionFunded,
                      SettlementHits, TokenUpdateHits
  <2> QED BY <1>1, <2>2 DEF RInv
<1> QED BY <1>2, <1>3, <1>4, <1>5 DEF Next

-----------------------------------------------------------------------------
(***************************************************************************)
(* The refinement mapping: what TokensOf and RowOf choose.                 *)
(***************************************************************************)
LEMMA OneSettlement ==
  RInv => \A s1, s2 \in settlements :
            s1.game = s2.game \/ s1.player = s2.player => s1 = s2
<1> SUFFICES ASSUME RInv, NEW s1 \in settlements, NEW s2 \in settlements,
                    s1.game = s2.game \/ s1.player = s2.player
             PROVE  s1 = s2
  OBVIOUS
<1>1. /\ s1.req \in Requests /\ s2.req \in Requests /\ Open(s1.req) /\ Open(s2.req)
      /\ input[s1.req] \in BetInputs /\ input[s2.req] \in BetInputs
      /\ s1.player = input[s1.req].player /\ s2.player = input[s2.req].player
      /\ s1.game = input[s1.req].game /\ s2.game = input[s2.req].game
      /\ SettlementsOf(s1.req) = {s1} /\ SettlementsOf(s2.req) = {s2}
  BY SettlementAlone
<1>2. s1.req = s2.req
  BY <1>1 DEF RInv, SInv, Apart, BetInputs
<1> QED BY <1>1, <1>2

\* A half of a settlement that is still to come counts as done, and everything
\* else is as it is stored.
HalvesMapped ==
  \A s \in settlements :
    /\ s.todo = {"player"} => TokensOf(s.player) = s.to
    /\ s.todo = {"game"} => RowOf(s.game) = s.row

RestMapped ==
  /\ \A p : (\A s \in settlements : s.todo = {"player"} => s.player # p)
              => TokensOf(p) = player[p]
  /\ \A g : (\A s \in settlements : s.todo = {"game"} => s.game # g)
              => RowOf(g) = game[g]

LEMMA HalfMapped == RInv => HalvesMapped
<1> SUFFICES ASSUME RInv, NEW s \in settlements
             PROVE  /\ s.todo = {"player"} => TokensOf(s.player) = s.to
                    /\ s.todo = {"game"} => RowOf(s.game) = s.row
  BY DEF HalvesMapped
<1>1. SettlementHits(s)
  BY SettlementAlone
<1>2. ASSUME s.todo = {"player"} PROVE TokensOf(s.player) = s.to
  <2> DEFINE Due(x) == x.player = s.player /\ x.from = player[s.player]
  <2>1. s \in HalfDone("player") /\ Due(s)
    BY <1>1, <1>2 DEF HalfDone, SettlementHits
  <2>2. \A x \in HalfDone("player") : Due(x) => x = s
    BY OneSettlement DEF HalfDone
  <2>3. (CHOOSE x \in HalfDone("player") : Due(x)) = s
    <3> HIDE DEF Due
    <3> QED BY <2>1, <2>2
  <2> QED BY <2>1, <2>3 DEF TokensOf
<1>3. ASSUME s.todo = {"game"} PROVE RowOf(s.game) = s.row
  <2> DEFINE Due(x) == x.game = s.game /\ x.cur = game[s.game].top
  <2>1. s \in HalfDone("game") /\ Due(s)
    BY <1>1, <1>3 DEF HalfDone, SettlementHits
  <2>2. \A x \in HalfDone("game") : Due(x) => x = s
    BY OneSettlement DEF HalfDone
  <2>3. (CHOOSE x \in HalfDone("game") : Due(x)) = s
    <3> HIDE DEF Due
    <3> QED BY <2>1, <2>2
  <2> QED BY <2>1, <2>3 DEF RowOf
<1> QED BY <1>2, <1>3

LEMMA WholeMapped == RestMapped
BY DEF RestMapped, TokensOf, RowOf, HalfDone

LEMMA MappedNext == ASSUME RInv, RInv' PROVE HalvesMapped' /\ RestMapped'
<1>1. (RInv => HalvesMapped)'
  BY HalfMapped, PTL
<1>2. RestMapped'
  BY WholeMapped, PTL
<1> QED BY <1>1, <1>2

\* A step that does not touch a player, or a game, cannot be seen there.
LEMMA TokensUntouched ==
  ASSUME RInv, RInv', NEW p, player'[p] = player[p],
         \A s : s.todo = {"player"} /\ s.player = p =>
                  (s \in settlements' <=> s \in settlements)
  PROVE  TokensOf(p)' = TokensOf(p)
<1>1. HalvesMapped /\ HalvesMapped' /\ RestMapped /\ RestMapped'
  BY HalfMapped, WholeMapped, MappedNext
<1>2. CASE \E s \in settlements : s.todo = {"player"} /\ s.player = p
  BY <1>1, <1>2 DEF HalvesMapped
<1>3. CASE \A s \in settlements : s.todo = {"player"} => s.player # p
  <2>1. \A s \in settlements' : s.todo = {"player"} => s.player # p
    BY <1>3
  <2> QED BY <1>1, <1>3, <2>1 DEF RestMapped
<1> QED BY <1>2, <1>3

LEMMA RowUntouched ==
  ASSUME RInv, RInv', NEW g, game'[g] = game[g],
         \A s : s.todo = {"game"} /\ s.game = g =>
                  (s \in settlements' <=> s \in settlements)
  PROVE  RowOf(g)' = RowOf(g)
<1>1. HalvesMapped /\ HalvesMapped' /\ RestMapped /\ RestMapped'
  BY HalfMapped, WholeMapped, MappedNext
<1>2. CASE \E s \in settlements : s.todo = {"game"} /\ s.game = g
  BY <1>1, <1>2 DEF HalvesMapped
<1>3. CASE \A s \in settlements : s.todo = {"game"} => s.game # g
  <2>1. \A s \in settlements' : s.todo = {"game"} => s.game # g
    BY <1>3
  <2> QED BY <1>1, <1>3, <2>1 DEF RestMapped
<1> QED BY <1>2, <1>3

-----------------------------------------------------------------------------
(***************************************************************************)
(* A step of the server is a step of CasinoWar or cannot be seen in it.    *)
(***************************************************************************)
\* The instance computes with the same rules.
LEMMA SameRules ==
  /\ Abstract!CardIds = CardIds
  /\ \A c : Abstract!CardValue(c) = CardValue(c)
  /\ \A n : Abstract!Wrap(n) = Wrap(n)
  /\ \A a, b, t : Abstract!RoundResult(a, b, t) = RoundResult(a, b, t)
  /\ \A res, b, t : Abstract!RoundTokens(res, b, t) = RoundTokens(res, b, t)
  /\ \A res, b : Abstract!RoundStake(res, b) = RoundStake(res, b)
  /\ \A a, b : Abstract!WarResult(a, b) = WarResult(a, b)
  /\ \A res, b : Abstract!WarTokens(res, b) = WarTokens(res, b)
  /\ \A b : Abstract!ForfeitTokens(b) = ForfeitTokens(b)
<1>1. Abstract!CardIds = CardIds /\ \A c : Abstract!CardValue(c) = CardValue(c)
  BY DEF Abstract!CardIds, Abstract!DeckSize, Abstract!CardValue, CardIds, DeckSize,
         CardValue
<1>2. \A n : Abstract!Wrap(n) = Wrap(n)
  BY DEF Abstract!Wrap, Wrap
<1>3. /\ \A a, b, t : Abstract!RoundResult(a, b, t) = RoundResult(a, b, t)
      /\ \A a, b : Abstract!WarResult(a, b) = WarResult(a, b)
  BY DEF Abstract!RoundResult, RoundResult, Abstract!WarResult, WarResult
<1>4. \A res, b, t : Abstract!RoundTokens(res, b, t) = RoundTokens(res, b, t)
  BY <1>2 DEF Abstract!RoundTokens, RoundTokens
<1>5. \A res, b : Abstract!RoundStake(res, b) = RoundStake(res, b)
  BY DEF Abstract!RoundStake, RoundStake
<1>6. \A res, b : Abstract!WarTokens(res, b) = WarTokens(res, b)
  BY <1>2 DEF Abstract!WarTokens, WarTokens
<1>7. \A b : Abstract!ForfeitTokens(b) = ForfeitTokens(b)
  BY DEF Abstract!ForfeitTokens, ForfeitTokens
<1> QED BY <1>1, <1>2, <1>3, <1>4, <1>5, <1>6, <1>7

SameTable(g) ==
  /\ RowOf(g)' = Absent <=> RowOf(g) = Absent
  /\ TableOf(RowOf(g))' = TableOf(RowOf(g))

LEMMA SameColumn ==
  ASSUME \A g \in Games : SameTable(g), NEW field
  PROVE  Column(field)' = Column(field)
BY DEF SameTable, Column

LEMMA Unseen ==
  ASSUME \A p \in Players : TokensOf(p)' = TokensOf(p),
         \A g \in Games : SameTable(g)
  PROVE  UNCHANGED Abstract!cwVars
<1>1. /\ Column("dealt")' = Column("dealt") /\ Column("shown")' = Column("shown")
      /\ Column("stake")' = Column("stake")
  BY SameColumn
<1> QED BY <1>1 DEF Abstract!cwVars

\* The table of one game changes.
LEMMA OneColumn ==
  ASSUME NEW g \in Games, NEW old, NEW new, NEW field,
         RowOf(g) = old, old # Absent, RowOf(g)' = new, new # Absent,
         \A h \in Games : h # g => RowOf(h)' = RowOf(h)
  PROVE  /\ Column(field)[g] = TableOf(old)[field]
         /\ Column(field)' = [Column(field) EXCEPT ![g] = TableOf(new)[field]]
BY DEF Column, TableOf, ShownOf, CardsAt

\* The tokens of one player change.
LEMMA OnePlayer ==
  ASSUME NEW p \in Players, NEW to, TokensOf(p)' = to,
         \A q \in Players : q # p => TokensOf(q)' = TokensOf(q)
  PROVE  [q \in Players |-> TokensOf(q)]' =
           [[q \in Players |-> TokensOf(q)] EXCEPT ![p] = to]
OBVIOUS

\* The settlement of a bet on g by p takes effect.
TakesEffect(s, p, g, old) ==
  /\ TokensOf(p) = s.from /\ TokensOf(p)' = s.to
  /\ \A q \in Players : q # p => TokensOf(q)' = TokensOf(q)
  /\ RowOf(g) = old /\ RowOf(g)' = s.row
  /\ \A h \in Games : h # g => RowOf(h)' = RowOf(h)

LEMMA RoundSeen ==
  ASSUME NEW s, NEW in \in BetInputs, NEW p \in Players, NEW g \in Games,
         NEW old \in Row, s.from \in Int32, s.row \in Row,
         TakesEffect(s, p, g, old),
         in.bet # Omitted, in.bet <= s.from, PlaysRound(s, in, old)
  PROVE  Abstract!Round(p, g)
<1> DEFINE bet == in.bet
           tieBet == in.tieBet
<1>1. /\ bet \in Bets \ {Omitted} /\ tieBet \in TieBets \ {Omitted}
      /\ old # Absent /\ s.row # Absent /\ s.from # Absent
  BY RepositoryAssumption DEF BetInputs, PlaysRound, Int32
<1>2. PICK mine \in CardIds, casinos \in CardIds :
        LET result == RoundResult(CardValue(mine), CardValue(casinos), tieBet)
        IN /\ ShownOf(s.row) = <<mine, casinos>>
           /\ s.row.table = RoundStake(result, bet)
           /\ s.to = Wrap(s.from + RoundTokens(result, bet, tieBet))
  BY DEF PlaysRound
<1> DEFINE result == RoundResult(CardValue(mine), CardValue(casinos), tieBet)
<1>3. /\ TableOf(old)["dealt"] = old.top /\ TableOf(old)["stake"] = old.table
      /\ TableOf(s.row)["dealt"] = s.row.top /\ TableOf(s.row)["stake"] = s.row.table
      /\ TableOf(s.row)["shown"] = ShownOf(s.row)
  BY <1>1 DEF TableOf
<1>4. /\ Column("dealt")[g] = old.top /\ Column("stake")[g] = 0
      /\ Column("dealt")' = [Column("dealt") EXCEPT ![g] = old.top + 2]
      /\ Column("shown")' = [Column("shown") EXCEPT ![g] = <<mine, casinos>>]
      /\ Column("stake")' = [Column("stake") EXCEPT ![g] = RoundStake(result, bet)]
  BY <1>1, <1>2, <1>3, OneColumn DEF TakesEffect, PlaysRound
<1>5. old.top # Absent
  BY RepositoryAssumption DEF Row
<1> QED
  BY <1>1, <1>2, <1>4, <1>5, OnePlayer, SameRules
     DEF Abstract!Round, Abstract!Seated, Abstract!Gain, TakesEffect

LEMMA WarSeen ==
  ASSUME NEW s, NEW in \in BetInputs, NEW p \in Players, NEW g \in Games,
         NEW old \in Row, s.from \in Int32, s.row \in Row,
         TakesEffect(s, p, g, old),
         in.bet # Omitted, in.bet <= s.from, FightsWar(s, in, old)
  PROVE  Abstract!War(p, g)
<1>1. /\ in.bet \in Bets \ {Omitted} /\ in.bet = old.table
      /\ old # Absent /\ s.row # Absent /\ s.from # Absent
  BY RepositoryAssumption DEF BetInputs, FightsWar, Int32
<1>2. PICK mine \in CardIds, casinos \in CardIds :
        LET result == WarResult(CardValue(mine), CardValue(casinos))
        IN /\ result # "win"
           /\ ShownOf(s.row) = <<mine, casinos>>
           /\ s.to = Wrap(s.from + WarTokens(result, old.table))
  BY DEF FightsWar
<1>3. /\ TableOf(old)["dealt"] = old.top /\ TableOf(old)["stake"] = old.table
      /\ TableOf(s.row)["dealt"] = s.row.top /\ TableOf(s.row)["stake"] = s.row.table
      /\ TableOf(s.row)["shown"] = ShownOf(s.row)
  BY <1>1 DEF TableOf
<1>4. /\ Column("dealt")[g] = old.top /\ Column("stake")[g] = old.table
      /\ Column("dealt")' = [Column("dealt") EXCEPT ![g] = old.top + 5]
      /\ Column("shown")' = [Column("shown") EXCEPT ![g] = <<mine, casinos>>]
      /\ Column("stake")' = [Column("stake") EXCEPT ![g] = 0]
  BY <1>1, <1>2, <1>3, OneColumn DEF TakesEffect, FightsWar
<1>5. old.top # Absent /\ old.table > 0
  BY RepositoryAssumption DEF Row, FightsWar
<1> QED
  BY <1>1, <1>2, <1>4, <1>5, OnePlayer, SameRules
     DEF Abstract!War, Abstract!Seated, Abstract!Gain, TakesEffect

LEMMA ForfeitSeen ==
  ASSUME NEW s, NEW in \in BetInputs, NEW p \in Players, NEW g \in Games,
         NEW old \in Row, s.from \in Int32, s.row \in Row,
         TakesEffect(s, p, g, old),
         in.bet # Omitted, in.bet <= s.from, PaysBack(s, in, old)
  PROVE  Abstract!Forfeit(p, g)
<1>1. /\ 0 \in Bets \ {Omitted} /\ in.bet = 0
      /\ old # Absent /\ s.row # Absent /\ s.from # Absent
  BY RepositoryAssumption DEF BetInputs, PaysBack, Int32
<1>2. /\ TableOf(old)["dealt"] = old.top /\ TableOf(old)["stake"] = old.table
      /\ TableOf(old)["shown"] = ShownOf(old)
      /\ TableOf(s.row)["dealt"] = s.row.top /\ TableOf(s.row)["stake"] = s.row.table
      /\ TableOf(s.row)["shown"] = ShownOf(s.row)
  BY <1>1 DEF TableOf
<1>3. /\ Column("dealt")[g] = old.top /\ Column("stake")[g] = old.table
      /\ Column("shown")[g] = ShownOf(old)
      /\ Column("dealt")' = [Column("dealt") EXCEPT ![g] = old.top]
      /\ Column("shown")' = [Column("shown") EXCEPT ![g] = ShownOf(old)]
      /\ Column("stake")' = [Column("stake") EXCEPT ![g] = 0]
  BY <1>1, <1>2, OneColumn DEF TakesEffect, PaysBack
<1>4. Column("dealt")' = Column("dealt") /\ Column("shown")' = Column("shown")
  BY <1>3 DEF Column
<1>5. old.top # Absent /\ old.table > 0
  BY RepositoryAssumption DEF Row, PaysBack
<1>6. s.to = Wrap(s.from + ForfeitTokens(old.table))
  BY DEF PaysBack
<1> QED
  BY <1>1, <1>3, <1>4, <1>5, <1>6, OnePlayer, SameRules
     DEF Abstract!Forfeit, Abstract!Seated, Abstract!Gain, TakesEffect

LEMMA BetSeen ==
  ASSUME NEW s, NEW in \in BetInputs, NEW p \in Players, NEW g \in Games,
         NEW old \in Row, s.from \in Int32, s.row \in Row,
         TakesEffect(s, p, g, old), Plays(s, in, old)
  PROVE  Abstract!CWNext
<1>1. Abstract!Round(p, g) \/ Abstract!War(p, g) \/ Abstract!Forfeit(p, g)
  BY RoundSeen, WarSeen, ForfeitSeen DEF Plays
<1> QED BY <1>1 DEF Abstract!CWNext

\* A longer deck: the cards already dealt stay, and so does the stake.
LEMMA DeckStored ==
  ASSUME RInv, NEW e \in extensions, UpdateGameDeck(e)
  PROVE  /\ e.game \in Games /\ game[e.game] # Absent
         /\ \A g \in Games : g # e.game => game'[g] = game[g]
         /\ game'[e.game] # Absent /\ TableOf(game'[e.game]) = TableOf(game[e.game])
         /\ \A s \in settlements : s.game # e.game
<1> DEFINE r == e.req
           g == e.game
<1>1. /\ SInv /\ FInv /\ IInv /\ TypeOK /\ r \in Requests
      /\ ExtensionOK(e) /\ e \in ExtensionsOf(r) /\ SerialOK(r) /\ AtomicOK(r)
      /\ g = input[r].game /\ g \in Games /\ game[g] # Absent
      /\ input[r] \in BetInputs
  BY ExtensionTypes DEF RInv, SInv, FInv, IInv, ExtensionsOf, ExtensionOK
<1>2. Open(r) /\ SettlementsOf(r) = {}
  BY <1>1, InFlightOpen DEF AtomicOK, OneAtATime
<1>3. \A s \in settlements : s.game # g
  <2> SUFFICES ASSUME NEW s \in settlements, s.game = g PROVE FALSE
    OBVIOUS
  <2>1. /\ s.req \in Requests /\ Open(s.req) /\ input[s.req] \in BetInputs
        /\ input[s.req].game = g /\ s \in SettlementsOf(s.req)
    BY SettlementAlone
  <2>2. s.req = r
    BY <1>1, <1>2, <2>1 DEF SInv, Apart, BetInputs
  <2> QED BY <1>2, <2>1, <2>2
<1>4. e.cur = game[g].top /\ e.row.table = game[g].table /\ e.row.top = e.cur
  BY <1>1, <1>2 DEF SerialOK, ExtensionServes, ExtensionOK
<1>5. game' = [game EXCEPT ![g] = e.row]
  BY <1>1, <1>4 DEF UpdateGameDeck, CasGame
<1>6. /\ game'[g] = e.row /\ \A h \in Games : h # g => game'[h] = game[h]
  BY <1>1, <1>5 DEF TypeOK, RepositoryTypeOK
<1>7. /\ game'[g] # Absent /\ SameCards(e.row, game[g], game[g].top)
      /\ game[g].top \in Nat
  BY <1>1, <1>6, UpdateGameDeckPreserves DEF GameStep, RowGrows, RowOK, IInv, Row
<1>8. ShownOf(e.row) = ShownOf(game[g])
  BY <1>4, <1>7 DEF ShownOf, CardsAt, SameCards
<1> QED BY <1>1, <1>3, <1>4, <1>6, <1>7, <1>8 DEF TableOf

\* A settlement with both halves to come counts as not begun.
LEMMA NewSettlements ==
  ASSUME NoneHalfDone, NEW part, NEW s, s.todo = {part}
  PROVE  s \in settlements' <=> s \in settlements
<1>1. s.todo # Parts
  BY DEF Parts
<1> QED BY <1>1 DEF NoneHalfDone

LEMMA QuietStep ==
  ASSUME RInv, RInv', UNCHANGED <<player, game>>, NoneHalfDone
  PROVE  UNCHANGED Abstract!cwVars
<1>1. \A p \in Players : TokensOf(p)' = TokensOf(p)
  BY TokensUntouched, NewSettlements
<1>2. \A g \in Games : RowOf(g)' = RowOf(g)
  BY RowUntouched, NewSettlements
<1>3. \A g \in Games : SameTable(g)
  BY <1>2 DEF SameTable
<1> QED BY <1>1, <1>3, Unseen

LEMMA DeckStep ==
  ASSUME RInv, RInv', NEW e \in extensions, UpdateGameDeck(e), NoneHalfDone
  PROVE  UNCHANGED Abstract!cwVars
<1> DEFINE g == e.game
<1>1. /\ g \in Games /\ game[g] # Absent
      /\ \A h \in Games : h # g => game'[h] = game[h]
      /\ game'[g] # Absent /\ TableOf(game'[g]) = TableOf(game[g])
      /\ \A s \in settlements : s.game # g
  BY DeckStored
<1>2. player' = player
  BY DEF UpdateGameDeck
<1>3. \A p \in Players : TokensOf(p)' = TokensOf(p)
  BY <1>2, TokensUntouched, NewSettlements
<1>4. \A h \in Games : h # g => SameTable(h)
  <2>1. \A h \in Games : h # g => RowOf(h)' = RowOf(h)
    BY <1>1, RowUntouched, NewSettlements
  <2> QED BY <2>1 DEF SameTable
<1>5. SameTable(g)
  <2>1. \A s \in settlements' : s.todo = {"game"} => s.game # g
    BY <1>1, NewSettlements
  <2>2. RestMapped /\ RestMapped'
    BY WholeMapped, MappedNext
  <2>3. RowOf(g) = game[g] /\ RowOf(g)' = game'[g]
    BY <1>1, <2>1, <2>2 DEF RestMapped
  <2> QED BY <1>1, <2>3 DEF SameTable, TableOf, ShownOf, CardsAt
<1> QED BY <1>3, <1>4, <1>5, Unseen

\* The first half of a settlement takes effect for both.
LEMMA FirstHalfSeen ==
  ASSUME RInv, RInv', NEW s \in settlements, s.todo = Parts,
         UpdatePlayer(s) \/ UpdateGame(s)
  PROVE  Abstract!CWNext
<1> DEFINE p == s.player
           g == s.game
<1>1. /\ s.req \in Requests /\ input[s.req] \in BetInputs
      /\ p \in Players /\ g \in Games /\ SettlementHits(s)
  BY SettlementAlone
<1>2. /\ s.from \in Int32 /\ s.row \in Row /\ TypeOK /\ game[g] # Absent
  BY SettlementTypes, SettlementInGame
     DEF RInv, SInv, FInv, IInv, SettlementOK, SettlementRecords
<1>3. game[g] \in Row /\ Plays(s, input[s.req], game[g]) /\ player[p] = s.from
  BY <1>1, <1>2 DEF SettlementHits, Parts, TypeOK, RepositoryTypeOK
<1>4. /\ HalvesMapped /\ HalvesMapped' /\ RestMapped /\ RestMapped'
  BY HalfMapped, WholeMapped, MappedNext
<1>5. \A x \in settlements : x.game = g \/ x.player = p => x = s
  BY OneSettlement
<1>6. {"player"} # Parts /\ {"game"} # Parts
  BY DEF Parts
<1>7. TokensOf(p) = s.from /\ RowOf(g) = game[g]
  BY <1>3, <1>4, <1>5, <1>6 DEF RestMapped
<1>8. PICK part \in Parts :
        /\ Settle(s, part)
        /\ \/ part = "game" /\ UpdateGame(s)
           \/ part = "player" /\ UpdatePlayer(s)
  BY DEF UpdatePlayer, UpdateGame, Parts
<1>9. PICK t : /\ t = [s EXCEPT !.todo = s.todo \ {part}]
               /\ settlements' = (settlements \ {s}) \cup {t}
  <2>1. s.todo \ {part} # {}
    BY DEF Parts
  <2> QED BY <1>8, <2>1 DEF Settle
<1>10. /\ t.player = p /\ t.game = g /\ t.to = s.to /\ t.row = s.row
       /\ t.todo = Parts \ {part} /\ t \in settlements'
  BY <1>9, SettlementTypes DEF RInv, SInv, FInv, SettlementOK, SettlementRecords
<1>11. /\ \A x : x.todo = {"player"} /\ x.player # p =>
                   (x \in settlements' <=> x \in settlements)
       /\ \A x : x.todo = {"game"} /\ x.game # g =>
                   (x \in settlements' <=> x \in settlements)
  BY <1>9, <1>10
<1>12. /\ \A x \in settlements' : x.game = g \/ x.player = p => x = t
  BY <1>5, <1>9
<1>13. /\ \A q \in Players : q # p => player'[q] = player[q]
       /\ \A h \in Games : h # g => game'[h] = game[h]
  BY <1>1, <1>2, <1>8, HalvesMatch
     DEF TypeOK, RepositoryTypeOK, UpdatePlayer, UpdateGame
<1>14. \A q \in Players : q # p => TokensOf(q)' = TokensOf(q)
  BY <1>11, <1>13, TokensUntouched
<1>15. \A h \in Games : h # g => RowOf(h)' = RowOf(h)
  BY <1>11, <1>13, RowUntouched
<1>16. TokensOf(p)' = s.to /\ RowOf(g)' = s.row
  <2>1. CASE part = "player"
    <3>1. player'[p] = s.to
      BY <1>1, <1>2, <1>8, <2>1, HalvesMatch DEF TypeOK, RepositoryTypeOK
    <3>2. t.todo = {"game"}
      BY <1>10, <2>1 DEF Parts
    <3>3. RowOf(g)' = s.row
      BY <1>4, <1>10, <3>2 DEF HalvesMapped
    <3>4. \A x \in settlements' : x.todo = {"player"} => x.player # p
      BY <1>12, <3>2
    <3>5. TokensOf(p)' = player'[p]
      BY <1>4, <3>4 DEF RestMapped
    <3> QED BY <3>1, <3>3, <3>5
  <2>2. CASE part = "game"
    <3>1. game'[g] = s.row
      BY <1>1, <1>2, <1>8, <2>2, HalvesMatch DEF TypeOK, RepositoryTypeOK
    <3>2. t.todo = {"player"}
      BY <1>10, <2>2 DEF Parts
    <3>3. TokensOf(p)' = s.to
      BY <1>4, <1>10, <3>2 DEF HalvesMapped
    <3>4. \A x \in settlements' : x.todo = {"game"} => x.game # g
      BY <1>12, <3>2
    <3>5. RowOf(g)' = game'[g]
      BY <1>4, <3>4 DEF RestMapped
    <3> QED BY <3>1, <3>3, <3>5
  <2> QED BY <2>1, <2>2 DEF Parts
<1>17. TakesEffect(s, p, g, game[g])
  BY <1>3, <1>7, <1>14, <1>15, <1>16 DEF TakesEffect
<1> QED BY <1>1, <1>2, <1>3, <1>17, BetSeen

\* The other half has counted as done since.
LEMMA SecondHalfUnseen ==
  ASSUME RInv, RInv', NEW s \in settlements, s.todo # Parts,
         UpdatePlayer(s) \/ UpdateGame(s)
  PROVE  UNCHANGED Abstract!cwVars
<1> DEFINE p == s.player
           g == s.game
<1>1. /\ p \in Players /\ g \in Games /\ s.todo \subseteq Parts
  BY SettlementAlone
<1>2. TypeOK
  BY DEF RInv, SInv, FInv, IInv
<1>3. /\ HalvesMapped /\ HalvesMapped' /\ RestMapped /\ RestMapped'
  BY HalfMapped, WholeMapped, MappedNext
<1>4. \A x \in settlements : x.game = g \/ x.player = p => x = s
  BY OneSettlement
<1>5. CASE UpdatePlayer(s)
  <2>1. s.todo = {"player"} /\ Settle(s, "player") /\ game' = game
    BY <1>1, <1>5 DEF UpdatePlayer, Parts
  <2>2. settlements' = settlements \ {s}
    BY <2>1 DEF Settle
  <2>3. /\ player'[p] = s.to
        /\ \A q \in Players : q # p => player'[q] = player[q]
    BY <1>1, <1>2, <1>5, HalvesMatch DEF TypeOK, RepositoryTypeOK
  <2>4. TokensOf(p) = s.to
    BY <1>3, <2>1 DEF HalvesMapped
  <2>5. TokensOf(p)' = s.to
    <3>1. \A x \in settlements' : x.todo = {"player"} => x.player # p
      BY <1>4, <2>2
    <3> QED BY <1>3, <2>3, <3>1 DEF RestMapped
  <2>6. \A q \in Players : q # p => TokensOf(q)' = TokensOf(q)
    BY <2>2, <2>3, TokensUntouched
  <2>7. \A h \in Games : RowOf(h)' = RowOf(h)
    BY <2>1, <2>2, RowUntouched
  <2>8. \A h \in Games : SameTable(h)
    BY <2>7 DEF SameTable
  <2> QED BY <2>4, <2>5, <2>6, <2>8, Unseen
<1>6. CASE UpdateGame(s)
  <2>1. s.todo = {"game"} /\ Settle(s, "game") /\ player' = player
    BY <1>1, <1>6 DEF UpdateGame, Parts
  <2>2. settlements' = settlements \ {s}
    BY <2>1 DEF Settle
  <2>3. /\ game'[g] = s.row
        /\ \A h \in Games : h # g => game'[h] = game[h]
    BY <1>1, <1>2, <1>6, HalvesMatch DEF TypeOK, RepositoryTypeOK
  <2>4. RowOf(g) = s.row
    BY <1>3, <2>1 DEF HalvesMapped
  <2>5. RowOf(g)' = s.row
    <3>1. \A x \in settlements' : x.todo = {"game"} => x.game # g
      BY <1>4, <2>2
    <3> QED BY <1>3, <2>3, <3>1 DEF RestMapped
  <2>6. \A h \in Games : h # g => RowOf(h)' = RowOf(h)
    BY <2>2, <2>3, RowUntouched
  <2>7. \A h \in Games : RowOf(h)' = RowOf(h)
    BY <2>4, <2>5, <2>6
  <2>8. \A h \in Games : SameTable(h)
    BY <2>7 DEF SameTable
  <2>9. \A q \in Players : TokensOf(q)' = TokensOf(q)
    BY <2>1, <2>2, TokensUntouched
  <2> QED BY <2>8, <2>9, Unseen
<1> QED BY <1>5, <1>6

LEMMA TopUpSeen ==
  ASSUME RInv, RInv', NEW u \in topUps, UpdateTokens(u)
  PROVE  Abstract!CWNext
<1> DEFINE p == u.player
<1>1. /\ u.req \in Requests /\ Open(u.req) /\ input[u.req] \in TopUpInputs
      /\ p = input[u.req].player /\ p \in Players
      /\ TokenUpdateHits(u) /\ SettlementsOf(u.req) = {}
  BY TokenUpdateAlone
<1>2. /\ TypeOK /\ Apart /\ u.from \in Int32
  BY DEF RInv, SInv, FInv, IInv, TypeOK, TopUpRecords
<1>3. u.to \in TopUps /\ player[p] = u.from /\ u.from # Absent
  BY <1>1, <1>2, RepositoryAssumption DEF TokenUpdateHits, TopUpInputs, Int32
<1>4. UNCHANGED <<game, settlements>>
  BY DEF UpdateTokens
<1>5. /\ player'[p] = u.to
      /\ \A q \in Players : q # p => player'[q] = player[q]
  BY <1>1, <1>2, <1>3 DEF UpdateTokens, CasPlayer, TypeOK, RepositoryTypeOK
<1>6. \A s \in settlements : s.player # p
  <2> SUFFICES ASSUME NEW s \in settlements, s.player = p PROVE FALSE
    OBVIOUS
  <2>1. /\ s.req \in Requests /\ Open(s.req) /\ input[s.req].player = p
        /\ s \in SettlementsOf(s.req)
    BY SettlementAlone
  <2>2. s.req = u.req
    BY <1>1, <1>2, <2>1 DEF Apart
  <2> QED BY <1>1, <2>1, <2>2
<1>7. TokensOf(p) = u.from /\ TokensOf(p)' = u.to
  <2>1. RestMapped /\ RestMapped'
    BY WholeMapped, MappedNext
  <2> QED BY <1>3, <1>4, <1>5, <1>6, <2>1 DEF RestMapped
<1>8. \A q \in Players : q # p => TokensOf(q)' = TokensOf(q)
  BY <1>4, <1>5, TokensUntouched
<1>9. \A g \in Games : SameTable(g)
  <2>1. \A g \in Games : RowOf(g)' = RowOf(g)
    BY <1>4, RowUntouched
  <2> QED BY <2>1 DEF SameTable
<1>10. /\ Column("dealt")' = Column("dealt") /\ Column("shown")' = Column("shown")
       /\ Column("stake")' = Column("stake")
  BY <1>9, SameColumn
<1>11. Abstract!TopUp(p)
  BY <1>1, <1>3, <1>7, <1>8, <1>10, OnePlayer DEF Abstract!TopUp
<1> QED BY <1>1, <1>11 DEF Abstract!CWNext

LEMMA NextSeen ==
  ASSUME WaitingClients, NeverAtLastPair, RInv, RInv', [Next]_vars
  PROVE  [Abstract!CWNext]_(Abstract!cwVars)
<1>1. SInv /\ SInv'
  BY DEF RInv
<1>2. CASE Arrivals
  <2>1. UNCHANGED <<player, game>> /\ NoneHalfDone
    BY <1>2 DEF Arrivals, RequestBet, UpdatePlayerToken, Submit, NoneHalfDone
  <2> QED BY <2>1, QuietStep
<1>3. ASSUME NEW q \in reads, GetGame(q) \/ GetPlayer(q)
      PROVE  UNCHANGED Abstract!cwVars
  <2>1. UNCHANGED <<player, game>>
    BY <1>3 DEF GetGame, GetPlayer
  <2>2. NoneHalfDone
    BY <1>1, <1>3, ReadsStored, ArriveAtomic
  <2> QED BY <2>1, <2>2, QuietStep
<1>4. ASSUME NEW e \in extensions, UpdateGameDeck(e)
      PROVE  UNCHANGED Abstract!cwVars
  BY <1>1, <1>4, UpdateGameDeckAtomic, DeckStep
<1>5. ASSUME NEW s \in settlements, UpdatePlayer(s) \/ UpdateGame(s)
      PROVE  [Abstract!CWNext]_(Abstract!cwVars)
  BY <1>5, FirstHalfSeen, SecondHalfUnseen
<1>6. ASSUME NEW u \in topUps, UpdateTokens(u)
      PROVE  Abstract!CWNext
  BY <1>6, TopUpSeen
<1>7. CASE Statements
  BY <1>3, <1>4, <1>5, <1>6, <1>7 DEF Statements
<1>8. CASE StatementFaults \/ Crash
  <2>1. ~ Fault
    BY <1>1, NoFault DEF SInv
  <2> QED
    BY <1>8, <2>1
       DEF StatementFaults, FailRead, FailExtension, FailSettlement, FailTokens, Crash
<1>9. CASE UNCHANGED vars
  <2>1. UNCHANGED <<player, game>> /\ NoneHalfDone
    BY <1>9 DEF vars, NoneHalfDone
  <2> QED BY <2>1, QuietStep
<1> QED BY <1>2, <1>7, <1>8, <1>9 DEF Next

LEMMA InitSeen == Init => Abstract!CWInit
<1> SUFFICES ASSUME Init PROVE Abstract!CWInit
  OBVIOUS
<1>1. /\ player = StartTokens /\ game \in StartGames /\ settlements = {}
  BY DEF Init, RepositoryInit
<1>2. /\ \A p : TokensOf(p) = StartTokens[p]
      /\ \A g : RowOf(g) = game[g]
  BY <1>1, WholeMapped DEF RestMapped
<1>3. [p \in Players |-> TokensOf(p)] = StartTokens
  BY <1>2, RepositoryAssumption
<1> DEFINE tables == [g \in Games |-> TableOf(game[g])]
<1>4. tables \in {[g \in Games |-> TableOf(rows[g])] : rows \in StartGames}
  BY <1>1
<1>5. \A g \in Games : tables[g] = Absent <=> game[g] = Absent
  <2> SUFFICES ASSUME NEW g \in Games, game[g] # Absent PROVE TableOf(game[g]) # Absent
    BY DEF TableOf
  <2>1. game[g] \in Row /\ TopInDeck(game[g])
    BY <1>1, RepositoryAssumption, StartGamesAssumption
  <2>2. /\ game[g].top \in Nat /\ game[g].table \in NatInt32
        /\ game[g].deck \in Seq(CardIds) /\ game[g].top <= Len(game[g].deck)
    BY <2>1 DEF Row, TopInDeck
  <2>3. ShownOf(game[g]) \in Seq(CardIds)
    <3>1. CASE game[g].top < 2
      BY <3>1 DEF ShownOf
    <3>2. CASE game[g].top >= 2
      <4>1. game[g].top - 2 \in Nat /\ (game[g].top - 2) + 2 <= Len(game[g].deck)
        BY <2>2, <3>2
      <4> QED BY <2>1, <2>2, <3>2, <4>1, CardsType DEF ShownOf
    <3> QED BY <2>2, <3>1, <3>2
  <2> QED BY <2>2, <2>3, NoTableAssumption DEF TableOf
<1>6. \A field : Column(field) =
        [g \in Games |-> IF tables[g] = Absent THEN Absent ELSE tables[g][field]]
  BY <1>2, <1>5 DEF Column
<1> HIDE DEF tables
<1> QED BY <1>3, <1>4, <1>6 DEF Abstract!CWInit

-----------------------------------------------------------------------------
\* Away from the last pair of a deck, the statements of waiting clients never
\* miss: what an open bet or top-up read is still stored, and each half of a
\* settlement finds the token_count or top_card_index that it compares.
THEOREM AtomicInvariance ==
  ASSUME WaitingClients
  PROVE  Spec /\ []NeverAtLastPair => []RInv
<1>1. NeverAtLastPair /\ RInv /\ [Next]_vars => RInv'
  BY NextRInv
<1> QED BY <1>1, InitRInv, PTL DEF Spec

\* Served to clients that wait for their answers (Exclusive) by a server whose
\* statements succeed (MaxFaults = 0), the pair of UPDATEs of handleBet, of a
\* lost or tied war and of handleForfeit is one step of the abstract game, an
\* extension of the deck none, and nothing else happens to tokens, cards or
\* stakes: as long as no game is between two rounds with one pair of cards
\* left, where handleBet settles twice.
THEOREM ImplementsTheGame ==
  ASSUME WaitingClients
  PROVE  Spec /\ []NeverAtLastPair => ImplementsCasinoWar
<1>1. Spec /\ []NeverAtLastPair => []RInv
  BY AtomicInvariance
<1>2. NeverAtLastPair /\ RInv /\ RInv' /\ [Next]_vars
        => [Abstract!CWNext]_(Abstract!cwVars)
  BY NextSeen
<1> QED
  BY <1>1, <1>2, InitSeen, PTL DEF Spec, ImplementsCasinoWar, Abstract!CWSpec
=============================================================================
