---------------------------- MODULE SerialProofs ----------------------------
(***************************************************************************)
(* Proofs about what clients that wait for their answers are told, by a    *)
(* server whose statements succeed, for all values of the other constants: *)
(* the cards they are shown were dealt from their game, and each war was   *)
(* resolved once.  Both hold at the last pair of a deck too, where one bet *)
(* settles twice.                                                          *)
(***************************************************************************)
EXTENDS SerialPlay, FlightProofs, FiniteSetTheorems

\* The clients and the faults these proofs are about.
WaitingClients == Exclusive /\ MaxFaults = 0

Shows(row, cards) ==
  \E i \in 1 .. row.top - 1 : cards = <<row.deck[i], row.deck[i + 1]>>

WonWar(reply) == reply.by = "war" /\ reply.result = "win"
Resolution(reply) == reply.by = "forfeit" \/ (reply.by = "war" /\ ~ WonWar(reply))
Opening(reply) == reply.by = "round" /\ reply.result = "war"

\* What a settlement replies fits the row it stores.
SettlementShape(s) ==
  /\ s.reply.status = 200 /\ s.reply.by \in {"round", "war", "forfeit"}
  /\ ~ WonWar(s.reply)
  /\ Deals(s) <=> s.reply.by # "forfeit"
  /\ Deals(s) => s.row.top >= 2
                 /\ s.reply.cards = <<s.row.deck[s.row.top - 1], s.row.deck[s.row.top]>>
  /\ ~ Deals(s) => s.reply.cards = <<>>
  /\ s.row.table > 0 => Opening(s.reply)

\* The game has what the settlement, or its twin, gives it.
Took(s) ==
  IF Deals(s) THEN s.cur < game[s.game].top ELSE "game" \notin s.todo

\* Nobody else moves the game of an open bet: what it read is still stored, and
\* a settlement the game has not got yet will match.
ReadServes(q) ==
  q.game \notin {Absent, Pending} => q.game = game[input[q.req].game]

ExtensionServes(e) ==
  \/ /\ e.cur = game[e.game].top /\ e.row.table = game[e.game].table
  \/ \E s \in SettlementsOf(e.req) : Took(s)

SettlementServes(s) ==
  IF Took(s)
    THEN /\ game[s.game].table = s.row.table
         /\ Deals(s) => Shows(game[s.game], s.reply.cards)
    ELSE /\ game[s.game].top = s.cur
         /\ s.reply.by = "round" <=> game[s.game].table = 0

\* The two settlements of one bet say the same.
Twins(r) ==
  /\ \A s1, s2 \in SettlementsOf(r) :
       s1.reply = s2.reply /\ s1.row.table = s2.row.table
  /\ \A e \in ExtensionsOf(r), s \in SettlementsOf(r) :
       /\ e.row.top + 2 <= Len(e.row.deck)
       /\ RoundResponse(r, e.row) = s.reply
       /\ s.row.table = RoundStake(s.reply.result, input[r].bet)

SerialOK(r) ==
  /\ answer[r] # None /\ answer[r].status # 200 =>
       ExtensionsOf(r) = {} /\ SettlementsOf(r) = {} /\ answer[r].cards = <<>>
       /\ answer[r].by = "error"
  /\ answer[r] # None /\ answer[r].cards # <<>> /\ ~ WonWar(answer[r]) =>
       /\ input[r] \in BetInputs /\ game[input[r].game] # Absent
       /\ Shows(game[input[r].game], answer[r].cards)
  /\ \A s \in SettlementsOf(r) : SettlementShape(s)
  /\ Open(r) =>
       /\ \A q \in ReadsOf(r) : ReadServes(q)
       /\ \A e \in ExtensionsOf(r) : ExtensionServes(e)
       /\ \A s \in SettlementsOf(r) : SettlementServes(s)
       /\ Twins(r)

\* Open requests have nothing in common.
Apart ==
  \A r1, r2 \in Requests : Open(r1) /\ Open(r2) /\ r1 # r2 =>
    /\ input[r1].player # input[r2].player
    /\ input[r1].kind = "bet" /\ input[r2].kind = "bet" =>
         input[r1].game # input[r2].game

\* Whether a war stands on a game, as far as clients were told: a bet that is
\* being settled found one, or the stake is still on the table.
Settling(g) == {s \in settlements : Open(s.req) /\ s.game = g}
Standing(g) ==
  IF Settling(g) = {}
    THEN game[g] # Absent /\ game[g].table > 0
    ELSE \E s \in Settling(g) : s.reply.by # "round"

WarsCounted(g) ==
  Cardinality(WarsResolved(g)) + (IF Standing(g) THEN 1 ELSE 0)
    <= Cardinality(WarsOpened(g)) + WarsAtStart(g)

SInv ==
  /\ FInv
  /\ faults = 0 /\ lost = {}
  /\ Apart
  /\ \A r \in Requests : SerialOK(r)

CInv == \A g \in Games : WarsCounted(g)

-----------------------------------------------------------------------------
(***************************************************************************)
(* What the handlers reply.                                                *)
(***************************************************************************)
RoundReplies(r, gm, rest) ==
  /\ \A e \in extensions' : e \in rest \/
       ( gm.top + 2 <= Len(gm.deck) =>
           /\ e.row.top + 2 <= Len(e.row.deck)
           /\ RoundResponse(r, e.row) = RoundResponse(r, gm) )
  /\ \A s \in settlements' : s \in settlements \/
       /\ SettlementShape(s) /\ s.reply = RoundResponse(r, gm)
       /\ s.reply.by = "round"
       /\ s.row.table = RoundStake(s.reply.result, input[r].bet)
       /\ gm.top + 2 <= Len(gm.deck)

WarReplies(r, rest) ==
  /\ \A s \in settlements' : s \in settlements \/
       /\ SettlementShape(s) /\ s.reply.by # "round" /\ s.row.table = 0
  /\ \/ answer' = answer
     \/ \E response \in Answers :
          /\ Respond(r, response) /\ response.status = 200 /\ WonWar(response)
          /\ extensions' = rest /\ settlements' = settlements

\* The longer deck deals the same round, when there was one to deal.
LEMMA ExtensionReplies ==
  ASSUME NEW r, NEW gm, NEW tokens, NEW newDeck \in Shuffles,
         Handling(r, gm, tokens), gm.top + 2 <= Len(gm.deck)
  PROVE  LET e == Extension(r, gm, tokens, newDeck)
         IN /\ e.row.top + 2 <= Len(e.row.deck)
            /\ RoundResponse(r, e.row) = RoundResponse(r, gm)
<1> DEFINE e == Extension(r, gm, tokens, newDeck)
           longer == gm.deck \o newDeck
<1>1. gm.deck \in Seq(CardIds) /\ gm.top \in Nat /\ newDeck \in Seq(CardIds)
  BY CardDeckAssumption DEF Handling, RowOK, Row
<1>2. /\ Len(longer) = Len(gm.deck) + Len(newDeck)
      /\ \A i \in 1 .. Len(gm.deck) : longer[i] = gm.deck[i]
  BY <1>1, ConcatProperties
<1>3. Len(gm.deck) \in Nat /\ Len(newDeck) \in Nat
  BY <1>1, LenProperties
<1>4. e.row.deck = longer /\ e.row.top = gm.top
  BY DEF Extension
<1> HIDE DEF e, longer
<1>5. CardsAt(e.row, e.row.top) = CardsAt(gm, gm.top)
  <2>1. gm.top + 1 \in 1 .. Len(gm.deck) /\ gm.top + 2 \in 1 .. Len(gm.deck)
    BY <1>1, <1>3
  <2>2. /\ longer[gm.top + 1] = gm.deck[gm.top + 1]
        /\ longer[gm.top + 2] = gm.deck[gm.top + 2]
    BY <1>2, <2>1
  <2> QED BY <1>4, <2>2 DEF CardsAt
<1>6. RoundResponse(r, e.row) = RoundResponse(r, gm)
  BY <1>5 DEF RoundResponse
<1>7. e.row.top + 2 <= Len(e.row.deck)
  BY <1>1, <1>2, <1>3, <1>4
<1> QED BY <1>6, <1>7 DEF e

LEMMA RoundShape ==
  ASSUME NEW r, NEW gm, NEW tokens, Handling(r, gm, tokens)
  PROVE  LET s == RoundSettlement(r, gm, tokens)
         IN /\ SettlementShape(s) /\ s.reply = RoundResponse(r, gm)
            /\ s.reply.by = "round"
            /\ s.row.table = RoundStake(s.reply.result, input[r].bet)
<1> DEFINE s == RoundSettlement(r, gm, tokens)
           cards == CardsAt(gm, gm.top)
<1>1. gm.top \in Nat
  BY DEF Handling, RowOK, Row
<1>2. /\ s.reply = RoundResponse(r, gm) /\ s.cur = gm.top
      /\ s.row.deck = gm.deck /\ s.row.top = gm.top + 2
      /\ s.row.table = RoundStake(s.reply.result, input[r].bet)
  BY DEF RoundSettlement, Settlement
<1>3. /\ s.reply.status = 200 /\ s.reply.by = "round" /\ s.reply.cards = cards
  BY <1>2 DEF RoundResponse, BetResponse
<1> HIDE DEF s
<1>4. s.row.table > 0 => Opening(s.reply)
  BY <1>2, <1>3 DEF RoundStake, Opening
<1>5. Deals(s) /\ s.row.top >= 2
      /\ cards = <<s.row.deck[s.row.top - 1], s.row.deck[s.row.top]>>
  <2>1. s.row.top > s.cur /\ s.row.top >= 2
        /\ gm.top + 1 = s.row.top - 1 /\ gm.top + 2 = s.row.top
    BY <1>1, <1>2
  <2> QED BY <1>2, <2>1 DEF Deals, CardsAt
<1>6. SettlementShape(s)
  BY <1>3, <1>4, <1>5 DEF SettlementShape, WonWar
<1> QED BY <1>2, <1>3, <1>6 DEF s

LEMMA HandleBetReplies ==
  ASSUME NEW r, NEW gm, NEW tokens, NEW rest, Handling(r, gm, tokens),
         HandleBet(r, gm, tokens, rest)
  PROVE  RoundReplies(r, gm, rest)
<1>1. \A e \in extensions' : e \in rest \/
        ( gm.top + 2 <= Len(gm.deck) =>
            /\ e.row.top + 2 <= Len(e.row.deck)
            /\ RoundResponse(r, e.row) = RoundResponse(r, gm) )
  BY ExtensionReplies DEF HandleBet, Extend
<1>2. \A s \in settlements' : s \in settlements \/
        (s = RoundSettlement(r, gm, tokens) /\ gm.top + 2 <= Len(gm.deck))
  BY DEF HandleBet
<1> QED BY <1>1, <1>2, RoundShape DEF RoundReplies

LEMMA HandleWarReplies ==
  ASSUME NEW r, NEW gm, NEW tokens, NEW rest, Handling(r, gm, tokens),
         HandleWar(r, gm, tokens, rest)
  PROVE  WarReplies(r, rest)
<1> DEFINE response == WarResponse(r, gm)
           s == Settlement(r, gm, tokens, gm.top + 5, 0, response)
           cards == CardsAt(gm, gm.top + 3)
<1>1. gm.top \in Nat
  BY DEF Handling, RowOK, Row
<1>2. response.status = 200 /\ response.by = "war" /\ response.cards = cards
  BY DEF WarResponse, BetResponse
<1>3. CASE NeedsDeck(gm, gm.top + 3)
  BY <1>3 DEF HandleWar, WarReplies
<1>4. CASE ~ NeedsDeck(gm, gm.top + 3) /\ response.result = "win"
  <2>1. response \in Answers
    BY <1>4, WarResponseType
  <2>2. /\ extensions' = rest /\ settlements' = settlements /\ Respond(r, response)
    BY <1>4 DEF HandleWar
  <2> HIDE DEF response
  <2> QED BY <1>2, <1>4, <2>1, <2>2 DEF WarReplies, WonWar
<1>5. CASE ~ NeedsDeck(gm, gm.top + 3) /\ response.result # "win"
  <2>1. /\ s.reply = response /\ s.cur = gm.top /\ s.row.deck = gm.deck
        /\ s.row.top = gm.top + 5 /\ s.row.table = 0
    BY DEF Settlement
  <2>2. settlements' = settlements \cup {s} /\ answer' = answer
    BY <1>5 DEF HandleWar
  <2> HIDE DEF response, s
  <2>3. Deals(s) /\ s.row.top >= 2
        /\ cards = <<s.row.deck[s.row.top - 1], s.row.deck[s.row.top]>>
    <3>1. s.row.top > s.cur /\ s.row.top >= 2
          /\ (gm.top + 3) + 1 = s.row.top - 1 /\ (gm.top + 3) + 2 = s.row.top
      BY <1>1, <2>1
    <3> QED BY <2>1, <3>1 DEF Deals, CardsAt
  <2>4. SettlementShape(s) /\ s.reply.by # "round"
    BY <1>2, <1>5, <2>1, <2>3 DEF SettlementShape, WonWar
  <2> QED BY <2>1, <2>2, <2>4 DEF WarReplies
<1> QED BY <1>3, <1>4, <1>5

LEMMA HandleForfeitReplies ==
  ASSUME NEW r, NEW gm, NEW tokens, Handling(r, gm, tokens),
         HandleForfeit(r, gm, tokens)
  PROVE  WarReplies(r, extensions)
<1> DEFINE response == BetResponse("forfeit", "surrender", ForfeitTokens(gm.table), <<>>)
           s == Settlement(r, gm, tokens, gm.top, 0, response)
<1>1. gm.top \in Nat
  BY DEF Handling, RowOK, Row
<1>2. /\ s.reply.status = 200 /\ s.reply.by = "forfeit" /\ s.reply.cards = <<>>
      /\ s.cur = gm.top /\ s.row.top = gm.top /\ s.row.table = 0
  BY DEF Settlement, BetResponse
<1>3. settlements' = settlements \cup {s} /\ answer' = answer
  BY DEF HandleForfeit
<1> HIDE DEF s
<1>4. ~ Deals(s)
  BY <1>1, <1>2 DEF Deals
<1> QED BY <1>2, <1>3, <1>4 DEF WarReplies, SettlementShape, WonWar

\* What a bet that has read both rows leads to.
Nothing(rest) ==
  extensions' = rest /\ UNCHANGED <<settlements, answer>>

Refusing(r, rest) ==
  /\ extensions' = rest /\ settlements' = settlements
  /\ Respond(r, ErrorResponse(409))

Serving(r, gm, rest) ==
  \/ RoundStep(r, gm, rest) /\ RoundReplies(r, gm, rest) /\ gm.table = 0
  \/ WarStep(r, gm, rest) /\ WarReplies(r, rest) /\ gm.table > 0

LEMMA ServeBetReplies ==
  ASSUME TypeOK, NEW r \in Requests, input[r] \in BetInputs,
         NEW gm \in Row \cup {Absent}, gm # Absent => RowOK(gm),
         NEW tokens \in Int32 \cup {Absent},
         ServeBet(r, gm, tokens)
  PROVE  \/ Nothing(extensions)
         \/ Refusing(r, extensions)
         \/ gm # Absent /\ Serving(r, gm, extensions)
<1>1. CASE gm = Absent \/ tokens = Absent \/ input[r].bet = Omitted
  BY <1>1 DEF ServeBet, Nothing
<1>2. CASE gm # Absent /\ tokens # Absent /\ input[r].bet # Omitted
  <2>1. Handling(r, gm, tokens)
    BY <1>2 DEF Handling
  <2>2. CASE Respond(r, ErrorResponse(409)) /\ UNCHANGED <<extensions, settlements>>
    BY <2>2 DEF Refusing
  <2>3. CASE gm.table = 0 /\ HandleBet(r, gm, tokens, extensions)
    BY <1>2, <2>1, <2>3, HandleBetStep, HandleBetReplies DEF Serving
  <2>4. CASE gm.table > 0 /\ HandleForfeit(r, gm, tokens)
    BY <1>2, <2>1, <2>4, HandleForfeitStep, HandleForfeitReplies DEF Serving
  <2>5. CASE gm.table > 0 /\ HandleWar(r, gm, tokens, extensions)
    BY <1>2, <2>1, <2>5, HandleWarStep, HandleWarReplies DEF Serving
  <2> QED BY <1>2, <2>2, <2>3, <2>4, <2>5 DEF ServeBet
<1> QED BY <1>1, <1>2

-----------------------------------------------------------------------------
(***************************************************************************)
(* What a step leaves as it was.                                           *)
(***************************************************************************)
\* Only the game of an open bet changes.
GameAlone(r) ==
  \A g \in Games : game'[g] # game[g] =>
    Open(r) /\ input[r] \in BetInputs /\ g = input[r].game

LEMMA ShowsKept ==
  ASSUME NEW old, NEW new, NEW cards, old \in Row, RowGrows(old, new),
         Shows(old, cards)
  PROVE  Shows(new, cards)
<1>1. old.top \in Nat /\ new.top \in Nat /\ old.top <= new.top
  BY DEF RowGrows, RowOK, Row
<1>2. PICK i \in 1 .. old.top - 1 : cards = <<old.deck[i], old.deck[i + 1]>>
  BY DEF Shows
<1>3. i \in 1 .. old.top /\ i + 1 \in 1 .. old.top /\ i \in 1 .. new.top - 1
  BY <1>1
<1>4. old.deck[i] = new.deck[i] /\ old.deck[i + 1] = new.deck[i + 1]
  BY <1>3 DEF RowGrows, SameCards
<1> QED BY <1>2, <1>3, <1>4 DEF Shows

LEMMA NoFault == ASSUME WaitingClients, faults = 0 PROVE ~ Fault
BY DEF WaitingClients, Fault

LEMMA ApartKept ==
  ASSUME Apart, UNCHANGED <<input, lost>>,
         \A r \in Requests : answer[r] # None => answer'[r] # None
  PROVE  Apart'
BY DEF Apart, Open

\* The games of what a bet has in flight.
LEMMA FlightGame ==
  ASSUME FInv, NEW r \in Requests
  PROVE  /\ \A e \in ExtensionsOf(r) : e.game = input[r].game
         /\ \A s \in SettlementsOf(r) : s.game = input[r].game
         /\ ExtensionsOf(r) \cup SettlementsOf(r) # {} =>
              input[r] \in BetInputs /\ input[r].game \in Games
         /\ \A q \in ReadsOf(r) : q.game \notin {Absent, Pending} =>
              input[r] \in BetInputs /\ input[r].game \in Games
BY DEF FInv, IInv, ExtensionOK, ReadOK, FlightOK, BetFits, ExtensionsOf,
   ReadsOf, BetInputs

\* The requests that have no part in a step.
LEMMA SerialKept ==
  ASSUME SInv, GameStep, NEW r \in Requests, OnlyTouches(r), GameAlone(r),
         NEW o \in Requests, o # r
  PROVE  SerialOK(o)'
<1>1. FInv /\ IInv /\ SerialOK(o)
  BY DEF SInv, FInv
<1>2. /\ ReadsOf(o)' = ReadsOf(o) /\ ExtensionsOf(o)' = ExtensionsOf(o)
      /\ SettlementsOf(o)' = SettlementsOf(o)
      /\ answer'[o] = answer[o] /\ input'[o] = input[o]
      /\ Open(o)' = Open(o)
  BY UntouchedSame DEF SameRequest, OnlyTouches, Open
<1>3. /\ answer[o] # None /\ answer[o].status # 200 =>
           ExtensionsOf(o)' = {} /\ SettlementsOf(o)' = {}
           /\ answer[o].cards = <<>> /\ answer[o].by = "error"
      /\ \A s \in SettlementsOf(o)' : SettlementShape(s)
  BY <1>1, <1>2 DEF SerialOK
<1>4. answer[o] # None /\ answer[o].cards # <<>> /\ ~ WonWar(answer[o]) =>
        /\ input[o] \in BetInputs /\ game'[input[o].game] # Absent
        /\ Shows(game'[input[o].game], answer[o].cards)
  <2> SUFFICES ASSUME answer[o] # None, answer[o].cards # <<>>, ~ WonWar(answer[o])
               PROVE  /\ input[o] \in BetInputs /\ game'[input[o].game] # Absent
                      /\ Shows(game'[input[o].game], answer[o].cards)
    OBVIOUS
  <2>1. /\ input[o] \in BetInputs /\ game[input[o].game] # Absent
        /\ Shows(game[input[o].game], answer[o].cards)
    BY <1>1 DEF SerialOK
  <2>2. input[o].game \in Games
    BY <2>1 DEF BetInputs
  <2>3. /\ game[input[o].game] \in Row /\ game'[input[o].game] # Absent
        /\ RowGrows(game[input[o].game], game'[input[o].game])
    BY <1>1, <2>1, <2>2 DEF GameStep, IInv, RowOK
  <2> QED BY <2>1, <2>3, ShowsKept
<1>5. Open(o) =>
        /\ \A q \in ReadsOf(o) : ReadServes(q)'
        /\ \A e \in ExtensionsOf(o) : ExtensionServes(e)'
        /\ \A s \in SettlementsOf(o) : SettlementServes(s)'
        /\ Twins(o)'
  <2> SUFFICES ASSUME Open(o)
               PROVE  /\ \A q \in ReadsOf(o) : ReadServes(q)'
                      /\ \A e \in ExtensionsOf(o) : ExtensionServes(e)'
                      /\ \A s \in SettlementsOf(o) : SettlementServes(s)'
                      /\ Twins(o)'
    OBVIOUS
  <2>1. input[o] \in BetInputs => game'[input[o].game] = game[input[o].game]
    BY <1>1 DEF GameAlone, SInv, Apart, BetInputs
  <2>2. \A q \in ReadsOf(o) : ReadServes(q)'
    BY <1>1, <1>2, <2>1, FlightGame DEF SerialOK, ReadServes, ReadsOf
  <2>3. \A s \in SettlementsOf(o) : Took(s)' = Took(s) /\ SettlementServes(s)'
    BY <1>1, <2>1, FlightGame DEF SerialOK, SettlementServes, Took
  <2>4. \A e \in ExtensionsOf(o) : ExtensionServes(e)'
    <3> SUFFICES ASSUME NEW e \in ExtensionsOf(o) PROVE ExtensionServes(e)'
      OBVIOUS
    <3>1. e.req = o /\ game'[e.game] = game[e.game]
      BY <1>1, <2>1, FlightGame DEF ExtensionsOf
    <3>2. \/ e.cur = game[e.game].top /\ e.row.table = game[e.game].table
          \/ \E s \in SettlementsOf(o) : Took(s)
      BY <1>1, <3>1 DEF SerialOK, ExtensionServes
    <3> QED BY <1>2, <2>3, <3>1, <3>2 DEF ExtensionServes
  <2>5. Twins(o)'
    BY <1>1, <1>2 DEF SerialOK, Twins, RoundResponse
  <2> QED BY <2>2, <2>3, <2>4, <2>5
<1> QED BY <1>2, <1>3, <1>4, <1>5 DEF SerialOK

LEMMA SerialPreserves ==
  ASSUME SInv, FInv', GameStep, NEW r \in Requests, OnlyTouches(r), GameAlone(r),
         Apart', UNCHANGED <<lost, faults>>, SerialOK(r)'
  PROVE  SInv'
<1>1. \A o \in Requests : SerialOK(o)'
  BY SerialKept
<1> QED BY <1>1 DEF SInv, OnlyTouches

-----------------------------------------------------------------------------
(***************************************************************************)
(* The steps of one request.                                               *)
(***************************************************************************)
LEMMA SubmitSerial ==
  ASSUME WaitingClients, SInv, NEW r \in Requests, NEW in \in Inputs, NEW awaited,
         \/ awaited = Absent /\ in \in TopUpInputs
         \/ awaited = Pending /\ in \in BetInputs,
         Submit(r, in, awaited)
  PROVE  SInv'
<1> DEFINE q == [req |-> r, game |-> awaited, player |-> Pending]
<1>1. FInv /\ IInv /\ TypeOK /\ FlightOK(r) /\ input[r] = None
  BY DEF SInv, FInv, IInv, Submit
<1>2. FInv'
  BY <1>1, SubmitFlight
<1>3. /\ reads' = reads \cup {q} /\ input'[r] = in
      /\ \A o \in Requests : o # r => input'[o] = input[o]
      /\ UNCHANGED <<player, game, extensions, settlements, topUps, answer, lost,
                     faults>>
  BY <1>1 DEF Submit, TypeOK
<1>4. /\ ReadsOf(r)' = {q} /\ ExtensionsOf(r)' = {} /\ SettlementsOf(r)' = {}
      /\ answer'[r] = None
  BY <1>1, <1>3
     DEF FlightOK, Unsent, ReadsOf, ExtensionsOf, SettlementsOf
<1>5. q.req = r /\ q.game \in {Absent, Pending}
  OBVIOUS
<1> HIDE DEF q
<1>6. SerialOK(r)'
  BY <1>4, <1>5 DEF SerialOK, ReadServes, Twins
<1>7. OnlyTouches(r) /\ GameAlone(r) /\ GameStep
  BY <1>1, <1>3, <1>5, GameUnchanged DEF OnlyTouches, GameAlone
<1>8. Apart'
  <2>1. \A o \in Requests : o # r => Open(o)' = Open(o)
    BY <1>3 DEF Open
  <2>2. \A o \in Requests : Open(o) =>
          /\ input[o].player # in.player
          /\ in.kind = "bet" /\ input[o].kind = "bet" => input[o].game # in.game
    BY DEF WaitingClients, Submit, Admissible
  <2> QED BY <1>3, <2>1, <2>2 DEF SInv, Apart
<1> QED BY <1>2, <1>3, <1>6, <1>7, <1>8, SerialPreserves

\* A war or a forfeit on the row that is stored.
LEMMA WarSerial ==
  ASSUME SInv, NEW r \in Requests, NEW gm, NEW rest \in SUBSET extensions,
         Open(r), input[r] \in BetInputs, RowOK(gm), gm.table > 0,
         UNCHANGED <<input, lost>>, gm = game'[input[r].game],
         ReadsOf(r)' = {}, SettlementsOf(r) = {}, \A e \in rest : e.req # r,
         WarStep(r, gm, rest), WarReplies(r, rest)
  PROVE  SerialOK(r)'
<1>1. FInv /\ TypeOK /\ answer[r] = None /\ input'[r] = input[r]
  BY DEF SInv, FInv, IInv, Open
<1>2. gm.top \in Nat /\ gm.table \in Nat
  BY IntLimitAssumption DEF RowOK, Row, NatInt32
<1>3. CASE /\ \E response \in Answers : /\ Respond(r, response)
                                        /\ response.status = 200
                                        /\ WonWar(response)
           /\ extensions' = rest /\ settlements' = settlements
  <2>1. /\ answer'[r] # None /\ answer'[r].status = 200 /\ WonWar(answer'[r])
        /\ ~ Open(r)'
    BY <1>1, <1>3, RespondOnce, NoAnswerAssumption DEF SInv, Open
  <2>2. SettlementsOf(r)' = {}
    BY <1>3 DEF SettlementsOf
  <2> QED BY <2>1, <2>2 DEF SerialOK
<1>4. CASE answer' = answer
  <2>1. \A e \in ExtensionsOf(r)' : NewExtension(e, r, gm)
    BY DEF WarStep, ExtensionsOf
  <2>2. \A s \in SettlementsOf(r)' :
          /\ NewSettlement(s, r, gm) /\ SettlementShape(s)
          /\ s.reply.by # "round" /\ s.row.table = 0
    BY DEF WarStep, WarReplies, SettlementsOf
  <2>3. /\ \A s1, s2 \in SettlementsOf(r)' : s1 = s2
        /\ ExtensionsOf(r)' = {} \/ SettlementsOf(r)' = {}
    BY DEF WarStep, ExtensionsOf, SettlementsOf
  <2>4. \A e \in ExtensionsOf(r)' : ExtensionServes(e)'
    BY <2>1 DEF NewExtension, ExtensionServes
  <2>5. ASSUME NEW s \in SettlementsOf(r)' PROVE SettlementServes(s)'
    <3>1. s.cur = gm.top /\ s.game = input[r].game /\ s.todo = Parts
      BY <2>2 DEF NewSettlement
    <3>2. ~ Took(s)'
      BY <1>2, <3>1 DEF Took, Parts
    <3> QED BY <1>2, <2>2, <3>1, <3>2 DEF SettlementServes
  <2>6. Twins(r)'
    BY <2>3 DEF Twins
  <2>7. answer'[r] = None
    BY <1>1, <1>4
  <2> QED BY <2>2, <2>4, <2>5, <2>6, <2>7 DEF SerialOK
<1> QED BY <1>3, <1>4 DEF WarReplies

\* A round on the row that is stored, or beside a settlement the game has got:
\* then this one is its twin.
LEMMA RoundSerial ==
  ASSUME SInv, NEW r \in Requests, NEW gm, NEW rest \in SUBSET extensions,
         Open(r), input[r] \in BetInputs, RowOK(gm), gm.table = 0,
         UNCHANGED <<input, lost>>,
         ReadsOf(r)' = {}, \A e \in rest : e.req # r,
         \A s \in SettlementsOf(r) :
           /\ s.cur = gm.top /\ Deals(s) /\ SettlementServes(s)'
           /\ gm.top + 2 <= Len(gm.deck) /\ RoundResponse(r, gm) = s.reply
           /\ s.row.table = RoundStake(s.reply.result, input[r].bet),
         \/ gm.top = game'[input[r].game].top /\ game'[input[r].game].table = 0
         \/ \E s \in SettlementsOf(r) : Took(s)',
         RoundStep(r, gm, rest), RoundReplies(r, gm, rest)
  PROVE  SerialOK(r)'
<1>1. FInv /\ TypeOK /\ answer[r] = None /\ answer'[r] = None /\ input'[r] = input[r]
  BY DEF SInv, FInv, IInv, Open, RoundStep
<1>2. gm.top \in Nat
  BY DEF RowOK, Row
<1>3. ASSUME NEW e \in ExtensionsOf(r)'
      PROVE  /\ NewExtension(e, r, gm)
             /\ gm.top + 2 <= Len(gm.deck) =>
                  /\ e.row.top + 2 <= Len(e.row.deck)
                  /\ RoundResponse(r, e.row) = RoundResponse(r, gm)
  BY DEF RoundStep, RoundReplies, ExtensionsOf
<1>4. SettlementsOf(r) \subseteq SettlementsOf(r)'
  BY DEF RoundStep, SettlementsOf
<1>5. ASSUME NEW s \in SettlementsOf(r)', s \notin SettlementsOf(r)
      PROVE  /\ NewSettlement(s, r, gm) /\ SettlementShape(s) /\ s.row.top > s.cur
             /\ s.reply.by = "round"
  BY <1>5 DEF RoundStep, RoundReplies, SettlementsOf
<1>6. ASSUME NEW s \in SettlementsOf(r)'
      PROVE  /\ SettlementShape(s)
             /\ gm.top + 2 <= Len(gm.deck) /\ s.reply = RoundResponse(r, gm)
             /\ s.row.table = RoundStake(s.reply.result, input[r].bet)
  <2>1. CASE s \in SettlementsOf(r)
    BY <2>1 DEF SInv, SerialOK
  <2>2. CASE s \notin SettlementsOf(r)
    BY <2>2 DEF RoundReplies, SettlementsOf
  <2> QED BY <2>1, <2>2
<1>7. \A e \in ExtensionsOf(r)' : ExtensionServes(e)'
  <2> SUFFICES ASSUME NEW e \in ExtensionsOf(r)' PROVE ExtensionServes(e)'
    OBVIOUS
  <2>1. e.req = r /\ e.cur = gm.top /\ e.row.table = 0 /\ e.game = input[r].game
    BY <1>3 DEF NewExtension
  <2> QED BY <1>4, <2>1 DEF ExtensionServes
<1>8. ASSUME NEW s \in SettlementsOf(r)' PROVE SettlementServes(s)'
  <2>1. CASE s \in SettlementsOf(r)
    BY <2>1
  <2>2. CASE s \notin SettlementsOf(r)
    <3>1. /\ s.cur = gm.top /\ s.game = input[r].game /\ s.reply.by = "round"
          /\ Deals(s)
      BY <1>5, <2>2 DEF NewSettlement, Deals
    <3>2. CASE gm.top = game'[input[r].game].top /\ game'[input[r].game].table = 0
      <4>1. ~ Took(s)'
        BY <1>2, <3>1, <3>2 DEF Took
      <4> QED BY <3>1, <3>2, <4>1 DEF SettlementServes
    <3>3. CASE \E s0 \in SettlementsOf(r) : Took(s0)'
      <4>1. PICK s0 \in SettlementsOf(r) : Took(s0)'
        BY <3>3
      <4>2. /\ s0.cur = gm.top /\ s0.game = input[r].game /\ Deals(s0)
            /\ SettlementServes(s0)'
            /\ s0.reply = s.reply /\ s0.row.table = s.row.table
        BY <1>1, <1>6, <2>2, FlightGame
      <4>3. Took(s)'
        BY <3>1, <4>1, <4>2 DEF Took
      <4> QED BY <3>1, <4>1, <4>2, <4>3 DEF SettlementServes
    <3> QED BY <3>2, <3>3
  <2> QED BY <2>1, <2>2
<1>9. Twins(r)'
  <2>1. \A row : RoundResponse(r, row)' = RoundResponse(r, row)
    BY <1>1 DEF RoundResponse
  <2> QED BY <1>1, <1>3, <1>6, <2>1 DEF Twins
<1> QED BY <1>1, <1>6, <1>7, <1>8, <1>9 DEF SerialOK

\* A handler adds to what its own request has in flight.
LEMMA HandlerTouches ==
  ASSUME TypeOK, NEW r \in Requests, NEW gm, NEW rest \in SUBSET extensions,
         RoundStep(r, gm, rest) \/ WarStep(r, gm, rest),
         \A e \in extensions \ rest : e.req = r,
         \A q \in reads \cup reads' : q.req # r => (q \in reads' <=> q \in reads),
         UNCHANGED <<input, lost>>
  PROVE  OnlyTouches(r)
<1>1. \A e \in extensions \cup extensions' :
        e.req # r => (e \in extensions' <=> e \in extensions)
  BY DEF RoundStep, WarStep, NewExtension
<1>2. \A s \in settlements \cup settlements' :
        s.req # r => (s \in settlements' <=> s \in settlements)
  BY DEF RoundStep, WarStep, NewSettlement
<1>3. \A o \in Requests : o # r => answer'[o] = answer[o]
  BY RespondOnce DEF RoundStep, WarStep
<1> QED BY <1>1, <1>2, <1>3 DEF OnlyTouches

\* What is left when the SELECTs of a request have run.
LEMMA ArriveSerial ==
  ASSUME SInv, FInv', NEW q \in reads, NEW now, ReadOK(now), now.req = q.req,
         now.game \notin {Absent, Pending} => now.game = game[input[q.req].game],
         Arrive(q, now), UNCHANGED <<player, game, input, lost, faults>>
  PROVE  SInv'
<1> DEFINE r == q.req
<1>1. /\ FInv /\ IInv /\ TypeOK /\ FlightOK(r) /\ r \in Requests
      /\ input[r] \in Inputs /\ input[r] # None
  BY NoneAssumption DEF SInv, FInv, IInv, ReadOK, ReadRecords
<1>2. /\ q \in ReadsOf(r) /\ ReadsOf(r) = {q}
      /\ ExtensionsOf(r) = {} /\ SettlementsOf(r) = {} /\ answer[r] = None
  BY <1>1 DEF FlightOK, ReadsAlone, ReadsOf
<1>3. Open(r) /\ r \notin lost
  BY <1>1, <1>2 DEF SInv, Open
<1>4. GameStep /\ GameAlone(r)
  BY <1>1, GameUnchanged DEF GameAlone
<1>5. ASSUME OnlyTouches(r) PROVE Apart'
  <2>1. \A o \in Requests : answer[o] # None => answer'[o] # None
    BY <1>2, <1>5 DEF OnlyTouches
  <2> QED BY <2>1, ApartKept DEF SInv
<1>6. CASE now.game = Pending \/ now.player = Pending
  <2>1. /\ reads' = (reads \ {q}) \cup {now}
        /\ UNCHANGED <<extensions, settlements, topUps, answer>>
    BY <1>6 DEF Arrive
  <2>2. /\ ReadsOf(r)' = {now} /\ ExtensionsOf(r)' = {} /\ SettlementsOf(r)' = {}
    BY <1>2, <2>1 DEF ReadsOf, ExtensionsOf, SettlementsOf
  <2>3. OnlyTouches(r)
    BY <2>1 DEF OnlyTouches
  <2>4. ReadServes(now)'
    BY DEF ReadServes
  <2>5. SerialOK(r)'
    BY <1>2, <2>1, <2>2, <2>4 DEF SerialOK, Twins
  <2> QED BY <1>1, <1>4, <1>5, <2>3, <2>5, SerialPreserves
<1>7. CASE now.game # Pending /\ now.player # Pending /\ input[r].kind = "bet"
  <2>1. /\ reads' = reads \ {q} /\ topUps' = topUps
        /\ ServeBet(r, now.game, now.player)
    BY <1>7 DEF Arrive
  <2>2. ReadsOf(r)' = {} /\ input[r] \in BetInputs
    BY <1>1, <1>2, <1>7, <2>1 DEF ReadsOf, Inputs, TopUpInputs
  <2>3. /\ now.game \in Row \cup {Absent} /\ now.player \in Int32 \cup {Absent}
        /\ now.game # Absent => RowOK(now.game) /\ now.game = game'[input[r].game]
    BY <1>7 DEF ReadOK, ReadRecords
  <2>4. \/ Nothing(extensions)
        \/ Refusing(r, extensions)
        \/ now.game # Absent /\ Serving(r, now.game, extensions)
    BY <1>1, <2>1, <2>2, <2>3, ServeBetReplies
  <2>5. \A e \in extensions : e.req # r
    BY <1>2 DEF ExtensionsOf
  <2>6. CASE Nothing(extensions)
    <3>1. ExtensionsOf(r)' = {} /\ SettlementsOf(r)' = {} /\ answer' = answer
      BY <1>2, <2>6 DEF Nothing, ExtensionsOf, SettlementsOf
    <3>2. SerialOK(r)'
      BY <1>2, <2>2, <3>1 DEF SerialOK, Twins
    <3>3. OnlyTouches(r)
      BY <2>1, <2>6 DEF Nothing, OnlyTouches
    <3> QED BY <1>1, <1>4, <1>5, <3>2, <3>3, SerialPreserves
  <2>7. CASE Refusing(r, extensions)
    <3>1. ExtensionsOf(r)' = {} /\ SettlementsOf(r)' = {}
      BY <1>2, <2>7 DEF Refusing, ExtensionsOf, SettlementsOf
    <3>2. /\ answer'[r] = ErrorResponse(409)
          /\ \A o \in Requests : o # r => answer'[o] = answer[o]
      BY <1>1, <1>3, <2>7, FixedResponses, RespondOnce DEF Refusing, Open
    <3>3. answer'[r] # None
      BY <3>2, FixedResponses, NoAnswerAssumption
    <3>4. SerialOK(r)'
      BY <3>1, <3>2, <3>3 DEF SerialOK, ErrorResponse, Open
    <3>5. OnlyTouches(r)
      BY <2>1, <2>7, <3>2 DEF Refusing, OnlyTouches
    <3> QED BY <1>1, <1>4, <1>5, <3>4, <3>5, SerialPreserves
  <2>8. CASE now.game # Absent /\ Serving(r, now.game, extensions)
    <3> DEFINE gm == now.game
    <3>1. RowOK(gm) /\ gm = game'[input[r].game]
      BY <2>3, <2>8
    <3> HIDE DEF gm
    <3>2. Serving(r, gm, extensions)
      BY <2>8 DEF gm
    <3>3. SerialOK(r)'
      <4>1. CASE RoundStep(r, gm, extensions) /\ RoundReplies(r, gm, extensions)
                 /\ gm.table = 0
        BY <1>1, <1>2, <1>3, <2>2, <2>5, <3>1, <4>1, RoundSerial
      <4>2. CASE WarStep(r, gm, extensions) /\ WarReplies(r, extensions)
                 /\ gm.table > 0
        BY <1>1, <1>2, <1>3, <2>2, <2>5, <3>1, <4>2, WarSerial
      <4> QED BY <3>2, <4>1, <4>2 DEF Serving
    <3>4. RoundStep(r, gm, extensions) \/ WarStep(r, gm, extensions)
      BY <3>2 DEF Serving
    <3>5. \A p \in reads \cup reads' : p.req # r => (p \in reads' <=> p \in reads)
      BY <2>1
    <3>6. OnlyTouches(r)
      BY <1>1, <3>4, <3>5, HandlerTouches
    <3> QED BY <1>1, <1>4, <1>5, <3>3, <3>6, SerialPreserves
  <2> QED BY <2>4, <2>6, <2>7, <2>8
<1>8. CASE now.game # Pending /\ now.player # Pending /\ input[r].kind = "topUp"
  <2>1. /\ reads' = reads \ {q} /\ UNCHANGED <<extensions, settlements>>
        /\ ServeTopUp(r, now.player)
    BY <1>8 DEF Arrive
  <2>2. ReadsOf(r)' = {} /\ ExtensionsOf(r)' = {} /\ SettlementsOf(r)' = {}
    BY <1>2, <2>1 DEF ReadsOf, ExtensionsOf, SettlementsOf
  <2>3. /\ \A o \in Requests : o # r => answer'[o] = answer[o]
        /\ answer'[r] \in {None, ErrorResponse(404)}
    BY <1>1, <1>2, <1>3, <2>1, FixedResponses, RespondOnce DEF ServeTopUp, Open
  <2>4. SerialOK(r)'
    BY <2>2, <2>3 DEF SerialOK, ErrorResponse, Twins
  <2>5. OnlyTouches(r)
    BY <2>1, <2>3 DEF OnlyTouches
  <2> QED BY <1>1, <1>4, <1>5, <2>4, <2>5, SerialPreserves
<1> QED BY <1>6, <1>7, <1>8 DEF Arrive

\* A SELECT returns the row as it is stored; what the other one returned is
\* still stored.
LEMMA ReadArrives ==
  ASSUME SInv, NEW q \in reads, GetGame(q) \/ GetPlayer(q)
  PROVE  \E now : /\ ReadOK(now) /\ now.req = q.req
                  /\ now.game \notin {Absent, Pending} =>
                       now.game = game[input[q.req].game]
                  /\ now.player \in {q.player, player[input[q.req].player]}
                  /\ Arrive(q, now)
                  /\ UNCHANGED <<player, game, input, lost, faults>>
<1>1. /\ FInv /\ IInv /\ ReadOK(q) /\ q \in ReadsOf(q.req) /\ SerialOK(q.req)
      /\ q.req \in Requests /\ FlightOK(q.req)
  BY DEF SInv, FInv, IInv, ReadOK, ReadRecords, ReadsOf
<1>2. UNCHANGED <<player, game, input, lost, faults>>
  BY DEF GetGame, GetPlayer
<1>3. q.game \notin {Absent, Pending} => q.game = game[input[q.req].game]
  <2>1. Open(q.req)
    BY <1>1 DEF FlightOK, ReadsAlone, Unsent, SInv, Open
  <2> QED BY <1>1, <2>1 DEF SerialOK, ReadServes
<1>4. CASE GetGame(q)
  <2> DEFINE g == input[q.req].game
             now == [q EXCEPT !.game = game[g]]
  <2>1. q.game = Pending /\ input[q.req] \in BetInputs /\ g \in Games
    BY <1>1, <1>4, AbsentNotRow DEF GetGame, ReadOK, BetInputs
  <2>2. /\ now.req = q.req /\ now.game = game[g] /\ now.player = q.player
        /\ now \in ReadRecords
    BY <1>1, <2>1 DEF ReadOK, ReadRecords, IInv, TypeOK, RepositoryTypeOK
  <2>3. ReadOK(now)
    <3>1. game[g] # Absent => RowOK(game[g]) /\ game[g].top <= game[g].top
      BY <1>1, <2>1 DEF IInv, RowOK, Row
    <3>2. game[g] # Absent => CopyOf(game[g], game[g].top, g)
      BY <3>1 DEF CopyOf, SameCards
    <3> HIDE DEF now
    <3> QED BY <1>1, <2>1, <2>2, <3>1, <3>2 DEF ReadOK
  <2>4. Arrive(q, now)
    BY <1>4 DEF GetGame
  <2> HIDE DEF now
  <2> QED BY <1>2, <2>2, <2>3, <2>4
<1>5. CASE GetPlayer(q)
  <2> DEFINE p == input[q.req].player
             now == [q EXCEPT !.player = player[p]]
  <2>1. p \in Players
    BY <1>1 DEF ReadOK, Inputs, BetInputs, TopUpInputs
  <2>2. /\ now.req = q.req /\ now.game = q.game /\ now.player = player[p]
        /\ now \in ReadRecords
    BY <1>1, <2>1 DEF ReadOK, ReadRecords, IInv, TypeOK, RepositoryTypeOK
  <2>3. Arrive(q, now)
    BY <1>5 DEF GetPlayer
  <2> HIDE DEF now
  <2>4. ReadOK(now)
    BY <1>1, <2>2 DEF ReadOK
  <2> QED BY <1>2, <1>3, <2>2, <2>3, <2>4
<1> QED BY <1>4, <1>5

LEMMA ReadsSerial ==
  ASSUME SInv, NEW q \in reads, GetGame(q) \/ GetPlayer(q)
  PROVE  SInv'
<1>1. FInv'
  BY ReadsFlight DEF SInv
<1> QED BY <1>1, ReadArrives, ArriveSerial

\* A request that is answered and has something in flight got an answer 200.
LEMMA AnsweredSerial ==
  ASSUME SInv, NEW r \in Requests, input[r] # None, ~ Open(r),
         ExtensionsOf(r) \cup SettlementsOf(r) # {}
  PROVE  answer[r] # None /\ answer[r].status = 200 /\ Accepted(r)
BY DEF SInv, SerialOK, Open, Accepted

LEMMA UpdateGameDeckSerial ==
  ASSUME SInv, NEW e \in extensions, UpdateGameDeck(e)
  PROVE  SInv' /\ GameAlone(e.req) /\ OnlyTouches(e.req)
<1> DEFINE r == e.req
           rest == extensions \ {e}
           g == input[r].game
<1>1. /\ FInv /\ IInv /\ TypeOK /\ FlightOK(r) /\ r \in Requests /\ ExtensionOK(e)
      /\ e \in ExtensionsOf(r) /\ SerialOK(r) /\ e.game = g /\ g \in Games
      /\ game[g] # Absent /\ e.cur \in Nat
  BY ExtensionTypes DEF SInv, FInv, IInv, ExtensionsOf, ExtensionOK
<1>2. FInv' /\ GameStep
  BY <1>1, UpdateGameDeckFlight, UpdateGameDeckPreserves
<1>3. /\ UNCHANGED <<player, input, reads, topUps, lost, faults>>
      /\ game' = CasGame(g, e.cur, e.row)
  BY <1>1 DEF UpdateGameDeck
<1>4. /\ ReadsOf(r)' = {} /\ \A x \in rest : x.req # r
      /\ \A s \in SettlementsOf(r) : s.cur = e.row.top /\ Deals(s) /\ s.game = g
      /\ e.row.table # 0 => SettlementsOf(r) = {} /\ ~ Accepted(r)
      /\ e.row.top = e.cur /\ input[r] \in BetInputs /\ input[r] # None
  BY <1>1, <1>3, NoneAssumption
     DEF FlightOK, ReadsAlone, BetFits, ReadsOf, ExtensionsOf, ExtensionOK, Inputs
<1>5. r \notin lost
  BY DEF SInv
<1>6. Handling(r, e.row, e.tokens) /\ e.row.table \in Nat
  BY <1>1, IntLimitAssumption
     DEF Handling, ExtensionOK, ExtensionRecords, RowOK, Row, NatInt32
<1>7. \/ /\ e.row.table = 0
         /\ RoundStep(r, e.row, rest) /\ RoundReplies(r, e.row, rest)
      \/ /\ e.row.table > 0
         /\ WarStep(r, e.row, rest) /\ WarReplies(r, rest)
  <2>1. \/ e.row.table = 0 /\ HandleBet(r, e.row, e.tokens, rest)
        \/ e.row.table > 0 /\ HandleWar(r, e.row, e.tokens, rest)
    BY <1>5 DEF UpdateGameDeck
  <2> QED
    BY <1>6, <2>1, HandleBetStep, HandleBetReplies, HandleWarStep, HandleWarReplies
<1>8. RoundStep(r, e.row, rest) \/ WarStep(r, e.row, rest)
  BY <1>7
<1>9. rest \in SUBSET extensions /\ \A x \in extensions \ rest : x.req = r
  OBVIOUS
<1> HIDE DEF rest
<1>10. OnlyTouches(r)
  BY <1>1, <1>3, <1>8, <1>9, HandlerTouches
<1>11. Apart'
  <2>1. \A o \in Requests : answer[o] # None => answer'[o] # None
    <3>1. answer[r] # None => answer'[r] # None
      BY <1>1, <1>8, RespondOnce DEF RoundStep, WarStep
    <3> QED BY <1>10, <3>1 DEF OnlyTouches
  <2> QED BY <1>3, <2>1, ApartKept DEF SInv
<1>12. CASE ~ Open(r)
  <2>1. answer[r] # None /\ answer[r].status = 200 /\ Accepted(r)
    BY <1>1, <1>4, <1>12, AnsweredSerial
  <2>2. game' = game
    <3>1. e.cur < game[g].top
      BY <1>1, <2>1 DEF FlightOK, AnsweredIsDone
    <3>2. game[g].top # e.cur
      BY <1>1, <3>1
    <3> QED BY <1>3, <3>2 DEF CasGame
  <2>3. RoundStep(r, e.row, rest) /\ RoundReplies(r, e.row, rest)
    BY <1>4, <1>7, <2>1
  <2>4. answer' = answer /\ ~ Open(r)'
    BY <1>3, <1>12, <2>3 DEF RoundStep, Open
  <2>5. \A s \in SettlementsOf(r)' : SettlementShape(s)
    BY <1>1, <2>3 DEF SerialOK, RoundReplies, SettlementsOf
  <2>6. SerialOK(r)'
    BY <1>1, <1>3, <2>1, <2>2, <2>4, <2>5 DEF SerialOK
  <2>7. GameAlone(r)
    BY <2>2 DEF GameAlone
  <2> QED BY <1>1, <1>2, <1>3, <1>10, <1>11, <2>6, <2>7, SerialPreserves
<1>13. CASE Open(r)
  <2>1. GameAlone(r)
    BY <1>1, <1>3, <1>4, <1>13 DEF GameAlone, CasGame, IInv, TypeOK, RepositoryTypeOK
  <2>2. \A s \in SettlementsOf(r) :
          /\ SettlementServes(s)
          /\ e.row.top + 2 <= Len(e.row.deck)
          /\ RoundResponse(r, e.row) = s.reply
          /\ s.row.table = RoundStake(s.reply.result, input[r].bet)
    BY <1>1, <1>13 DEF SerialOK, Twins
  <2>3. RowOK(e.row)
    BY <1>1 DEF ExtensionOK
  <2>4. CASE e.cur = game[g].top /\ e.row.table = game[g].table
    <3>1. game'[g] = e.row
      BY <1>1, <1>3, <2>4 DEF CasGame, IInv, TypeOK, RepositoryTypeOK
    <3>2. \A s \in SettlementsOf(r) : SettlementServes(s)'
      <4> SUFFICES ASSUME NEW s \in SettlementsOf(r) PROVE SettlementServes(s)'
        OBVIOUS
      <4>1. s.cur = game[g].top /\ s.cur = game'[g].top /\ Deals(s) /\ s.game = g
            /\ game[g].table = game'[g].table
        BY <1>4, <2>4, <3>1
      <4>2. ~ (s.cur < game[g].top) /\ ~ (s.cur < game'[g].top)
        BY <1>1, <2>4, <4>1
      <4>3. ~ Took(s) /\ ~ Took(s)'
        BY <4>1, <4>2 DEF Took
      <4> QED BY <2>2, <4>1, <4>3 DEF SettlementServes
    <3>3. CASE e.row.table = 0 /\ RoundStep(r, e.row, rest)
               /\ RoundReplies(r, e.row, rest)
      <4>1. SerialOK(r)'
        BY <1>1, <1>3, <1>4, <1>9, <1>13, <2>2, <2>3, <3>1, <3>2, <3>3, RoundSerial
           DEF rest
      <4> QED BY <1>1, <1>2, <1>3, <1>10, <1>11, <2>1, <4>1, SerialPreserves
    <3>4. CASE e.row.table > 0 /\ WarStep(r, e.row, rest) /\ WarReplies(r, rest)
      <4>1. SerialOK(r)'
        BY <1>1, <1>3, <1>4, <1>6, <1>9, <1>13, <2>3, <3>1, <3>4, WarSerial DEF rest
      <4> QED BY <1>1, <1>2, <1>3, <1>10, <1>11, <2>1, <4>1, SerialPreserves
    <3> QED BY <1>7, <3>3, <3>4
  <2>5. CASE \E s \in SettlementsOf(r) : Took(s)
    <3>1. PICK s0 \in SettlementsOf(r) : Took(s0)
      BY <2>5
    <3>2. e.cur < game[g].top
      BY <1>4, <3>1 DEF Took
    <3>3. game' = game
      <4>1. game[g].top # e.cur
        BY <1>1, <3>2
      <4> QED BY <1>3, <4>1 DEF CasGame
    <3>4. \A s \in SettlementsOf(r) : SettlementServes(s)' /\ Took(s)' = Took(s)
      BY <2>2, <3>3 DEF SettlementServes, Took
    <3>5. e.row.table = 0 /\ RoundStep(r, e.row, rest) /\ RoundReplies(r, e.row, rest)
      BY <1>4, <1>6, <1>7, <3>1
    <3>6. SerialOK(r)'
      BY <1>1, <1>3, <1>4, <1>9, <1>13, <2>2, <2>3, <3>1, <3>4, <3>5, RoundSerial
         DEF rest
    <3> QED BY <1>1, <1>2, <1>3, <1>10, <1>11, <2>1, <3>6, SerialPreserves
  <2>6. ExtensionServes(e)
    BY <1>1, <1>13 DEF SerialOK
  <2> QED BY <1>1, <2>4, <2>5, <2>6 DEF ExtensionServes
<1> QED BY <1>10, <1>12, <1>13

\* The game half of a settlement that the game has not got yet stores its row.
LEMMA HalfHits ==
  ASSUME SInv, NEW s \in settlements, Open(s.req), ~ Took(s),
         game' = CasGame(s.game, s.cur, s.row)
  PROVE  game' = [game EXCEPT ![s.game] = s.row] /\ game'[s.game] = s.row
<1>1. /\ IInv /\ s.req \in Requests /\ s.game \in Games /\ game[s.game] # Absent
      /\ s \in SettlementsOf(s.req)
  BY SettlementInGame DEF SInv, FInv, SettlementsOf
<1>2. game[s.game].top = s.cur
  BY <1>1 DEF SInv, SerialOK, SettlementServes
<1> QED BY <1>1, <1>2 DEF CasGame, IInv, TypeOK, RepositoryTypeOK

\* The cards a settlement replies are the last two of the row it stores.
LEMMA RowShows ==
  ASSUME SInv, NEW s \in settlements, Deals(s)
  PROVE  Shows(s.row, s.reply.cards)
<1>1. SettlementShape(s) /\ s.row.top \in Nat
  BY SettlementInGame DEF SInv, FInv, SerialOK, SettlementsOf
<1>2. s.row.top - 1 \in 1 .. s.row.top - 1
  BY <1>1 DEF SettlementShape
<1>3. s.row.top = (s.row.top - 1) + 1
  BY <1>1
<1> QED BY <1>1, <1>2, <1>3 DEF SettlementShape, Shows

\* One half of a settlement of an unanswered bet has run, and the other one is
\* still to come or the bet is answered.
LEMMA OpenSettleSerial ==
  ASSUME SInv, NEW s \in settlements, NEW part \in Parts, part \in s.todo,
         Open(s.req),
         \/ part = "game" /\ game' = CasGame(s.game, s.cur, s.row)
         \/ part = "player" /\ game' = game,
         Settle(s, part), UNCHANGED <<input, reads, extensions, lost>>
  PROVE  /\ SerialOK(s.req)' /\ GameAlone(s.req)
         /\ s.todo = {part} => /\ answer'[s.req] = s.reply
                               /\ game'[s.game].table = s.row.table
<1> DEFINE r == s.req
           g == s.game
           t == [s EXCEPT !.todo = s.todo \ {part}]
           others == SettlementsOf(r) \ {s}
<1>1. /\ FInv /\ IInv /\ TypeOK /\ FlightOK(r) /\ r \in Requests /\ SerialOK(r)
      /\ s \in SettlementsOf(r) /\ s.reply \in Answers /\ s \in SettlementRecords
  BY SettlementTypes DEF SInv, FInv, IInv, SettlementOK, SettlementsOf
<1>2. /\ g \in Games /\ s.cur \in Nat /\ game[g] # Absent /\ s.row.top \in Nat
      /\ g = input[r].game /\ input[r] \in BetInputs
  BY <1>1, SettlementInGame, FlightGame
<1>3. /\ t.req = r /\ t.cur = s.cur /\ t.game = g /\ t.row = s.row
      /\ t.reply = s.reply /\ t.todo = s.todo \ {part}
  BY <1>1 DEF SettlementRecords
<1> HIDE DEF t
<1>4. \/ s.todo # {part} /\ SettlementsOf(r)' = others \cup {t} /\ answer'[r] = None
      \/ s.todo = {part} /\ SettlementsOf(r)' = others /\ answer'[r] = s.reply
  <2>1. CASE s.todo \ {part} = {}
    <3>1. settlements' = settlements \ {s} /\ Respond(r, s.reply) /\ s.todo = {part}
      BY <2>1 DEF Settle
    <3> QED BY <1>1, <3>1, RespondOnce DEF SettlementsOf, Open
  <2>2. CASE s.todo \ {part} # {}
    <3>1. settlements' = (settlements \ {s}) \cup {t} /\ answer' = answer
      BY <2>2 DEF Settle, t
    <3> QED BY <1>1, <1>3, <2>2, <3>1 DEF SettlementsOf, Open
  <2> QED BY <2>1, <2>2
<1>5. /\ ExtensionsOf(r)' = ExtensionsOf(r) /\ input'[r] = input[r]
      /\ ReadsOf(r)' = {} /\ r \notin lost'
  BY <1>1 DEF ExtensionsOf, FlightOK, ReadsAlone, ReadsOf, SInv
<1>6. SettlementShape(s) /\ SettlementServes(s) /\ Twins(r)
  BY <1>1 DEF SerialOK
<1>7. \A x \in others : /\ Deals(x) /\ Deals(s) /\ x.cur = s.cur /\ x.game = g
                        /\ x.reply = s.reply /\ x.row.table = s.row.table
                        /\ SettlementServes(x) /\ SettlementShape(x)
  BY <1>1, <1>2, <1>6, FlightGame DEF FlightOK, BetFits, Twins, SerialOK
<1>8. SettlementShape(t) /\ (Deals(t) <=> Deals(s))
  BY <1>3, <1>6 DEF SettlementShape, Deals
<1>9. \A x \in SettlementsOf(r)' : SettlementShape(x) /\ x.reply = s.reply
                                   /\ x.row.table = s.row.table
  BY <1>3, <1>4, <1>7, <1>8
<1>10. Twins(r)'
  <2>1. \A row : RoundResponse(r, row)' = RoundResponse(r, row)
    BY <1>5 DEF RoundResponse
  <2> QED BY <1>1, <1>5, <1>6, <1>9, <2>1 DEF Twins
<1>11. CASE Took(s) \/ part = "game"
  <2>1. /\ game'[g].table = s.row.table /\ game'[g] # Absent
        /\ Deals(s) => s.cur < game'[g].top /\ Shows(game'[g], s.reply.cards)
        /\ ~ Deals(s) => "game" \notin t.todo
        /\ GameAlone(r)
    <3>1. CASE Took(s)
      <4>1. game' = game
        <5>1. CASE part = "game"
          <6>1. s.cur < game[g].top
            BY <3>1, <5>1 DEF Took
          <6>2. game[g].top # s.cur
            BY <1>2, <6>1
          <6> QED BY <5>1, <6>2 DEF CasGame
        <5> QED BY <5>1
      <4> QED BY <1>2, <1>3, <1>6, <3>1, <4>1 DEF SettlementServes, Took, GameAlone
    <3>2. CASE ~ Took(s) /\ part = "game"
      <4>1. game' = [game EXCEPT ![g] = s.row] /\ game'[g] = s.row
        BY <3>2, HalfHits
      <4>2. s.row # Absent
        BY <1>1, AbsentNotRow DEF SettlementRecords
      <4>3. GameAlone(r)
        BY <1>1, <1>2, <4>1 DEF GameAlone, IInv, TypeOK, RepositoryTypeOK
      <4>4. ~ Deals(s) => "game" \notin t.todo
        BY <1>3, <3>2
      <4>5. Deals(s) => s.cur < s.row.top
        BY DEF Deals
      <4> QED BY <4>1, <4>2, <4>3, <4>4, <4>5, RowShows
    <3> QED BY <1>11, <3>1, <3>2
  <2>2. CASE s.todo = {part}
    <3>1. s.reply # None /\ s.reply.status = 200
      BY <1>1, <1>6, NoAnswerAssumption DEF SettlementShape
    <3>2. s.reply.cards # <<>> => Deals(s)
      BY <1>6 DEF SettlementShape
    <3>3. answer'[r] = s.reply
      BY <1>4, <2>2
    <3>4. ~ Open(r)'
      BY <3>1, <3>3 DEF Open
    <3>5. SerialOK(r)'
      BY <1>2, <1>5, <1>9, <2>1, <3>1, <3>2, <3>3, <3>4 DEF SerialOK
    <3> QED BY <2>1, <3>3, <3>5
  <2>3. CASE s.todo # {part}
    <3>1. SettlementsOf(r)' = others \cup {t} /\ answer'[r] = None
      BY <1>4, <2>3
    <3>2. Took(t)' /\ SettlementServes(t)'
      <4>1. Took(t)'
        BY <1>3, <1>8, <2>1 DEF Took
      <4> QED BY <1>3, <1>8, <2>1, <4>1 DEF SettlementServes
    <3>3. ASSUME NEW x \in others PROVE SettlementServes(x)'
      <4>1. x.cur = s.cur /\ x.game = g /\ Deals(x) /\ Deals(s)
            /\ x.reply = s.reply /\ x.row.table = s.row.table
        BY <1>7
      <4>2. Took(x)'
        BY <2>1, <4>1 DEF Took
      <4> QED BY <2>1, <4>1, <4>2 DEF SettlementServes
    <3>4. \A x \in ExtensionsOf(r)' : ExtensionServes(x)'
      BY <3>1, <3>2 DEF ExtensionServes, ExtensionsOf
    <3>5. \A x \in SettlementsOf(r)' : SettlementServes(x)'
      BY <3>1, <3>2, <3>3
    <3> QED BY <1>5, <1>9, <1>10, <2>1, <2>3, <3>1, <3>4, <3>5 DEF SerialOK
  <2> QED BY <2>2, <2>3
<1>12. CASE ~ Took(s) /\ part = "player"
  <2>1. game' = game /\ GameAlone(r)
    BY <1>12 DEF GameAlone
  <2>2. s.todo # {part}
    <3> SUFFICES ASSUME s.todo = {part} PROVE FALSE
      OBVIOUS
    <3>1. "game" \notin s.todo
      BY <1>12
    <3>2. ~ Refused(r)
      BY DEF Refused, Open
    <3>3. Took(s)
      BY <1>1, <3>1, <3>2 DEF Took, FlightOK, HalvesMoved
    <3> QED BY <1>12, <3>3
  <2>3. SettlementsOf(r)' = others \cup {t} /\ answer'[r] = None
    BY <1>4, <2>2
  <2>4. SettlementServes(t)'
    <3>1. ~ Took(t)'
      BY <1>3, <1>8, <1>12, <2>1 DEF Took
    <3> QED BY <1>3, <1>6, <1>8, <1>12, <2>1, <3>1 DEF SettlementServes
  <2>5. \A x \in others : SettlementServes(x)' /\ Took(x)' = Took(x)
    BY <1>7, <2>1 DEF SettlementServes, Took
  <2>6. ASSUME NEW x \in ExtensionsOf(r) PROVE ExtensionServes(x)'
    <3>1. x.req = r /\ ExtensionServes(x)
      BY <1>1 DEF SerialOK, ExtensionsOf
    <3>2. \/ x.cur = game[x.game].top /\ x.row.table = game[x.game].table
          \/ \E y \in others : Took(y)
      BY <1>12, <3>1 DEF ExtensionServes
    <3> QED BY <2>1, <2>3, <2>5, <3>1, <3>2 DEF ExtensionServes
  <2>7. \A x \in SettlementsOf(r)' : SettlementServes(x)'
    BY <2>3, <2>4, <2>5
  <2> QED BY <1>5, <1>9, <1>10, <2>1, <2>2, <2>3, <2>6, <2>7 DEF SerialOK
<1> QED BY <1>11, <1>12

\* A half that is left over after the answer finds the game past its index.
LEMMA LateSettleSerial ==
  ASSUME SInv, NEW s \in settlements, NEW part \in Parts, part \in s.todo,
         ~ Open(s.req),
         \/ part = "game" /\ game' = CasGame(s.game, s.cur, s.row)
         \/ part = "player" /\ game' = game,
         Settle(s, part), UNCHANGED <<input, reads, extensions, lost>>
  PROVE  SerialOK(s.req)' /\ game' = game /\ answer' = answer
<1> DEFINE r == s.req
           t == [s EXCEPT !.todo = s.todo \ {part}]
<1>1. /\ FInv /\ IInv /\ TypeOK /\ FlightOK(r) /\ r \in Requests /\ SerialOK(r)
      /\ s \in SettlementsOf(r) /\ s \in SettlementRecords
      /\ s.cur \in Nat
  BY SettlementTypes DEF SInv, FInv, IInv, SettlementOK, SettlementsOf
<1>2. input[r] # None
  BY <1>1, NoneAssumption DEF FlightOK, BetFits, Inputs
<1>3. answer[r] # None /\ answer[r].status = 200 /\ Accepted(r)
  BY <1>1, <1>2, AnsweredSerial
<1>4. game' = game
  <2>1. CASE part = "game"
    <3>1. s.cur < game[s.game].top
      BY <1>1, <1>3, <2>1 DEF FlightOK, AnsweredIsDone
    <3>2. game[s.game].top # s.cur
      BY <1>1, <3>1
    <3> QED BY <2>1, <3>2 DEF CasGame
  <2> QED BY <2>1
<1>5. answer' = answer
  BY DEF Settle, Respond
<1>6. t.row = s.row /\ t.reply = s.reply /\ t.cur = s.cur
  BY <1>1 DEF SettlementRecords
<1>7. \A x \in SettlementsOf(r)' : x \in SettlementsOf(r) \/ x = t
  BY DEF Settle, SettlementsOf
<1> HIDE DEF t
<1>8. \A x \in SettlementsOf(r)' : SettlementShape(x)
  <2>1. SettlementShape(t)
    BY <1>1, <1>6 DEF SerialOK, SettlementShape, Deals
  <2> QED BY <1>1, <1>7, <2>1 DEF SerialOK
<1>9. input'[r] = input[r] /\ answer'[r] = answer[r] /\ ~ Open(r)'
  BY <1>5 DEF Open
<1>10. SerialOK(r)'
  BY <1>1, <1>3, <1>4, <1>8, <1>9 DEF SerialOK
<1> QED BY <1>4, <1>5, <1>10

LEMMA UpdateSettlementSerial ==
  ASSUME SInv, NEW s \in settlements, UpdatePlayer(s) \/ UpdateGame(s)
  PROVE  SInv' /\ GameAlone(s.req) /\ OnlyTouches(s.req)
<1>1. FInv /\ IInv /\ s.req \in Requests
  BY SettlementTypes DEF SInv, FInv
<1>2. FInv' /\ GameStep
  BY <1>1, UpdateSettlementFlight, UpdatePlayerPreserves, UpdateGamePreserves
<1>3. UNCHANGED <<input, reads, extensions, lost, faults>>
  BY DEF UpdatePlayer, UpdateGame
<1>4. PICK part \in Parts :
        /\ part \in s.todo /\ Settle(s, part)
        /\ \/ part = "game" /\ game' = CasGame(s.game, s.cur, s.row)
           \/ part = "player" /\ game' = game
  BY DEF UpdatePlayer, UpdateGame, Parts
<1>5. OnlyTouches(s.req)
  BY <1>1, <1>2, <1>3, <1>4, SettleFlight
<1>6. SerialOK(s.req)' /\ GameAlone(s.req)
  <2>1. CASE Open(s.req)
    BY <1>3, <1>4, <2>1, OpenSettleSerial
  <2>2. CASE ~ Open(s.req)
    BY <1>3, <1>4, <2>2, LateSettleSerial DEF GameAlone
  <2> QED BY <2>1, <2>2
<1>7. Apart'
  <2>1. s.reply \in Answers /\ TypeOK
    BY <1>1, SettlementTypes
  <2>2. answer[s.req] # None => answer'[s.req] # None
    BY <1>1, <1>4, <2>1, RespondOnce DEF Settle
  <2>3. \A o \in Requests : answer[o] # None => answer'[o] # None
    BY <1>5, <2>2 DEF OnlyTouches
  <2> QED BY <1>3, <2>3, ApartKept DEF SInv
<1> QED BY <1>1, <1>2, <1>3, <1>5, <1>6, <1>7, SerialPreserves

LEMMA UpdateTokensSerial ==
  ASSUME SInv, NEW u \in topUps, UpdateTokens(u)
  PROVE  SInv'
<1> DEFINE r == u.req
<1>1. /\ FInv /\ IInv /\ TypeOK /\ FlightOK(r) /\ SerialOK(r) /\ r \in Requests
      /\ input[r] \in TopUpInputs /\ ReadsOf(r) = {}
  BY DEF SInv, FInv, IInv, TypeOK, TopUpRecords
<1>2. FInv' /\ GameStep
  BY <1>1, UpdateTokensFlight, UpdateTokensPreserves
<1>3. /\ UNCHANGED <<game, input, reads, extensions, settlements, lost, faults>>
      /\ Respond(r, TopUpResponse)
  BY DEF UpdateTokens
<1>4. /\ \A o \in Requests : o # r => answer'[o] = answer[o]
      /\ answer'[r] = answer[r] \/ answer'[r] = TopUpResponse
      /\ answer[r] # None => answer'[r] # None
  BY <1>1, <1>3, FixedResponses, RespondOnce DEF TypeOK, Respond, Open
<1>5. /\ ReadsOf(r)' = {} /\ ExtensionsOf(r)' = {} /\ SettlementsOf(r)' = {}
  <2>1. input[r] \notin BetInputs
    BY <1>1 DEF BetInputs, TopUpInputs
  <2> QED BY <1>1, <1>3, <2>1
       DEF FlightOK, BetFits, ReadsOf, ExtensionsOf, SettlementsOf
<1>6. SerialOK(r)'
  BY <1>1, <1>3, <1>4, <1>5 DEF SerialOK, TopUpResponse, Twins
<1>7. OnlyTouches(r) /\ GameAlone(r)
  BY <1>3, <1>4 DEF OnlyTouches, GameAlone
<1>8. Apart'
  <2>1. \A o \in Requests : answer[o] # None => answer'[o] # None
    BY <1>4
  <2> QED BY <1>3, <2>1, ApartKept DEF SInv
<1> QED BY <1>1, <1>2, <1>3, <1>6, <1>7, <1>8, SerialPreserves

LEMMA InitSInv == Init => SInv
<1> SUFFICES ASSUME Init PROVE SInv
  OBVIOUS
<1>1. FInv
  BY InitFInv
<1>2. ASSUME NEW r \in Requests PROVE SerialOK(r) /\ ~ Open(r)
  BY DEF Init, SerialOK, ExtensionsOf, SettlementsOf, Open
<1> QED BY <1>1, <1>2 DEF SInv, Apart, Init

LEMMA NextSInv ==
  ASSUME WaitingClients, SInv, [Next]_vars
  PROVE  SInv'
<1>1. CASE Arrivals
  <2>1. PICK r \in Requests : RequestBet(r) \/ UpdatePlayerToken(r)
    BY <1>1 DEF Arrivals
  <2>2. CASE RequestBet(r)
    BY <2>2, SubmitSerial DEF RequestBet, Inputs
  <2>3. CASE UpdatePlayerToken(r)
    BY <2>3, SubmitSerial DEF UpdatePlayerToken, Inputs
  <2> QED BY <2>1, <2>2, <2>3
<1>2. CASE Statements
  BY <1>2, ReadsSerial, UpdateGameDeckSerial, UpdateSettlementSerial,
     UpdateTokensSerial DEF Statements
<1>3. CASE StatementFaults \/ Crash
  <2>1. ~ Fault
    BY NoFault DEF SInv
  <2> QED
    BY <1>3, <2>1
       DEF StatementFaults, FailRead, FailExtension, FailSettlement, FailTokens, Crash
<1>4. CASE UNCHANGED vars
  <2>1. FInv /\ FInv'
    BY <1>4, NextFInv DEF SInv
  <2>2. \A r \in Requests :
          /\ ExtensionsOf(r)' = ExtensionsOf(r) /\ SettlementsOf(r)' = SettlementsOf(r)
          /\ ReadsOf(r)' = ReadsOf(r) /\ Open(r)' = Open(r)
    BY <1>4 DEF vars, ExtensionsOf, SettlementsOf, ReadsOf, Open
  <2>3. \A e \in extensions : ExtensionServes(e)' = ExtensionServes(e)
    BY <1>4 DEF vars, ExtensionServes, SettlementsOf, Took
  <2>4. \A r \in Requests : SerialOK(r)'
    BY <1>4, <2>2, <2>3
       DEF vars, SInv, SerialOK, ReadServes, SettlementServes, Took, Twins,
           RoundResponse, ExtensionsOf
  <2>5. Apart'
    BY <1>4, ApartKept DEF vars, SInv
  <2> QED BY <1>4, <2>1, <2>4, <2>5 DEF SInv, vars
<1> QED BY <1>1, <1>2, <1>3, <1>4 DEF Next

-----------------------------------------------------------------------------
\* Clients that wait, on a server whose statements succeed: nobody moves the
\* game under an open bet, and the two settlements of a bet say the same.
THEOREM SerialInvariance == ASSUME WaitingClients PROVE Spec => []SInv
<1>1. SInv /\ [Next]_vars => SInv'
  BY NextSInv
<1> QED BY <1>1, InitSInv, PTL DEF Spec

\* However many of them play at the same time, the cards each is shown were
\* dealt from the game it bet on, also where the deck is extended under a bet.
THEOREM AnswersShowDealtCards ==
  ASSUME WaitingClients
  PROVE  Spec => []AnswerShowsDealtCards
<1>1. SInv => AnswerShowsDealtCards
  BY DEF SInv, SerialOK, AnswerShowsDealtCards, Shows, WonWar
<1> QED BY <1>1, SerialInvariance, PTL

-----------------------------------------------------------------------------
(***************************************************************************)
(* Counting wars.  A war that an answer opened stands until another answer *)
(* resolves it.                                                            *)
(***************************************************************************)
LEMMA SettlingOne ==
  SInv => \A r \in Requests : Open(r) /\ input[r] \in BetInputs =>
            Settling(input[r].game) = SettlementsOf(r)
<1> SUFFICES ASSUME SInv, NEW r \in Requests, Open(r), input[r] \in BetInputs
             PROVE  Settling(input[r].game) = SettlementsOf(r)
  OBVIOUS
<1>1. FInv
  BY DEF SInv
<1>2. SettlementsOf(r) \subseteq Settling(input[r].game)
  BY <1>1, FlightGame DEF SettlementsOf, Settling
<1>3. ASSUME NEW s \in Settling(input[r].game) PROVE s.req = r
  <2>1. s.req \in Requests /\ s \in SettlementsOf(s.req) /\ Open(s.req)
    BY <1>1, SettlementInGame DEF FInv, Settling, SettlementsOf
  <2>2. input[s.req] \in BetInputs /\ input[s.req].game = input[r].game
    BY <1>1, <1>3, <2>1, FlightGame DEF Settling
  <2> QED BY <2>1, <2>2 DEF SInv, Apart, BetInputs
<1> QED BY <1>2, <1>3 DEF SettlementsOf, Settling

\* The same of the state after a step.
LEMMA SettlingOneNext ==
  SInv' => \A r \in Requests : Open(r)' /\ input'[r] \in BetInputs =>
             Settling(input[r].game)' = SettlementsOf(r)'
<1>1. (SInv => \A r \in Requests : Open(r) /\ input[r] \in BetInputs =>
            Settling(input[r].game) = SettlementsOf(r))'
  BY SettlingOne, PTL
<1> QED BY <1>1

\* The answers that count are those of the settlements.
LEMMA SameTally ==
  ASSUME NEW r \in Requests, OnlyTouches(r), NEW g,
         \/ answer'[r] = answer[r] /\ input'[r] = input[r]
         \/ /\ answer[r] = None
            /\ \/ answer'[r] = None
               \/ answer'[r].by \in {"error", "topUp"}
               \/ WonWar(answer'[r])
               \/ input'[r].game # g
  PROVE  WarsResolved(g)' = WarsResolved(g) /\ WarsOpened(g)' = WarsOpened(g)
<1>1. \A o \in Requests : o # r => answer'[o] = answer[o] /\ input'[o] = input[o]
  BY DEF OnlyTouches
<1>2. \A o \in Requests : o \in WarsOpened(g)' <=> o \in WarsOpened(g)
  BY <1>1 DEF WarsOpened, Answered, WonWar
<1>3. \A o \in Requests : o \in WarsResolved(g)' <=> o \in WarsResolved(g)
  BY <1>1 DEF WarsResolved, Answered, WonWar
<1>4. /\ WarsOpened(g) \subseteq Requests /\ WarsOpened(g)' \subseteq Requests
      /\ WarsResolved(g) \subseteq Requests /\ WarsResolved(g)' \subseteq Requests
  BY DEF WarsOpened, WarsResolved, Answered
<1> QED BY <1>2, <1>3, <1>4

LEMMA TallyTypes ==
  ASSUME IsFiniteSet(Requests), NEW g
  PROVE  /\ IsFiniteSet(WarsResolved(g)) /\ Cardinality(WarsResolved(g)) \in Nat
         /\ IsFiniteSet(WarsOpened(g)) /\ Cardinality(WarsOpened(g)) \in Nat
         /\ WarsAtStart(g) \in Nat
<1>1. WarsResolved(g) \subseteq Requests /\ WarsOpened(g) \subseteq Requests
  BY DEF WarsOpened, WarsResolved, Answered
<1>2. IsFiniteSet(WarsResolved(g)) /\ IsFiniteSet(WarsOpened(g))
  BY <1>1, FS_Subset
<1>3. Cardinality(WarsResolved(g)) \in Nat /\ Cardinality(WarsOpened(g)) \in Nat
  BY <1>2, FS_CardinalityType
<1>4. WarsAtStart(g) \in Nat
  BY DEF WarsAtStart
<1> QED BY <1>2, <1>3, <1>4

LEMMA QuietCount ==
  ASSUME IsFiniteSet(Requests), NEW g, WarsCounted(g),
         WarsResolved(g)' = WarsResolved(g), WarsOpened(g)' = WarsOpened(g),
         Standing(g)' => Standing(g)
  PROVE  WarsCounted(g)'
<1>1. /\ Cardinality(WarsResolved(g)) \in Nat /\ Cardinality(WarsOpened(g)) \in Nat
      /\ WarsAtStart(g) \in Nat
  BY TallyTypes
<1>2. Cardinality(WarsResolved(g)') + (IF Standing(g)' THEN 1 ELSE 0)
        <= Cardinality(WarsOpened(g)') + WarsAtStart(g)
  BY <1>1 DEF WarsCounted
<1> QED BY <1>2 DEF WarsCounted, WarsAtStart

\* A step that does not concern a game.
LEMMA SettlingSame ==
  ASSUME SInv, SInv', NEW r \in Requests, OnlyTouches(r), NEW g \in Games,
         \A s \in settlements : s.req = r /\ s.game = g => ~ Open(r),
         \A s \in settlements' : s.req = r /\ s.game = g => ~ Open(r)',
         game'[g] = game[g]
  PROVE  Standing(g)' <=> Standing(g)
<1>1. \A o \in Requests : o # r => (Open(o)' <=> Open(o))
  BY DEF OnlyTouches, Open
<1>2. settlements \subseteq SettlementRecords /\ settlements' \subseteq SettlementRecords
  BY DEF SInv, FInv, IInv, TypeOK
<1>3. \A s \in settlements \cup settlements' : s.req \in Requests
  BY <1>2 DEF SettlementRecords
<1>4. Settling(g)' = Settling(g)
  BY <1>1, <1>3 DEF Settling, OnlyTouches
<1> QED BY <1>4 DEF Standing

LEMMA Elsewhere ==
  ASSUME SInv, SInv', NEW r \in Requests, OnlyTouches(r), GameAlone(r),
         input'[r] = input[r], NEW g \in Games,
         input[r] \in BetInputs => input[r].game # g
  PROVE  Standing(g)' <=> Standing(g)
<1>1. FlightOK(r) /\ FlightOK(r)'
  BY DEF SInv, FInv
<1>2. \A s \in settlements : s.req = r => s.game # g
  BY <1>1 DEF FlightOK, BetFits, SettlementsOf
<1>3. \A s \in settlements' : s.req = r => s.game # g
  BY <1>1 DEF FlightOK, BetFits, SettlementsOf
<1>4. game'[g] = game[g]
  BY DEF GameAlone
<1> QED BY <1>2, <1>3, <1>4, SettlingSame

\* A handler settles a war only where one stands, and a round where none does.
LEMMA HandlerStanding ==
  ASSUME SInv, SInv', NEW r \in Requests, NEW gm, NEW rest,
         Open(r), input[r] \in BetInputs, UNCHANGED <<input, lost>>,
         \/ /\ RoundStep(r, gm, rest) /\ RoundReplies(r, gm, rest)
            /\ \A s \in SettlementsOf(r) : s.reply.by = "round"
            /\ SettlementsOf(r) = {} => game'[input[r].game].table = 0
         \/ /\ SettlementsOf(r) = {} /\ game[input[r].game] # Absent
            /\ game[input[r].game].table > 0
  PROVE  Standing(input[r].game)' => Standing(input[r].game)
<1> DEFINE g == input[r].game
<1>1. CASE /\ RoundStep(r, gm, rest) /\ RoundReplies(r, gm, rest)
           /\ \A s \in SettlementsOf(r) : s.reply.by = "round"
           /\ SettlementsOf(r) = {} => game'[g].table = 0
  <2>1. Open(r)'
    BY <1>1 DEF RoundStep, Open
  <2>2. Settling(g)' = SettlementsOf(r)'
    BY <2>1, SettlingOneNext
  <2>3. \A s \in SettlementsOf(r)' : s.reply.by = "round"
    BY <1>1 DEF RoundReplies, SettlementsOf
  <2>4. SettlementsOf(r) \subseteq SettlementsOf(r)'
    BY <1>1 DEF RoundStep, SettlementsOf
  <2>5. ~ (0 > 0)
    OBVIOUS
  <2>6. ~ Standing(g)'
    BY <1>1, <2>2, <2>3, <2>4, <2>5 DEF Standing
  <2> QED BY <2>6
<1>2. CASE /\ SettlementsOf(r) = {} /\ game[g] # Absent /\ game[g].table > 0
  BY <1>2, SettlingOne DEF Standing
<1> QED BY <1>1, <1>2

LEMMA SubmitCount ==
  ASSUME IsFiniteSet(Requests), SInv, SInv', CInv, NEW r \in Requests, NEW in,
         NEW awaited, Submit(r, in, awaited)
  PROVE  CInv'
<1>1. /\ FlightOK(r) /\ FlightOK(r)' /\ input[r] = None
      /\ game' = game /\ answer' = answer
      /\ UNCHANGED <<extensions, settlements, lost>>
  BY DEF SInv, FInv, Submit
<1>2. OnlyTouches(r)
  BY <1>1 DEF Submit, OnlyTouches, SInv, FInv, IInv, TypeOK
<1>3. /\ answer[r] = None /\ answer'[r] = None
      /\ \A s \in settlements : s.req # r
  BY <1>1 DEF FlightOK, Unsent, SettlementsOf
<1>4. ASSUME NEW g \in Games PROVE WarsCounted(g)'
  <2>1. Standing(g)' <=> Standing(g)
    BY <1>1, <1>2, <1>3, SettlingSame
  <2>2. WarsResolved(g)' = WarsResolved(g) /\ WarsOpened(g)' = WarsOpened(g)
    BY <1>2, <1>3, SameTally
  <2> QED BY <2>1, <2>2, QuietCount DEF CInv
<1> QED BY <1>4 DEF CInv

\* A step after which nothing that is settled, and no game, is other than before.
LEMMA StillCount ==
  ASSUME IsFiniteSet(Requests), SInv, SInv', CInv, NEW r \in Requests,
         OnlyTouches(r), UNCHANGED <<game, input>>,
         \A s \in settlements \cup settlements' : s.req = r => ~ Open(r) /\ ~ Open(r)',
         \/ answer'[r] = answer[r]
         \/ answer[r] = None
            /\ (answer'[r].by \in {"error", "topUp"} \/ WonWar(answer'[r]))
  PROVE  CInv'
<1>1. ASSUME NEW g \in Games PROVE WarsCounted(g)'
  <2>1. Standing(g)' <=> Standing(g)
    BY SettlingSame
  <2>2. WarsResolved(g)' = WarsResolved(g) /\ WarsOpened(g)' = WarsOpened(g)
    BY SameTally
  <2> QED BY <2>1, <2>2, QuietCount DEF CInv
<1> QED BY <1>1 DEF CInv

\* A bet's handler has run and the bet is not settled yet.
LEMMA HandlerCount ==
  ASSUME IsFiniteSet(Requests), SInv, SInv', CInv, NEW r \in Requests,
         OnlyTouches(r), GameAlone(r), input' = input,
         Standing(input[r].game)' => Standing(input[r].game),
         \/ answer'[r] = answer[r]
         \/ answer[r] = None /\ WonWar(answer'[r])
  PROVE  CInv'
<1>1. ASSUME NEW g \in Games PROVE WarsCounted(g)'
  <2>1. Standing(g)' => Standing(g)
    <3>1. CASE input[r] \in BetInputs /\ input[r].game = g
      BY <3>1
    <3>2. CASE ~ (input[r] \in BetInputs /\ input[r].game = g)
      BY <3>2, Elsewhere
    <3> QED BY <3>1, <3>2
  <2>2. WarsResolved(g)' = WarsResolved(g) /\ WarsOpened(g)' = WarsOpened(g)
    BY SameTally
  <2> QED BY <2>1, <2>2, QuietCount DEF CInv
<1> QED BY <1>1 DEF CInv

\* A war handler leaves the answer, or gives the one of a won war.
LEMMA WarAnswer ==
  ASSUME TypeOK, NEW r \in Requests, NEW rest, Open(r), WarReplies(r, rest)
  PROVE  answer'[r] = answer[r] \/ (answer[r] = None /\ WonWar(answer'[r]))
BY RespondOnce DEF WarReplies, Open

LEMMA ArriveCount ==
  ASSUME IsFiniteSet(Requests), SInv, SInv', CInv, NEW q \in reads, NEW now,
         ReadOK(now), now.req = q.req,
         now.game \notin {Absent, Pending} => now.game = game[input[q.req].game],
         Arrive(q, now), UNCHANGED <<player, game, input, lost, faults>>
  PROVE  CInv'
<1> DEFINE r == q.req
<1>1. /\ FInv /\ IInv /\ TypeOK /\ FlightOK(r) /\ r \in Requests
      /\ input[r] \in Inputs /\ input[r] # None
  BY NoneAssumption DEF SInv, FInv, IInv, ReadOK, ReadRecords
<1>2. /\ q \in ReadsOf(r) /\ ReadsOf(r) = {q}
      /\ ExtensionsOf(r) = {} /\ SettlementsOf(r) = {} /\ answer[r] = None
  BY <1>1 DEF FlightOK, ReadsAlone, ReadsOf
<1>3. Open(r) /\ r \notin lost /\ \A s \in settlements : s.req # r
  BY <1>1, <1>2 DEF SInv, Open, SettlementsOf
<1>4. GameAlone(r)
  BY DEF GameAlone
<1>5. \A p \in reads \cup reads' : p.req # r => (p \in reads' <=> p \in reads)
  BY DEF Arrive
<1>6. CASE now.game = Pending \/ now.player = Pending
  <2>1. UNCHANGED <<extensions, settlements, topUps, answer>>
    BY <1>6 DEF Arrive
  <2>2. OnlyTouches(r)
    BY <1>5, <2>1 DEF OnlyTouches
  <2> QED BY <1>1, <1>3, <2>1, <2>2, StillCount
<1>7. CASE now.game # Pending /\ now.player # Pending /\ input[r].kind = "bet"
  <2>1. ServeBet(r, now.game, now.player)
    BY <1>7 DEF Arrive
  <2>2. input[r] \in BetInputs
    BY <1>1, <1>7 DEF Inputs, TopUpInputs
  <2>3. /\ now.game \in Row \cup {Absent} /\ now.player \in Int32 \cup {Absent}
        /\ now.game # Absent => RowOK(now.game) /\ now.game = game[input[r].game]
    BY <1>7 DEF ReadOK, ReadRecords
  <2>4. \/ Nothing(extensions)
        \/ Refusing(r, extensions)
        \/ now.game # Absent /\ Serving(r, now.game, extensions)
    BY <1>1, <2>1, <2>2, <2>3, ServeBetReplies
  <2>5. CASE Nothing(extensions)
    <3>1. OnlyTouches(r)
      BY <1>5, <2>5 DEF Nothing, OnlyTouches
    <3> QED BY <1>1, <1>3, <2>5, <3>1, StillCount DEF Nothing
  <2>6. CASE Refusing(r, extensions)
    <3>1. /\ answer'[r] = ErrorResponse(409)
          /\ \A o \in Requests : o # r => answer'[o] = answer[o]
      BY <1>1, <1>3, <2>6, FixedResponses, RespondOnce DEF Refusing, Open
    <3>2. OnlyTouches(r)
      BY <1>5, <2>6, <3>1 DEF Refusing, OnlyTouches
    <3>3. answer'[r].by = "error" /\ settlements' = settlements
      BY <2>6, <3>1 DEF ErrorResponse, Refusing
    <3> QED BY <1>1, <1>2, <1>3, <3>2, <3>3, StillCount
  <2>7. CASE now.game # Absent /\ Serving(r, now.game, extensions)
    <3> DEFINE gm == now.game
    <3>1. RowOK(gm) /\ gm = game[input[r].game] /\ gm # Absent
      BY <2>3, <2>7
    <3> HIDE DEF gm
    <3>2. Serving(r, gm, extensions)
      BY <2>7 DEF gm
    <3>3. OnlyTouches(r)
      BY <1>1, <1>5, <3>2, HandlerTouches DEF Serving
    <3>4. Standing(input[r].game)' => Standing(input[r].game)
      BY <1>1, <1>2, <1>3, <2>2, <3>1, <3>2, HandlerStanding DEF Serving
    <3>5. answer'[r] = answer[r] \/ (answer[r] = None /\ WonWar(answer'[r]))
      BY <1>1, <1>3, <3>2, WarAnswer DEF Serving, RoundStep
    <3> QED BY <1>1, <1>4, <3>3, <3>4, <3>5, HandlerCount
  <2> QED BY <2>4, <2>5, <2>6, <2>7
<1>8. CASE now.game # Pending /\ now.player # Pending /\ input[r].kind = "topUp"
  <2>1. UNCHANGED <<extensions, settlements>> /\ ServeTopUp(r, now.player)
    BY <1>8 DEF Arrive
  <2>2. /\ \A o \in Requests : o # r => answer'[o] = answer[o]
        /\ answer'[r] \in {None, ErrorResponse(404)}
    BY <1>1, <1>2, <1>3, <2>1, FixedResponses, RespondOnce DEF ServeTopUp, Open
  <2>3. OnlyTouches(r)
    BY <1>5, <2>1, <2>2 DEF OnlyTouches
  <2>4. answer'[r] = answer[r] \/ answer'[r].by = "error"
    BY <1>2, <2>2 DEF ErrorResponse
  <2> QED BY <1>1, <1>2, <1>3, <2>1, <2>3, <2>4, StillCount
<1> QED BY <1>6, <1>7, <1>8 DEF Arrive

LEMMA ReadsCount ==
  ASSUME IsFiniteSet(Requests), SInv, SInv', CInv, NEW q \in reads,
         GetGame(q) \/ GetPlayer(q)
  PROVE  CInv'
BY ReadArrives, ArriveCount

LEMMA UpdateGameDeckCount ==
  ASSUME IsFiniteSet(Requests), SInv, SInv', CInv, NEW e \in extensions,
         UpdateGameDeck(e)
  PROVE  CInv'
<1> DEFINE r == e.req
           rest == extensions \ {e}
           g == input[r].game
<1>1. /\ FInv /\ IInv /\ TypeOK /\ FlightOK(r) /\ r \in Requests /\ ExtensionOK(e)
      /\ e \in ExtensionsOf(r) /\ SerialOK(r) /\ e.game = g /\ g \in Games
      /\ game[g] # Absent
  BY ExtensionTypes DEF SInv, FInv, IInv, ExtensionsOf, ExtensionOK
<1>2. GameAlone(r) /\ OnlyTouches(r)
  BY UpdateGameDeckSerial
<1>3. UNCHANGED <<input, lost>> /\ game' = CasGame(g, e.cur, e.row)
  BY <1>1 DEF UpdateGameDeck
<1>4. /\ e.row.table # 0 => SettlementsOf(r) = {} /\ ~ Accepted(r)
      /\ input[r] \in BetInputs /\ input[r] # None
  BY <1>1, NoneAssumption DEF FlightOK, BetFits, ExtensionOK, Inputs
<1>5. Handling(r, e.row, e.tokens) /\ e.row.table \in Nat
  BY <1>1, IntLimitAssumption
     DEF Handling, ExtensionOK, ExtensionRecords, RowOK, Row, NatInt32
<1>6. \/ /\ e.row.table = 0
         /\ RoundStep(r, e.row, rest) /\ RoundReplies(r, e.row, rest)
      \/ /\ e.row.table > 0
         /\ WarStep(r, e.row, rest) /\ WarReplies(r, rest)
  <2>1. \/ e.row.table = 0 /\ HandleBet(r, e.row, e.tokens, rest)
        \/ e.row.table > 0 /\ HandleWar(r, e.row, e.tokens, rest)
    BY DEF UpdateGameDeck, SInv
  <2> QED
    BY <1>5, <2>1, HandleBetStep, HandleBetReplies, HandleWarStep, HandleWarReplies
<1> HIDE DEF rest
<1>7. CASE ~ Open(r)
  <2>1. answer[r] # None /\ Accepted(r)
    BY <1>1, <1>4, <1>7, AnsweredSerial
  <2>2. game' = game
    BY <1>1, <1>3, <1>7, <1>2 DEF GameAlone, CasGame, IInv, TypeOK, RepositoryTypeOK
  <2>3. answer' = answer
    BY <1>4, <1>6, <2>1 DEF RoundStep
  <2>4. ~ Open(r)'
    BY <1>3, <1>7, <2>3 DEF Open
  <2> QED BY <1>1, <1>2, <1>3, <1>7, <2>2, <2>3, <2>4, StillCount
<1>8. CASE Open(r)
  <2>1. \A s \in SettlementsOf(r) : s.reply.by = "round"
    <3>1. \A s \in SettlementsOf(r) : RoundResponse(r, e.row) = s.reply
      BY <1>1, <1>8 DEF SerialOK, Twins
    <3> QED BY <3>1 DEF RoundResponse, BetResponse
  <2>2. SettlementsOf(r) = {} =>
          game[g].table = e.row.table /\ game'[g].table = e.row.table
    <3> SUFFICES ASSUME SettlementsOf(r) = {}
                 PROVE  game[g].table = e.row.table /\ game'[g].table = e.row.table
      OBVIOUS
    <3>1. ExtensionServes(e)
      BY <1>1, <1>8 DEF SerialOK
    <3>2. e.cur = game[g].top /\ e.row.table = game[g].table
      BY <1>1, <3>1 DEF ExtensionServes
    <3> QED BY <1>1, <1>3, <3>2 DEF CasGame, IInv, TypeOK, RepositoryTypeOK
  <2>3. Standing(g)' => Standing(g)
    BY <1>1, <1>3, <1>4, <1>5, <1>6, <1>8, <2>1, <2>2, HandlerStanding
  <2>4. answer'[r] = answer[r] \/ (answer[r] = None /\ WonWar(answer'[r]))
    BY <1>1, <1>6, <1>8, WarAnswer DEF RoundStep
  <2> QED BY <1>1, <1>2, <1>3, <2>3, <2>4, HandlerCount
<1> QED BY <1>7, <1>8

\* The answer of a settlement: it opens a war, resolves one, or does neither.
LEMMA AnswerTally ==
  ASSUME NEW r \in Requests, NEW g, NEW reply, OnlyTouches(r), input'[r] = input[r],
         answer[r] = None, answer'[r] = reply, reply # None,
         input[r] # None, input[r].game = g,
         reply.by \in {"round", "war", "forfeit"}, ~ WonWar(reply)
  PROVE  /\ r \notin WarsResolved(g) /\ r \notin WarsOpened(g)
         /\ WarsResolved(g)' = IF reply.by = "round" THEN WarsResolved(g)
                               ELSE WarsResolved(g) \cup {r}
         /\ WarsOpened(g)' = IF Opening(reply) THEN WarsOpened(g) \cup {r}
                             ELSE WarsOpened(g)
<1>1. r \notin WarsResolved(g) /\ r \notin WarsOpened(g)
  BY DEF WarsResolved, WarsOpened, Answered
<1>2. \A o \in Requests : o # r =>
        /\ o \in WarsResolved(g)' <=> o \in WarsResolved(g)
        /\ o \in WarsOpened(g)' <=> o \in WarsOpened(g)
  BY DEF OnlyTouches, WarsResolved, WarsOpened, Answered
<1>3. /\ r \in WarsResolved(g)' <=> reply.by # "round"
      /\ r \in WarsOpened(g)' <=> Opening(reply)
  BY DEF WarsResolved, WarsOpened, Answered, Opening, WonWar
<1>4. /\ WarsOpened(g) \subseteq Requests /\ WarsOpened(g)' \subseteq Requests
      /\ WarsResolved(g) \subseteq Requests /\ WarsResolved(g)' \subseteq Requests
  BY DEF WarsOpened, WarsResolved, Answered
<1> QED BY <1>1, <1>2, <1>3, <1>4

LEMMA OpenSettleCount ==
  ASSUME IsFiniteSet(Requests), SInv, SInv', CInv, NEW s \in settlements,
         NEW part \in Parts, part \in s.todo, Open(s.req),
         \/ part = "game" /\ game' = CasGame(s.game, s.cur, s.row)
         \/ part = "player" /\ game' = game,
         Settle(s, part), UNCHANGED <<input, reads, extensions, lost>>,
         OnlyTouches(s.req)
  PROVE  WarsCounted(s.game)'
<1> DEFINE r == s.req
           g == s.game
<1>1. /\ FInv /\ IInv /\ TypeOK /\ r \in Requests /\ SerialOK(r)
      /\ s \in SettlementsOf(r) /\ s.reply \in Answers /\ s \in SettlementRecords
  BY SettlementTypes DEF SInv, FInv, IInv, SettlementOK, SettlementsOf
<1>2. /\ g \in Games /\ game[g] # Absent /\ g = input[r].game /\ input[r] \in BetInputs
      /\ WarsCounted(g) /\ answer[r] = None /\ input[r] # None
  BY <1>1, SettlementInGame, FlightGame DEF CInv, Open
<1>3. Settling(g) = SettlementsOf(r)
  BY <1>1, <1>2, SettlingOne
<1>4. \A x \in SettlementsOf(r) : x.reply = s.reply
  BY <1>1 DEF SerialOK, Twins
<1>5. Standing(g) <=> s.reply.by # "round"
  BY <1>1, <1>3, <1>4 DEF Standing
<1>6. CASE s.todo # {part}
  <2> DEFINE t == [s EXCEPT !.todo = s.todo \ {part}]
  <2>1. settlements' = (settlements \ {s}) \cup {t} /\ answer' = answer
    BY <1>6 DEF Settle
  <2>2. t.req = r /\ t.reply = s.reply
    BY <1>1 DEF SettlementRecords
  <2> HIDE DEF t
  <2>3. Open(r)'
    BY <2>1 DEF Open
  <2>4. Settling(g)' = SettlementsOf(r)'
    BY <1>1, <1>2, <2>3, SettlingOneNext
  <2>5. t \in SettlementsOf(r)' /\ \A x \in SettlementsOf(r)' : x.reply = s.reply
    BY <1>4, <2>1, <2>2 DEF SettlementsOf
  <2>6. Standing(g)' => Standing(g)
    BY <1>5, <2>4, <2>5 DEF Standing
  <2>7. WarsResolved(g)' = WarsResolved(g) /\ WarsOpened(g)' = WarsOpened(g)
    BY <1>1, <2>1, SameTally
  <2> QED BY <1>2, <2>6, <2>7, QuietCount
<1>7. CASE s.todo = {part}
  <2>1. answer'[r] = s.reply /\ game'[g].table = s.row.table
    BY <1>7, OpenSettleSerial
  <2>2. /\ s.reply # None /\ s.reply.by \in {"round", "war", "forfeit"}
        /\ ~ WonWar(s.reply) /\ (s.row.table > 0 => Opening(s.reply))
    BY <1>1, NoAnswerAssumption DEF SerialOK, SettlementShape
  <2>3. Settling(g)' = {}
    <3>1. ~ Open(r)' /\ settlements' = settlements \ {s}
      BY <1>7, <2>1, <2>2 DEF Open, Settle
    <3>2. \A x \in settlements : x.req \in Requests
      BY <1>1, SettlementInGame
    <3>3. \A x \in Settling(g)' : x.req # r /\ x \in settlements /\ x.game = g
      BY <3>1 DEF Settling
    <3>4. \A x \in Settling(g)' : Open(x.req)
      BY <3>2, <3>3 DEF Settling, OnlyTouches, Open
    <3> QED BY <1>3, <3>3, <3>4 DEF Settling, SettlementsOf
  <2>4. Standing(g)' => Opening(s.reply)
    BY <2>1, <2>2, <2>3 DEF Standing
  <2>5. /\ r \notin WarsResolved(g) /\ r \notin WarsOpened(g)
        /\ WarsResolved(g)' = IF s.reply.by = "round" THEN WarsResolved(g)
                              ELSE WarsResolved(g) \cup {r}
        /\ WarsOpened(g)' = IF Opening(s.reply) THEN WarsOpened(g) \cup {r}
                            ELSE WarsOpened(g)
    BY <1>1, <1>2, <2>1, <2>2, AnswerTally
  <2>6. /\ IsFiniteSet(WarsResolved(g)) /\ Cardinality(WarsResolved(g)) \in Nat
        /\ IsFiniteSet(WarsOpened(g)) /\ Cardinality(WarsOpened(g)) \in Nat
        /\ WarsAtStart(g) \in Nat
    BY TallyTypes
  <2>7. Cardinality(WarsResolved(g)) + (IF Standing(g) THEN 1 ELSE 0)
          <= Cardinality(WarsOpened(g)) + WarsAtStart(g)
    BY <1>2 DEF WarsCounted
  <2>8. Cardinality(WarsResolved(g)')
          = Cardinality(WarsResolved(g)) + (IF s.reply.by = "round" THEN 0 ELSE 1)
    <3>1. Cardinality(WarsResolved(g) \cup {r}) = Cardinality(WarsResolved(g)) + 1
      BY <2>5, <2>6, FS_AddElement
    <3> QED BY <2>5, <2>6, <3>1
  <2>9. Cardinality(WarsOpened(g)')
          = Cardinality(WarsOpened(g)) + (IF Opening(s.reply) THEN 1 ELSE 0)
    <3>1. Cardinality(WarsOpened(g) \cup {r}) = Cardinality(WarsOpened(g)) + 1
      BY <2>5, <2>6, FS_AddElement
    <3> QED BY <2>5, <2>6, <3>1
  <2>10. Opening(s.reply) => s.reply.by = "round"
    BY DEF Opening
  <2>11. Cardinality(WarsResolved(g)') + (IF Standing(g)' THEN 1 ELSE 0)
           <= Cardinality(WarsOpened(g)') + WarsAtStart(g)
    BY <1>5, <2>4, <2>6, <2>7, <2>8, <2>9, <2>10
  <2> QED BY <2>11 DEF WarsCounted, WarsAtStart
<1> QED BY <1>6, <1>7

LEMMA UpdateSettlementCount ==
  ASSUME IsFiniteSet(Requests), SInv, SInv', CInv, NEW s \in settlements,
         UpdatePlayer(s) \/ UpdateGame(s)
  PROVE  CInv'
<1>1. /\ FInv /\ s.req \in Requests /\ s \in SettlementsOf(s.req)
  BY SettlementTypes DEF SInv, FInv, SettlementsOf
<1>2. UNCHANGED <<input, reads, extensions, lost>>
  BY DEF UpdatePlayer, UpdateGame
<1>3. PICK part \in Parts :
        /\ part \in s.todo /\ Settle(s, part)
        /\ \/ part = "game" /\ game' = CasGame(s.game, s.cur, s.row)
           \/ part = "player" /\ game' = game
  BY DEF UpdatePlayer, UpdateGame, Parts
<1>4. OnlyTouches(s.req) /\ GameAlone(s.req)
  BY UpdateSettlementSerial
<1>5. CASE ~ Open(s.req)
  <2>1. game' = game /\ answer' = answer
    BY <1>2, <1>3, <1>5, LateSettleSerial
  <2>2. ~ Open(s.req)'
    BY <1>2, <1>5, <2>1 DEF Open
  <2> QED BY <1>1, <1>2, <1>4, <1>5, <2>1, <2>2, StillCount
<1>6. CASE Open(s.req)
  <2>1. s.game = input[s.req].game
    BY <1>1, FlightGame
  <2>2. WarsCounted(s.game)'
    BY <1>2, <1>3, <1>4, <1>6, OpenSettleCount
  <2>3. ASSUME NEW g \in Games, g # s.game PROVE WarsCounted(g)'
    <3>1. Standing(g)' <=> Standing(g)
      BY <1>1, <1>2, <1>4, <2>1, <2>3, Elsewhere
    <3>2. WarsResolved(g)' = WarsResolved(g) /\ WarsOpened(g)' = WarsOpened(g)
      BY <1>1, <1>2, <1>4, <1>6, <2>1, <2>3, SameTally DEF Open
    <3> QED BY <3>1, <3>2, QuietCount DEF CInv
  <2> QED BY <2>2, <2>3 DEF CInv
<1> QED BY <1>5, <1>6

LEMMA UpdateTokensCount ==
  ASSUME IsFiniteSet(Requests), SInv, SInv', CInv, NEW u \in topUps, UpdateTokens(u)
  PROVE  CInv'
<1> DEFINE r == u.req
<1>1. /\ TypeOK /\ FlightOK(r) /\ r \in Requests /\ input[r] \in TopUpInputs
  BY DEF SInv, FInv, IInv, TypeOK, TopUpRecords
<1>2. /\ UNCHANGED <<game, input, reads, extensions, settlements, lost>>
      /\ Respond(r, TopUpResponse)
  BY DEF UpdateTokens
<1>3. /\ \A o \in Requests : o # r => answer'[o] = answer[o]
      /\ answer'[r] = answer[r] \/ (answer[r] = None /\ answer'[r].by = "topUp")
  BY <1>1, <1>2, FixedResponses, RespondOnce
     DEF TypeOK, Respond, Open, TopUpResponse
<1>4. \A s \in settlements : s.req # r
  <2>1. input[r] \notin BetInputs
    BY <1>1 DEF BetInputs, TopUpInputs
  <2> QED BY <1>1, <2>1 DEF FlightOK, BetFits, SettlementsOf
<1>5. OnlyTouches(r)
  BY <1>2, <1>3 DEF OnlyTouches
<1> QED BY <1>1, <1>2, <1>3, <1>4, <1>5, StillCount

LEMMA InitCInv == ASSUME Init PROVE CInv
<1>1. ASSUME NEW g \in Games PROVE WarsCounted(g)
  <2>1. WarsResolved(g) = {} /\ WarsOpened(g) = {}
    BY DEF Init, WarsResolved, WarsOpened, Answered
  <2>2. Settling(g) = {}
    BY DEF Init, Settling
  <2>3. Standing(g) => WarsAtStart(g) = 1
    BY <2>2 DEF Standing, WarsAtStart, Init, RepositoryInit
  <2>4. WarsAtStart(g) \in {0, 1} /\ Cardinality({}) = 0
    BY FS_EmptySet DEF WarsAtStart
  <2> QED BY <2>1, <2>3, <2>4 DEF WarsCounted
<1> QED BY <1>1 DEF CInv

LEMMA NextCInv ==
  ASSUME WaitingClients, IsFiniteSet(Requests), SInv, SInv', CInv, [Next]_vars
  PROVE  CInv'
<1>1. CASE Arrivals
  BY <1>1, SubmitCount DEF Arrivals, RequestBet, UpdatePlayerToken
<1>2. CASE Statements
  BY <1>2, ReadsCount, UpdateGameDeckCount, UpdateSettlementCount,
     UpdateTokensCount DEF Statements
<1>3. CASE StatementFaults \/ Crash
  <2>1. ~ Fault
    BY NoFault DEF SInv
  <2> QED
    BY <1>3, <2>1
       DEF StatementFaults, FailRead, FailExtension, FailSettlement, FailTokens, Crash
<1>4. CASE UNCHANGED vars
  <2>1. ASSUME NEW g \in Games PROVE WarsCounted(g)'
    <3>1. Settling(g)' = Settling(g)
      BY <1>4 DEF vars, Settling, Open
    <3>2. Standing(g)' <=> Standing(g)
      BY <1>4, <3>1 DEF vars, Standing
    <3>3. WarsResolved(g)' = WarsResolved(g) /\ WarsOpened(g)' = WarsOpened(g)
      BY <1>4 DEF vars, WarsResolved, WarsOpened, Answered
    <3> QED BY <3>2, <3>3, QuietCount DEF CInv
  <2> QED BY <2>1 DEF CInv
<1> QED BY <1>1, <1>2, <1>3, <1>4 DEF Next

LEMMA CountedOnce ==
  ASSUME IsFiniteSet(Requests), CInv
  PROVE  WarResolvedOnce
<1> SUFFICES ASSUME NEW g \in Games
             PROVE  Cardinality(WarsResolved(g)) <= Cardinality(WarsOpened(g))
                                                    + WarsAtStart(g)
  BY DEF WarResolvedOnce
<1>1. WarsCounted(g)
  BY DEF CInv
<1>2. /\ Cardinality(WarsResolved(g)) \in Nat /\ Cardinality(WarsOpened(g)) \in Nat
      /\ WarsAtStart(g) \in Nat
  BY TallyTypes
<1> QED BY <1>1, <1>2 DEF WarsCounted

\* No war of such clients is paid back, won or lost by two answers, however
\* many of them play at the same time.
THEOREM WarsResolvedOnce ==
  ASSUME WaitingClients, IsFiniteSet(Requests)
  PROVE  Spec => []WarResolvedOnce
<1>1. SInv /\ CInv /\ [Next]_vars => (SInv /\ CInv)'
  BY NextSInv, NextCInv
<1>2. Init => SInv /\ CInv
  BY InitSInv, InitCInv
<1>3. CInv => WarResolvedOnce
  BY CountedOnce
<1> QED BY <1>1, <1>2, <1>3, PTL DEF Spec
=============================================================================
