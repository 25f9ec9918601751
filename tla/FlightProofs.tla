---------------------------- MODULE FlightProofs ----------------------------
(***************************************************************************)
(* Proofs about what one request has in flight, for all values of the      *)
(* constants: its statements fit together, none of them reaches the game   *)
(* after the answer, and none of them is the last one too early.           *)
(***************************************************************************)
EXTENDS GameServiceProofs

ReadsOf(r) == {q \in reads : q.req = r}
ExtensionsOf(r) == {e \in extensions : e.req = r}
SettlementsOf(r) == {s \in settlements : s.req = r}

Accepted(r) == answer[r] # None /\ answer[r].status = 200

\* It is settled that r gets no answer 200.
Refused(r) ==
  \/ answer[r] # None /\ answer[r].status # 200
  \/ answer[r] = None /\ r \in lost

\* A settlement that deals cards, as rounds and wars do and a forfeit does not.
Deals(s) == s.row.top > s.cur

\* A request reads its rows first, with nothing else in flight ...
ReadsAlone(r) ==
  ReadsOf(r) # {} =>
    /\ \A q1, q2 \in ReadsOf(r) : q1 = q2
    /\ ExtensionsOf(r) = {} /\ SettlementsOf(r) = {}
    /\ answer[r] = None

\* ... and misses only rows that do not exist.
ReadsExact(r) ==
  \A q \in ReadsOf(r) :
    /\ q.game = Absent /\ input[r].kind = "bet" => game[input[r].game] = Absent
    /\ q.player = Absent => player[input[r].player] = Absent

\* Only bets extend and settle.  All their UPDATEs of the game compare the same
\* index; an extension in flight beside a settlement is that of a round, and one
\* of a war, or a settlement that does not deal, is on its own and unanswered.
BetFits(r) ==
  /\ ExtensionsOf(r) \cup SettlementsOf(r) # {} => input[r] \in BetInputs
  /\ \A e1, e2 \in ExtensionsOf(r) : e1 = e2
  /\ \A e \in ExtensionsOf(r) : e.row.table # 0 => ~ Accepted(r)
  /\ \A s1, s2 \in SettlementsOf(r) : s1.cur = s2.cur
  /\ \A e \in ExtensionsOf(r), s \in SettlementsOf(r) :
       e.cur = s.cur /\ e.row.table = 0 /\ Deals(s)
  /\ \A s \in SettlementsOf(r) :
       /\ s.game = input[r].game /\ s.todo # {}
       /\ ~ Deals(s) => SettlementsOf(r) = {s} /\ ~ Accepted(r)

\* The game half of a settlement that deals has moved the index past the one
\* compared, here or in another request, unless it failed.
HalvesMoved(r) ==
  \A s \in SettlementsOf(r) :
    Deals(s) /\ "game" \notin s.todo => s.cur < game[s.game].top \/ Refused(r)

AnsweredIsDone(r) ==
  Accepted(r) =>
    /\ \A e \in ExtensionsOf(r) : e.cur < game[e.game].top
    /\ \A s \in SettlementsOf(r) : "game" \in s.todo => s.cur < game[s.game].top

Stranded(r) ==
  /\ Open(r) /\ input[r].kind = "bet"
  /\ input[r].bet # Omitted /\ input[r].tieBet # Omitted
  /\ game[input[r].game] # Absent /\ player[input[r].player] # Absent
  /\ ReadsOf(r) \cup ExtensionsOf(r) \cup SettlementsOf(r) = {}

Unsent(r) ==
  input[r] = None =>
    /\ ReadsOf(r) \cup ExtensionsOf(r) \cup SettlementsOf(r) = {}
    /\ answer[r] = None /\ r \notin lost

FlightOK(r) ==
  /\ Unsent(r)
  /\ ReadsAlone(r) /\ ReadsExact(r)
  /\ BetFits(r) /\ HalvesMoved(r) /\ AnsweredIsDone(r)
  /\ ~ Stranded(r)

FInv ==
  /\ IInv
  /\ \A u \in topUps : input[u.req] \in TopUpInputs /\ ReadsOf(u.req) = {}
  /\ \A r \in Requests : FlightOK(r)

-----------------------------------------------------------------------------
(***************************************************************************)
(* What other requests do to one: rows of the table game grow, and those of *)
(* the table player neither come nor go.                                   *)
(***************************************************************************)
LEMMA TopGrows ==
  ASSUME IInv, GameKept, NEW g \in Games, NEW cur \in Nat, game[g] # Absent,
         cur < game[g].top
  PROVE  cur < game'[g].top
<1>1. game[g].top \in Nat /\ game'[g].top \in Nat /\ game'[g].top >= game[g].top
  BY DEF IInv, GameKept, RowGrows, RowOK, Row
<1> QED BY <1>1

LEMMA ExtensionTypes ==
  ASSUME IInv, NEW e \in extensions
  PROVE  /\ e.req \in Requests /\ e.game \in Games /\ e.cur \in Nat
         /\ game[e.game] # Absent
BY DEF IInv, ExtensionOK, ExtensionRecords, CopyOf

LEMMA SettlementInGame ==
  ASSUME IInv, NEW s \in settlements
  PROVE  /\ s.req \in Requests /\ s.game \in Games /\ s.cur \in Nat
         /\ game[s.game] # Absent /\ s.row.top \in Nat
BY DEF IInv, SettlementOK, SettlementRecords, CopyOf, RowOK, Row

\* The answer, the inputs and the process of a request do not change, and its
\* statements are at most fewer of those that it has only at the same time.
SameRequest(r) ==
  /\ ReadsOf(r)' = ReadsOf(r)
  /\ ExtensionsOf(r)' = ExtensionsOf(r)
  /\ SettlementsOf(r)' = SettlementsOf(r)
  /\ answer'[r] = answer[r]
  /\ input'[r] = input[r]
  /\ r \in lost' <=> r \in lost

LEMMA HalvesKept ==
  ASSUME IInv, GameKept, NEW r, HalvesMoved(r), AnsweredIsDone(r), SameRequest(r)
  PROVE  HalvesMoved(r)' /\ AnsweredIsDone(r)'
<1>1. Refused(r)' = Refused(r) /\ Accepted(r)' = Accepted(r)
  BY DEF SameRequest, Refused, Accepted
<1>2. \A s \in SettlementsOf(r) :
        s.cur < game[s.game].top => s.cur < game'[s.game].top
  BY TopGrows, SettlementInGame DEF SettlementsOf
<1>3. \A e \in ExtensionsOf(r) :
        e.cur < game[e.game].top => e.cur < game'[e.game].top
  BY TopGrows, ExtensionTypes DEF ExtensionsOf
<1> QED
  BY <1>1, <1>2, <1>3 DEF SameRequest, HalvesMoved, AnsweredIsDone, Deals

\* A step in which a request has no part.
LEMMA FlightKept ==
  ASSUME FInv, GameStep, PlayerStep, NEW r \in Requests, SameRequest(r)
  PROVE  FlightOK(r)'
<1>1. FlightOK(r) /\ IInv
  BY DEF FInv
<1>2. input[r] = None \/ input[r] \in BetInputs \/ input[r] \in TopUpInputs
  BY <1>1 DEF IInv, TypeOK, Inputs
<1>3. /\ Unsent(r)' /\ ReadsAlone(r)' /\ BetFits(r)'
  BY <1>1 DEF FlightOK, SameRequest, Unsent, ReadsAlone, BetFits, Accepted, Deals
<1>4. HalvesMoved(r)' /\ AnsweredIsDone(r)'
  BY <1>1, HalvesKept, StepKeeps DEF FlightOK
<1>5. input[r] \in BetInputs => input[r].game \in Games /\ input[r].player \in Players
  BY DEF BetInputs
<1>6. \A g \in Games : (game'[g] = Absent) <=> (game[g] = Absent)
  BY DEF GameStep
<1>7. ReadsExact(r)'
  <2>1. ASSUME NEW q \in ReadsOf(r)
        PROVE  /\ input[r].player \in Players
               /\ input[r].kind = "bet" => input[r].game \in Games
    BY <1>1, <2>1 DEF IInv, ReadOK, ReadsOf, Inputs, BetInputs, TopUpInputs
  <2> QED BY <1>1, <1>6, <2>1 DEF FlightOK, SameRequest, ReadsExact, PlayerStep
<1>8. ~ Stranded(r)'
  BY <1>1, <1>2, <1>5, <1>6, NoneAssumption
     DEF FlightOK, SameRequest, Stranded, PlayerStep, Open, TopUpInputs
<1> QED BY <1>3, <1>4, <1>7, <1>8 DEF FlightOK

\* A step touches one request only.
OnlyTouches(r) ==
  /\ \A q \in reads \cup reads' : q.req # r => (q \in reads' <=> q \in reads)
  /\ \A e \in extensions \cup extensions' :
       e.req # r => (e \in extensions' <=> e \in extensions)
  /\ \A s \in settlements \cup settlements' :
       s.req # r => (s \in settlements' <=> s \in settlements)
  /\ \A o \in Requests : o # r =>
       /\ answer'[o] = answer[o] /\ input'[o] = input[o]
       /\ o \in lost' <=> o \in lost

\* It starts no reads but those of a request that is sent.
NoNewReaders ==
  \A q \in reads' : input[q.req] = None \/ \E p \in reads : p.req = q.req

TopUpsFit ==
  \A u \in topUps' :
    u \in topUps \/ (input[u.req] \in TopUpInputs /\ ReadsOf(u.req)' = {})

LEMMA UntouchedSame ==
  ASSUME NEW r, OnlyTouches(r), NEW o \in Requests, o # r
  PROVE  SameRequest(o)
<1>1. ReadsOf(o)' = ReadsOf(o)
  BY DEF OnlyTouches, ReadsOf
<1>2. ExtensionsOf(o)' = ExtensionsOf(o)
  BY DEF OnlyTouches, ExtensionsOf
<1>3. SettlementsOf(o)' = SettlementsOf(o)
  BY DEF OnlyTouches, SettlementsOf
<1> QED BY <1>1, <1>2, <1>3 DEF OnlyTouches, SameRequest

LEMMA TopUpsKept ==
  ASSUME FInv, IInv', InputStep, NoNewReaders, TopUpsFit
  PROVE  \A u \in topUps' : input'[u.req] \in TopUpInputs /\ ReadsOf(u.req)' = {}
<1> SUFFICES ASSUME NEW u \in topUps'
             PROVE  input'[u.req] \in TopUpInputs /\ ReadsOf(u.req)' = {}
  OBVIOUS
<1>1. input[u.req] \in TopUpInputs
  BY DEF FInv, TopUpsFit
<1>2. ASSUME u \in topUps PROVE ReadsOf(u.req)' = {}
  <2>1. ReadsOf(u.req) = {}
    BY <1>2 DEF FInv
  <2>2. input[u.req] # None
    BY <1>1, NoneAssumption DEF Inputs
  <2> QED BY <2>1, <2>2 DEF NoNewReaders, ReadsOf
<1>3. ReadsOf(u.req)' = {}
  BY <1>2 DEF TopUpsFit
<1>4. input'[u.req] = input[u.req]
  <2>1. input[u.req] \in Inputs
    BY <1>1 DEF Inputs
  <2>2. u.req \in Requests
    BY DEF IInv, TypeOK, TopUpRecords
  <2> QED BY <2>1, <2>2 DEF InputStep
<1> QED BY <1>1, <1>3, <1>4

LEMMA TouchPreserves ==
  ASSUME FInv, IInv', GameStep, PlayerStep, InputStep,
         NEW r \in Requests, OnlyTouches(r), NoNewReaders, TopUpsFit, FlightOK(r)'
  PROVE  FInv'
<1>1. \A o \in Requests : o # r => FlightOK(o)'
  BY UntouchedSame, FlightKept
<1>2. \A o \in Requests : FlightOK(o)'
  BY <1>1
<1> QED BY <1>2, TopUpsKept DEF FInv

-----------------------------------------------------------------------------
(***************************************************************************)
(* The steps of one request.                                               *)
(***************************************************************************)
LEMMA SubmitFlight ==
  ASSUME FInv, NEW r \in Requests, NEW in \in Inputs, NEW awaited,
         \/ awaited = Absent /\ in \in TopUpInputs
         \/ awaited = Pending /\ in \in BetInputs,
         Submit(r, in, awaited)
  PROVE  FInv'
<1> DEFINE q == [req |-> r, game |-> awaited, player |-> Pending]
<1>1. IInv /\ FlightOK(r) /\ input[r] = None
  BY DEF FInv, Submit
<1>2. /\ ReadsOf(r) = {} /\ ExtensionsOf(r) = {} /\ SettlementsOf(r) = {}
      /\ answer[r] = None
  BY <1>1 DEF FlightOK, Unsent
<1>3. /\ reads' = reads \cup {q} /\ input'[r] = in
      /\ \A o \in Requests : o # r => input'[o] = input[o]
      /\ UNCHANGED <<player, game, extensions, settlements, topUps, answer, lost>>
  BY <1>1 DEF Submit, IInv, TypeOK
<1>4. /\ ReadsOf(r)' = {q} /\ ExtensionsOf(r)' = {} /\ SettlementsOf(r)' = {}
      /\ answer'[r] = None
  BY <1>2, <1>3 DEF ReadsOf, ExtensionsOf, SettlementsOf
<1>5. in # None /\ (in \in TopUpInputs => in.kind = "topUp")
  BY NoneAssumption DEF TopUpInputs
<1>6. q.player = Pending /\ q.game = awaited /\ Absent # Pending
  BY AbsentNotRow
<1> HIDE DEF q
<1>7. FlightOK(r)'
  BY <1>3, <1>4, <1>5, <1>6
     DEF FlightOK, Unsent, ReadsAlone, ReadsExact, BetFits, HalvesMoved,
         AnsweredIsDone, Stranded, Accepted
<1>8. OnlyTouches(r) /\ NoNewReaders /\ TopUpsFit
  <2>1. q.req = r
    BY DEF q
  <2> QED BY <1>1, <1>3, <2>1 DEF OnlyTouches, NoNewReaders, TopUpsFit
<1>9. IInv' /\ GameStep
  BY <1>1, SubmitPreserves
<1>10. InputStep /\ PlayerStep
  BY <1>1, <1>3, NoneAssumption DEF InputStep, PlayerStep, Submit, IInv, TypeOK
<1> QED BY <1>7, <1>8, <1>9, <1>10, TouchPreserves

\* A handler of a request that had read the row gm, or extended its deck: what
\* it leaves in flight fits together.
LEMMA RoundFlight ==
  ASSUME FInv, NEW r \in Requests, NEW gm, NEW rest \in SUBSET extensions,
         RowOK(gm), gm.table = 0, CopyOf(gm, gm.top, input[r].game),
         input[r] \in BetInputs,
         RoundStep(r, gm, rest), UNCHANGED <<input, lost, player>>, GameStep,
         ReadsOf(r)' = {},
         \A e \in rest : e.req # r,
         \A s \in SettlementsOf(r) : Deals(s) /\ s.cur = gm.top,
         Accepted(r) => gm.top < game[input[r].game].top
  PROVE  FlightOK(r)'
<1>1. FlightOK(r) /\ IInv
  BY DEF FInv
<1>2. ASSUME NEW e \in ExtensionsOf(r)'
      PROVE  e.cur = gm.top /\ e.game = input[r].game /\ e.row.table = 0
             /\ ExtensionsOf(r)' = {e}
  BY DEF RoundStep, ExtensionsOf, NewExtension
<1>3. ASSUME NEW s \in SettlementsOf(r)'
      PROVE  \/ s \in SettlementsOf(r)
             \/ /\ s.cur = gm.top /\ s.game = input[r].game /\ Deals(s)
                /\ s.todo = Parts
  BY DEF RoundStep, SettlementsOf, NewSettlement, Deals
<1>4. \A s \in SettlementsOf(r)' : /\ s.cur = gm.top /\ Deals(s)
                                   /\ s.game = input[r].game /\ s.todo # {}
  BY <1>1, <1>3 DEF FlightOK, BetFits, Parts
<1>5. answer' = answer /\ input' = input /\ lost' = lost
  BY DEF RoundStep
<1>6. input[r] # None /\ input[r].game \in Games /\ input[r].kind = "bet"
  BY NoneAssumption DEF Inputs, BetInputs
<1>7. Unsent(r)' /\ ReadsAlone(r)' /\ ReadsExact(r)'
  BY <1>5, <1>6 DEF Unsent, ReadsAlone, ReadsExact
<1>8. BetFits(r)'
  BY <1>2, <1>4, <1>5 DEF BetFits, Deals
<1>9. gm.top < game[input[r].game].top => gm.top < game'[input[r].game].top
  <2>1. gm.top \in Nat /\ game[input[r].game] # Absent
    BY DEF RowOK, Row, CopyOf
  <2> QED BY <1>1, <1>6, <2>1, TopGrows, StepKeeps
<1>10. HalvesMoved(r)'
  <2>1. \A s \in SettlementsOf(r)' : "game" \notin s.todo =>
          s \in SettlementsOf(r) /\ (s.cur < game[s.game].top \/ Refused(r))
    BY <1>1, <1>3, <1>4 DEF Parts, FlightOK, HalvesMoved
  <2>2. Refused(r) => Refused(r)'
    BY <1>5 DEF Refused
  <2> QED BY <1>4, <1>9, <2>1, <2>2 DEF HalvesMoved
<1>11. AnsweredIsDone(r)'
  BY <1>2, <1>4, <1>5, <1>9 DEF AnsweredIsDone, Accepted
<1>12. ~ Stranded(r)'
  BY <1>5 DEF RoundStep, Stranded, ExtensionsOf, SettlementsOf
<1> QED BY <1>7, <1>8, <1>10, <1>11, <1>12 DEF FlightOK

LEMMA RespondOnce ==
  ASSUME TypeOK, NEW r \in Requests, NEW response \in Answers,
         Respond(r, response)
  PROVE  /\ \A o \in Requests : o # r => answer'[o] = answer[o]
         /\ answer[r] # None => answer'[r] = answer[r]
         /\ answer[r] = None /\ r \notin lost /\ input[r] # None
              => answer'[r] = response
         /\ answer[r] = None /\ r \in lost => answer'[r] = None
         /\ lost' = lost /\ input' = input => ~ Open(r)'
         /\ lost' = lost /\ Refused(r) => Refused(r)'
BY NoAnswerAssumption DEF Respond, Open, TypeOK, Refused

LEMMA WarFlight ==
  ASSUME FInv, NEW r \in Requests, NEW gm, NEW rest \in SUBSET extensions,
         RowOK(gm), input[r] \in BetInputs,
         WarStep(r, gm, rest), UNCHANGED <<input, lost, player>>, GameStep,
         ReadsOf(r)' = {}, SettlementsOf(r) = {},
         \A e \in rest : e.req # r,
         ~ Accepted(r)
  PROVE  FlightOK(r)'
<1>1. FlightOK(r) /\ IInv /\ TypeOK
  BY DEF FInv, IInv
<1>2. input' = input /\ lost' = lost /\ input[r] # None
  BY NoneAssumption DEF Inputs
<1>3. Unsent(r)' /\ ReadsAlone(r)' /\ ReadsExact(r)'
  BY <1>2 DEF Unsent, ReadsAlone, ReadsExact
<1>4. CASE /\ \E e : NewExtension(e, r, gm) /\ extensions' = rest \cup {e}
           /\ UNCHANGED <<settlements, answer>>
  <2>1. PICK e : NewExtension(e, r, gm) /\ extensions' = rest \cup {e}
    BY <1>4
  <2>2. ExtensionsOf(r)' = {e} /\ SettlementsOf(r)' = {} /\ ~ Accepted(r)'
    BY <1>4, <2>1 DEF ExtensionsOf, SettlementsOf, NewExtension, Accepted
  <2> QED
    BY <1>2, <1>3, <2>2 DEF FlightOK, BetFits, HalvesMoved, AnsweredIsDone, Stranded
<1>5. CASE /\ extensions' = rest /\ settlements' = settlements
           /\ \E response \in Answers : Respond(r, response)
  <2>1. ExtensionsOf(r)' = {} /\ SettlementsOf(r)' = {}
    BY <1>5 DEF ExtensionsOf, SettlementsOf
  <2>2. ~ Open(r)'
    BY <1>1, <1>2, <1>5, RespondOnce
  <2> QED
    BY <1>3, <2>1, <2>2 DEF FlightOK, BetFits, HalvesMoved, AnsweredIsDone, Stranded
<1>6. CASE /\ extensions' = rest /\ answer' = answer
           /\ \E s : NewSettlement(s, r, gm) /\ settlements' = settlements \cup {s}
  <2>1. PICK s : NewSettlement(s, r, gm) /\ settlements' = settlements \cup {s}
    BY <1>6
  <2>2. ExtensionsOf(r)' = {} /\ SettlementsOf(r)' = {s} /\ ~ Accepted(r)'
    BY <1>6, <2>1 DEF ExtensionsOf, SettlementsOf, NewSettlement, Accepted
  <2>3. s.todo = Parts /\ s.game = input[r].game
    BY <2>1 DEF NewSettlement
  <2> QED
    BY <1>2, <1>3, <2>2, <2>3
       DEF FlightOK, BetFits, HalvesMoved, AnsweredIsDone, Stranded, Parts
<1> QED BY <1>4, <1>5, <1>6 DEF WarStep

\* The last of a request's SELECTs has run, or there is one more to come.
LEMMA ArriveFlight ==
  ASSUME FInv, IInv', NEW q \in reads, NEW now, ReadOK(now), now.req = q.req,
         now.game = Absent /\ input[q.req].kind = "bet"
           => game[input[q.req].game] = Absent,
         now.player = Absent => player[input[q.req].player] = Absent,
         Arrive(q, now), UNCHANGED <<player, game, input, lost>>
  PROVE  FInv'
<1> DEFINE r == q.req
<1>1. /\ IInv /\ TypeOK /\ FlightOK(r) /\ r \in Requests /\ input[r] \in Inputs
      /\ input[r] # None
  BY NoneAssumption DEF FInv, IInv, ReadOK, ReadRecords
<1>2. /\ q \in ReadsOf(r) /\ ReadsOf(r) = {q}
      /\ ExtensionsOf(r) = {} /\ SettlementsOf(r) = {} /\ answer[r] = None
  BY <1>1 DEF FlightOK, ReadsAlone, ReadsOf
<1>3. GameStep /\ PlayerStep /\ InputStep
  BY <1>1, GameUnchanged, InputUnchanged DEF PlayerStep
<1>4. NoNewReaders
  BY DEF NoNewReaders, Arrive
<1>5. CASE now.game = Pending \/ now.player = Pending
  <2>1. /\ reads' = (reads \ {q}) \cup {now}
        /\ UNCHANGED <<extensions, settlements, topUps, answer>>
    BY <1>5 DEF Arrive
  <2>2. /\ ReadsOf(r)' = {now} /\ ExtensionsOf(r)' = {} /\ SettlementsOf(r)' = {}
    BY <1>2, <2>1 DEF ReadsOf, ExtensionsOf, SettlementsOf
  <2>3. OnlyTouches(r) /\ TopUpsFit
    BY <2>1 DEF OnlyTouches, TopUpsFit
  <2>4. FlightOK(r)'
    BY <1>1, <1>2, <2>1, <2>2
       DEF FlightOK, Unsent, ReadsAlone, ReadsExact, BetFits, HalvesMoved,
           AnsweredIsDone, Stranded, Accepted
  <2> QED BY <1>1, <1>3, <1>4, <2>3, <2>4, TouchPreserves
<1>6. CASE now.game # Pending /\ now.player # Pending /\ input[r].kind = "bet"
  <2>1. /\ reads' = reads \ {q} /\ topUps' = topUps
        /\ ServeBet(r, now.game, now.player)
    BY <1>6 DEF Arrive
  <2>2. ReadsOf(r)' = {} /\ input[r] \in BetInputs
    BY <1>1, <1>2, <1>6, <2>1 DEF ReadsOf, Inputs, TopUpInputs
  <2>3. /\ now.game \in Row \cup {Absent} /\ now.player \in Int32 \cup {Absent}
        /\ now.game # Absent => RowOK(now.game)
                                /\ CopyOf(now.game, now.game.top, input[r].game)
    BY <1>6 DEF ReadOK, ReadRecords
  <2>4. \/ /\ now.game = Absent \/ now.player = Absent \/ input[r].bet = Omitted
           /\ UNCHANGED <<extensions, settlements, answer>>
        \/ /\ now.game # Absent /\ now.player # Absent /\ input[r].bet # Omitted
           /\ \/ now.game.table = 0 /\ RoundStep(r, now.game, extensions)
              \/ WarStep(r, now.game, extensions)
    BY <1>1, <2>1, <2>2, <2>3, ServeBetStep
  <2>5. TopUpsFit
    BY <2>1 DEF TopUpsFit
  <2>6. OnlyTouches(r)
    <3>1. \A e \in extensions' : e \in extensions \/ e.req = r
      BY <2>4 DEF RoundStep, WarStep, NewExtension
    <3>2. \A s \in settlements' : s \in settlements \/ s.req = r
      BY <2>4 DEF RoundStep, WarStep, NewSettlement
    <3>3. extensions \subseteq extensions' /\ settlements \subseteq settlements'
      BY <2>4 DEF RoundStep, WarStep
    <3>4. \A o \in Requests : o # r => answer'[o] = answer[o]
      BY <1>1, <2>4, RespondOnce DEF RoundStep, WarStep
    <3> QED BY <2>1, <3>1, <3>2, <3>3, <3>4 DEF OnlyTouches
  <2>7. FlightOK(r)'
    <3>1. CASE /\ now.game = Absent \/ now.player = Absent \/ input[r].bet = Omitted
               /\ UNCHANGED <<extensions, settlements, answer>>
      <4>1. ExtensionsOf(r)' = {} /\ SettlementsOf(r)' = {}
        BY <1>2, <3>1 DEF ExtensionsOf, SettlementsOf
      <4> QED
        BY <1>1, <1>6, <2>2, <3>1, <4>1
           DEF FlightOK, Unsent, ReadsAlone, ReadsExact, BetFits, HalvesMoved,
               AnsweredIsDone, Stranded
    <3>2. ~ Accepted(r) /\ \A e \in extensions : e.req # r
      BY <1>2 DEF Accepted, ExtensionsOf
    <3>3. CASE /\ now.game # Absent /\ now.game.table = 0
               /\ RoundStep(r, now.game, extensions)
      BY <1>1, <1>2, <1>3, <2>2, <2>3, <3>2, <3>3, RoundFlight
    <3>4. CASE now.game # Absent /\ WarStep(r, now.game, extensions)
      BY <1>1, <1>2, <1>3, <2>2, <2>3, <3>2, <3>4, WarFlight
    <3> QED BY <2>4, <3>1, <3>3, <3>4
  <2> QED BY <1>1, <1>3, <1>4, <2>5, <2>6, <2>7, TouchPreserves
<1>7. CASE now.game # Pending /\ now.player # Pending /\ input[r].kind = "topUp"
  <2>1. /\ reads' = reads \ {q} /\ UNCHANGED <<extensions, settlements>>
        /\ ServeTopUp(r, now.player)
    BY <1>7 DEF Arrive
  <2>2. /\ ReadsOf(r)' = {} /\ ExtensionsOf(r)' = {} /\ SettlementsOf(r)' = {}
        /\ input[r] \in TopUpInputs
    BY <1>1, <1>2, <1>7, <2>1
       DEF ReadsOf, ExtensionsOf, SettlementsOf, Inputs, BetInputs
  <2>3. TopUpsFit
    BY <2>1, <2>2 DEF TopUpsFit, ServeTopUp
  <2>4. \A o \in Requests : o # r => answer'[o] = answer[o]
    BY <1>1, <2>1, FixedResponses, RespondOnce DEF ServeTopUp
  <2>5. OnlyTouches(r)
    BY <2>1, <2>4 DEF OnlyTouches
  <2>6. FlightOK(r)'
    BY <1>1, <1>7, <2>2
       DEF FlightOK, Unsent, ReadsAlone, ReadsExact, BetFits, HalvesMoved,
           AnsweredIsDone, Stranded
  <2> QED BY <1>1, <1>3, <1>4, <2>3, <2>5, <2>6, TouchPreserves
<1> QED BY <1>5, <1>6, <1>7 DEF Arrive

\* A compare-and-set whose row has a later index moves the index past the one
\* it compares: it matched, or somebody else has moved it before.
LEMMA CasMovesIndex ==
  ASSUME IInv, NEW s \in settlements, Deals(s),
         game' = CasGame(s.game, s.cur, s.row)
  PROVE  s.cur < game'[s.game].top
<1>1. /\ s.game \in Games /\ s.cur \in Nat /\ game[s.game] # Absent
      /\ s.row.top \in Nat
  BY SettlementInGame
<1>2. s.cur <= game[s.game].top /\ game[s.game].top \in Nat
  BY <1>1 DEF IInv, SettlementOK, CopyOf, RowOK, Row
<1>3. CASE game[s.game].top = s.cur
  <2>1. game'[s.game] = s.row
    BY <1>1, <1>3 DEF CasGame, IInv, TypeOK, RepositoryTypeOK
  <2> QED BY <2>1 DEF Deals
<1>4. CASE game[s.game].top # s.cur
  <2>1. game' = game
    BY <1>4 DEF CasGame
  <2> QED BY <1>1, <1>2, <1>4, <2>1
<1> QED BY <1>3, <1>4

\* What is left of the statements of a bet, one of whose settlements has lost
\* the half part.
LEMMA LeftFlight ==
  ASSUME FInv, GameStep, NEW s \in settlements, NEW part \in Parts,
         part \in s.todo,
         part = "game" /\ Deals(s) => s.cur < game'[s.game].top \/ Refused(s.req)',
         settlements' = (settlements \ {s}) \cup
           (IF s.todo = {part} THEN {} ELSE {[s EXCEPT !.todo = s.todo \ {part}]}),
         UNCHANGED <<input, reads, extensions, lost>>,
         answer'[s.req] = answer[s.req] \/ ~ Open(s.req)',
         answer'[s.req] = answer[s.req] \/ ~ Accepted(s.req)' \/ s.todo = {part},
         s.todo = {part} => ~ Open(s.req)',
         Refused(s.req) => Refused(s.req)',
         Accepted(s.req) => Accepted(s.req)',
         answer[s.req] # None => answer'[s.req] # None
  PROVE  FlightOK(s.req)'
<1> DEFINE r == s.req
           t == [s EXCEPT !.todo = s.todo \ {part}]
           others == SettlementsOf(r) \ {s}
<1>1. /\ IInv /\ FlightOK(r) /\ r \in Requests /\ s \in SettlementsOf(r)
      /\ s \in SettlementRecords
  BY SettlementInGame DEF FInv, IInv, SettlementOK, SettlementsOf
<1>2. /\ t.req = r /\ t.cur = s.cur /\ t.game = s.game /\ t.row = s.row
      /\ t.todo = s.todo \ {part}
  BY <1>1 DEF SettlementRecords
<1> HIDE DEF t
<1>3. SettlementsOf(r)' = others \cup (IF s.todo = {part} THEN {} ELSE {t})
  BY <1>2 DEF SettlementsOf, t
<1>4. /\ ReadsOf(r)' = {} /\ ReadsOf(r) = {}
      /\ ExtensionsOf(r)' = ExtensionsOf(r)
      /\ input' = input /\ lost' = lost
  BY <1>1 DEF FlightOK, ReadsAlone, ReadsOf, ExtensionsOf
<1>5. input[r] \in BetInputs /\ input[r] # None
  BY <1>1, NoneAssumption DEF FlightOK, BetFits, Inputs
<1>6. Unsent(r)' /\ ReadsAlone(r)' /\ ReadsExact(r)'
  BY <1>4, <1>5 DEF Unsent, ReadsAlone, ReadsExact
\* Each settlement that is left has the index, game and kind of one before.
<1>7. \A x \in SettlementsOf(r)' : \E y \in SettlementsOf(r) :
        x.cur = y.cur /\ x.game = y.game /\ (Deals(x) <=> Deals(y))
  BY <1>1, <1>2, <1>3 DEF Deals
<1>8. BetFits(r)'
  <2>1. \A e \in ExtensionsOf(r)' : e.row.table # 0 => ~ Accepted(r)'
    BY <1>1, <1>4 DEF FlightOK, BetFits
  <2>2. \A x1, x2 \in SettlementsOf(r)' : x1.cur = x2.cur
    BY <1>1, <1>7 DEF FlightOK, BetFits
  <2>3. \A e \in ExtensionsOf(r)', x \in SettlementsOf(r)' :
          e.cur = x.cur /\ e.row.table = 0 /\ Deals(x)
    BY <1>1, <1>4, <1>7 DEF FlightOK, BetFits
  <2>4. ASSUME NEW x \in SettlementsOf(r)'
        PROVE  /\ x.game = input[r].game /\ x.todo # {}
               /\ ~ Deals(x) => SettlementsOf(r)' = {x} /\ ~ Accepted(r)'
    <3>1. x.game = input[r].game
      BY <1>1, <1>7 DEF FlightOK, BetFits
    <3>2. x.todo # {}
      BY <1>1, <1>2, <1>3 DEF FlightOK, BetFits, SettlementRecords
    <3>3. ASSUME ~ Deals(x) PROVE SettlementsOf(r)' = {x} /\ ~ Accepted(r)'
      <4>1. PICK y \in SettlementsOf(r) : ~ Deals(y)
        BY <1>7, <3>3
      <4>2. SettlementsOf(r) = {s} /\ ~ Accepted(r)
        BY <1>1, <4>1 DEF FlightOK, BetFits
      <4>3. x = t /\ SettlementsOf(r)' = {t} /\ s.todo # {part}
        BY <1>3, <4>2
      <4> QED BY <4>2, <4>3 DEF Accepted
    <3> QED BY <3>1, <3>2, <3>3
  <2> QED BY <1>1, <1>4, <1>5, <2>1, <2>2, <2>3, <2>4 DEF BetFits, FlightOK, Deals
<1>9. ASSUME NEW cur \in Nat, cur < game[input[r].game].top
      PROVE  cur < game'[input[r].game].top
  <2>1. s.game = input[r].game
    BY <1>1 DEF FlightOK, BetFits
  <2> QED BY <1>1, <1>9, <2>1, SettlementInGame, TopGrows, StepKeeps
<1>10. \A x \in SettlementsOf(r) :
         x.cur \in Nat /\ x.game = input[r].game
  BY <1>1, SettlementInGame DEF FlightOK, BetFits, SettlementsOf
<1>11. HalvesMoved(r)'
  <2>1. ASSUME NEW x \in others, Deals(x), "game" \notin x.todo
        PROVE  x.cur < game'[x.game].top \/ Refused(r)'
    BY <1>1, <1>9, <1>10, <2>1 DEF FlightOK, HalvesMoved
  <2>2. ASSUME Deals(t), "game" \notin t.todo
        PROVE  t.cur < game'[t.game].top \/ Refused(r)'
    <3>1. Deals(s)
      BY <1>2, <2>2 DEF Deals
    <3>2. CASE part = "game"
      BY <1>2, <3>1, <3>2
    <3>3. CASE "game" \notin s.todo
      BY <1>1, <1>2, <1>9, <1>10, <3>1, <3>3 DEF FlightOK, HalvesMoved
    <3> QED BY <1>2, <2>2, <3>2, <3>3
  <2> QED BY <1>3, <2>1, <2>2 DEF HalvesMoved, Deals
<1>12. AnsweredIsDone(r)'
  <2> SUFFICES ASSUME Accepted(r)' PROVE AnsweredIsDone(r)'
    BY DEF AnsweredIsDone
  <2>1. CASE Accepted(r)
    <3>1. \A e \in ExtensionsOf(r)' : e.cur < game'[e.game].top
      <4>1. \A e \in ExtensionsOf(r) :
              e.cur < game[e.game].top => e.cur < game'[e.game].top
        BY <1>1, TopGrows, StepKeeps, ExtensionTypes DEF ExtensionsOf
      <4> QED BY <1>1, <1>4, <2>1, <4>1 DEF FlightOK, AnsweredIsDone
    <3>2. \A x \in SettlementsOf(r)' :
            "game" \in x.todo => x.cur < game'[x.game].top
      BY <1>1, <1>2, <1>3, <1>9, <1>10, <2>1 DEF FlightOK, AnsweredIsDone
    <3> QED BY <3>1, <3>2 DEF AnsweredIsDone
  <2>2. CASE ~ Accepted(r)
    <3>1. s.todo = {part} /\ ~ Refused(r)'
      BY <2>2 DEF Accepted, Refused
    <3>2. ASSUME Deals(s) PROVE s.cur < game'[s.game].top
      <4>1. CASE part = "game"
        BY <3>1, <3>2, <4>1
      <4>2. CASE part # "game"
        <5>1. "game" \notin s.todo /\ ~ Refused(r)
          BY <3>1, <4>2
        <5> QED BY <1>1, <1>9, <1>10, <3>2, <5>1 DEF FlightOK, HalvesMoved
      <4> QED BY <4>1, <4>2
    <3>3. \A e \in ExtensionsOf(r) :
            e.cur = s.cur /\ e.game = input[r].game /\ Deals(s)
      BY <1>1 DEF FlightOK, BetFits, FInv, IInv, ExtensionOK, ExtensionsOf
    <3>4. \A x \in others : x.cur = s.cur /\ Deals(s)
      BY <1>1 DEF FlightOK, BetFits
    <3> QED BY <1>3, <1>4, <1>10, <1>1, <3>1, <3>2, <3>3, <3>4 DEF AnsweredIsDone
  <2> QED BY <2>1, <2>2
<1>13. ~ Stranded(r)'
  <2>1. s.todo # {part} => t \in SettlementsOf(r)'
    BY <1>3
  <2> QED BY <2>1 DEF Stranded
<1> QED BY <1>6, <1>8, <1>11, <1>12, <1>13 DEF FlightOK

LEMMA SettleFlight ==
  ASSUME FInv, GameStep, NEW s \in settlements, NEW part \in Parts,
         part \in s.todo,
         part = "game" => game' = CasGame(s.game, s.cur, s.row),
         Settle(s, part), UNCHANGED <<input, reads, extensions, lost>>
  PROVE  FlightOK(s.req)' /\ OnlyTouches(s.req)
<1>1. IInv /\ TypeOK /\ s.req \in Requests /\ s.reply \in Answers
  BY SettlementTypes DEF FInv
<1>2. settlements' = (settlements \ {s}) \cup
        (IF s.todo = {part} THEN {} ELSE {[s EXCEPT !.todo = s.todo \ {part}]})
  BY DEF Settle
<1>3. \/ s.todo # {part} /\ answer' = answer
      \/ s.todo = {part} /\ Respond(s.req, s.reply)
  BY DEF Settle
<1>4. part = "game" /\ Deals(s) => s.cur < game'[s.game].top
  BY <1>1, CasMovesIndex
<1>5. /\ s.todo = {part} => ~ Open(s.req)'
      /\ answer'[s.req] = answer[s.req] \/ s.todo = {part}
      /\ answer'[s.req] = answer[s.req] \/ ~ Open(s.req)'
      /\ Refused(s.req) => Refused(s.req)'
      /\ Accepted(s.req) => Accepted(s.req)'
      /\ answer[s.req] # None => answer'[s.req] # None
      /\ \A o \in Requests : o # s.req => answer'[o] = answer[o]
  BY <1>1, <1>3, RespondOnce DEF Accepted, Refused
<1>6. FlightOK(s.req)'
  BY <1>2, <1>4, <1>5, LeftFlight
<1>7. s \in SettlementRecords
  BY <1>1 DEF TypeOK
<1>8. [s EXCEPT !.todo = s.todo \ {part}].req = s.req
  BY <1>7 DEF SettlementRecords
<1>9. OnlyTouches(s.req)
  BY <1>2, <1>5, <1>8 DEF OnlyTouches
<1> QED BY <1>6, <1>9

LEMMA UpdateSettlementFlight ==
  ASSUME FInv, NEW s \in settlements, UpdatePlayer(s) \/ UpdateGame(s)
  PROVE  FInv'
<1>1. /\ IInv /\ s.req \in Requests /\ s.to \in Int32 /\ s.from \in Int32
  BY SettlementTypes DEF FInv, SettlementOK, SettlementRecords
<1>2. IInv' /\ GameStep
  BY <1>1, UpdatePlayerPreserves, UpdateGamePreserves
<1>3. UNCHANGED <<input, reads, extensions, lost, topUps>>
  BY DEF UpdatePlayer, UpdateGame
<1>4. PlayerStep
  <2>1. player' \in {player, CasPlayer(s.player, s.from, s.to)}
    BY DEF UpdatePlayer, UpdateGame
  <2> QED BY <1>1, <2>1, CasPlayerStep DEF IInv
<1>5. FlightOK(s.req)' /\ OnlyTouches(s.req)
  <2>1. CASE UpdatePlayer(s)
    BY <1>2, <1>3, <2>1, SettleFlight DEF UpdatePlayer, Parts
  <2>2. CASE UpdateGame(s)
    BY <1>2, <1>3, <2>2, SettleFlight DEF UpdateGame, Parts
  <2> QED BY <2>1, <2>2
<1>6. InputStep /\ NoNewReaders /\ TopUpsFit
  BY <1>1, <1>3, InputUnchanged DEF NoNewReaders, TopUpsFit
<1> QED BY <1>1, <1>2, <1>4, <1>5, <1>6, TouchPreserves

\* A failed statement is answered with an error, if it can be.
LEMMA ErrorFlight ==
  ASSUME TypeOK, NEW r \in Requests, Respond(r, ErrorResponse(500)),
         UNCHANGED input, lost' \in {lost, lost \cup {r}}
  PROVE  /\ \A o \in Requests : o # r => answer'[o] = answer[o]
         /\ ~ Open(r)' /\ (Refused(r) => Refused(r)')
         /\ Accepted(r)' <=> Accepted(r)
         /\ answer[r] # None => answer'[r] # None
         /\ ~ Accepted(r) /\ input[r] # None => Refused(r)'
<1>1. ErrorResponse(500) \in Answers /\ ErrorResponse(500).status = 500
  BY FixedResponses DEF ErrorResponse
<1> DEFINE response == ErrorResponse(500)
<1> HIDE DEF response
<1>2. \A o \in Requests : o # r => answer'[o] = answer[o]
  BY <1>1, RespondOnce DEF response
<1>3. \/ Open(r) /\ answer'[r] = response
      \/ ~ Open(r) /\ answer'[r] = answer[r]
  BY DEF TypeOK, Respond, response
<1>4. response # None /\ response.status = 500
  BY <1>1, NoAnswerAssumption DEF response
<1> QED BY <1>2, <1>3, <1>4 DEF Accepted, Refused, Open

\* A statement of a bet stays in flight, or its extension is gone, and the bet
\* is answered with an error or its process is gone.
LEMMA FailedFlight ==
  ASSUME FInv, GameStep, NEW r \in Requests,
         ExtensionsOf(r) \cup SettlementsOf(r) # {},
         extensions' \in SUBSET extensions,
         UNCHANGED <<player, input, reads, settlements>>,
         ~ Open(r)',
         Refused(r) => Refused(r)',
         Accepted(r)' <=> Accepted(r)
  PROVE  FlightOK(r)'
<1>1. IInv /\ FlightOK(r)
  BY DEF FInv
<1>2. /\ ReadsOf(r)' = {} /\ ExtensionsOf(r)' \in SUBSET ExtensionsOf(r)
      /\ SettlementsOf(r)' = SettlementsOf(r)
  BY <1>1 DEF FlightOK, ReadsAlone, ReadsOf, ExtensionsOf, SettlementsOf
<1>3. input[r] # None
  BY <1>1 DEF FlightOK, Unsent
<1>4. Unsent(r)' /\ ReadsAlone(r)' /\ ReadsExact(r)' /\ ~ Stranded(r)'
  BY <1>2, <1>3 DEF Unsent, ReadsAlone, ReadsExact, Stranded
<1>5. BetFits(r)'
  BY <1>1, <1>2 DEF FlightOK, BetFits, Deals
<1>6. \A s \in SettlementsOf(r) :
        s.cur < game[s.game].top => s.cur < game'[s.game].top
  BY <1>1, TopGrows, StepKeeps, SettlementInGame DEF SettlementsOf
<1>7. \A e \in ExtensionsOf(r) :
        e.cur < game[e.game].top => e.cur < game'[e.game].top
  BY <1>1, TopGrows, StepKeeps, ExtensionTypes DEF ExtensionsOf
<1>8. HalvesMoved(r)' /\ AnsweredIsDone(r)'
  BY <1>1, <1>2, <1>6, <1>7 DEF FlightOK, HalvesMoved, AnsweredIsDone, Deals
<1> QED BY <1>4, <1>5, <1>8 DEF FlightOK

LEMMA FailSettlementFlight ==
  ASSUME FInv, NEW s \in settlements, NEW part \in Parts, FailSettlement(s, part)
  PROVE  FInv'
<1>1. /\ IInv /\ TypeOK /\ s.req \in Requests /\ s \in SettlementRecords
      /\ s \in SettlementsOf(s.req)
  BY SettlementTypes DEF FInv, SettlementOK, SettlementsOf
<1>2. IInv' /\ GameStep
  BY <1>1, FailSettlementPreserves
<1>3. UNCHANGED <<player, game, input, reads, extensions, lost, topUps>>
  BY DEF FailSettlement
<1>4. input[s.req] # None
  BY <1>1, NoneAssumption DEF FInv, FlightOK, BetFits, SettlementsOf, Inputs
<1>5. /\ \A o \in Requests : o # s.req => answer'[o] = answer[o]
      /\ ~ Open(s.req)' /\ (Refused(s.req) => Refused(s.req)')
      /\ Accepted(s.req)' <=> Accepted(s.req)
      /\ answer[s.req] # None => answer'[s.req] # None
      /\ ~ Accepted(s.req) => Refused(s.req)'
  BY <1>1, <1>3, <1>4, ErrorFlight DEF FailSettlement
<1>6. InputStep /\ PlayerStep /\ NoNewReaders /\ TopUpsFit
  BY <1>1, <1>3, InputUnchanged DEF PlayerStep, NoNewReaders, TopUpsFit
<1>7. CASE UNCHANGED settlements
  <2>1. FlightOK(s.req)'
    BY <1>1, <1>2, <1>3, <1>5, <1>7, FailedFlight
  <2>2. OnlyTouches(s.req)
    BY <1>3, <1>5, <1>7 DEF OnlyTouches
  <2> QED BY <1>1, <1>2, <1>6, <2>1, <2>2, TouchPreserves
<1>8. CASE settlements' = (settlements \ {s}) \cup
        (IF s.todo = {part} THEN {} ELSE {[s EXCEPT !.todo = s.todo \ {part}]})
  <2>1. answer'[s.req] = answer[s.req] \/ ~ Accepted(s.req)' \/ s.todo = {part}
    BY <1>1, <1>5, FixedResponses, RespondOnce DEF FailSettlement, Accepted
  <2>2. part = "game" /\ Deals(s) => s.cur < game'[s.game].top \/ Refused(s.req)'
    BY <1>1, <1>3, <1>5 DEF FInv, FlightOK, AnsweredIsDone, FailSettlement
  <2>3. FlightOK(s.req)'
    BY <1>2, <1>3, <1>5, <1>8, <2>1, <2>2, LeftFlight DEF FailSettlement
  <2>4. [s EXCEPT !.todo = s.todo \ {part}].req = s.req
    BY <1>1 DEF SettlementRecords
  <2>5. OnlyTouches(s.req)
    BY <1>3, <1>5, <1>8, <2>4 DEF OnlyTouches
  <2> QED BY <1>1, <1>2, <1>6, <2>3, <2>5, TouchPreserves
<1>9. [s EXCEPT !.todo = @ \ {part}] = [s EXCEPT !.todo = s.todo \ {part}]
  OBVIOUS
<1> QED BY <1>7, <1>8, <1>9 DEF FailSettlement

LEMMA FailExtensionFlight ==
  ASSUME FInv, NEW e \in extensions, FailExtension(e)
  PROVE  FInv'
<1>1. IInv /\ TypeOK /\ e.req \in Requests /\ e \in ExtensionsOf(e.req)
  BY ExtensionTypes DEF FInv, IInv, ExtensionsOf
<1>2. IInv' /\ GameStep
  BY <1>1, FailExtensionPreserves
<1>3. /\ extensions' \in {extensions, extensions \ {e}}
      /\ UNCHANGED <<player, input, reads, settlements, topUps>>
      /\ lost' = lost \cup {e.req}
      /\ Respond(e.req, ErrorResponse(500))
  BY DEF FailExtension
<1>4. /\ \A o \in Requests : o # e.req => answer'[o] = answer[o]
      /\ ~ Open(e.req)' /\ (Refused(e.req) => Refused(e.req)')
      /\ Accepted(e.req)' <=> Accepted(e.req)
  BY <1>1, <1>3, ErrorFlight
<1>5. FlightOK(e.req)'
  <2>1. extensions' \in SUBSET extensions
    BY <1>3
  <2> QED BY <1>1, <1>2, <1>3, <1>4, <2>1, FailedFlight
<1>6. OnlyTouches(e.req) /\ NoNewReaders /\ TopUpsFit /\ InputStep /\ PlayerStep
  BY <1>1, <1>3, <1>4, InputUnchanged
     DEF OnlyTouches, NoNewReaders, TopUpsFit, PlayerStep
<1> QED BY <1>1, <1>2, <1>5, <1>6, TouchPreserves

LEMMA UpdateGameDeckFlight ==
  ASSUME FInv, NEW e \in extensions, UpdateGameDeck(e)
  PROVE  FInv'
<1> DEFINE r == e.req
           rest == extensions \ {e}
<1>1. /\ IInv /\ TypeOK /\ FlightOK(r) /\ r \in Requests /\ ExtensionOK(e)
      /\ e \in ExtensionsOf(r)
  BY ExtensionTypes DEF FInv, IInv, ExtensionsOf
<1>2. IInv' /\ GameStep
  BY <1>1, UpdateGameDeckPreserves
<1>3. UNCHANGED <<player, input, reads, topUps, lost>>
  BY DEF UpdateGameDeck
<1>4. /\ ReadsOf(r)' = {} /\ \A x \in rest : x.req # r
      /\ \A s \in SettlementsOf(r) : s.cur = e.row.top /\ Deals(s)
      /\ e.row.table # 0 => SettlementsOf(r) = {} /\ ~ Accepted(r)
  BY <1>1, <1>3
     DEF FlightOK, ReadsAlone, BetFits, ReadsOf, ExtensionsOf, ExtensionOK
<1>5. PlayerStep /\ InputStep /\ NoNewReaders /\ TopUpsFit
  BY <1>1, <1>3, InputUnchanged DEF PlayerStep, NoNewReaders, TopUpsFit
<1>6. CASE r \in lost
  <2>1. /\ extensions' = rest /\ UNCHANGED <<settlements, answer>>
    BY <1>6 DEF UpdateGameDeck
  <2>2. /\ ~ Open(r)' /\ Refused(r)' = Refused(r) /\ Accepted(r)' = Accepted(r)
    BY <1>3, <1>6, <2>1 DEF Open, Refused, Accepted
  <2>3. FlightOK(r)'
    BY <1>1, <1>2, <1>3, <2>1, <2>2, FailedFlight
  <2>4. OnlyTouches(r)
    BY <1>3, <2>1 DEF OnlyTouches
  <2> QED BY <1>1, <1>2, <1>5, <2>3, <2>4, TouchPreserves
<1>7. CASE r \notin lost
  <2>1. Handling(r, e.row, e.tokens)
    BY <1>1 DEF Handling, ExtensionOK, ExtensionRecords
  <2>2. \/ e.row.table = 0 /\ RoundStep(r, e.row, rest)
        \/ e.row.table # 0 /\ WarStep(r, e.row, rest)
    <3>1. \/ e.row.table = 0 /\ HandleBet(r, e.row, e.tokens, rest)
          \/ e.row.table > 0 /\ HandleWar(r, e.row, e.tokens, rest)
      BY <1>7 DEF UpdateGameDeck
    <3>2. e.row.table > 0 => e.row.table # 0
      OBVIOUS
    <3> QED BY <2>1, <3>1, <3>2, HandleBetStep, HandleWarStep
  <2>3. FlightOK(r)'
    <3>1. RowOK(e.row) /\ CopyOf(e.row, e.row.top, input[r].game)
          /\ input[r] \in BetInputs
      BY <1>1 DEF ExtensionOK
    <3>2. CASE e.row.table = 0 /\ RoundStep(r, e.row, rest)
      <4>1. Accepted(r) => e.row.top < game[input[r].game].top
        BY <1>1 DEF FlightOK, AnsweredIsDone, ExtensionOK
      <4>2. rest \in SUBSET extensions
        OBVIOUS
      <4> QED BY <1>1, <1>2, <1>3, <1>4, <3>1, <3>2, <4>1, <4>2, RoundFlight
    <3>3. CASE e.row.table # 0 /\ WarStep(r, e.row, rest)
      <4>1. rest \in SUBSET extensions
        OBVIOUS
      <4> QED BY <1>1, <1>2, <1>3, <1>4, <3>1, <3>3, <4>1, WarFlight
    <3> QED BY <2>2, <3>2, <3>3
  <2>4. OnlyTouches(r)
    <3>1. \A x \in extensions \cup extensions' :
            x.req # r => (x \in extensions' <=> x \in extensions)
      BY <2>2 DEF RoundStep, WarStep, NewExtension
    <3>2. \A x \in settlements \cup settlements' :
            x.req # r => (x \in settlements' <=> x \in settlements)
      BY <2>2 DEF RoundStep, WarStep, NewSettlement
    <3>3. \A o \in Requests : o # r => answer'[o] = answer[o]
      BY <1>1, <2>2, RespondOnce DEF RoundStep, WarStep
    <3> QED BY <1>3, <3>1, <3>2, <3>3 DEF OnlyTouches
  <2> QED BY <1>1, <1>2, <1>5, <2>3, <2>4, TouchPreserves
<1> QED BY <1>6, <1>7

LEMMA FailReadFlight ==
  ASSUME FInv, NEW q \in reads, FailRead(q)
  PROVE  FInv'
<1> DEFINE r == q.req
<1>1. /\ IInv /\ TypeOK /\ FlightOK(r) /\ r \in Requests /\ q \in ReadsOf(r)
  BY DEF FInv, IInv, ReadOK, ReadRecords, ReadsOf
<1>2. IInv' /\ GameStep
  BY <1>1, FailReadPreserves
<1>3. /\ reads' = reads \ {q}
      /\ UNCHANGED <<player, game, input, extensions, settlements, topUps, lost>>
      /\ Respond(r, ErrorResponse(500))
  BY DEF FailRead
<1>4. /\ \A o \in Requests : o # r => answer'[o] = answer[o]
      /\ ~ Open(r)'
  BY <1>1, <1>3, ErrorFlight
<1>5. /\ ReadsOf(r)' = {} /\ ExtensionsOf(r)' = {} /\ SettlementsOf(r)' = {}
      /\ input[r] # None
  BY <1>1, <1>3
     DEF FlightOK, Unsent, ReadsAlone, ReadsOf, ExtensionsOf, SettlementsOf
<1>6. FlightOK(r)'
  BY <1>3, <1>4, <1>5
     DEF FlightOK, Unsent, ReadsAlone, ReadsExact, BetFits, HalvesMoved,
         AnsweredIsDone, Stranded
<1>7. OnlyTouches(r) /\ NoNewReaders /\ TopUpsFit /\ InputStep /\ PlayerStep
  BY <1>1, <1>3, <1>4, InputUnchanged
     DEF OnlyTouches, NoNewReaders, TopUpsFit, PlayerStep
<1> QED BY <1>1, <1>2, <1>6, <1>7, TouchPreserves

\* The UPDATE of a token update has run or failed: its request has nothing
\* else in flight.
LEMMA UpdateTokensFlight ==
  ASSUME FInv, NEW u \in topUps, UpdateTokens(u) \/ FailTokens(u)
  PROVE  FInv'
<1> DEFINE r == u.req
<1>1. /\ IInv /\ TypeOK /\ r \in Requests /\ FlightOK(r)
      /\ u.from \in Int32 /\ u.to \in Int32
      /\ input[r] \in TopUpInputs /\ ReadsOf(r) = {}
  BY DEF FInv, IInv, TypeOK, TopUpRecords
<1>2. IInv' /\ GameStep
  BY <1>1, UpdateTokensPreserves
<1>3. UNCHANGED <<game, input, reads, extensions, settlements, lost>>
  BY DEF UpdateTokens, FailTokens
<1>4. PlayerStep
  <2>1. player' \in {player, CasPlayer(u.player, u.from, u.to)}
    BY DEF UpdateTokens, FailTokens
  <2> QED BY <1>1, <2>1, CasPlayerStep DEF IInv
<1>5. input[r] \notin BetInputs /\ input[r].kind = "topUp" /\ input[r] # None
  BY <1>1, NoneAssumption DEF BetInputs, TopUpInputs, Inputs
<1>6. ReadsOf(r)' = {} /\ ExtensionsOf(r)' = {} /\ SettlementsOf(r)' = {}
  BY <1>1, <1>3, <1>5
     DEF FlightOK, BetFits, ReadsOf, ExtensionsOf, SettlementsOf
<1>7. FlightOK(r)'
  BY <1>3, <1>5, <1>6
     DEF FlightOK, Unsent, ReadsAlone, ReadsExact, BetFits, HalvesMoved,
         AnsweredIsDone, Stranded
<1>8. \A o \in Requests : o # r => answer'[o] = answer[o]
  BY <1>1, FixedResponses, RespondOnce DEF UpdateTokens, FailTokens
<1>9. OnlyTouches(r) /\ NoNewReaders /\ InputStep
  BY <1>1, <1>3, <1>8, InputUnchanged DEF OnlyTouches, NoNewReaders
<1>10. TopUpsFit
  BY DEF TopUpsFit, UpdateTokens, FailTokens
<1> QED BY <1>1, <1>2, <1>4, <1>7, <1>9, <1>10, TouchPreserves

\* A crash ends the reads and the callbacks of all requests sent so far.
LEMMA CrashFlight == ASSUME FInv, Crash PROVE FInv'
<1>1. IInv /\ IInv' /\ TypeOK
  BY CrashPreserves DEF FInv, IInv
<1>2. /\ reads' = {} /\ lost' = {r \in Requests : input[r] # None}
      /\ UNCHANGED <<player, game, input, extensions, settlements, topUps, answer>>
  BY DEF Crash
<1>3. ASSUME NEW r \in Requests PROVE FlightOK(r)'
  <2>1. FlightOK(r)
    BY DEF FInv
  <2>2. /\ ReadsOf(r)' = {} /\ ExtensionsOf(r)' = ExtensionsOf(r)
        /\ SettlementsOf(r)' = SettlementsOf(r)
    BY <1>2 DEF ReadsOf, ExtensionsOf, SettlementsOf
  <2>3. Accepted(r)' = Accepted(r) /\ ~ Open(r)'
    BY <1>2 DEF Accepted, Open
  <2>4. Refused(r) => Refused(r)'
    <3>1. input[r] = None => r \notin lost /\ answer[r] = None
      BY <2>1 DEF FlightOK, Unsent
    <3> QED BY <1>2, <3>1 DEF Refused
  <2>5. Unsent(r)' /\ ReadsAlone(r)' /\ ReadsExact(r)' /\ ~ Stranded(r)'
    BY <1>2, <2>1, <2>2, <2>3
       DEF FlightOK, Unsent, ReadsAlone, ReadsExact, Stranded
  <2>6. BetFits(r)'
    BY <1>2, <2>1, <2>2, <2>3 DEF FlightOK, BetFits, Deals
  <2>7. HalvesMoved(r)' /\ AnsweredIsDone(r)'
    BY <1>2, <2>1, <2>2, <2>3, <2>4
       DEF FlightOK, HalvesMoved, AnsweredIsDone, Deals
  <2> QED BY <2>5, <2>6, <2>7 DEF FlightOK
<1>4. \A u \in topUps' : input'[u.req] \in TopUpInputs /\ ReadsOf(u.req)' = {}
  BY <1>2 DEF FInv, ReadsOf
<1> QED BY <1>1, <1>3, <1>4 DEF FInv

LEMMA ReadsFlight ==
  ASSUME FInv, NEW q \in reads, GetGame(q) \/ GetPlayer(q)
  PROVE  FInv'
<1>1. /\ IInv /\ ReadOK(q) /\ q \in ReadsOf(q.req) /\ FlightOK(q.req)
      /\ q.req \in Requests /\ Absent # Pending
  BY AbsentNotRow DEF FInv, IInv, ReadOK, ReadRecords, ReadsOf
<1>2. IInv'
  BY <1>1, GetGamePreserves, GetPlayerPreserves
<1>3. UNCHANGED <<player, game, input, lost>>
  BY DEF GetGame, GetPlayer
<1>4. /\ q.game = Absent /\ input[q.req].kind = "bet"
           => game[input[q.req].game] = Absent
      /\ q.player = Absent => player[input[q.req].player] = Absent
  BY <1>1 DEF FlightOK, ReadsExact
<1>5. CASE GetGame(q)
  <2> DEFINE g == input[q.req].game
             now == [q EXCEPT !.game = game[g]]
  <2>1. q.game = Pending /\ input[q.req] \in BetInputs /\ g \in Games
    BY <1>1, <1>5 DEF GetGame, ReadOK, BetInputs
  <2>2. /\ now.req = q.req /\ now.game = game[g] /\ now.player = q.player
        /\ now \in ReadRecords
    BY <1>1, <2>1 DEF ReadOK, ReadRecords, IInv, TypeOK, RepositoryTypeOK
  <2>3. ReadOK(now)
    <3>1. game[g] # Absent => RowOK(game[g]) /\ game[g].top <= game[g].top
      BY <1>1, <2>1 DEF IInv, RowOK, Row
    <3>2. game[g] # Absent => CopyOf(game[g], game[g].top, g)
      BY <3>1 DEF CopyOf, SameCards
    <3> HIDE DEF now
    <3> QED BY <1>1, <2>1, <2>2, <3>1, <3>2 DEF ReadOK
  <2>4. Arrive(q, now)
    BY <1>5 DEF GetGame
  <2> HIDE DEF now
  <2> QED BY <1>2, <1>3, <1>4, <2>2, <2>3, <2>4, ArriveFlight
<1>6. CASE GetPlayer(q)
  <2> DEFINE p == input[q.req].player
             now == [q EXCEPT !.player = player[p]]
  <2>1. p \in Players
    BY <1>1 DEF ReadOK, Inputs, BetInputs, TopUpInputs
  <2>2. /\ now.req = q.req /\ now.game = q.game /\ now.player = player[p]
        /\ now \in ReadRecords
    BY <1>1, <2>1 DEF ReadOK, ReadRecords, IInv, TypeOK, RepositoryTypeOK
  <2>3. Arrive(q, now)
    BY <1>6 DEF GetPlayer
  <2> HIDE DEF now
  <2>4. ReadOK(now)
    BY <1>1, <2>2 DEF ReadOK
  <2> QED BY <1>2, <1>3, <1>4, <2>2, <2>3, <2>4, ArriveFlight
<1> QED BY <1>5, <1>6

LEMMA InitFInv == Init => FInv
<1> SUFFICES ASSUME Init PROVE FInv
  OBVIOUS
<1>1. IInv
  BY InitIInv
<1>2. ASSUME NEW r \in Requests PROVE FlightOK(r)
  <2>1. /\ ReadsOf(r) = {} /\ ExtensionsOf(r) = {} /\ SettlementsOf(r) = {}
        /\ input[r] = None /\ answer[r] = None /\ r \notin lost
    BY DEF Init, ReadsOf, ExtensionsOf, SettlementsOf
  <2> QED
    BY <2>1 DEF FlightOK, Unsent, ReadsAlone, ReadsExact, BetFits, HalvesMoved,
       AnsweredIsDone, Stranded, Accepted, Open
<1> QED BY <1>1, <1>2 DEF FInv, Init

LEMMA NextFInv == FInv /\ [Next]_vars => FInv'
<1> SUFFICES ASSUME FInv, [Next]_vars PROVE FInv'
  OBVIOUS
<1>1. CASE Arrivals
  <2>1. PICK r \in Requests : RequestBet(r) \/ UpdatePlayerToken(r)
    BY <1>1 DEF Arrivals
  <2>2. CASE RequestBet(r)
    BY <2>2, SubmitFlight DEF RequestBet, Inputs
  <2>3. CASE UpdatePlayerToken(r)
    BY <2>3, SubmitFlight DEF UpdatePlayerToken, Inputs
  <2> QED BY <2>1, <2>2, <2>3
<1>2. CASE Statements
  BY <1>2, ReadsFlight, UpdateGameDeckFlight, UpdateSettlementFlight,
     UpdateTokensFlight DEF Statements
<1>3. CASE StatementFaults
  BY <1>3, FailReadFlight, FailExtensionFlight, FailSettlementFlight,
     UpdateTokensFlight DEF StatementFaults
<1>4. CASE UNCHANGED vars
  <2>1. IInv /\ UNCHANGED vars
    BY <1>4 DEF FInv
  <2>2. GameStep /\ InputStep /\ PlayerStep
    BY <2>1, GameUnchanged, InputUnchanged DEF vars, PlayerStep
  <2>3. IInv'
    BY <2>1, NextIInv
  <2>4. \A r \in Requests : SameRequest(r)
    BY <2>1 DEF vars, SameRequest, ReadsOf, ExtensionsOf, SettlementsOf
  <2>5. \A r \in Requests : FlightOK(r)'
    BY <2>2, <2>4, FlightKept
  <2>6. \A u \in topUps' : input'[u.req] \in TopUpInputs /\ ReadsOf(u.req)' = {}
    BY <2>1 DEF FInv, vars, ReadsOf
  <2> QED BY <2>3, <2>5, <2>6 DEF FInv
<1> QED BY <1>1, <1>2, <1>3, <1>4, CrashFlight DEF Next

-----------------------------------------------------------------------------
\* What a request has in flight fits together in every state: at most one
\* extension, settlements that compare one index, nothing beside its reads.
THEOREM FlightInvariance == Spec => []FInv
<1>1. FInv /\ [Next]_vars => FInv'
  BY NextFInv
<1> QED BY <1>1, InitFInv, PTL DEF Spec

\* However bets, failures and crashes interleave, an answered bet leaves the
\* game alone: what it has in flight compares an index the game has passed.
THEOREM AnsweredLeavesGameAlone == Spec => []AnsweredBetLeavesGameAlone
<1>1. FInv => AnsweredBetLeavesGameAlone
  BY DEF FInv, FlightOK, AnsweredIsDone, Accepted, AnsweredBetLeavesGameAlone,
     ExtensionsOf, SettlementsOf
<1> QED BY <1>1, FlightInvariance, PTL

\* However they interleave, no valid bet is forgotten: an unanswered one whose
\* process lives has a statement in flight that goes on with it.
THEOREM NobodyStranded == Spec => []NoBetStranded
<1>1. FInv => NoBetStranded
  BY DEF FInv, FlightOK, Stranded, NoBetStranded, ReadsOf, ExtensionsOf,
     SettlementsOf
<1> QED BY <1>1, FlightInvariance, PTL
=============================================================================
