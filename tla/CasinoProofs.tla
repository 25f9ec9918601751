---------------------------- MODULE CasinoProofs ----------------------------
(***************************************************************************)
(* Proofs about Casino, for all values of its constants: the invariant of  *)
(* the bets survives the INSERTs of the lobby, and what the lobby promised *)
(* survives the bets.                                                      *)
(***************************************************************************)
EXTENDS Casino, GameServiceProofs

HasRow(p) == player[p] # Absent

\* An INSERT in flight carries an id of its own, which has no row yet, for a
\* visit that asked for it.
PlayerInsertOK(i) ==
  /\ i \in Lobby!PlayerInsertRecords
  /\ ~ HasRow(i.id)
  /\ visit[i.visit] = [kind |-> "createPlayer", name |-> i.name]

GameInsertOK(i) ==
  /\ i \in Lobby!GameInsertRecords
  /\ game[i.id] = Absent
  /\ visit[i.visit] \in Lobby!CreateGameInputs

LookupOK(l) ==
  /\ l \in Lobby!LookupRecords
  /\ visit[l.visit] \in Lobby!LookupInputs

OwnIds(inserts) == \A i, j \in inserts : i.id = j.id => i = j

\* The rows of the table player: a name belongs to a row, and to one only.
NamesOK ==
  /\ playerName \in [Players -> (Names \ {Omitted}) \cup {Absent}]
  /\ \A p \in Players : playerName[p] # Absent => HasRow(p)
  /\ \A p, q \in Players :
       playerName[p] # Absent /\ playerName[p] = playerName[q] => p = q

\* A response 200 names a row that exists; to createPlayer, the visit's own.
ReplyOK(v) ==
  reply[v] # None =>
    /\ visit[v] # None
    /\ reply[v] \in Lobby!Replies
    /\ reply[v].status = 200 =>
         /\ reply[v].player # None => HasRow(reply[v].player)
         /\ reply[v].game # None => game[reply[v].game] # Absent
         /\ visit[v].kind = "createPlayer" =>
              /\ reply[v].player \in Players
              /\ playerName[reply[v].player] = visit[v].name

OneReplyPerPlayer ==
  \A v, w \in Visits :
    /\ reply[v] # None /\ reply[v].status = 200 /\ visit[v].kind = "createPlayer"
    /\ reply[w] # None /\ reply[w].status = 200 /\ visit[w].kind = "createPlayer"
    /\ reply[v].player = reply[w].player
    => v = w

LobbyInv ==
  /\ visit \in [Visits -> Lobby!VisitInputs \cup {None}]
  /\ gone \subseteq Visits
  /\ \A i \in playerInserts : PlayerInsertOK(i)
  /\ \A i \in gameInserts : GameInsertOK(i)
  /\ \A l \in lookups : LookupOK(l)
  /\ OwnIds(playerInserts)
  /\ OwnIds(gameInserts)
  /\ NamesOK
  /\ reply \in [Visits -> Lobby!Replies \cup {None}]
  /\ \A v \in Visits : ReplyOK(v)
  /\ OneReplyPerPlayer

CasinoIInv == IInv /\ LobbyInv

-----------------------------------------------------------------------------
(***************************************************************************)
(* What a step does to the tables and the responses.                       *)
(***************************************************************************)
TablesKept ==
  /\ \A p \in Players : HasRow(p) => player'[p] # Absent /\ playerName'[p] = playerName[p]
  /\ \A g \in Games : game[g] # Absent => game'[g] # Absent

VisitStep ==
  /\ visit' \in [Visits -> Lobby!VisitInputs \cup {None}]
  /\ \A v \in Visits : visit[v] # None => visit'[v] = visit[v]

\* The response sent in this step; a new player's id had no row before it.
Fits(v, response) ==
  /\ visit'[v] # None
  /\ response \in Lobby!Replies
  /\ response.status = 200 =>
       /\ response.player # None => player'[response.player] # Absent
       /\ response.game # None => game'[response.game] # Absent
       /\ visit'[v].kind = "createPlayer" =>
            /\ response.player \in Players
            /\ ~ HasRow(response.player)
            /\ playerName'[response.player] = visit'[v].name

ReplyStep ==
  \/ reply' = reply
  \/ \E v \in Visits, response \in Lobby!Replies :
       reply' = [reply EXCEPT ![v] = response] /\ Fits(v, response)

\* The ids of a response are ids of players and games.
LEMMA ReplyIds ==
  ASSUME NEW response \in Lobby!Replies
  PROVE  /\ response.player # None => response.player \in Players
         /\ response.game # None => response.game \in Games
BY DEF Lobby!Replies

\* A response that was fine stays fine.
LEMMA ReplyKept ==
  ASSUME LobbyInv, TablesKept, VisitStep, NEW v \in Visits, reply'[v] = reply[v]
  PROVE  ReplyOK(v)'
<1> SUFFICES ASSUME reply[v] # None PROVE ReplyOK(v)'
  BY DEF ReplyOK
<1>1. /\ ReplyOK(v) /\ visit'[v] = visit[v] /\ visit[v] # None
      /\ reply[v] \in Lobby!Replies
  BY DEF LobbyInv, ReplyOK, VisitStep
<1>2. CASE reply[v].status # 200
  BY <1>1, <1>2 DEF ReplyOK
<1>3. CASE reply[v].status = 200
  <2>1. reply[v].player # None => player'[reply[v].player] # Absent
    BY <1>1, <1>3, ReplyIds DEF ReplyOK, TablesKept
  <2>2. reply[v].game # None => game'[reply[v].game] # Absent
    BY <1>1, <1>3, ReplyIds DEF ReplyOK, TablesKept
  <2>3. visit[v].kind = "createPlayer" =>
          /\ reply[v].player \in Players
          /\ playerName'[reply[v].player] = visit[v].name
    BY <1>1, <1>3, CasinoAssumption DEF ReplyOK, TablesKept
  <2> QED BY <1>1, <2>1, <2>2, <2>3 DEF ReplyOK, HasRow
<1> QED BY <1>2, <1>3

\* The player a createPlayer visit was told of has a row.
LEMMA ToldHasRow ==
  ASSUME LobbyInv, NEW v \in Visits, reply[v] # None, reply[v].status = 200,
         visit[v].kind = "createPlayer"
  PROVE  reply[v].player \in Players /\ HasRow(reply[v].player)
BY CasinoAssumption DEF LobbyInv, ReplyOK

LEMMA RepliesOK ==
  ASSUME LobbyInv, TablesKept, VisitStep, ReplyStep
  PROVE  /\ reply' \in [Visits -> Lobby!Replies \cup {None}]
         /\ \A v \in Visits : ReplyOK(v)'
         /\ OneReplyPerPlayer'
<1>0. reply \in [Visits -> Lobby!Replies \cup {None}] /\ OneReplyPerPlayer
  BY DEF LobbyInv
<1>1. \A v \in Visits : reply[v] # None => visit[v] # None /\ visit'[v] = visit[v]
  BY DEF LobbyInv, ReplyOK, VisitStep
<1>2. CASE reply' = reply
  <2>1. \A v \in Visits : ReplyOK(v)'
    BY <1>2, ReplyKept
  <2>2. OneReplyPerPlayer'
    BY <1>0, <1>1, <1>2 DEF OneReplyPerPlayer
  <2> QED BY <1>0, <1>2, <2>1, <2>2
<1>3. ASSUME NEW v \in Visits, NEW response \in Lobby!Replies,
             reply' = [reply EXCEPT ![v] = response], Fits(v, response)
      PROVE  /\ reply' \in [Visits -> Lobby!Replies \cup {None}]
             /\ \A w \in Visits : ReplyOK(w)'
             /\ OneReplyPerPlayer'
  <2>1. /\ reply' \in [Visits -> Lobby!Replies \cup {None}]
        /\ reply'[v] = response
        /\ \A w \in Visits : w # v => reply'[w] = reply[w]
    BY <1>0, <1>3
  <2>2. ReplyOK(v)'
    BY <1>3, <2>1 DEF ReplyOK, Fits, HasRow
  <2>3. \A w \in Visits : w # v => ReplyOK(w)'
    BY <2>1, ReplyKept
  <2>4. ASSUME NEW w \in Visits, w # v, reply'[w] # None, reply'[w].status = 200,
               visit'[w].kind = "createPlayer", response.status = 200,
               visit'[v].kind = "createPlayer"
        PROVE  response.player # reply'[w].player
    <3>1. HasRow(reply[w].player)
      BY <1>1, <2>1, <2>4, ToldHasRow
    <3>2. ~ HasRow(response.player)
      BY <1>3, <2>4 DEF Fits
    <3> QED BY <2>1, <2>4, <3>1, <3>2
  <2>5. ASSUME NEW w \in Visits, NEW u \in Visits, w # v, u # v,
               reply'[w] # None, reply'[w].status = 200, visit'[w].kind = "createPlayer",
               reply'[u] # None, reply'[u].status = 200, visit'[u].kind = "createPlayer",
               reply'[w].player = reply'[u].player
        PROVE  w = u
    BY <1>0, <1>1, <2>1, <2>5 DEF OneReplyPerPlayer
  <2>6. OneReplyPerPlayer'
    BY <2>1, <2>4, <2>5 DEF OneReplyPerPlayer
  <2> QED BY <2>1, <2>2, <2>3, <2>6
<1> QED BY <1>2, <1>3 DEF ReplyStep

\* It suffices to look at the tables and at what is left in flight.
LEMMA LobbyPreserves ==
  ASSUME LobbyInv, TablesKept, VisitStep, ReplyStep,
         gone' \subseteq Visits,
         \A i \in playerInserts' : PlayerInsertOK(i)',
         \A i \in gameInserts' : GameInsertOK(i)',
         \A l \in lookups' : LookupOK(l)',
         OwnIds(playerInserts'), OwnIds(gameInserts'), NamesOK'
  PROVE  LobbyInv'
<1>1. /\ reply' \in [Visits -> Lobby!Replies \cup {None}]
      /\ \A v \in Visits : ReplyOK(v)'
      /\ OneReplyPerPlayer'
  BY RepliesOK
<1> QED BY <1>1 DEF LobbyInv, VisitStep, OwnIds

LEMMA NamesUnchanged ==
  ASSUME LobbyInv, TablesKept, UNCHANGED playerName
  PROVE  NamesOK'
BY DEF LobbyInv, NamesOK, TablesKept, HasRow

-----------------------------------------------------------------------------
(***************************************************************************)
(* The bets in the presence of the lobby.                                  *)
(***************************************************************************)
\* Bets neither create nor remove players.
LEMMA BetsKeepPlayers == IInv /\ [Next]_vars => PlayerStep
<1> SUFFICES ASSUME IInv, [Next]_vars PROVE PlayerStep
  OBVIOUS
<1>0. TypeOK
  BY DEF IInv
<1>1. CASE UNCHANGED player
  BY <1>1 DEF PlayerStep
<1>2. ASSUME NEW s \in settlements, player' \in {player, CasPlayer(s.player, s.from, s.to)}
      PROVE  PlayerStep
  <2>1. s.from \in Int32 /\ s.to \in Int32
    BY <1>0 DEF TypeOK, SettlementRecords
  <2> QED BY <1>0, <1>2, <2>1, CasPlayerStep
<1>3. ASSUME NEW u \in topUps, player' \in {player, CasPlayer(u.player, u.from, u.to)}
      PROVE  PlayerStep
  <2>1. u.from \in Int32 /\ u.to \in Int32
    BY <1>0 DEF TypeOK, TopUpRecords
  <2> QED BY <1>0, <1>3, <2>1, CasPlayerStep
<1>4. CASE Arrivals
  BY <1>1, <1>4 DEF Arrivals, RequestBet, UpdatePlayerToken, Submit
<1>5. CASE Statements
  BY <1>1, <1>2, <1>3, <1>5
     DEF Statements, GetGame, GetPlayer, UpdateGameDeck, UpdatePlayer, UpdateGame,
         UpdateTokens
<1>6. CASE StatementFaults
  <2>1. CASE \E s \in settlements, part \in Parts : FailSettlement(s, part)
    BY <1>1, <1>2, <2>1 DEF FailSettlement
  <2>2. CASE \E u \in topUps : FailTokens(u)
    BY <1>3, <2>2 DEF FailTokens
  <2> QED
    BY <1>1, <1>6, <2>1, <2>2 DEF StatementFaults, FailRead, FailExtension
<1>7. CASE Crash
  BY <1>1, <1>7 DEF Crash
<1>8. CASE UNCHANGED vars
  BY <1>1, <1>8 DEF vars
<1> QED BY <1>4, <1>5, <1>6, <1>7, <1>8 DEF Next

\* What is in flight stays in order while no row comes into being.
LEMMA LobbyUntouched ==
  ASSUME LobbyInv, PlayerStep, GameStep,
         UNCHANGED <<playerName, visit, playerInserts, gameInserts, reply>>,
         lookups' \subseteq lookups, gone' \subseteq Visits
  PROVE  LobbyInv'
<1>1. TablesKept
  BY DEF TablesKept, PlayerStep, GameStep, HasRow
<1>2. VisitStep /\ ReplyStep
  BY DEF VisitStep, ReplyStep, LobbyInv
<1>3. \A i \in playerInserts' : PlayerInsertOK(i)'
  BY DEF LobbyInv, PlayerInsertOK, PlayerStep, HasRow, Lobby!PlayerInsertRecords
<1>4. \A i \in gameInserts' : GameInsertOK(i)'
  BY DEF LobbyInv, GameInsertOK, GameStep, Lobby!GameInsertRecords
<1>5. \A l \in lookups' : LookupOK(l)'
  BY DEF LobbyInv, LookupOK
<1>6. OwnIds(playerInserts') /\ OwnIds(gameInserts')
  BY DEF LobbyInv, OwnIds
<1>7. NamesOK'
  BY <1>1, NamesUnchanged
<1> QED BY <1>1, <1>2, <1>3, <1>4, <1>5, <1>6, <1>7, LobbyPreserves

LEMMA BetStepPreserves ==
  ASSUME CasinoIInv, Arrivals \/ Statements \/ StatementFaults, UNCHANGED lobbyVars
  PROVE  CasinoIInv' /\ GameKept
<1>1. IInv /\ [Next]_vars
  BY DEF CasinoIInv, Next
<1>2. IInv' /\ GameStep /\ PlayerStep
  BY <1>1, NextIInv, BetsKeepPlayers
<1>3. LobbyInv'
  BY <1>2, LobbyUntouched DEF CasinoIInv, LobbyInv, lobbyVars
<1> QED BY <1>2, <1>3, StepKeeps DEF CasinoIInv

\* One process: the bets and the lobby lose it together.
LEMMA BothCrash ==
  ASSUME CasinoIInv, Crash, Lobby!Crash
  PROVE  CasinoIInv' /\ GameKept
<1>1. IInv /\ [Next]_vars
  BY DEF CasinoIInv, Next
<1>2. IInv' /\ GameStep /\ PlayerStep
  BY <1>1, NextIInv, BetsKeepPlayers
<1>3. LobbyInv'
  BY <1>2, LobbyUntouched DEF CasinoIInv, Lobby!Crash
<1> QED BY <1>2, <1>3, StepKeeps DEF CasinoIInv

-----------------------------------------------------------------------------
(***************************************************************************)
(* The lobby in the presence of the bets.                                  *)
(***************************************************************************)
LEMMA BetsUntouched ==
  ASSUME IInv, UNCHANGED betVars, GameKept,
         player' \in [Players -> Int32 \cup {Absent}], faults' \in 0 .. MaxFaults
  PROVE  IInv'
<1>1. InputStep
  BY InputUnchanged DEF betVars
<1> QED BY <1>1, KeptPreserves DEF betVars, IInv, TypeOK

LEMMA LobbyFaultType ==
  ASSUME IInv, Lobby!Fault \/ UNCHANGED faults
  PROVE  faults' \in 0 .. MaxFaults
<1>1. faults \in 0 .. MaxFaults /\ MaxFaults \in Nat
  BY GameServiceAssumption DEF IInv, TypeOK
<1>2. CASE UNCHANGED faults
  BY <1>1, <1>2
<1>3. CASE Lobby!Fault
  <2>1. faults < MaxFaults /\ faults' = faults + 1
    BY <1>3 DEF Lobby!Fault
  <2> QED BY <1>1, <2>1
<1> QED BY <1>2, <1>3

LEMMA GameSame == ASSUME IInv, UNCHANGED game PROVE GameKept
BY GameUnchanged, StepKeeps

\* A statement in flight keeps its visit.
LEMMA InFlightKept ==
  ASSUME LobbyInv, VisitStep
  PROVE  /\ \A i \in playerInserts : player'[i.id] = Absent => PlayerInsertOK(i)'
         /\ \A i \in gameInserts : game'[i.id] = Absent => GameInsertOK(i)'
         /\ \A l \in lookups : LookupOK(l)'
<1>1. ASSUME NEW i \in playerInserts, player'[i.id] = Absent
      PROVE  PlayerInsertOK(i)'
  <2>1. /\ i \in Lobby!PlayerInsertRecords
        /\ visit[i.visit] = [kind |-> "createPlayer", name |-> i.name]
    BY DEF LobbyInv, PlayerInsertOK
  <2>2. i.visit \in Visits /\ i.name \in Names
    BY <2>1 DEF Lobby!PlayerInsertRecords
  <2>3. visit[i.visit] \in Lobby!VisitInputs
    BY <2>1, <2>2 DEF Lobby!VisitInputs, Lobby!CreatePlayerInputs
  <2>4. visit'[i.visit] = visit[i.visit]
    BY <2>2, <2>3, VisitAssumption DEF VisitStep
  <2> QED BY <1>1, <2>1, <2>4 DEF PlayerInsertOK, HasRow
<1>2. ASSUME NEW i \in gameInserts, game'[i.id] = Absent
      PROVE  GameInsertOK(i)'
  <2>1. i \in Lobby!GameInsertRecords /\ visit[i.visit] \in Lobby!CreateGameInputs
    BY DEF LobbyInv, GameInsertOK
  <2>2. i.visit \in Visits /\ visit[i.visit] \in Lobby!VisitInputs
    BY <2>1 DEF Lobby!GameInsertRecords, Lobby!VisitInputs
  <2>3. visit'[i.visit] = visit[i.visit]
    BY <2>2, VisitAssumption DEF VisitStep
  <2> QED BY <1>2, <2>1, <2>3 DEF GameInsertOK
<1>3. ASSUME NEW l \in lookups PROVE LookupOK(l)'
  <2>1. l \in Lobby!LookupRecords /\ visit[l.visit] \in Lobby!LookupInputs
    BY DEF LobbyInv, LookupOK
  <2>2. l.visit \in Visits /\ visit[l.visit] \in Lobby!VisitInputs
    BY <2>1 DEF Lobby!LookupRecords, Lobby!VisitInputs
  <2>3. visit'[l.visit] = visit[l.visit]
    BY <2>2, VisitAssumption DEF VisitStep
  <2> QED BY <2>1, <2>3 DEF LookupOK
<1> QED BY <1>1, <1>2, <1>3

\* Responses and when they are sent.
LEMMA ReplyTypes ==
  /\ \A code \in {404, 500} :
       Lobby!Refusal(code) \in Lobby!Replies /\ Lobby!Refusal(code).status # 200
  /\ \A p \in Players : Lobby!PlayerReply(p) \in Lobby!Replies
  /\ \A g \in Games : Lobby!GameReply(g) \in Lobby!Replies
BY DEF Lobby!Refusal, Lobby!PlayerReply, Lobby!GameReply, Lobby!Replies

LEMMA ReplyIsStep ==
  ASSUME NEW v \in Visits, NEW response \in Lobby!Replies,
         Lobby!Reply(v, response), VisitStep, UNCHANGED visit,
         \/ response.status # 200
         \/ visit[v] # None => Fits(v, response)
  PROVE  ReplyStep
<1>1. CASE Lobby!Waiting(v)
  <2>1. reply' = [reply EXCEPT ![v] = response] /\ visit[v] # None
    BY <1>1 DEF Lobby!Reply, Lobby!Waiting
  <2>2. Fits(v, response)
    BY <2>1 DEF Fits
  <2> QED BY <2>1, <2>2 DEF ReplyStep
<1>2. CASE ~ Lobby!Waiting(v)
  BY <1>2 DEF Lobby!Reply, ReplyStep
<1> QED BY <1>1, <1>2

LEMMA VisitUnchanged == ASSUME LobbyInv, UNCHANGED visit PROVE VisitStep
BY DEF LobbyInv, VisitStep

LEMMA TablesUnchanged ==
  ASSUME UNCHANGED <<player, game, playerName>>
  PROVE  TablesKept
BY DEF TablesKept, HasRow

\* A visit arrives.
LEMMA VisitArrives ==
  ASSUME CasinoIInv, NEW v \in Visits, NEW in \in Lobby!VisitInputs, Lobby!Visit(v, in)
  PROVE  /\ TablesKept /\ VisitStep
         /\ visit'[v] = in /\ in # None
         /\ NamesOK' /\ gone' \subseteq Visits
         /\ \A i \in playerInserts : PlayerInsertOK(i)'
         /\ \A i \in gameInserts : GameInsertOK(i)'
         /\ \A l \in lookups : LookupOK(l)'
<1>1. LobbyInv /\ visit \in [Visits -> Lobby!VisitInputs \cup {None}]
  BY DEF CasinoIInv, LobbyInv
<1>2. /\ visit[v] = None /\ visit' = [visit EXCEPT ![v] = in]
      /\ UNCHANGED <<player, game, playerName, gone>>
  BY DEF Lobby!Visit
<1>3. VisitStep /\ visit'[v] = in
  BY <1>1, <1>2 DEF VisitStep
<1>4. TablesKept
  BY <1>2, TablesUnchanged
<1>5. NamesOK'
  BY <1>1, <1>2, <1>4, NamesUnchanged
<1>6. /\ \A i \in playerInserts : player'[i.id] = Absent
      /\ \A i \in gameInserts : game'[i.id] = Absent
  BY <1>1, <1>2 DEF LobbyInv, PlayerInsertOK, GameInsertOK, HasRow
<1> QED
  BY <1>1, <1>2, <1>3, <1>4, <1>5, <1>6, InFlightKept, VisitAssumption DEF LobbyInv

LEMMA VisitKeepsBets ==
  ASSUME CasinoIInv, UNCHANGED betVars, UNCHANGED <<player, game, faults>>
  PROVE  IInv' /\ GameKept
<1>1. GameKept
  BY GameSame DEF CasinoIInv
<1>2. player' \in [Players -> Int32 \cup {Absent}] /\ faults' \in 0 .. MaxFaults
  BY DEF CasinoIInv, IInv, TypeOK, RepositoryTypeOK
<1> QED BY <1>1, <1>2, BetsUntouched DEF CasinoIInv

LEMMA RefusedVisit ==
  ASSUME NEW v \in Visits, visit'[v] # None, Lobby!Refuse(v)
  PROVE  ReplyStep
<1>1. Lobby!Refusal(500) \in Lobby!Replies /\ Lobby!Refusal(500).status # 200
  BY ReplyTypes
<1>2. Fits(v, Lobby!Refusal(500))
  BY <1>1 DEF Fits
<1>3. reply' = [reply EXCEPT ![v] = Lobby!Refusal(500)]
  BY DEF Lobby!Refuse
<1> QED BY <1>1, <1>2, <1>3 DEF ReplyStep

LEMMA CreatePlayerPreserves ==
  ASSUME CasinoIInv, UNCHANGED betVars, NEW v \in Visits, Lobby!CreatePlayer(v)
  PROVE  CasinoIInv' /\ GameKept
<1>1. PICK in \in Lobby!CreatePlayerInputs :
        /\ Lobby!Visit(v, in)
        /\ \/ in.name = Omitted /\ Lobby!Refuse(v) /\ UNCHANGED playerInserts
           \/ /\ in.name # Omitted /\ UNCHANGED reply
              /\ \E p \in Players :
                   /\ Lobby!NewPlayerId(p)
                   /\ playerInserts' = playerInserts \cup
                        {[visit |-> v, id |-> p, name |-> in.name]}
        /\ UNCHANGED <<gameInserts, lookups>>
  BY DEF Lobby!CreatePlayer
<1>2. in \in Lobby!VisitInputs
  BY DEF Lobby!VisitInputs
<1>3. /\ TablesKept /\ VisitStep /\ visit'[v] = in /\ in # None
      /\ NamesOK' /\ gone' \subseteq Visits
      /\ \A i \in playerInserts : PlayerInsertOK(i)'
      /\ \A i \in gameInserts' : GameInsertOK(i)'
      /\ \A l \in lookups' : LookupOK(l)'
  BY <1>1, <1>2, VisitArrives
<1>4. IInv' /\ GameKept
  BY <1>1, VisitKeepsBets DEF Lobby!Visit
<1>5. LobbyInv /\ OwnIds(gameInserts')
  BY <1>1 DEF CasinoIInv, LobbyInv
<1>6. CASE in.name = Omitted /\ Lobby!Refuse(v) /\ UNCHANGED playerInserts
  <2>1. ReplyStep
    BY <1>3, <1>6, RefusedVisit
  <2>2. OwnIds(playerInserts')
    BY <1>5, <1>6 DEF LobbyInv
  <2>3. LobbyInv'
    BY <1>3, <1>5, <1>6, <2>1, <2>2, LobbyPreserves
  <2> QED BY <1>4, <2>3 DEF CasinoIInv
<1>7. ASSUME NEW p \in Players, in.name # Omitted, UNCHANGED reply,
             Lobby!NewPlayerId(p),
             playerInserts' = playerInserts \cup
               {[visit |-> v, id |-> p, name |-> in.name]}
      PROVE  LobbyInv'
  <2> DEFINE new == [visit |-> v, id |-> p, name |-> in.name]
  <2>1. in = [kind |-> "createPlayer", name |-> in.name] /\ in.name \in Names \ {Omitted}
    BY <1>7 DEF Lobby!CreatePlayerInputs
  <2>2. player[p] = Absent /\ \A i \in playerInserts : i.id # p
    BY <1>7 DEF Lobby!NewPlayerId
  <2>3. UNCHANGED player
    BY <1>1 DEF Lobby!Visit
  <2>4. new \in Lobby!PlayerInsertRecords
    BY <2>1 DEF Lobby!PlayerInsertRecords
  <2>5. PlayerInsertOK(new)'
    BY <1>3, <2>1, <2>2, <2>3, <2>4 DEF PlayerInsertOK, HasRow
  <2>6. \A i \in playerInserts' : PlayerInsertOK(i)'
    BY <1>3, <1>7, <2>5
  <2>7. OwnIds(playerInserts')
    BY <1>5, <1>7, <2>2 DEF LobbyInv, OwnIds
  <2>8. ReplyStep
    BY <1>7 DEF ReplyStep
  <2> QED BY <1>3, <1>5, <2>6, <2>7, <2>8, LobbyPreserves
<1> QED BY <1>1, <1>4, <1>6, <1>7 DEF CasinoIInv

LEMMA CreateGamePreserves ==
  ASSUME CasinoIInv, UNCHANGED betVars, NEW v \in Visits, Lobby!CreateGame(v)
  PROVE  CasinoIInv' /\ GameKept
<1>1. PICK in \in Lobby!CreateGameInputs :
        /\ Lobby!Visit(v, in)
        /\ \/ in.player = Omitted /\ Lobby!Refuse(v) /\ UNCHANGED gameInserts
           \/ /\ in.player # Omitted /\ UNCHANGED reply
              /\ \E g \in Games, deck \in Shuffles :
                   /\ Lobby!NewGameId(g)
                   /\ gameInserts' = gameInserts \cup
                        {[visit |-> v, id |-> g, deck |-> deck]}
        /\ UNCHANGED <<playerInserts, lookups>>
  BY DEF Lobby!CreateGame
<1>2. in \in Lobby!VisitInputs
  BY DEF Lobby!VisitInputs
<1>3. /\ TablesKept /\ VisitStep /\ visit'[v] = in /\ in # None
      /\ NamesOK' /\ gone' \subseteq Visits
      /\ \A i \in playerInserts' : PlayerInsertOK(i)'
      /\ \A i \in gameInserts : GameInsertOK(i)'
      /\ \A l \in lookups' : LookupOK(l)'
  BY <1>1, <1>2, VisitArrives
<1>4. IInv' /\ GameKept
  BY <1>1, VisitKeepsBets DEF Lobby!Visit
<1>5. LobbyInv /\ OwnIds(playerInserts')
  BY <1>1 DEF CasinoIInv, LobbyInv
<1>6. CASE in.player = Omitted /\ Lobby!Refuse(v) /\ UNCHANGED gameInserts
  <2>1. ReplyStep
    BY <1>3, <1>6, RefusedVisit
  <2>2. OwnIds(gameInserts')
    BY <1>5, <1>6 DEF LobbyInv
  <2>3. LobbyInv'
    BY <1>3, <1>5, <1>6, <2>1, <2>2, LobbyPreserves
  <2> QED BY <1>4, <2>3 DEF CasinoIInv
<1>7. ASSUME NEW g \in Games, NEW deck \in Shuffles, UNCHANGED reply,
             Lobby!NewGameId(g),
             gameInserts' = gameInserts \cup {[visit |-> v, id |-> g, deck |-> deck]}
      PROVE  LobbyInv'
  <2> DEFINE new == [visit |-> v, id |-> g, deck |-> deck]
  <2>1. game'[g] = Absent /\ \A i \in gameInserts : i.id # g
    BY <1>1, <1>7 DEF Lobby!NewGameId, Lobby!Visit
  <2>2. new \in Lobby!GameInsertRecords
    BY DEF Lobby!GameInsertRecords
  <2>3. GameInsertOK(new)'
    BY <1>3, <2>1, <2>2 DEF GameInsertOK
  <2>4. \A i \in gameInserts' : GameInsertOK(i)'
    BY <1>3, <1>7, <2>3
  <2>5. OwnIds(gameInserts')
    BY <1>5, <1>7, <2>1 DEF LobbyInv, OwnIds
  <2>6. ReplyStep
    BY <1>7 DEF ReplyStep
  <2> QED BY <1>3, <1>5, <2>4, <2>5, <2>6, LobbyPreserves
<1> QED BY <1>1, <1>4, <1>6, <1>7 DEF CasinoIInv

LEMMA GetPlayerByIdPreserves ==
  ASSUME CasinoIInv, UNCHANGED betVars, NEW v \in Visits, Lobby!GetPlayerById(v)
  PROVE  CasinoIInv' /\ GameKept
<1>1. PICK in \in Lobby!LookupInputs :
        /\ Lobby!Visit(v, in)
        /\ lookups' = lookups \cup {[visit |-> v, player |-> in.player]}
        /\ UNCHANGED <<playerInserts, gameInserts, reply>>
  BY DEF Lobby!GetPlayerById
<1>2. in \in Lobby!VisitInputs
  BY DEF Lobby!VisitInputs
<1>3. /\ TablesKept /\ VisitStep /\ visit'[v] = in /\ NamesOK' /\ gone' \subseteq Visits
      /\ \A i \in playerInserts' : PlayerInsertOK(i)'
      /\ \A i \in gameInserts' : GameInsertOK(i)'
      /\ \A l \in lookups : LookupOK(l)'
  BY <1>1, <1>2, VisitArrives
<1>4. IInv' /\ GameKept
  BY <1>1, VisitKeepsBets DEF Lobby!Visit
<1> DEFINE new == [visit |-> v, player |-> in.player]
<1>5. new \in Lobby!LookupRecords
  BY DEF Lobby!LookupRecords, Lobby!LookupInputs
<1>6. LookupOK(new)'
  BY <1>3, <1>5 DEF LookupOK
<1>7. \A l \in lookups' : LookupOK(l)'
  BY <1>1, <1>3, <1>6
<1>8. OwnIds(playerInserts') /\ OwnIds(gameInserts') /\ LobbyInv
  BY <1>1 DEF CasinoIInv, LobbyInv
<1>9. ReplyStep
  BY <1>1 DEF ReplyStep
<1>10. LobbyInv'
  BY <1>3, <1>7, <1>8, <1>9, LobbyPreserves
<1> QED BY <1>4, <1>10 DEF CasinoIInv

\* A row of a new player, or none: the INSERT of createPlayer has run or failed.
LEMMA PlayerInserted ==
  ASSUME CasinoIInv, NEW i \in playerInserts,
         \/ Lobby!StorePlayer(i) /\ playerInserts' = playerInserts \ {i}
         \/ UNCHANGED <<player, playerName>> /\ playerInserts' \in SUBSET playerInserts,
         UNCHANGED <<game, visit>>
  PROVE  /\ TablesKept /\ VisitStep /\ NamesOK'
         /\ \A j \in playerInserts' : PlayerInsertOK(j)'
         /\ OwnIds(playerInserts')
         /\ player' \in [Players -> Int32 \cup {Absent}]
<1>0. /\ LobbyInv /\ PlayerInsertOK(i)
      /\ player \in [Players -> Int32 \cup {Absent}]
      /\ playerName \in [Players -> (Names \ {Omitted}) \cup {Absent}]
  BY DEF CasinoIInv, LobbyInv, NamesOK, IInv, TypeOK, RepositoryTypeOK
<1>1. i.id \in Players /\ i.name \in Names \ {Omitted} /\ player[i.id] = Absent
  BY <1>0 DEF PlayerInsertOK, HasRow, Lobby!PlayerInsertRecords
<1>2. VisitStep
  BY <1>0, VisitUnchanged
<1>3. OwnIds(playerInserts')
  BY <1>0 DEF LobbyInv, OwnIds
<1>4. CASE UNCHANGED <<player, playerName>>
  <2>1. TablesKept
    BY <1>4, TablesUnchanged
  <2>2. NamesOK'
    BY <1>0, <1>4, <2>1, NamesUnchanged
  <2>3. \A j \in playerInserts' : player'[j.id] = Absent
    BY <1>0, <1>4 DEF LobbyInv, PlayerInsertOK, HasRow
  <2> QED BY <1>0, <1>2, <1>3, <1>4, <2>1, <2>2, <2>3, InFlightKept
<1>5. CASE Lobby!StorePlayer(i) /\ playerInserts' = playerInserts \ {i}
  <2>1. /\ \A p \in Players : playerName[p] # i.name
        /\ player' = [player EXCEPT ![i.id] = DefaultTokens]
        /\ playerName' = [playerName EXCEPT ![i.id] = i.name]
    BY <1>5 DEF Lobby!StorePlayer, Lobby!NameTaken
  <2>2. DefaultTokens \in Int32 /\ DefaultTokens # Absent
    BY CasinoAssumption, IntLimitAssumption, RepositoryAssumption DEF NatInt32, Int32
  <2>3. player' \in [Players -> Int32 \cup {Absent}]
    BY <1>0, <2>1, <2>2
  <2>4. TablesKept
    BY <1>0, <1>1, <2>1 DEF TablesKept, HasRow
  <2>5. NamesOK'
    <3>1. playerName' \in [Players -> (Names \ {Omitted}) \cup {Absent}]
      BY <1>0, <1>1, <2>1
    <3>2. \A p \in Players : playerName'[p] # Absent => player'[p] # Absent
      BY <1>0, <1>1, <2>1, <2>2 DEF LobbyInv, NamesOK, HasRow
    <3>3. \A p, q \in Players :
            playerName'[p] # Absent /\ playerName'[p] = playerName'[q] => p = q
      BY <1>0, <1>1, <2>1 DEF LobbyInv, NamesOK
    <3> QED BY <3>1, <3>2, <3>3 DEF NamesOK, HasRow
  <2>6. \A j \in playerInserts' : player'[j.id] = Absent
    <3> SUFFICES ASSUME NEW j \in playerInserts, j # i PROVE player'[j.id] = Absent
      BY <1>5
    <3>1. j.id # i.id
      BY <1>0 DEF LobbyInv, OwnIds
    <3>2. j.id \in Players /\ player[j.id] = Absent
      BY <1>0 DEF LobbyInv, PlayerInsertOK, HasRow, Lobby!PlayerInsertRecords
    <3> QED BY <1>0, <2>1, <3>1, <3>2
  <2> QED BY <1>0, <1>2, <1>3, <2>3, <2>4, <2>5, <2>6, InFlightKept
<1> QED BY <1>4, <1>5

LEMMA RefusalIsStep ==
  ASSUME NEW v \in Visits, NEW code \in {404, 500}, VisitStep, UNCHANGED visit,
         Lobby!Reply(v, Lobby!Refusal(code))
  PROVE  ReplyStep
BY ReplyTypes, ReplyIsStep

LEMMA InsertPlayerPreserves ==
  ASSUME CasinoIInv, UNCHANGED betVars, NEW i \in playerInserts,
         Lobby!InsertPlayer(i) \/ Lobby!FailPlayerInsert(i)
  PROVE  CasinoIInv' /\ GameKept
<1>1. /\ \/ Lobby!StorePlayer(i) /\ playerInserts' = playerInserts \ {i}
         \/ UNCHANGED <<player, playerName>> /\ playerInserts' \in SUBSET playerInserts
      /\ \/ Lobby!StorePlayer(i) /\ Lobby!Reply(i.visit, Lobby!PlayerReply(i.id))
         \/ Lobby!Reply(i.visit, Lobby!Refusal(500))
      /\ UNCHANGED <<game, visit, gameInserts, lookups, gone>>
      /\ Lobby!Fault \/ UNCHANGED faults
  BY DEF Lobby!InsertPlayer, Lobby!FailPlayerInsert
<1>2. /\ TablesKept /\ VisitStep /\ NamesOK'
      /\ \A j \in playerInserts' : PlayerInsertOK(j)'
      /\ OwnIds(playerInserts')
      /\ player' \in [Players -> Int32 \cup {Absent}]
  BY <1>1, PlayerInserted
<1>3. IInv' /\ GameKept
  BY <1>1, <1>2, GameSame, LobbyFaultType, BetsUntouched DEF CasinoIInv
<1>4. /\ LobbyInv /\ PlayerInsertOK(i)
      /\ i.visit \in Visits /\ i.id \in Players
      /\ visit[i.visit] = [kind |-> "createPlayer", name |-> i.name]
  BY DEF CasinoIInv, LobbyInv, PlayerInsertOK, Lobby!PlayerInsertRecords
<1>5. ReplyStep
  <2>1. CASE Lobby!StorePlayer(i) /\ Lobby!Reply(i.visit, Lobby!PlayerReply(i.id))
    <3>1. Lobby!PlayerReply(i.id) \in Lobby!Replies
      BY <1>4, ReplyTypes
    <3>2. player'[i.id] # Absent /\ playerName'[i.id] = i.name
      <4>1. DefaultTokens # Absent
        BY CasinoAssumption, RepositoryAssumption, IntLimitAssumption DEF NatInt32
      <4>2. /\ player' = [player EXCEPT ![i.id] = DefaultTokens]
            /\ playerName' = [playerName EXCEPT ![i.id] = i.name]
        BY <2>1 DEF Lobby!StorePlayer
      <4>3. i.id \in DOMAIN player /\ i.id \in DOMAIN playerName
        BY <1>4 DEF CasinoIInv, LobbyInv, NamesOK, IInv, TypeOK, RepositoryTypeOK
      <4> QED BY <4>1, <4>2, <4>3
    <3>3. visit[i.visit] # None => Fits(i.visit, Lobby!PlayerReply(i.id))
      BY <1>1, <1>4, <3>1, <3>2
         DEF Fits, Lobby!PlayerReply, PlayerInsertOK, HasRow
    <3> QED BY <1>1, <1>2, <1>4, <2>1, <3>1, <3>3, ReplyIsStep
  <2>2. CASE Lobby!Reply(i.visit, Lobby!Refusal(500))
    BY <1>1, <1>2, <1>4, <2>2, RefusalIsStep
  <2> QED BY <1>1, <2>1, <2>2
<1>6. /\ \A j \in gameInserts' : GameInsertOK(j)'
      /\ \A l \in lookups' : LookupOK(l)'
      /\ OwnIds(gameInserts') /\ gone' \subseteq Visits
  <2>1. \A j \in gameInserts : game'[j.id] = Absent
    BY <1>1, <1>4 DEF LobbyInv, GameInsertOK
  <2> QED BY <1>1, <1>2, <1>4, <2>1, InFlightKept DEF LobbyInv
<1>7. LobbyInv'
  BY <1>2, <1>4, <1>5, <1>6, LobbyPreserves
<1> QED BY <1>3, <1>7 DEF CasinoIInv

LEMMA InsertGamePreserves ==
  ASSUME CasinoIInv, UNCHANGED betVars, NEW i \in gameInserts,
         Lobby!InsertGame(i) \/ Lobby!FailGameInsert(i)
  PROVE  CasinoIInv' /\ GameKept
<1>1. /\ \/ Lobby!StoreGame(i) /\ gameInserts' = gameInserts \ {i}
         \/ UNCHANGED game /\ gameInserts' \in SUBSET gameInserts
      /\ \/ Lobby!StoreGame(i) /\ Lobby!Reply(i.visit, Lobby!GameReply(i.id))
         \/ Lobby!Reply(i.visit, Lobby!Refusal(500))
      /\ UNCHANGED <<player, playerName, visit, playerInserts, lookups, gone>>
      /\ Lobby!Fault \/ UNCHANGED faults
  BY DEF Lobby!InsertGame, Lobby!FailGameInsert
<1> DEFINE row == [deck |-> i.deck, top |-> 0, table |-> 0]
<1>2. /\ LobbyInv /\ IInv
      /\ i \in Lobby!GameInsertRecords /\ game[i.id] = Absent
      /\ visit[i.visit] \in Lobby!CreateGameInputs
      /\ i.visit \in Visits /\ i.id \in Games /\ i.deck \in Shuffles
      /\ game \in [Games -> Row \cup {Absent}]
  BY DEF CasinoIInv, LobbyInv, GameInsertOK, Lobby!GameInsertRecords, IInv, TypeOK,
         RepositoryTypeOK
<1>3. RowOK(row) /\ row # Absent
  <2>1. i.deck \in Seq(CardIds) /\ Len(i.deck) = DeckSize /\ DeckSize > 4
    BY <1>2, CardDeckAssumption
  <2>2. row \in Row
    BY <2>1, IntLimitAssumption DEF Row, NatInt32
  <2>3. DeckSize \in Nat
    BY CardDeckAssumption
  <2>4. FewUndealt(row)
    BY <2>1, <2>3 DEF FewUndealt
  <2>5. IsWholeDecks(i.deck)
    BY <1>2, OneDeckIsWhole
  <2> QED
    BY <2>1, <2>2, <2>3, <2>4, <2>5, AbsentNotRow DEF RowOK, TopInDeck, TieOnTable
<1>4. game' \in {game, [game EXCEPT ![i.id] = row]}
  BY <1>1 DEF Lobby!StoreGame
<1>5. GameKept
  <2>1. CASE game' = game
    BY <1>2, <2>1, GameSame
  <2>2. CASE game' = [game EXCEPT ![i.id] = row]
    <3>1. game' \in [Games -> Row \cup {Absent}]
      BY <1>2, <1>3, <2>2 DEF RowOK
    <3>2. \A g \in Games : game[g] # Absent => game'[g] = game[g]
      BY <1>2, <2>2
    <3>3. \A g \in Games : game'[g] # Absent => RowOK(game'[g])
      BY <1>2, <1>3, <2>2 DEF IInv
    <3>4. \A g \in Games : game[g] # Absent => game[g].top \in Nat
      BY <1>2 DEF Row
    <3> QED BY <3>1, <3>2, <3>3, <3>4 DEF GameKept, RowGrows, SameCards
  <2> QED BY <1>4, <2>1, <2>2
<1>6. IInv'
  BY <1>1, <1>2, <1>5, LobbyFaultType, BetsUntouched DEF IInv, TypeOK, RepositoryTypeOK
<1>7. TablesKept
  BY <1>1, <1>5 DEF TablesKept, GameKept, HasRow
<1>8. VisitStep
  BY <1>1, <1>2, VisitUnchanged
<1>9. ReplyStep
  <2>1. CASE Lobby!StoreGame(i) /\ Lobby!Reply(i.visit, Lobby!GameReply(i.id))
    <3>1. Lobby!GameReply(i.id) \in Lobby!Replies
      BY <1>2, ReplyTypes
    <3>2. game'[i.id] # Absent
      BY <1>2, <1>3, <2>1 DEF Lobby!StoreGame
    <3>3. visit[i.visit] # None => Fits(i.visit, Lobby!GameReply(i.id))
      BY <1>1, <1>2, <3>1, <3>2 DEF Fits, Lobby!GameReply, Lobby!CreateGameInputs
    <3> QED BY <1>1, <1>2, <1>8, <2>1, <3>1, <3>3, ReplyIsStep
  <2>2. CASE Lobby!Reply(i.visit, Lobby!Refusal(500))
    BY <1>1, <1>2, <1>8, <2>2, RefusalIsStep
  <2> QED BY <1>1, <2>1, <2>2
<1>10. /\ \A j \in playerInserts' : PlayerInsertOK(j)'
       /\ \A l \in lookups' : LookupOK(l)'
       /\ OwnIds(playerInserts') /\ gone' \subseteq Visits
  <2>1. \A j \in playerInserts : player'[j.id] = Absent
    BY <1>1, <1>2 DEF LobbyInv, PlayerInsertOK, HasRow
  <2> QED BY <1>1, <1>2, <1>8, <2>1, InFlightKept DEF LobbyInv
<1>11. \A j \in gameInserts' : GameInsertOK(j)'
  <2> SUFFICES ASSUME NEW j \in gameInserts, j # i \/ UNCHANGED game
               PROVE  GameInsertOK(j)'
    BY <1>1
  <2>1. j.id # i.id \/ UNCHANGED game
    BY <1>2 DEF LobbyInv, OwnIds
  <2>2. j.id \in Games /\ game[j.id] = Absent
    BY <1>2 DEF LobbyInv, GameInsertOK, Lobby!GameInsertRecords
  <2>3. game'[j.id] = Absent
    BY <1>2, <1>4, <2>1, <2>2
  <2> QED BY <1>2, <1>8, <2>3, InFlightKept
<1>12. OwnIds(gameInserts') /\ NamesOK'
  BY <1>1, <1>2, <1>7, NamesUnchanged DEF LobbyInv, OwnIds
<1>13. LobbyInv'
  BY <1>2, <1>7, <1>8, <1>9, <1>10, <1>11, <1>12, LobbyPreserves
<1> QED BY <1>5, <1>6, <1>13 DEF CasinoIInv

LEMMA SelectPlayerPreserves ==
  ASSUME CasinoIInv, UNCHANGED betVars, NEW l \in lookups,
         Lobby!SelectPlayer(l) \/ Lobby!FailLookup(l)
  PROVE  CasinoIInv' /\ GameKept
<1>1. /\ \/ player[l.player] # Absent /\ Lobby!Reply(l.visit, Lobby!PlayerReply(l.player))
         \/ \E code \in {404, 500} : Lobby!Reply(l.visit, Lobby!Refusal(code))
      /\ lookups' = lookups \ {l}
      /\ UNCHANGED <<player, game, playerName, visit, playerInserts, gameInserts, gone>>
      /\ Lobby!Fault \/ UNCHANGED faults
  BY DEF Lobby!SelectPlayer, Lobby!FailLookup
<1>2. /\ LobbyInv /\ IInv
      /\ l.visit \in Visits /\ l.player \in Players
      /\ visit[l.visit] \in Lobby!LookupInputs
  BY DEF CasinoIInv, LobbyInv, LookupOK, Lobby!LookupRecords
<1>3. IInv' /\ GameKept
  <2>1. GameKept
    BY <1>1, <1>2, GameSame
  <2> QED
    BY <1>1, <1>2, <2>1, LobbyFaultType, BetsUntouched DEF IInv, TypeOK, RepositoryTypeOK
<1>4. TablesKept /\ VisitStep
  BY <1>1, <1>2, TablesUnchanged, VisitUnchanged
<1>5. ReplyStep
  <2>1. CASE /\ player[l.player] # Absent
             /\ Lobby!Reply(l.visit, Lobby!PlayerReply(l.player))
    <3>1. Lobby!PlayerReply(l.player) \in Lobby!Replies
      BY <1>2, ReplyTypes
    <3>2. visit[l.visit] # None => Fits(l.visit, Lobby!PlayerReply(l.player))
      BY <1>1, <1>2, <2>1, <3>1 DEF Fits, Lobby!PlayerReply, Lobby!LookupInputs
    <3> QED BY <1>1, <1>2, <1>4, <2>1, <3>1, <3>2, ReplyIsStep
  <2>2. CASE \E code \in {404, 500} : Lobby!Reply(l.visit, Lobby!Refusal(code))
    BY <1>1, <1>2, <1>4, <2>2, RefusalIsStep
  <2> QED BY <1>1, <2>1, <2>2
<1>6. /\ \A j \in playerInserts' : PlayerInsertOK(j)'
      /\ \A j \in gameInserts' : GameInsertOK(j)'
      /\ \A k \in lookups' : LookupOK(k)'
      /\ OwnIds(playerInserts') /\ OwnIds(gameInserts')
      /\ gone' \subseteq Visits
  <2>1. /\ \A j \in playerInserts : player'[j.id] = Absent
        /\ \A j \in gameInserts : game'[j.id] = Absent
    BY <1>1, <1>2 DEF LobbyInv, PlayerInsertOK, GameInsertOK, HasRow
  <2> QED BY <1>1, <1>2, <1>4, <2>1, InFlightKept DEF LobbyInv
<1>7. NamesOK'
  BY <1>1, <1>2, <1>4, NamesUnchanged
<1>8. LobbyInv'
  BY <1>2, <1>4, <1>5, <1>6, <1>7, LobbyPreserves
<1> QED BY <1>3, <1>8 DEF CasinoIInv

LEMMA LobbyServes ==
  ASSUME CasinoIInv, UNCHANGED betVars, Lobby!Serve
  PROVE  CasinoIInv' /\ GameKept
<1>1. CASE Lobby!Welcome
  BY <1>1, CreatePlayerPreserves, CreateGamePreserves, GetPlayerByIdPreserves
     DEF Lobby!Welcome
<1>2. CASE Lobby!Statements
  BY <1>2, InsertPlayerPreserves, InsertGamePreserves, SelectPlayerPreserves
     DEF Lobby!Statements
<1>3. CASE Lobby!StatementFaults
  BY <1>3, InsertPlayerPreserves, InsertGamePreserves, SelectPlayerPreserves
     DEF Lobby!StatementFaults
<1> QED BY <1>1, <1>2, <1>3 DEF Lobby!Serve

-----------------------------------------------------------------------------
LEMMA CasinoInitInv == CasinoInit => CasinoIInv
<1> SUFFICES ASSUME CasinoInit PROVE CasinoIInv
  OBVIOUS
<1>1. IInv
  BY InitIInv DEF CasinoInit
<1>2. LobbyInv
  BY DEF CasinoInit, Lobby!LobbyInit, LobbyInv, OwnIds, NamesOK, ReplyOK,
         OneReplyPerPlayer
<1> QED BY <1>1, <1>2 DEF CasinoIInv

\* No step of either component breaks the invariant, or takes back a row.
LEMMA CasinoNextInv == CasinoIInv /\ [CasinoNext]_casinoVars => CasinoIInv' /\ GameKept
<1> SUFFICES ASSUME CasinoIInv, [CasinoNext]_casinoVars PROVE CasinoIInv' /\ GameKept
  OBVIOUS
<1>1. CASE (\E r \in Requests : Play(r)) /\ UNCHANGED lobbyVars
  <2>1. Arrivals
    BY <1>1 DEF Play, Arrivals
  <2> QED BY <1>1, <2>1, BetStepPreserves
<1>2. CASE (Statements \/ StatementFaults) /\ UNCHANGED lobbyVars
  BY <1>2, BetStepPreserves
<1>3. CASE Lobby!Serve /\ UNCHANGED betVars
  BY <1>3, LobbyServes
<1>4. CASE Crash /\ Lobby!Crash
  BY <1>4, BothCrash
<1>5. CASE UNCHANGED casinoVars
  <2>1. UNCHANGED vars /\ UNCHANGED lobbyVars
    BY <1>5 DEF casinoVars
  <2>2. UNCHANGED betVars /\ UNCHANGED <<player, game, faults>>
    BY <2>1 DEF vars, betVars
  <2>3. IInv' /\ GameKept
    BY <2>2, VisitKeepsBets
  <2>4. IInv /\ [Next]_vars
    BY <2>1 DEF CasinoIInv
  <2>5. GameStep /\ PlayerStep
    BY <2>4, NextIInv, BetsKeepPlayers
  <2>6. LobbyInv'
    BY <2>1, <2>5, LobbyUntouched DEF CasinoIInv, LobbyInv, lobbyVars
  <2> QED BY <2>3, <2>6 DEF CasinoIInv
<1> QED BY <1>1, <1>2, <1>3, <1>4, <1>5 DEF CasinoNext

\* The invariant of the whole server: that of the bets, and that every INSERT
\* in flight carries an id without a row, which no other INSERT carries.
THEOREM CasinoInvariance == CasinoSpec => []CasinoIInv
<1>1. CasinoInit => CasinoIInv
  BY CasinoInitInv
<1>2. CasinoIInv /\ [CasinoNext]_casinoVars => CasinoIInv'
  BY CasinoNextInv
<1> QED BY <1>1, <1>2, PTL DEF CasinoSpec

\* Everything in the server keeps its shape while rows come into being.
THEOREM CasinoTypeCorrect == CasinoSpec => []CasinoTypeOK
<1>1. CasinoIInv => CasinoTypeOK
  BY DEF CasinoIInv, IInv, LobbyInv, NamesOK, PlayerInsertOK, GameInsertOK, LookupOK,
         CasinoTypeOK, Lobby!LobbyTypeOK
<1> QED BY <1>1, CasinoInvariance, PTL

\* A client can use every id it was told, whatever fails or crashes later.
THEOREM IdsUsable == CasinoSpec => []AnsweredIdsHaveRows
<1>1. CasinoIInv => AnsweredIdsHaveRows
  BY DEF CasinoIInv, LobbyInv, ReplyOK, HasRow, AnsweredIdsHaveRows
<1> QED BY <1>1, CasinoInvariance, PTL

\* However requests, failures and crashes interleave, one client owns a name.
THEOREM NamesUnique == CasinoSpec => []NameHasOneOwner
<1>1. CasinoIInv => NameHasOneOwner
  <2> SUFFICES ASSUME CasinoIInv, NEW v \in Welcomed("createPlayer"),
                      NEW w \in Welcomed("createPlayer"), visit[v].name = visit[w].name
               PROVE  v = w
    BY DEF NameHasOneOwner
  <2>1. /\ v \in Visits /\ reply[v] # None /\ reply[v].status = 200
        /\ visit[v].kind = "createPlayer"
        /\ w \in Visits /\ reply[w] # None /\ reply[w].status = 200
        /\ visit[w].kind = "createPlayer"
    BY DEF Welcomed
  <2>2. /\ reply[v].player \in Players /\ reply[w].player \in Players
        /\ playerName[reply[v].player] = visit[v].name
        /\ playerName[reply[w].player] = visit[w].name
    BY <2>1 DEF CasinoIInv, LobbyInv, ReplyOK
  <2>3. visit[v].name # Absent
    <3>1. visit[v] \in Lobby!VisitInputs
      BY <2>1 DEF CasinoIInv, LobbyInv, ReplyOK
    <3>2. visit[v].name \in Names
      BY <2>1, <3>1 DEF Lobby!VisitInputs, Lobby!CreatePlayerInputs,
         Lobby!CreateGameInputs, Lobby!LookupInputs
    <3> QED BY <3>2, CasinoAssumption
  <2>4. reply[v].player = reply[w].player
    BY <2>2, <2>3 DEF CasinoIInv, LobbyInv, NamesOK
  <2> QED BY <2>1, <2>4 DEF CasinoIInv, LobbyInv, OneReplyPerPlayer
<1> QED BY <1>1, CasinoInvariance, PTL

\* The promises of the bets about the stored games hold beside the lobby too:
\* no INSERT puts a game back to its start, and each stores a complete deck.
THEOREM GamesSafe ==
  CasinoSpec =>
    []TopWithinDeck /\ []WarOnlyAfterTie /\ []WholeDecks /\ []UndealtBounded
<1>1. CasinoIInv => TopWithinDeck
  BY DEF CasinoIInv, IInv, ExtensionOK, SettlementOK, RowOK, TopWithinDeck,
         StoredRows, UnstoredRows
<1>2. CasinoIInv => WarOnlyAfterTie
  BY DEF CasinoIInv, IInv, RowOK, WarOnlyAfterTie, StoredRows
<1>3. CasinoIInv => WholeDecks /\ UndealtBounded
  BY DEF CasinoIInv, IInv, RowOK, WholeDecks, UndealtBounded, StoredRows
<1> QED BY <1>1, <1>2, <1>3, CasinoInvariance, PTL

\* A created game is never created again: its dealt cards stay dealt.
THEOREM CasinoDealtStable == CasinoSpec => DealtCardsStable
<1> DEFINE Stable ==
      \A g \in Games : game[g] # Absent =>
        /\ game'[g] # Absent
        /\ game'[g].top >= game[g].top
        /\ \A i \in 1 .. game[g].top : game'[g].deck[i] = game[g].deck[i]
<1>1. CasinoIInv /\ [CasinoNext]_casinoVars => [Stable]_vars
  <2>1. CasinoIInv /\ [CasinoNext]_casinoVars => GameKept
    BY CasinoNextInv
  <2>2. GameKept => Stable
    BY DEF GameKept, RowGrows, SameCards
  <2> QED BY <2>1, <2>2
<1>2. CasinoSpec => [][Stable]_vars
  <2> HIDE DEF Stable
  <2> QED BY <1>1, CasinoInvariance, PTL DEF CasinoSpec
<1> QED BY <1>2 DEF DealtCardsStable

-----------------------------------------------------------------------------
(***************************************************************************)
(* Every visit has a statement in flight until it is answered.             *)
(***************************************************************************)
Pursued(v) == \E x \in playerInserts \cup gameInserts \cup lookups : x.visit = v

\* A visit that arrives is refused, or gets its statement.
LEMMA ArrivalPursued ==
  ASSUME CasinoIInv, NoVisitForgotten, NEW v \in Visits,
         Lobby!CreatePlayer(v) \/ Lobby!CreateGame(v) \/ Lobby!GetPlayerById(v)
  PROVE  NoVisitForgotten'
<1>1. /\ \A w \in Visits : w # v => visit'[w] = visit[w] /\ reply'[w] = reply[w]
      /\ gone' = gone
      /\ playerInserts \subseteq playerInserts' /\ gameInserts \subseteq gameInserts'
      /\ lookups \subseteq lookups'
  BY DEF CasinoIInv, LobbyInv, Lobby!CreatePlayer, Lobby!CreateGame,
     Lobby!GetPlayerById, Lobby!Visit, Lobby!Refuse
<1>2. Lobby!Refuse(v) => reply'[v] # None
  BY ReplyTypes, VisitAssumption DEF Lobby!Refuse, CasinoIInv, LobbyInv
<1>3. reply'[v] # None \/ Pursued(v)'
  <2>1. CASE Lobby!CreatePlayer(v)
    <3>1. ASSUME NEW p, NEW name,
                 playerInserts' = playerInserts \cup
                   {[visit |-> v, id |-> p, name |-> name]}
          PROVE  Pursued(v)'
      <4>1. [visit |-> v, id |-> p, name |-> name] \in playerInserts'
        BY <3>1
      <4>2. [visit |-> v, id |-> p, name |-> name].visit = v
        OBVIOUS
      <4> QED BY <4>1, <4>2 DEF Pursued
    <3> QED BY <1>2, <2>1, <3>1 DEF Lobby!CreatePlayer, Lobby!CreatePlayerInputs
  <2>2. CASE Lobby!CreateGame(v)
    <3>1. ASSUME NEW g, NEW deck,
                 gameInserts' = gameInserts \cup
                   {[visit |-> v, id |-> g, deck |-> deck]}
          PROVE  Pursued(v)'
      <4>1. [visit |-> v, id |-> g, deck |-> deck] \in gameInserts'
        BY <3>1
      <4>2. [visit |-> v, id |-> g, deck |-> deck].visit = v
        OBVIOUS
      <4> QED BY <4>1, <4>2 DEF Pursued
    <3> QED BY <1>2, <2>2, <3>1 DEF Lobby!CreateGame
  <2>3. CASE Lobby!GetPlayerById(v)
    <3>1. PICK in \in Lobby!LookupInputs :
            lookups' = lookups \cup {[visit |-> v, player |-> in.player]}
      BY <2>3 DEF Lobby!GetPlayerById
    <3>2. [visit |-> v, player |-> in.player].visit = v
      OBVIOUS
    <3>3. [visit |-> v, player |-> in.player] \in lookups'
      BY <3>1
    <3> QED BY <3>2, <3>3 DEF Pursued
  <2> QED BY <2>1, <2>2, <2>3
<1> QED BY <1>1, <1>3 DEF NoVisitForgotten, Pursued, Lobby!Waiting

\* A statement that ends answers its visit.
LEMMA ServedPursued ==
  ASSUME CasinoIInv, NoVisitForgotten, NEW x, NEW response \in Lobby!Replies,
         x.visit \in Visits, Lobby!Reply(x.visit, response), UNCHANGED <<visit, gone>>,
         playerInserts \cup gameInserts \cup lookups \subseteq
           (playerInserts' \cup gameInserts' \cup lookups') \cup {x}
  PROVE  NoVisitForgotten'
<1> SUFFICES ASSUME NEW v \in Visits, Lobby!Waiting(v)' PROVE Pursued(v)'
  BY DEF NoVisitForgotten, Pursued
<1>1. reply \in [Visits -> Lobby!Replies \cup {None}] /\ response # None
  BY VisitAssumption DEF CasinoIInv, LobbyInv
<1>2. v # x.visit /\ Lobby!Waiting(v)
  BY <1>1 DEF Lobby!Reply, Lobby!Waiting
<1>3. PICK y \in playerInserts \cup gameInserts \cup lookups : y.visit = v
  BY <1>2 DEF NoVisitForgotten
<1>4. y \in playerInserts' \cup gameInserts' \cup lookups'
  BY <1>2, <1>3
<1> QED BY <1>3, <1>4 DEF Pursued

LEMMA LobbyPursued ==
  ASSUME CasinoIInv, NoVisitForgotten, Lobby!Serve
  PROVE  NoVisitForgotten'
<1>1. CASE Lobby!Welcome
  BY <1>1, ArrivalPursued DEF Lobby!Welcome
<1>2. ASSUME NEW i \in playerInserts, Lobby!InsertPlayer(i) \/ Lobby!FailPlayerInsert(i)
      PROVE  NoVisitForgotten'
  <2>1. i.visit \in Visits /\ i.id \in Players
    BY DEF CasinoIInv, LobbyInv, PlayerInsertOK, Lobby!PlayerInsertRecords
  <2>2. \E response \in Lobby!Replies : Lobby!Reply(i.visit, response)
    BY <1>2, <2>1, ReplyTypes DEF Lobby!InsertPlayer, Lobby!FailPlayerInsert
  <2> QED
    BY <1>2, <2>1, <2>2, ServedPursued DEF Lobby!InsertPlayer, Lobby!FailPlayerInsert
<1>3. ASSUME NEW i \in gameInserts, Lobby!InsertGame(i) \/ Lobby!FailGameInsert(i)
      PROVE  NoVisitForgotten'
  <2>1. i.visit \in Visits /\ i.id \in Games
    BY DEF CasinoIInv, LobbyInv, GameInsertOK, Lobby!GameInsertRecords
  <2>2. \E response \in Lobby!Replies : Lobby!Reply(i.visit, response)
    BY <1>3, <2>1, ReplyTypes DEF Lobby!InsertGame, Lobby!FailGameInsert
  <2> QED
    BY <1>3, <2>1, <2>2, ServedPursued DEF Lobby!InsertGame, Lobby!FailGameInsert
<1>4. ASSUME NEW l \in lookups, Lobby!SelectPlayer(l) \/ Lobby!FailLookup(l)
      PROVE  NoVisitForgotten'
  <2>1. l.visit \in Visits /\ l.player \in Players
    BY DEF CasinoIInv, LobbyInv, LookupOK, Lobby!LookupRecords
  <2>2. \E response \in Lobby!Replies : Lobby!Reply(l.visit, response)
    BY <1>4, <2>1, ReplyTypes DEF Lobby!SelectPlayer, Lobby!FailLookup
  <2> QED BY <1>4, <2>1, <2>2, ServedPursued DEF Lobby!SelectPlayer, Lobby!FailLookup
<1> QED
  BY <1>1, <1>2, <1>3, <1>4 DEF Lobby!Serve, Lobby!Statements, Lobby!StatementFaults

\* No visit is forgotten, for any number of visits and names and however they,
\* bets, failures and crashes interleave.  What is left to liveness is that the
\* statement in flight gets its turn.
THEOREM VisitsPursued == CasinoSpec => []NoVisitForgotten
<1>1. CasinoInit => NoVisitForgotten
  BY DEF CasinoInit, Lobby!LobbyInit, NoVisitForgotten, Lobby!Waiting
<1>2. ASSUME CasinoIInv, NoVisitForgotten, [CasinoNext]_casinoVars
      PROVE  NoVisitForgotten'
  <2>1. CASE Lobby!Serve
    BY <1>2, <2>1, LobbyPursued
  <2>2. CASE UNCHANGED lobbyVars
    BY <1>2, <2>2 DEF lobbyVars, NoVisitForgotten, Lobby!Waiting
  <2>3. CASE Lobby!Crash
    BY <2>3 DEF Lobby!Crash, NoVisitForgotten, Lobby!Waiting
  <2> QED BY <1>2, <2>1, <2>2, <2>3 DEF CasinoNext, casinoVars
<1> QED BY <1>1, <1>2, CasinoInvariance, PTL DEF CasinoSpec
=============================================================================
