------------------------------- MODULE Lobby -------------------------------
(***************************************************************************)
(* Players and games come into being: createPlayer, createGame and         *)
(* getPlayerById of GameServiceImpl.kt over the INSERTs and the SELECT of  *)
(* RepositoryPgImpl.kt.  A visit is one such request.                      *)
(*                                                                         *)
(* The server draws ids with UUID.randomUUID, so an id is new: no row, no  *)
(* INSERT in flight and no visit has it.                                   *)
(***************************************************************************)
EXTENDS Repository

CONSTANTS
  Visits,         \* the requests of a behaviour
  Names,          \* values of the field name; Omitted when the body lacks it
  DefaultTokens,  \* defaultTokenCount of server-config.yaml
  MaxFaults,      \* bound: crashes and failed statements in a behaviour
  Omitted,        \* a field missing from the request body
  None            \* no visit, no reply

VARIABLES
  playerName,     \* the column player_name: id -> name, or Absent
  visit,          \* what a visit asks for; None before it is sent
  playerInserts,  \* INSERTs of createPlayer in flight
  gameInserts,    \* INSERTs of createGame in flight
  lookups,        \* SELECTs of getPlayerById in flight
  reply,          \* the response a visit got; None before
  gone,           \* visits whose server process crashed
  faults          \* crashes and failed statements so far

CreatePlayerInputs == [kind : {"createPlayer"}, name : Names]
CreateGameInputs == [kind : {"createGame"}, player : Players \cup {Omitted}]
LookupInputs == [kind : {"getPlayerById"}, player : Players]
VisitInputs == CreatePlayerInputs \cup CreateGameInputs \cup LookupInputs

PlayerInsertRecords == [visit : Visits, id : Players, name : Names \ {Omitted}]
GameInsertRecords == [visit : Visits, id : Games, deck : Shuffles]
LookupRecords == [visit : Visits, player : Players]

\* A reply carries the id of the player or of the game session.
Replies ==
  [status : {200, 404, 500}, player : Players \cup {None}, game : Games \cup {None}]

PlayerReply(p) == [status |-> 200, player |-> p, game |-> None]
GameReply(g) == [status |-> 200, player |-> None, game |-> g]
Refusal(code) == [status |-> code, player |-> None, game |-> None]

Waiting(v) == visit[v] # None /\ reply[v] = None /\ v \notin gone

\* handleServiceException maps every failure but a GameServiceException to 500.
Reply(v, response) ==
  reply' = IF Waiting(v) THEN [reply EXCEPT ![v] = response] ELSE reply

Refuse(v) ==
  reply' = [reply EXCEPT ![v] = Refusal(500)]

LobbyInit ==
  /\ RepositoryInit
  /\ playerName = [p \in Players |-> Absent]
  /\ visit = [v \in Visits |-> None]
  /\ playerInserts = {}
  /\ gameInserts = {}
  /\ lookups = {}
  /\ reply = [v \in Visits |-> None]
  /\ gone = {}
  /\ faults = 0

(***************************************************************************)
(* Visits arrive.                                                          *)
(***************************************************************************)
NewPlayerId(p) ==
  /\ player[p] = Absent
  /\ \A i \in playerInserts : i.id # p
  /\ \A v \in Visits :
       visit[v] # None /\ visit[v].kind # "createPlayer" => visit[v].player # p

NewGameId(g) ==
  /\ game[g] = Absent
  /\ \A i \in gameInserts : i.id # g

Visit(v, in) ==
  /\ visit[v] = None
  /\ visit' = [visit EXCEPT ![v] = in]
  /\ UNCHANGED <<player, game, playerName, gone, faults>>

\* POST /player: name!! throws in the handler when the body has no name.
CreatePlayer(v) ==
  \E in \in CreatePlayerInputs :
    /\ Visit(v, in)
    /\ \/ /\ in.name = Omitted
          /\ Refuse(v)
          /\ UNCHANGED playerInserts
       \/ /\ in.name # Omitted
          /\ \E p \in Players :
               /\ NewPlayerId(p)
               /\ playerInserts' = playerInserts \cup
                    {[visit |-> v, id |-> p, name |-> in.name]}
          /\ UNCHANGED reply
    /\ UNCHANGED <<gameInserts, lookups>>

\* Mutation: the session is answered without waiting for the INSERT.
CreateGameEarly(v) ==
  \E in \in CreateGameInputs, g \in Games, deck \in Shuffles :
    /\ Visit(v, in)
    /\ NewGameId(g)
    /\ gameInserts' = gameInserts \cup {[visit |-> v, id |-> g, deck |-> deck]}
    /\ reply' = [reply EXCEPT ![v] = GameReply(g)]
    /\ UNCHANGED <<playerInserts, lookups>>

\* POST /game: playerid!! throws likewise; whether the player exists is never
\* looked at.
CreateGame(v) ==
  \E in \in CreateGameInputs :
    /\ Visit(v, in)
    /\ \/ /\ in.player = Omitted
          /\ Refuse(v)
          /\ UNCHANGED gameInserts
       \/ /\ in.player # Omitted
          /\ \E g \in Games, deck \in Shuffles :
               /\ NewGameId(g)
               /\ gameInserts' = gameInserts \cup
                    {[visit |-> v, id |-> g, deck |-> deck]}
          /\ UNCHANGED reply
    /\ UNCHANGED <<playerInserts, lookups>>

\* GET /player/{playerId}
GetPlayerById(v) ==
  \E in \in LookupInputs :
    /\ Visit(v, in)
    /\ lookups' = lookups \cup {[visit |-> v, player |-> in.player]}
    /\ UNCHANGED <<playerInserts, gameInserts, reply>>

(***************************************************************************)
(* Statements run.                                                         *)
(***************************************************************************)
\* Mutation: the table has no unique(player_name).
NeverTaken(name) == FALSE

\* unique(player_name)
NameTaken(name) == \E p \in Players : playerName[p] = name

StorePlayer(i) ==
  /\ ~ NameTaken(i.name)
  /\ player' = [player EXCEPT ![i.id] = DefaultTokens]
  /\ playerName' = [playerName EXCEPT ![i.id] = i.name]

\* Mutation: the INSERT leaves top_card_index null.
StoreGameNullIndex(i) ==
  game' = [game EXCEPT ![i.id] = [deck |-> i.deck, top |-> Absent, table |-> 0]]

\* INSERT INTO game: a new deck, no card dealt, nothing on the table.
StoreGame(i) ==
  game' = [game EXCEPT ![i.id] = [deck |-> i.deck, top |-> 0, table |-> 0]]

\* Mutation: a failed INSERT fails no promise.
InsertPlayerSilent(i) ==
  /\ \/ /\ StorePlayer(i)
        /\ Reply(i.visit, PlayerReply(i.id))
     \/ /\ NameTaken(i.name)
        /\ UNCHANGED <<player, playerName, reply>>
  /\ playerInserts' = playerInserts \ {i}
  /\ UNCHANGED <<game, visit, gameInserts, lookups, gone, faults>>

\* A name that is taken fails the INSERT like any other error.
InsertPlayer(i) ==
  /\ \/ /\ StorePlayer(i)
        /\ Reply(i.visit, PlayerReply(i.id))
     \/ /\ NameTaken(i.name)
        /\ Reply(i.visit, Refusal(500))
        /\ UNCHANGED <<player, playerName>>
  /\ playerInserts' = playerInserts \ {i}
  /\ UNCHANGED <<game, visit, gameInserts, lookups, gone, faults>>

InsertGame(i) ==
  /\ StoreGame(i)
  /\ Reply(i.visit, GameReply(i.id))
  /\ gameInserts' = gameInserts \ {i}
  /\ UNCHANGED <<player, playerName, visit, playerInserts, lookups, gone, faults>>

SelectPlayer(l) ==
  /\ Reply(l.visit, IF player[l.player] = Absent THEN Refusal(404)
                    ELSE PlayerReply(l.player))
  /\ lookups' = lookups \ {l}
  /\ UNCHANGED <<player, game, playerName, visit, playerInserts, gameInserts,
                 gone, faults>>

(***************************************************************************)
(* Faults, as in GameService: a failed INSERT is dropped or stays in       *)
(* flight.                                                                 *)
(***************************************************************************)
Fault == faults < MaxFaults /\ faults' = faults + 1

FailPlayerInsert(i) ==
  /\ Fault
  /\ playerInserts' \in {playerInserts, playerInserts \ {i}}
  /\ Reply(i.visit, Refusal(500))
  /\ UNCHANGED <<player, game, playerName, visit, gameInserts, lookups, gone>>

FailGameInsert(i) ==
  /\ Fault
  /\ gameInserts' \in {gameInserts, gameInserts \ {i}}
  /\ Reply(i.visit, Refusal(500))
  /\ UNCHANGED <<player, game, playerName, visit, playerInserts, lookups, gone>>

FailLookup(l) ==
  /\ Fault
  /\ Reply(l.visit, Refusal(500))
  /\ lookups' = lookups \ {l}
  /\ UNCHANGED <<player, game, playerName, visit, playerInserts, gameInserts, gone>>

Crash ==
  /\ Fault
  /\ gone' = {v \in Visits : visit[v] # None}
  /\ lookups' = {}
  /\ UNCHANGED <<player, game, playerName, visit, playerInserts, gameInserts, reply>>

-----------------------------------------------------------------------------
Welcome == \E v \in Visits : CreatePlayer(v) \/ CreateGame(v) \/ GetPlayerById(v)

StatementsOf(v) ==
  /\ v \notin gone
  /\ \/ \E i \in playerInserts : i.visit = v /\ InsertPlayer(i)
     \/ \E i \in gameInserts : i.visit = v /\ InsertGame(i)
     \/ \E l \in lookups : l.visit = v /\ SelectPlayer(l)

Statements ==
  \/ \E i \in playerInserts : InsertPlayer(i)
  \/ \E i \in gameInserts : InsertGame(i)
  \/ \E l \in lookups : SelectPlayer(l)

StatementFaults ==
  \/ \E i \in playerInserts : FailPlayerInsert(i)
  \/ \E i \in gameInserts : FailGameInsert(i)
  \/ \E l \in lookups : FailLookup(l)

\* Everything the lobby does besides dying with its process.
Serve == Welcome \/ Statements \/ StatementFaults

LobbyTypeOK ==
  /\ playerName \in [Players -> (Names \ {Omitted}) \cup {Absent}]
  /\ visit \in [Visits -> VisitInputs \cup {None}]
  /\ playerInserts \subseteq PlayerInsertRecords
  /\ gameInserts \subseteq GameInsertRecords
  /\ lookups \subseteq LookupRecords
  /\ reply \in [Visits -> Replies \cup {None}]
  /\ gone \subseteq Visits
=============================================================================
