------------------------------- MODULE Casino -------------------------------
(***************************************************************************)
(* The whole server: the lobby and the bets, one process over the tables   *)
(* player and game.  Each of them is untouched by a step of the other,     *)
(* except in those tables and in the crash of the process they share.      *)
(***************************************************************************)
EXTENDS GameService

CONSTANTS
  Visits,         \* requests that go to the lobby
  Names,          \* player names; Omitted when the body lacks one
  DefaultTokens,  \* tokens of a new player
  Informed        \* clients bet only with ids that the server gave them

ASSUME CasinoAssumption ==
  /\ DefaultTokens \in NatInt32
  /\ Informed \in BOOLEAN
  /\ Absent \notin Names
  /\ None \notin Players \cup Games
  /\ Omitted \notin Players

VARIABLES
  playerName, visit, playerInserts, gameInserts, lookups, reply, gone

Lobby == INSTANCE Lobby

ASSUME VisitAssumption ==
  None \notin Lobby!VisitInputs /\ None \notin Lobby!Replies

lobbyVars ==
  <<playerName, visit, playerInserts, gameInserts, lookups, reply, gone>>
betVars == <<input, reads, extensions, settlements, topUps, answer, lost>>
casinoVars == <<vars, lobbyVars>>

CasinoInit == Init /\ Lobby!LobbyInit

Welcomed(kind) ==
  {v \in Visits : reply[v] # None /\ reply[v].status = 200 /\ visit[v].kind = kind}

Registered == {reply[v].player : v \in Welcomed("createPlayer")}
Opened == {reply[v].game : v \in Welcomed("createGame")}

\* A client of the game uses a player, and a game, of answers it has seen.
Play(r) ==
  /\ RequestBet(r) \/ UpdatePlayerToken(r)
  /\ Informed =>
       /\ input'[r].player \in Registered
       /\ input'[r].kind = "bet" => input'[r].game \in Opened

CasinoNext ==
  \/ (\E r \in Requests : Play(r)) /\ UNCHANGED lobbyVars
  \/ Statements /\ UNCHANGED lobbyVars
  \/ StatementFaults /\ UNCHANGED lobbyVars
  \/ Lobby!Serve /\ UNCHANGED betVars
  \/ Crash /\ Lobby!Crash

CasinoSpec == CasinoInit /\ [][CasinoNext]_casinoVars

CasinoFairness ==
  /\ \A r \in Requests : WF_casinoVars(StatementsOf(r) /\ UNCHANGED lobbyVars)
  /\ \A v \in Visits : WF_casinoVars(Lobby!StatementsOf(v) /\ UNCHANGED betVars)

FairCasinoSpec == CasinoSpec /\ CasinoFairness

-----------------------------------------------------------------------------
\* The bets' variables, and the lobby's, have the shapes they declare.
CasinoTypeOK == TypeOK /\ Lobby!LobbyTypeOK

\* An id in an answer has a row, and keeps it: whatever fails or crashes
\* later, a session or a player that a client was told of can be used
\* (createGame and createPlayer answer from the callback of their INSERT).
AnsweredIdsHaveRows ==
  \A v \in Visits : reply[v] # None /\ reply[v].status = 200 =>
    /\ reply[v].player # None => player[reply[v].player] # Absent
    /\ reply[v].game # None => game[reply[v].game] # Absent

\* No two clients are told that a name is theirs, however their requests
\* overlap and however often they retry after a failure (unique(player_name)).
NameHasOneOwner ==
  \A v, w \in Welcomed("createPlayer") :
    visit[v].name = visit[w].name => v = w

\* No visit is forgotten: as long as it is unanswered and its process lives,
\* its statement is in flight, and every outcome of that one answers it, a name
\* that is taken and a broken connection among them (both callbacks of
\* createPlayer, createGame and getPlayerById).
NoVisitForgotten ==
  \A v \in Visits : Lobby!Waiting(v) =>
    \E x \in playerInserts \cup gameInserts \cup lookups : x.visit = v

\* swagger.yaml documents 404 "User not found" for POST /game: no game is
\* opened for a player that does not exist.
UnknownPlayerRefused ==
  \A v \in Welcomed("createGame") : player[visit[v].player] # Absent

\* Clients that use only what they were given are served: unless the process
\* dies, every visit is answered, and so is every complete bet, although a bet
\* on a game that does not exist would not be.
InformedClientsAnswered ==
  /\ \A v \in Visits : visit[v] # None ~> (reply[v] # None \/ v \in gone)
  /\ \A r \in Requests :
       ( /\ input[r] # None /\ input[r].kind = "bet"
         /\ input[r].bet # Omitted /\ input[r].tieBet # Omitted )
         ~> (answer[r] # None \/ r \in lost)
=============================================================================
