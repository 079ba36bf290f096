------------------------------ MODULE Lobbies -------------------------------
(***************************************************************************)
(* The lobby table of the server (lib/server/server.c, lib/server/lobby.c) *)
(* and the command handlers that work on it (src/server/handlers/          *)
(* challenge.h and game.h).  The server handles one command at a time, so  *)
(* a handler is one action; commands of different clients come in any      *)
(* order.  client_id is the client the command is attributed to, and       *)
(* req_client_id the id it carries, which need not be anyone's.            *)
(***************************************************************************)
EXTENDS AwaleRules, FiniteSets

CONSTANTS
  Clients,      (* the ids a command may carry                             *)
  NULL,         (* the null pointer                                        *)
  MAX_CLIENTS,  (* the capacity of the client table; 100 in pool.h         *)
  Commands      (* the commands the clients send; a bound on the inputs    *)

ASSUME LobbiesAssumption ==
  /\ NULL \notin Clients
  /\ MAX_CLIENTS \in Nat
  /\ MAX_CLIENTS >= 2

MAX_LOBBIES == MAX_CLIENTS \div 2

VARIABLES
  pool,         (* the clients that have registered                        *)
  lobbies_c,    (* lobbies in use; lobbies[i] is state[i], client[i], ...  *)
  state,
  client,
  awale,
  observators,  (* slots of clients that watch                             *)
  up,           (* FALSE once a handler dereferenced a null pointer        *)
  request,      (* the last command handled                                *)
  sent          (* the messages its handler sent                           *)

lobby == << lobbies_c, state, client, awale, observators >>
vars == << pool, lobby, up, request, sent >>

LobbyIdx == 0 .. MAX_LOBBIES - 1
Used == 0 .. lobbies_c - 1
ObserverIdx == 0 .. MAX_CLIENTS - 1

LobbyState == {"UNUSED", "WAITING", "RUNNING", "FINISHED"}

Requests ==
  {"NONE", "CHALLENGE", "CHALLENGE_HANDLE", "GAME_PLAY", "GAME_LEAVE",
   "GAME_STATE", "GAME_OBSERVE", "GAME_UNOBSERVE"}

Messages ==
  {"ERROR_EVENT", "CHALLENGE", "CHALLENGE_EVENT", "CHALLENGE_HANDLE_EVENT",
   "GAME_PLAY", "GAME_STATE", "GAME_STATE_EVENT", "GAME_LEAVE",
   "GAME_LEAVE_EVENT", "GAME_OBSERVE", "GAME_OBSERVE_EVENT"}

Message == [to : Clients, cmd : Messages]

(* The games are left to RunningGamesAreSound.                             *)
TypeOK ==
  /\ pool \subseteq Clients
  /\ lobbies_c \in 0 .. MAX_LOBBIES
  /\ state \in [LobbyIdx -> LobbyState]
  /\ client \in [LobbyIdx -> [PlayerID -> Clients \cup {NULL}]]
  /\ awale = [i \in LobbyIdx |-> awale[i]]
  /\ observators \in [LobbyIdx -> [ObserverIdx -> Clients \cup {NULL}]]
  /\ up \in BOOLEAN
  /\ request \in [from : Clients \cup {NULL}, cmd : Requests]
  /\ sent \subseteq Message

-----------------------------------------------------------------------------
(* Looking lobbies up.  The loops of the source return the first match.    *)
First(S) == CHOOSE i \in S : \A j \in S : i <= j

Players(i) == { client[i][q] : q \in PlayerID }

Observers(i) == { observators[i][k] : k \in ObserverIdx } \ {NULL}

is_lobby_player(i, p) == p \in Players(i)

Running == { i \in Used : state[i] = "RUNNING" }

(* Plausible slips: a state forgotten in the test, or the membership test. *)
RunningOfWithFinished(c) ==
  { i \in Used : state[i] \in {"RUNNING", "FINISHED"} /\ is_lobby_player(i, c) }

RunningOfAnyone(c) == Running

RunningOf(c) == { i \in Running : is_lobby_player(i, c) }

find_running_lobby(c) == First(RunningOf(c))

(* Plausible slip: offers in the other direction not looked for.           *)
WaitingOfOneWay(challenger, challenged) ==
  { i \in Used :
      /\ state[i] = "WAITING"
      /\ client[i][PLAYER1] = challenger /\ client[i][PLAYER2] = challenged }

WaitingOf(challenger, challenged) ==
  { i \in Used :
      /\ state[i] = "WAITING"
      /\ << client[i][PLAYER1], client[i][PLAYER2] >>
           \in { << challenger, challenged >>, << challenged, challenger >> } }

find_waiting_lobby(challenger, challenged) == First(WaitingOf(challenger, challenged))

Pair(challenger, challenged) ==
  [q \in PlayerID |-> IF q = PLAYER1 THEN challenger ELSE challenged]

NewAwale ==
  [ current |-> PLAYER1,
    score   |-> [q \in PlayerID |-> 0],
    grid    |-> [i \in Rows |-> [q \in PlayerID |-> 0]] ]

NoObservers == [k \in ObserverIdx |-> NULL]

-----------------------------------------------------------------------------
(* The memory of unused lobbies is never read; it is given values only to  *)
(* have a type.                                                            *)
Init ==
  /\ pool = {}
  /\ lobbies_c = 0
  /\ state = [i \in LobbyIdx |-> "UNUSED"]
  /\ client = [i \in LobbyIdx |-> [q \in PlayerID |-> NULL]]
  /\ awale = [i \in LobbyIdx |-> NewAwale]
  /\ observators = [i \in LobbyIdx |-> NoObservers]
  /\ up = TRUE
  /\ request = [from |-> NULL, cmd |-> "NONE"]
  /\ sent = {}

To(cs, cmd) == { [to |-> c, cmd |-> cmd] : c \in cs }

(* client_id, a registered client, has sent cmd.                           *)
Asks(client_id, cmd) ==
  /\ up
  /\ client_id \in pool
  /\ cmd \in Commands

(* The command is handled: the messages ms are addressed.                  *)
Handled(client_id, cmd, ms) ==
  /\ Asks(client_id, cmd)
  /\ request' = [from |-> client_id, cmd |-> cmd]
  /\ sent' = ms
  /\ UNCHANGED << pool, up >>

Failed(client_id, cmd, told) ==
  /\ Handled(client_id, cmd, To({told}, "ERROR_EVENT"))
  /\ UNCHANGED lobby

(* The handler follows a null pointer and the process ends.                *)
Crashes(client_id, cmd) ==
  /\ Asks(client_id, cmd)
  /\ up' = FALSE
  /\ request' = [from |-> client_id, cmd |-> cmd]
  /\ sent' = {}
  /\ UNCHANGED << pool, lobby >>

(* add_client: any client may register while the table has room.           *)
Register(c) ==
  /\ up
  /\ c \notin pool
  /\ Cardinality(pool) < MAX_CLIENTS
  /\ pool' = pool \cup {c}
  /\ request' = [from |-> NULL, cmd |-> "NONE"]
  /\ sent' = {}
  /\ UNCHANGED << lobby, up >>

(* Plausible slip: a table that may overflow.                              *)
MayChallengeWithoutRoom(challenger, challenged) ==
  /\ challenger # challenged
  /\ RunningOf(challenger) = {} /\ RunningOf(challenged) = {}
  /\ WaitingOf(challenger, challenged) = {}

(* The tests challenge() makes before it takes a new lobby.                *)
MayChallenge(challenger, challenged) ==
  /\ challenger # challenged
  /\ RunningOf(challenger) = {} /\ RunningOf(challenged) = {}
  /\ WaitingOf(challenger, challenged) = {}
  /\ lobbies_c # MAX_LOBBIES

on_challenge(client_id, req_client_id) ==
  \/ /\ req_client_id \in pool
     /\ MayChallenge(client_id, req_client_id)
     /\ lobbies_c' = lobbies_c + 1
     /\ state' = [state EXCEPT ![lobbies_c] = "WAITING"]
     /\ client' = [client EXCEPT ![lobbies_c] = Pair(client_id, req_client_id)]
     /\ awale' = [awale EXCEPT ![lobbies_c] = NewAwale]
     /\ observators' = [observators EXCEPT ![lobbies_c] = NoObservers]
     /\ Handled(client_id, "CHALLENGE",
                To({client_id}, "CHALLENGE") \cup To({req_client_id}, "CHALLENGE_EVENT"))
  \/ /\ ~(req_client_id \in pool /\ MayChallenge(client_id, req_client_id))
     /\ Failed(client_id, "CHALLENGE", client_id)

(* Plausible slip: the challenger may answer too.                          *)
MayAnswerByEither(challenger, challenged) == WaitingOf(challenger, challenged) # {}

(* The tests handle_challenge() makes of an answer.                        *)
MayAnswer(challenger, challenged) ==
  /\ WaitingOf(challenger, challenged) # {}
  /\ client[find_waiting_lobby(challenger, challenged)][PLAYER2] = challenged

(* Plausible slip: a game that starts without reset().                     *)
AnsweredWithoutReset(i, accept) ==
  /\ state' = [state EXCEPT ![i] = IF accept THEN "RUNNING" ELSE "FINISHED"]
  /\ UNCHANGED awale

(* start_lobby() or end_lobby(), as the challenged client decides.         *)
Answered(i, accept) ==
  \/ /\ accept
     /\ state' = [state EXCEPT ![i] = "RUNNING"]
     /\ \E game \in ResetAwale : awale' = [awale EXCEPT ![i] = game]
  \/ /\ ~accept
     /\ state' = [state EXCEPT ![i] = "FINISHED"]
     /\ UNCHANGED awale

(* The answer to the offer of req_client_id.  When there is none to        *)
(* answer, the error goes to req_client_id.                                *)
on_challenge_handle(client_id, req_client_id, accept) ==
  \/ /\ req_client_id \in pool
     /\ MayAnswer(req_client_id, client_id)
     /\ Answered(find_waiting_lobby(req_client_id, client_id), accept)
     /\ Handled(client_id, "CHALLENGE_HANDLE",
                To({client_id}, "CHALLENGE")
                  \cup To({req_client_id}, "CHALLENGE_HANDLE_EVENT"))
     /\ UNCHANGED << lobbies_c, client, observators >>
  \/ /\ req_client_id \in pool
     /\ ~MayAnswer(req_client_id, client_id)
     /\ Failed(client_id, "CHALLENGE_HANDLE", req_client_id)
  \/ /\ req_client_id \notin pool
     /\ Crashes(client_id, "CHALLENGE_HANDLE")

PlayerOf(i, c) == IF client[i][PLAYER1] = c THEN PLAYER1 ELSE PLAYER2

(* Plausible slip: the status read before the move is made.                *)
PlayedJudgedBefore(i, player, target) ==
  /\ awale' = [awale EXCEPT ![i] = AfterPlay(@, player, target)]
  /\ state' = [state EXCEPT ![i] = IF GameOver(awale[i]) THEN "FINISHED" ELSE @]

Played(i, player, target) ==
  LET after == AfterPlay(awale[i], player, target)
  IN  /\ awale' = [awale EXCEPT ![i] = after]
      /\ state' = [state EXCEPT ![i] = IF GameOver(after) THEN "FINISHED" ELSE @]

(* awale_play(): whatever play() answers, everyone is sent the game; the   *)
(* handler adds an error when the move was refused.                        *)
on_game_play(client_id, target) ==
  \/ /\ RunningOf(client_id) # {}
     /\ LET i == find_running_lobby(client_id)
            player == PlayerOf(i, client_id)
        IN  /\ Played(i, player, target)
            /\ Handled(client_id, "GAME_PLAY",
                 To({client_id}, "GAME_PLAY")
                   \cup To(Players(i) \cup Observers(i), "GAME_STATE_EVENT")
                   \cup IF PlayValidity(awale[i], player, target) = "VALID"
                        THEN {} ELSE To({client_id}, "ERROR_EVENT"))
            /\ UNCHANGED << lobbies_c, client, observators >>
  \/ /\ RunningOf(client_id) = {}
     /\ Failed(client_id, "GAME_PLAY", client_id)

(* Plausible slip: the observers not told.                                 *)
on_game_leave_unseen(client_id) ==
  \/ /\ RunningOf(client_id) # {}
     /\ LET i == find_running_lobby(client_id)
        IN  /\ state' = [state EXCEPT ![i] = "FINISHED"]
            /\ Handled(client_id, "GAME_LEAVE", To(Players(i), "GAME_LEAVE_EVENT"))
            /\ UNCHANGED << lobbies_c, client, awale, observators >>
  \/ /\ RunningOf(client_id) = {}
     /\ Failed(client_id, "GAME_LEAVE", client_id)

on_game_leave(client_id) ==
  \/ /\ RunningOf(client_id) # {}
     /\ LET i == find_running_lobby(client_id)
        IN  /\ state' = [state EXCEPT ![i] = "FINISHED"]
            /\ Handled(client_id, "GAME_LEAVE",
                 To({client_id}, "GAME_LEAVE")
                   \cup To((Players(i) \ {client_id}) \cup Observers(i), "GAME_LEAVE_EVENT"))
            /\ UNCHANGED << lobbies_c, client, awale, observators >>
  \/ /\ RunningOf(client_id) = {}
     /\ Failed(client_id, "GAME_LEAVE", client_id)

on_game_state(client_id) ==
  \/ /\ RunningOf(client_id) # {}
     /\ Handled(client_id, "GAME_STATE", To({client_id}, "GAME_STATE"))
     /\ UNCHANGED lobby
  \/ /\ RunningOf(client_id) = {}
     /\ Failed(client_id, "GAME_STATE", client_id)

-----------------------------------------------------------------------------
(* observe_lobby(): its loop looks at MAX_LOBBIES of the MAX_CLIENTS slots,*)
(* and leaves null_idx at the last empty one, at 0 when there is none.     *)
Scanned == 0 .. MAX_LOBBIES - 1

SlotsOf(i, c) == { k \in Scanned : observators[i][k] = c }

NullIdx(i) ==
  IF SlotsOf(i, NULL) = {} THEN 0
  ELSE CHOOSE k \in SlotsOf(i, NULL) : \A l \in SlotsOf(i, NULL) : l <= k

(* Plausible slip: a slot taken without looking for the client first.      *)
TakeSlotUnsearched(i, c, cmd) ==
  /\ observators' = [observators EXCEPT ![i][NullIdx(i)] = c]
  /\ Handled(c, cmd, To({c}, "GAME_OBSERVE") \cup To(Players(i), "GAME_OBSERVE_EVENT"))
  /\ UNCHANGED << lobbies_c, state, client, awale >>

(* An observer that is not found is put in a slot, for both values of      *)
(* observe.                                                                *)
TakeSlot(i, c, cmd) ==
  /\ SlotsOf(i, c) = {}
  /\ observators' = [observators EXCEPT ![i][NullIdx(i)] = c]
  /\ Handled(c, cmd, To({c}, "GAME_OBSERVE") \cup To(Players(i), "GAME_OBSERVE_EVENT"))
  /\ UNCHANGED << lobbies_c, state, client, awale >>

FreeSlot(i, c, cmd) ==
  /\ SlotsOf(i, c) # {}
  /\ observators' = [observators EXCEPT ![i][First(SlotsOf(i, c))] = NULL]
  /\ Handled(c, cmd, {})
  /\ UNCHANGED << lobbies_c, state, client, awale >>

(* find_running_lobby() follows the pointer it is given as soon as it      *)
(* meets a running lobby, so an id that is not in the pool is an error     *)
(* only while no game runs.                                                *)
on_game_observe(client_id, req_client_id, observe) ==
  LET cmd == IF observe THEN "GAME_OBSERVE" ELSE "GAME_UNOBSERVE"
      i == find_running_lobby(req_client_id)
  IN
  \/ /\ req_client_id \in pool /\ RunningOf(req_client_id) # {}
     /\ \/ TakeSlot(i, client_id, cmd)
        \/ /\ ~observe
           /\ FreeSlot(i, client_id, cmd)
        \/ /\ observe /\ SlotsOf(i, client_id) # {}
           /\ Failed(client_id, cmd, client_id)
  \/ /\ IF req_client_id \in pool THEN RunningOf(req_client_id) = {} ELSE Running = {}
     /\ Failed(client_id, cmd, client_id)
  \/ /\ req_client_id \notin pool /\ Running # {}
     /\ Crashes(client_id, cmd)

-----------------------------------------------------------------------------
(* Any number may come in; those outside the board are alike.              *)
Targets == -1 .. GRID_ROWS

Command(c) ==
  \/ \E d \in Clients : on_challenge(c, d)
  \/ \E d \in Clients, accept \in BOOLEAN : on_challenge_handle(c, d, accept)
  \/ \E target \in Targets : on_game_play(c, target)
  \/ on_game_leave(c)
  \/ on_game_state(c)
  \/ \E d \in Clients, observe \in BOOLEAN : on_game_observe(c, d, observe)

Next == \E c \in Clients : Register(c) \/ Command(c)

Spec == Init /\ [][Next]_vars

-----------------------------------------------------------------------------
(* The server holds at most one open offer between two clients, in either  *)
(* direction (the search of server.c:47 and 52), so an answer always finds *)
(* the offer it is meant for.                                              *)
OneWaitingPerPair ==
  \A i, j \in Used :
    /\ state[i] = "WAITING" /\ state[j] = "WAITING"
    /\ Players(i) = Players(j)
    => i = j

(* No game is left running that status() calls over: a lobby is closed in  *)
(* the same command as the move that decides its game (server.c:139).      *)
RunningGamesGoOn ==
  \A i \in LobbyIdx : state[i] = "RUNNING" => ~GameOver(awale[i])

(* Every running game is one that reset() and play() can lead to as far as *)
(* the players can tell: its turn is held by a player with a seed to sow.  *)
RunningGamesAreSound ==
  \A i \in LobbyIdx :
    state[i] = "RUNNING"
      => awale[i] \in Awale /\ PlayerHasSeeds(awale[i].current, awale[i].grid)

(* Nobody watches twice: a client is in at most one slot of a lobby,       *)
(* however often and in whatever order watching is asked for and given up  *)
(* (lobby.c:48), even when an overfull table overwrites a slot.            *)
NobodyWatchesTwice ==
  \A i \in LobbyIdx : \A k, l \in ObserverIdx :
    observators[i][k] = observators[i][l] /\ observators[i][k] # NULL => k = l

(* A lobby nobody has accepted yet has no observers: they are found        *)
(* through their running games only.                                       *)
NobodyWatchesAnOffer ==
  \A i \in LobbyIdx : state[i] \in {"UNUSED", "WAITING"} => Observers(i) = {}

(* Only the challenged client answers an offer (server.c:232).             *)
OnlyTheChallengedAnswers ==
  [][ \A i \in LobbyIdx :
        state[i] = "WAITING" /\ state'[i] # "WAITING"
          => request'.from = client[i][PLAYER2] ]_vars

(* A command changes the state or the game of one lobby at most, and it is *)
(* one that its sender plays in, whatever other lobbies they have.         *)
StrangersCannotTouch ==
  [][ \A i \in LobbyIdx :
        << state[i], awale[i] >>' # << state[i], awale[i] >>
          => /\ request'.from \in Players(i)'
             /\ \A j \in LobbyIdx \ {i} :
                  << state[j], awale[j] >>' = << state[j], awale[j] >> ]_vars

(* Whoever plays in or watches a lobby is told of every change of its      *)
(* state or its game in the command that makes it.                         *)
EveryoneInvolvedIsTold ==
  [][ \A i \in LobbyIdx :
        << state[i], awale[i] >>' # << state[i], awale[i] >>
          => Players(i)' \cup Observers(i) \subseteq { m.to : m \in sent' } ]_vars

(* Each entry of the table keeps the promises of LobbyLife, interleaved    *)
(* with everything that happens to the others.                             *)
Life(i) == INSTANCE LobbyLife WITH
  state <- state[i], client <- client[i], awale <- awale[i]

EachLobbyLives ==
  /\ \A i \in LobbyIdx : Life(i)!Init
  /\ [][ \A i \in LobbyIdx : [Life(i)!Next]_(Life(i)!vars) ]_vars

(* The inductive invariant.  Entries are unused from lobbies_c on, with    *)
(* the game new_awale() will give them; those in use have two clients; the *)
(* slots observe_lobby() does not scan stay empty.                         *)
TableIsFilledInOrder ==
  \A i \in LobbyIdx :
    /\ state[i] = "UNUSED" <=> i >= lobbies_c
    /\ state[i] = "UNUSED" => awale[i] = NewAwale
    /\ state[i] # "UNUSED" => client[i] \in [PlayerID -> Clients]

UnscannedSlotsAreEmpty ==
  \A i \in LobbyIdx : \A k \in ObserverIdx \ Scanned : observators[i][k] = NULL

TableInv ==
  /\ TypeOK
  /\ TableIsFilledInOrder
  /\ UnscannedSlotsAreEmpty
  /\ OneWaitingPerPair
  /\ RunningGamesGoOn
  /\ NobodyWatchesTwice
  /\ NobodyWatchesAnOffer
=============================================================================
