--------------------------- MODULE LobbiesProofs ----------------------------
(***************************************************************************)
(* Proofs about the lobby table for every number of clients and lobbies    *)
(* and every board: TableInv is inductive, and the games the lobbies hold  *)
(* are games of Awale.                                                     *)
(***************************************************************************)
EXTENDS Lobbies, RulesProofs

(* MAX_LOBBIES is half of MAX_CLIENTS, so every scanned slot exists.       *)
LEMMA Capacities ==
  /\ MAX_LOBBIES \in Nat /\ 1 <= MAX_LOBBIES /\ MAX_LOBBIES <= MAX_CLIENTS
  /\ MAX_CLIENTS \in Nat
  /\ Scanned \subseteq ObserverIdx /\ 0 \in Scanned /\ Scanned \subseteq Nat
BY LobbiesAssumption DEF MAX_LOBBIES, Scanned, ObserverIdx

(* A loop that returns its first match finds one when there is one.        *)
LEMMA FirstIsAMember ==
  ASSUME NEW S, S \subseteq Nat, S # {}
  PROVE  First(S) \in S
BY LeastExists DEF First

(* So does the loop that keeps its last match.                             *)
LEMMA LastExists ==
  ASSUME NEW n \in Nat, NEW S, S \subseteq 0 .. n, S # {}
  PROVE  \E k \in S : \A l \in S : l <= k
<1> DEFINE T == { n - k : k \in S }
<1>1. T \subseteq Nat /\ T # {}
  <2>1. \A k \in S : n - k \in Nat
    OBVIOUS
  <2>2. PICK k \in S : TRUE
    OBVIOUS
  <2>3. n - k \in T
    OBVIOUS
  <2> QED
    BY <2>1, <2>3
<1>2. (\A l \in S : n - l \in T) /\ (\A y \in T : \E k \in S : y = n - k)
  OBVIOUS
<1> HIDE DEF T
<1>3. PICK x \in T : \A y \in T : x <= y
  BY <1>1, LeastExists
<1>4. PICK k \in S : x = n - k
  BY <1>2
<1>5. ASSUME NEW l \in S PROVE l <= k
  <2>1. n - k <= n - l
    BY <1>2, <1>3, <1>4
  <2>2. l \in Nat /\ k \in Nat
    OBVIOUS
  <2> QED
    BY <2>1, <2>2
<1> QED
  BY <1>5

LEMMA NullIdxIsScanned ==
  ASSUME NEW i \in LobbyIdx
  PROVE  /\ NullIdx(i) \in Scanned
         /\ SlotsOf(i, NULL) # {} => NullIdx(i) \in SlotsOf(i, NULL)
<1>1. CASE SlotsOf(i, NULL) = {}
  BY <1>1, Capacities DEF NullIdx
<1>2. CASE SlotsOf(i, NULL) # {}
  <2>1. MAX_LOBBIES - 1 \in Nat
    BY Capacities
  <2>2. SlotsOf(i, NULL) \subseteq 0 .. (MAX_LOBBIES - 1)
    BY DEF SlotsOf, Scanned
  <2>3. \E k \in SlotsOf(i, NULL) : \A l \in SlotsOf(i, NULL) : l <= k
    BY <1>2, <2>1, <2>2, LastExists
  <2> QED
    BY <1>2, <2>3 DEF NullIdx, SlotsOf
<1> QED
  BY <1>1, <1>2

-----------------------------------------------------------------------------
LEMMA UsedAreEntries ==
  ASSUME TypeOK
  PROVE  Used \subseteq LobbyIdx /\ Used \subseteq Nat
BY Capacities DEF TypeOK, Used, LobbyIdx

(* The lobby a client's command works on.                                  *)
LEMMA FoundRunning ==
  ASSUME TypeOK, NEW c, RunningOf(c) # {}
  PROVE  /\ find_running_lobby(c) \in LobbyIdx
         /\ state[find_running_lobby(c)] = "RUNNING"
         /\ c \in Players(find_running_lobby(c))
<1>1. find_running_lobby(c) \in RunningOf(c)
  BY UsedAreEntries, FirstIsAMember DEF find_running_lobby, RunningOf, Running
<1> QED
  BY <1>1, UsedAreEntries DEF RunningOf, Running, is_lobby_player

LEMMA FoundWaiting ==
  ASSUME TypeOK, NEW c, NEW d, WaitingOf(c, d) # {}
  PROVE  /\ find_waiting_lobby(c, d) \in LobbyIdx \cap WaitingOf(c, d)
         /\ state[find_waiting_lobby(c, d)] = "WAITING"
<1>1. find_waiting_lobby(c, d) \in WaitingOf(c, d)
  BY UsedAreEntries, FirstIsAMember DEF find_waiting_lobby, WaitingOf
<1> QED
  BY <1>1, UsedAreEntries DEF WaitingOf

(* The players and observers of a lobby in use are clients.                *)
LEMMA InvolvedAreClients ==
  ASSUME TableInv, NEW i \in LobbyIdx, state[i] # "UNUSED"
  PROVE  Players(i) \subseteq Clients /\ Observers(i) \subseteq Clients
<1>1. client[i] \in [PlayerID -> Clients]
  BY DEF TableInv, TableIsFilledInOrder
<1>2. observators[i] \in [ObserverIdx -> Clients \cup {NULL}]
  BY DEF TableInv, TypeOK
<1> QED
  BY <1>1, <1>2 DEF Players, Observers

-----------------------------------------------------------------------------
(* What the handlers have in common.                                       *)
LEMMA AddressedAreMessages ==
  ASSUME NEW cs, cs \subseteq Clients, NEW cmd \in Messages
  PROVE  To(cs, cmd) \subseteq Message
BY DEF To, Message

(* The variables a handler sets beside the table.                          *)
AnswerTyped ==
  /\ pool' \subseteq Clients
  /\ up' \in BOOLEAN
  /\ request' \in [from : Clients \cup {NULL}, cmd : Requests]
  /\ sent' \subseteq Message

LEMMA HandledIsTyped ==
  ASSUME TypeOK, NEW c, NEW cmd \in Requests, NEW ms, ms \subseteq Message,
         Handled(c, cmd, ms)
  PROVE  AnswerTyped /\ c \in Clients
<1>1. c \in Clients
  BY DEF TypeOK, Handled, Asks
<1>2. request' = [from |-> c, cmd |-> cmd] /\ sent' = ms /\ UNCHANGED << pool, up >>
  BY DEF Handled
<1> QED
  BY <1>1, <1>2 DEF AnswerTyped, TypeOK

(* A command that leaves the table alone leaves TableInv alone.            *)
LEMMA TableUntouched ==
  ASSUME TableInv, UNCHANGED lobby, AnswerTyped
  PROVE  TableInv'
<1>1. UNCHANGED << lobbies_c, state, client, awale, observators >>
  BY DEF lobby
<1>2. TypeOK'
  BY <1>1 DEF TableInv, TypeOK, AnswerTyped
<1>3. TableIsFilledInOrder' /\ UnscannedSlotsAreEmpty'
  BY <1>1 DEF TableInv, TableIsFilledInOrder, UnscannedSlotsAreEmpty
<1>4. OneWaitingPerPair'
  BY <1>1 DEF TableInv, OneWaitingPerPair, Players, Used
<1>5. RunningGamesGoOn' /\ NobodyWatchesTwice' /\ NobodyWatchesAnOffer'
  BY <1>1 DEF TableInv, RunningGamesGoOn, NobodyWatchesTwice, NobodyWatchesAnOffer, Observers
<1> QED
  BY <1>2, <1>3, <1>4, <1>5 DEF TableInv

LEMMA FailedKeepsTableInv ==
  ASSUME TableInv, NEW c, NEW cmd \in Requests, NEW told \in Clients,
         Failed(c, cmd, told)
  PROVE  TableInv'
<1>1. To({told}, "ERROR_EVENT") \subseteq Message
  BY AddressedAreMessages DEF Messages
<1>2. AnswerTyped
  BY <1>1, HandledIsTyped DEF Failed, TableInv
<1> QED
  BY <1>2, TableUntouched DEF Failed

LEMMA CrashesKeepsTableInv ==
  ASSUME TableInv, NEW c, NEW cmd \in Requests, Crashes(c, cmd)
  PROVE  TableInv'
<1>1. c \in Clients /\ UNCHANGED << pool, lobby >> /\ up' = FALSE
      /\ request' = [from |-> c, cmd |-> cmd] /\ sent' = {}
  BY DEF TableInv, TypeOK, Crashes, Asks
<1>2. AnswerTyped
  BY <1>1 DEF AnswerTyped, TableInv, TypeOK
<1> QED
  BY <1>1, <1>2, TableUntouched

LEMMA RegisterKeepsTableInv ==
  ASSUME TableInv, NEW c \in Clients, Register(c)
  PROVE  TableInv'
<1>1. AnswerTyped
  BY DEF AnswerTyped, TableInv, TypeOK, Register, Requests
<1> QED
  BY <1>1, TableUntouched DEF Register

(* What a handler does to the table when it changes the state of lobby i,  *)
(* which is in use and stays so, and maybe its game.                       *)
LEMMA StateStepKeepsTableInv ==
  ASSUME TableInv, AnswerTyped, NEW i \in LobbyIdx,
         NEW s \in {"RUNNING", "FINISHED"}, NEW game,
         state[i] # "UNUSED",
         state' = [state EXCEPT ![i] = s],
         awale' = [awale EXCEPT ![i] = game],
         s = "RUNNING" => ~GameOver(game),
         UNCHANGED << lobbies_c, client, observators >>
  PROVE  TableInv'
<1>1. /\ state \in [LobbyIdx -> LobbyState] /\ awale = [j \in LobbyIdx |-> awale[j]]
      /\ lobbies_c \in 0 .. MAX_LOBBIES
  BY DEF TableInv, TypeOK
<1>2. \A j \in LobbyIdx :
        /\ state'[j] = IF j = i THEN s ELSE state[j]
        /\ awale'[j] = IF j = i THEN game ELSE awale[j]
  BY <1>1
<1>3. TypeOK'
  <2>1. state' \in [LobbyIdx -> LobbyState]
    BY <1>1 DEF LobbyState
  <2>2. awale' = [j \in LobbyIdx |-> awale'[j]]
    BY <1>1
  <2> QED
    BY <2>1, <2>2 DEF TableInv, TypeOK, AnswerTyped
<1>4. TableIsFilledInOrder' /\ UnscannedSlotsAreEmpty'
  BY <1>2 DEF TableInv, TableIsFilledInOrder, UnscannedSlotsAreEmpty
<1>5. OneWaitingPerPair'
  BY <1>2, UsedAreEntries DEF TableInv, OneWaitingPerPair, Players, Used
<1>6. RunningGamesGoOn'
  BY <1>2 DEF TableInv, RunningGamesGoOn
<1>7. NobodyWatchesTwice'
  BY DEF TableInv, NobodyWatchesTwice
<1>8. NobodyWatchesAnOffer'
  BY <1>2 DEF TableInv, NobodyWatchesAnOffer, Observers
<1> QED
  BY <1>3, <1>4, <1>5, <1>6, <1>7, <1>8 DEF TableInv

-----------------------------------------------------------------------------
(* One lemma per handler.                                                  *)
LEMMA ChallengeKeepsTableInv ==
  ASSUME TableInv, NEW c \in Clients, NEW d \in Clients, on_challenge(c, d)
  PROVE  TableInv'
<1>1. CASE /\ MayChallenge(c, d)
           /\ lobbies_c' = lobbies_c + 1
           /\ state' = [state EXCEPT ![lobbies_c] = "WAITING"]
           /\ client' = [client EXCEPT ![lobbies_c] = Pair(c, d)]
           /\ awale' = [awale EXCEPT ![lobbies_c] = NewAwale]
           /\ observators' = [observators EXCEPT ![lobbies_c] = NoObservers]
           /\ Handled(c, "CHALLENGE",
                      To({c}, "CHALLENGE") \cup To({d}, "CHALLENGE_EVENT"))
  <2>1. AnswerTyped
    <3>1. To({c}, "CHALLENGE") \cup To({d}, "CHALLENGE_EVENT") \subseteq Message
      BY AddressedAreMessages DEF Messages
    <3> QED
      BY <1>1, <3>1, HandledIsTyped DEF TableInv, Requests
  <2>2. lobbies_c \in LobbyIdx /\ lobbies_c' \in 0 .. MAX_LOBBIES
    BY <1>1, Capacities DEF TableInv, TypeOK, MayChallenge, LobbyIdx
  <2>3. Pair(c, d) \in [PlayerID -> Clients]
    BY DEF Pair
  <2>4. NoObservers \in [ObserverIdx -> Clients \cup {NULL}]
        /\ \A k \in ObserverIdx : NoObservers[k] = NULL
    BY DEF NoObservers
  <2>5. TypeOK'
    BY <1>1, <2>1, <2>2, <2>3, <2>4 DEF TableInv, TypeOK, LobbyState, AnswerTyped
  <2>6. \A j \in LobbyIdx :
          /\ state'[j] = IF j = lobbies_c THEN "WAITING" ELSE state[j]
          /\ client'[j] = IF j = lobbies_c THEN Pair(c, d) ELSE client[j]
          /\ awale'[j] = IF j = lobbies_c THEN NewAwale ELSE awale[j]
          /\ observators'[j] = IF j = lobbies_c THEN NoObservers ELSE observators[j]
    BY <1>1, <2>2 DEF TableInv, TypeOK
  <2>7. TableIsFilledInOrder'
    <3>1. \A j \in LobbyIdx : j >= lobbies_c' <=> j >= lobbies_c /\ j # lobbies_c
      BY <1>1, <2>2, Capacities DEF LobbyIdx
    <3> QED
      BY <2>3, <2>6, <3>1 DEF TableInv, TableIsFilledInOrder
  <2>8. UnscannedSlotsAreEmpty'
    BY <2>4, <2>6 DEF TableInv, UnscannedSlotsAreEmpty
  <2>9. OneWaitingPerPair'
    <3>1. \A j \in Used :
            /\ j \in LobbyIdx /\ j # lobbies_c
            /\ state[j] = "WAITING" => Players(j) # {c, d}
      <4>1. Used \subseteq LobbyIdx /\ \A j \in Used : j # lobbies_c
        BY UsedAreEntries, <2>2, Capacities DEF TableInv, Used, LobbyIdx
      <4>2. \A j \in Used : Players(j) = { client[j][PLAYER1], client[j][PLAYER2] }
        BY DEF Players, PlayerID
      <4>3. WaitingOf(c, d) = {}
        BY <1>1 DEF MayChallenge
      <4>4. \A j \in Used : state[j] = "WAITING" =>
              /\ ~(client[j][PLAYER1] = c /\ client[j][PLAYER2] = d)
              /\ ~(client[j][PLAYER1] = d /\ client[j][PLAYER2] = c)
        BY <4>3 DEF WaitingOf
      <4>5. c # d
        BY <1>1 DEF MayChallenge
      <4> QED
        BY <4>1, <4>2, <4>4, <4>5
    <3>2. \A j \in Used' : j \in Used \/ j = lobbies_c
      BY <1>1, <2>2, Capacities DEF Used, LobbyIdx
    <3>a. PICK new \in LobbyIdx : new = lobbies_c
      BY <2>2
    <3>3. Players(new)' = {c, d}
      <4>1. client'[new] = Pair(c, d)
        BY <2>6, <3>a
      <4>2. Pair(c, d)[PLAYER1] = c /\ Pair(c, d)[PLAYER2] = d
        BY DEF Pair, PlayerID, PLAYER1, PLAYER2
      <4> QED
        BY <4>1, <4>2 DEF Players, PlayerID
    <3>4. \A j \in Used : Players(j)' = Players(j) /\ state'[j] = state[j]
      BY <2>6, <3>1 DEF Players
    <3>5. ASSUME NEW i \in Used', NEW j \in Used',
                 state'[i] = "WAITING", state'[j] = "WAITING",
                 Players(i)' = Players(j)'
          PROVE  i = j
      <4>1. CASE i \in Used /\ j \in Used
        BY <3>4, <3>5, <4>1 DEF TableInv, OneWaitingPerPair
      <4>2. CASE i = new /\ j \in Used
        BY <3>1, <3>3, <3>4, <3>5, <4>2
      <4>3. CASE j = new /\ i \in Used
        BY <3>1, <3>3, <3>4, <3>5, <4>3
      <4>4. CASE i = new /\ j = new
        BY <4>4
      <4> QED
        BY <3>2, <3>a, <4>1, <4>2, <4>3, <4>4
    <3> QED
      BY <3>5 DEF OneWaitingPerPair
  <2>10. RunningGamesGoOn'
    BY <2>6 DEF TableInv, RunningGamesGoOn
  <2>11. NobodyWatchesTwice'
    BY <2>4, <2>6 DEF TableInv, NobodyWatchesTwice
  <2>12. NobodyWatchesAnOffer'
    BY <2>4, <2>6 DEF TableInv, NobodyWatchesAnOffer, Observers
  <2> QED
    BY <2>5, <2>7, <2>8, <2>9, <2>10, <2>11, <2>12 DEF TableInv
<1>2. CASE Failed(c, "CHALLENGE", c)
  BY <1>2, FailedKeepsTableInv DEF Requests
<1> QED
  BY <1>1, <1>2 DEF on_challenge

LEMMA ChallengeHandleKeepsTableInv ==
  ASSUME TableInv, NEW c \in Clients, NEW d \in Clients, NEW accept \in BOOLEAN,
         on_challenge_handle(c, d, accept)
  PROVE  TableInv'
<1>1. CASE /\ MayAnswer(d, c)
           /\ Answered(find_waiting_lobby(d, c), accept)
           /\ Handled(c, "CHALLENGE_HANDLE",
                      To({c}, "CHALLENGE") \cup To({d}, "CHALLENGE_HANDLE_EVENT"))
           /\ UNCHANGED << lobbies_c, client, observators >>
  <2> DEFINE i == find_waiting_lobby(d, c)
  <2>1. AnswerTyped
    <3>1. To({c}, "CHALLENGE") \cup To({d}, "CHALLENGE_HANDLE_EVENT") \subseteq Message
      BY AddressedAreMessages DEF Messages
    <3> QED
      BY <1>1, <3>1, HandledIsTyped DEF TableInv, Requests
  <2>2. i \in LobbyIdx /\ state[i] = "WAITING"
    BY <1>1, FoundWaiting DEF MayAnswer, TableInv
  <2>3. Answered(i, accept)
    BY <1>1
  <2> HIDE DEF i
  <2>4. CASE accept
    <3>1. PICK game \in ResetAwale : awale' = [awale EXCEPT ![i] = game]
      BY <2>3, <2>4 DEF Answered
    <3>2. state' = [state EXCEPT ![i] = "RUNNING"]
      BY <2>3, <2>4 DEF Answered
    <3> QED
      BY <1>1, <2>1, <2>2, <3>1, <3>2, ResetGoesOn, StateStepKeepsTableInv
  <2>5. CASE ~accept
    <3>1. state' = [state EXCEPT ![i] = "FINISHED"] /\ awale' = awale
      BY <2>3, <2>5 DEF Answered
    <3>2. awale' = [awale EXCEPT ![i] = awale[i]]
      BY <2>2, <3>1 DEF TableInv, TypeOK
    <3> QED
      BY <1>1, <2>1, <2>2, <3>1, <3>2, StateStepKeepsTableInv
  <2> QED
    BY <2>4, <2>5
<1>2. CASE Failed(c, "CHALLENGE_HANDLE", d)
  BY <1>2, FailedKeepsTableInv DEF Requests
<1>3. CASE Crashes(c, "CHALLENGE_HANDLE")
  BY <1>3, CrashesKeepsTableInv DEF Requests
<1> QED
  BY <1>1, <1>2, <1>3 DEF on_challenge_handle

LEMMA GamePlayKeepsTableInv ==
  ASSUME TableInv, NEW c \in Clients, NEW target, on_game_play(c, target)
  PROVE  TableInv'
<1>1. CASE RunningOf(c) # {}
  <2> DEFINE i == find_running_lobby(c)
             player == PlayerOf(i, c)
             told == To({c}, "GAME_PLAY")
                       \cup To(Players(i) \cup Observers(i), "GAME_STATE_EVENT")
                       \cup IF PlayValidity(awale[i], player, target) = "VALID"
                            THEN {} ELSE To({c}, "ERROR_EVENT")
  <2>1. /\ Played(i, player, target)
        /\ Handled(c, "GAME_PLAY", told)
        /\ UNCHANGED << lobbies_c, client, observators >>
    BY <1>1 DEF on_game_play
  <2>2. i \in LobbyIdx /\ state[i] = "RUNNING"
    BY <1>1, FoundRunning DEF TableInv
  <2>3. AnswerTyped
    <3>1. Players(i) \cup Observers(i) \subseteq Clients
      BY <2>2, InvolvedAreClients
    <3>2. told \subseteq Message
      <4>1. To({c}, "GAME_PLAY") \subseteq Message /\ To({c}, "ERROR_EVENT") \subseteq Message
        BY AddressedAreMessages DEF Messages
      <4>2. To(Players(i) \cup Observers(i), "GAME_STATE_EVENT") \subseteq Message
        BY <3>1, AddressedAreMessages DEF Messages
      <4> QED
        BY <4>1, <4>2
    <3> HIDE DEF told
    <3> QED
      BY <2>1, <3>2, HandledIsTyped DEF TableInv, Requests
  <2> HIDE DEF i, player, told
  <2> DEFINE after == AfterPlay(awale[i], player, target)
  <2>4. /\ awale' = [awale EXCEPT ![i] = after]
        /\ state' = [state EXCEPT ![i] = IF GameOver(after) THEN "FINISHED" ELSE state[i]]
    BY <2>1 DEF Played
  <2> HIDE DEF after
  <2>5. PICK s \in {"RUNNING", "FINISHED"} :
          s = IF GameOver(after) THEN "FINISHED" ELSE "RUNNING"
    OBVIOUS
  <2>6. state' = [state EXCEPT ![i] = s]
    BY <2>2, <2>4, <2>5
  <2> QED
    BY <2>1, <2>2, <2>3, <2>4, <2>5, <2>6, StateStepKeepsTableInv
<1>2. CASE RunningOf(c) = {}
  <2>1. Failed(c, "GAME_PLAY", c)
    BY <1>2 DEF on_game_play
  <2> QED
    BY <2>1, FailedKeepsTableInv DEF Requests
<1> QED
  BY <1>1, <1>2

LEMMA GameLeaveKeepsTableInv ==
  ASSUME TableInv, NEW c \in Clients, on_game_leave(c)
  PROVE  TableInv'
<1>1. CASE RunningOf(c) # {}
  <2> DEFINE i == find_running_lobby(c)
             told == To({c}, "GAME_LEAVE")
                       \cup To((Players(i) \ {c}) \cup Observers(i), "GAME_LEAVE_EVENT")
  <2>1. /\ state' = [state EXCEPT ![i] = "FINISHED"]
        /\ Handled(c, "GAME_LEAVE", told)
        /\ UNCHANGED << lobbies_c, client, awale, observators >>
    BY <1>1 DEF on_game_leave
  <2>2. i \in LobbyIdx /\ state[i] = "RUNNING"
    BY <1>1, FoundRunning DEF TableInv
  <2>3. AnswerTyped
    <3>1. (Players(i) \ {c}) \cup Observers(i) \subseteq Clients
      BY <2>2, InvolvedAreClients
    <3>2. told \subseteq Message
      <4>1. To({c}, "GAME_LEAVE") \subseteq Message
        BY AddressedAreMessages DEF Messages
      <4>2. To((Players(i) \ {c}) \cup Observers(i), "GAME_LEAVE_EVENT") \subseteq Message
        BY <3>1, AddressedAreMessages DEF Messages
      <4> QED
        BY <4>1, <4>2
    <3> HIDE DEF told
    <3> QED
      BY <2>1, <3>2, HandledIsTyped DEF TableInv, Requests
  <2> HIDE DEF i, told
  <2>4. awale' = [awale EXCEPT ![i] = awale[i]]
    BY <2>1, <2>2 DEF TableInv, TypeOK
  <2> QED
    BY <2>1, <2>2, <2>3, <2>4, StateStepKeepsTableInv
<1>2. CASE RunningOf(c) = {}
  <2>1. Failed(c, "GAME_LEAVE", c)
    BY <1>2 DEF on_game_leave
  <2> QED
    BY <2>1, FailedKeepsTableInv DEF Requests
<1> QED
  BY <1>1, <1>2

LEMMA GameStateKeepsTableInv ==
  ASSUME TableInv, NEW c \in Clients, on_game_state(c)
  PROVE  TableInv'
<1>1. CASE Handled(c, "GAME_STATE", To({c}, "GAME_STATE")) /\ UNCHANGED lobby
  <2>1. To({c}, "GAME_STATE") \subseteq Message
    BY AddressedAreMessages DEF Messages
  <2>2. AnswerTyped
    BY <1>1, <2>1, HandledIsTyped DEF TableInv, Requests
  <2> QED
    BY <1>1, <2>2, TableUntouched
<1>2. CASE Failed(c, "GAME_STATE", c)
  BY <1>2, FailedKeepsTableInv DEF Requests
<1> QED
  BY <1>1, <1>2 DEF on_game_state

(* Slot k of lobby i, which is running, is given the value v.              *)
LEMMA SlotStepKeepsTableInv ==
  ASSUME TableInv, AnswerTyped, NEW i \in LobbyIdx, state[i] = "RUNNING",
         NEW k \in Scanned, NEW v \in Clients \cup {NULL},
         v = NULL \/ \A l \in Scanned : observators[i][l] # v,
         observators' = [observators EXCEPT ![i][k] = v],
         UNCHANGED << lobbies_c, state, client, awale >>
  PROVE  TableInv'
<1>1. k \in ObserverIdx /\ observators \in [LobbyIdx -> [ObserverIdx -> Clients \cup {NULL}]]
  BY Capacities DEF TableInv, TypeOK
<1>2. \A j \in LobbyIdx, l \in ObserverIdx :
        observators'[j][l] = IF j = i /\ l = k THEN v ELSE observators[j][l]
  BY <1>1
<1>3. TypeOK'
  <2>1. observators' \in [LobbyIdx -> [ObserverIdx -> Clients \cup {NULL}]]
    BY <1>1
  <2> QED
    BY <2>1 DEF TableInv, TypeOK, AnswerTyped
<1>4. TableIsFilledInOrder' /\ RunningGamesGoOn'
  BY DEF TableInv, TableIsFilledInOrder, RunningGamesGoOn
<1>5. UnscannedSlotsAreEmpty'
  BY <1>2 DEF TableInv, UnscannedSlotsAreEmpty
<1>6. OneWaitingPerPair'
  <2>1. Used' = Used /\ state' = state /\ \A j : Players(j)' = Players(j)
    BY DEF Players, Used
  <2>2. OneWaitingPerPair
    BY DEF TableInv
  <2> QED
    BY <2>1, <2>2 DEF OneWaitingPerPair
<1>7. NobodyWatchesTwice'
  <2>1. v # NULL => \A l \in ObserverIdx : observators[i][l] # v
    BY DEF TableInv, UnscannedSlotsAreEmpty
  <2>2. ASSUME NEW j \in LobbyIdx, NEW l \in ObserverIdx, NEW m \in ObserverIdx,
               observators'[j][l] = observators'[j][m], observators'[j][l] # NULL
        PROVE  l = m
    <3>1. CASE j # i \/ (l # k /\ m # k)
      <4>1. observators'[j][l] = observators[j][l] /\ observators'[j][m] = observators[j][m]
        BY <1>2, <3>1
      <4> QED
        BY <2>2, <4>1 DEF TableInv, NobodyWatchesTwice
    <3>2. CASE j = i /\ l = k
      BY <1>2, <2>1, <2>2, <3>2
    <3>3. CASE j = i /\ m = k
      BY <1>2, <2>1, <2>2, <3>3
    <3> QED
      BY <3>1, <3>2, <3>3
  <2> QED
    BY <2>2 DEF NobodyWatchesTwice
<1>8. NobodyWatchesAnOffer'
  BY <1>2 DEF TableInv, NobodyWatchesAnOffer, Observers
<1> QED
  BY <1>3, <1>4, <1>5, <1>6, <1>7, <1>8 DEF TableInv

LEMMA GameObserveKeepsTableInv ==
  ASSUME TableInv, NEW c \in Clients, NEW d \in Clients, NEW observe \in BOOLEAN,
         on_game_observe(c, d, observe)
  PROVE  TableInv'
<1> DEFINE i == find_running_lobby(d)
<1> DEFINE cmd == IF observe THEN "GAME_OBSERVE" ELSE "GAME_UNOBSERVE"
<1>1. \/ RunningOf(d) # {} /\ (TakeSlot(i, c, cmd) \/ FreeSlot(i, c, cmd))
      \/ Failed(c, cmd, c)
      \/ Crashes(c, cmd)
  <2> HIDE DEF i, cmd
  <2> QED
    BY Zenon DEF on_game_observe, i, cmd
<1>2. cmd \in Requests
  BY DEF Requests
<1>3. RunningOf(d) # {} => i \in LobbyIdx /\ state[i] = "RUNNING"
  BY FoundRunning DEF TableInv
<1> HIDE DEF i, cmd
<1>4. CASE RunningOf(d) # {} /\ TakeSlot(i, c, cmd)
  <2>1. AnswerTyped
    <3>1. Players(i) \subseteq Clients
      BY <1>3, <1>4, InvolvedAreClients
    <3>2. To({c}, "GAME_OBSERVE") \cup To(Players(i), "GAME_OBSERVE_EVENT") \subseteq Message
      BY <3>1, AddressedAreMessages DEF Messages
    <3> QED
      BY <1>2, <1>4, <3>2, HandledIsTyped DEF TableInv, TakeSlot
  <2>2. NullIdx(i) \in Scanned
    BY <1>3, <1>4, NullIdxIsScanned
  <2>3. \A l \in Scanned : observators[i][l] # c
    BY <1>4 DEF TakeSlot, SlotsOf
  <2> QED
    BY <1>3, <1>4, <2>1, <2>2, <2>3, SlotStepKeepsTableInv DEF TakeSlot
<1>5. CASE RunningOf(d) # {} /\ FreeSlot(i, c, cmd)
  <2>1. AnswerTyped
    BY <1>2, <1>5, HandledIsTyped DEF TableInv, FreeSlot
  <2>2. First(SlotsOf(i, c)) \in Scanned
    <3>1. SlotsOf(i, c) \subseteq Nat /\ SlotsOf(i, c) # {}
      BY <1>5, Capacities DEF FreeSlot, SlotsOf
    <3>2. First(SlotsOf(i, c)) \in SlotsOf(i, c)
      BY <3>1, FirstIsAMember
    <3> QED
      BY <3>2 DEF SlotsOf
  <2> QED
    BY <1>3, <1>5, <2>1, <2>2, SlotStepKeepsTableInv DEF FreeSlot
<1>6. CASE Failed(c, cmd, c)
  BY <1>2, <1>6, FailedKeepsTableInv
<1>7. CASE Crashes(c, cmd)
  BY <1>2, <1>7, CrashesKeepsTableInv
<1> QED
  BY <1>1, <1>4, <1>5, <1>6, <1>7

-----------------------------------------------------------------------------
LEMMA InitTableInv == Init => TableInv
<1> SUFFICES ASSUME Init PROVE TableInv
  OBVIOUS
<1>1. TypeOK
  <2>1. 0 \in 0 .. MAX_LOBBIES
    BY Capacities
  <2> QED
    BY <2>1 DEF Init, TypeOK, LobbyState, NoObservers, Requests
<1>2. TableIsFilledInOrder /\ RunningGamesGoOn
  BY DEF Init, TableIsFilledInOrder, RunningGamesGoOn, LobbyIdx
<1>3. UnscannedSlotsAreEmpty /\ NobodyWatchesTwice
  BY DEF Init, UnscannedSlotsAreEmpty, NobodyWatchesTwice, NoObservers
<1>4. OneWaitingPerPair
  BY UsedAreEntries, <1>1 DEF Init, OneWaitingPerPair
<1>5. NobodyWatchesAnOffer
  BY DEF Init, NobodyWatchesAnOffer, Observers, NoObservers
<1> QED
  BY <1>1, <1>2, <1>3, <1>4, <1>5 DEF TableInv

(* TableInv holds of every reachable state: no command of any client, in   *)
(* any order, disturbs it.                                                 *)
THEOREM TableInvariant == Spec => []TableInv
<1>1. TableInv /\ [Next]_vars => TableInv'
  <2> SUFFICES ASSUME TableInv, [Next]_vars PROVE TableInv'
    OBVIOUS
  <2>1. CASE UNCHANGED vars
    <3>1. UNCHANGED lobby /\ UNCHANGED << pool, up, request, sent >>
      BY <2>1 DEF vars
    <3>2. AnswerTyped
      BY <3>1 DEF TableInv, TypeOK, AnswerTyped
    <3> QED
      BY <3>1, <3>2, TableUntouched
  <2>2. ASSUME NEW c \in Clients, Register(c) PROVE TableInv'
    BY <2>2, RegisterKeepsTableInv
  <2>3. ASSUME NEW c \in Clients, Command(c) PROVE TableInv'
    BY <2>3, ChallengeKeepsTableInv, ChallengeHandleKeepsTableInv,
       GamePlayKeepsTableInv, GameLeaveKeepsTableInv, GameStateKeepsTableInv,
       GameObserveKeepsTableInv DEF Command
  <2> QED
    BY <2>1, <2>2, <2>3 DEF Next
<1> QED
  BY InitTableInv, <1>1, PTL DEF Spec

(* The table, the observers' slots and the messages keep their types.      *)
THEOREM TableTypeCorrect == Spec => []TypeOK
BY TableInvariant, PTL DEF TableInv

(* Two clients never have two offers open between them.                    *)
THEOREM OffersAreUnique == Spec => []OneWaitingPerPair
BY TableInvariant, PTL DEF TableInv

(* A lobby whose game is decided is not running.                           *)
THEOREM DecidedGamesAreClosed == Spec => []RunningGamesGoOn
BY TableInvariant, PTL DEF TableInv

(* A client takes one slot of a lobby at most.                             *)
THEOREM ObserversAreDistinct == Spec => []NobodyWatchesTwice
BY TableInvariant, PTL DEF TableInv

(* Lobbies nobody has accepted are not watched.                            *)
THEOREM OffersAreUnwatched == Spec => []NobodyWatchesAnOffer
BY TableInvariant, PTL DEF TableInv

-----------------------------------------------------------------------------
(* What a step does to the table, lobby by lobby: at most one entry takes  *)
(* a step of its life, by a command of one of its players.                 *)
Alone(i) ==
  \A j \in LobbyIdx \ {i} : UNCHANGED << state[j], client[j], awale[j] >>

EntryStep(i) ==
  \/ \E c, d \in Clients : Life(i)!Offer(c, d)
  \/ /\ request'.from = client[i][PLAYER2]
     /\ Life(i)!Accept \/ Life(i)!Reject
  \/ \E player \in PlayerID, target \in Targets : Life(i)!Play(player, target)
  \/ Life(i)!Leave

TableStep ==
  \/ UNCHANGED << state, client, awale >>
  \/ \E i \in LobbyIdx : Alone(i) /\ request'.from \in Players(i)' /\ EntryStep(i)

LEMMA ChallengeIsATableStep ==
  ASSUME TableInv, NEW c \in Clients, NEW d \in Clients, on_challenge(c, d)
  PROVE  TableStep
<1>1. CASE /\ MayChallenge(c, d)
           /\ lobbies_c' = lobbies_c + 1
           /\ state' = [state EXCEPT ![lobbies_c] = "WAITING"]
           /\ client' = [client EXCEPT ![lobbies_c] = Pair(c, d)]
           /\ awale' = [awale EXCEPT ![lobbies_c] = NewAwale]
           /\ Handled(c, "CHALLENGE",
                      To({c}, "CHALLENGE") \cup To({d}, "CHALLENGE_EVENT"))
  <2>1. PICK i \in LobbyIdx : i = lobbies_c
    BY <1>1, Capacities DEF TableInv, TypeOK, MayChallenge, LobbyIdx
  <2>2. /\ state[i] = "UNUSED" /\ awale[i] = NewAwale
        /\ state \in [LobbyIdx -> LobbyState] /\ DOMAIN client = LobbyIdx
        /\ awale = [j \in LobbyIdx |-> awale[j]]
    <3>1. lobbies_c >= lobbies_c
      BY DEF TableInv, TypeOK
    <3> QED
      BY <2>1, <3>1 DEF TableInv, TypeOK, TableIsFilledInOrder
  <2>3. /\ state'[i] = "WAITING" /\ client'[i] = Pair(c, d) /\ awale'[i] = awale[i]
    BY <1>1, <2>1, <2>2
  <2>4. Alone(i)
    BY <1>1, <2>1, <2>2 DEF Alone
  <2>5. request'.from \in Players(i)'
    <3>1. request'.from = c
      BY <1>1 DEF Handled
    <3>2. Pair(c, d)[PLAYER1] = c /\ PLAYER1 \in PlayerID
      BY DEF Pair, PlayerID
    <3> QED
      BY <2>3, <3>1, <3>2 DEF Players
  <2>6. Life(i)!Offer(c, d)
    BY <1>1, <2>2, <2>3 DEF Life!Offer, MayChallenge, Pair
  <2> QED
    BY <2>4, <2>5, <2>6 DEF TableStep, EntryStep
<1>2. CASE Failed(c, "CHALLENGE", c)
  BY <1>2 DEF Failed, lobby, TableStep
<1> QED
  BY <1>1, <1>2 DEF on_challenge

LEMMA ChallengeHandleIsATableStep ==
  ASSUME TableInv, NEW c \in Clients, NEW d \in Clients, NEW accept \in BOOLEAN,
         on_challenge_handle(c, d, accept)
  PROVE  TableStep
<1>1. CASE /\ MayAnswer(d, c)
           /\ Answered(find_waiting_lobby(d, c), accept)
           /\ Handled(c, "CHALLENGE_HANDLE",
                      To({c}, "CHALLENGE") \cup To({d}, "CHALLENGE_HANDLE_EVENT"))
           /\ UNCHANGED client
  <2>1. PICK i \in LobbyIdx :
          i = find_waiting_lobby(d, c) /\ state[i] = "WAITING" /\ client[i][PLAYER2] = c
    BY <1>1, FoundWaiting DEF TableInv, MayAnswer
  <2>2. state \in [LobbyIdx -> LobbyState] /\ awale = [j \in LobbyIdx |-> awale[j]]
    BY DEF TableInv, TypeOK
  <2>3. request'.from = c /\ client' = client /\ Answered(i, accept)
    BY <1>1, <2>1 DEF Handled
  <2>4. Alone(i)
    BY <2>2, <2>3 DEF Alone, Answered
  <2>5. request'.from \in Players(i)'
    BY <2>1, <2>3 DEF Players, PlayerID
  <2>6. CASE accept
    <3>1. PICK game \in ResetAwale : awale' = [awale EXCEPT ![i] = game]
      BY <2>3, <2>6 DEF Answered
    <3>2. state' = [state EXCEPT ![i] = "RUNNING"]
      BY <2>3, <2>6 DEF Answered
    <3>3. Life(i)!Accept
      BY <2>1, <2>2, <2>3, <3>1, <3>2 DEF Life!Accept
    <3> QED
      BY <2>1, <2>3, <2>4, <2>5, <3>3 DEF TableStep, EntryStep
  <2>7. CASE ~accept
    <3>1. Life(i)!Reject
      BY <2>1, <2>2, <2>3, <2>7 DEF Life!Reject, Answered
    <3> QED
      BY <2>1, <2>3, <2>4, <2>5, <3>1 DEF TableStep, EntryStep
  <2> QED
    BY <2>6, <2>7
<1>2. CASE Failed(c, "CHALLENGE_HANDLE", d)
  BY <1>2 DEF Failed, lobby, TableStep
<1>3. CASE Crashes(c, "CHALLENGE_HANDLE")
  BY <1>3 DEF Crashes, lobby, TableStep
<1> QED
  BY <1>1, <1>2, <1>3 DEF on_challenge_handle

LEMMA GamePlayIsATableStep ==
  ASSUME TableInv, NEW c \in Clients, NEW target \in Targets, on_game_play(c, target)
  PROVE  TableStep
<1>1. CASE RunningOf(c) # {}
  <2>1. PICK i \in LobbyIdx :
          i = find_running_lobby(c) /\ state[i] = "RUNNING" /\ c \in Players(i)
    BY <1>1, FoundRunning DEF TableInv
  <2>2. state \in [LobbyIdx -> LobbyState] /\ awale = [j \in LobbyIdx |-> awale[j]]
    BY DEF TableInv, TypeOK
  <2>3. PICK player \in PlayerID :
          /\ Played(i, player, target)
          /\ request'.from = c /\ UNCHANGED client
    BY <1>1, <2>1 DEF on_game_play, Handled, PlayerOf, PlayerID
  <2>4. PICK after :
          /\ after = AfterPlay(awale[i], player, target)
          /\ awale' = [awale EXCEPT ![i] = after]
          /\ state' = [state EXCEPT ![i] = IF GameOver(after) THEN "FINISHED" ELSE state[i]]
    BY <2>3 DEF Played
  <2>5. Alone(i)
    BY <2>2, <2>3, <2>4 DEF Alone
  <2>6. request'.from \in Players(i)'
    BY <2>1, <2>3 DEF Players
  <2>7. awale'[i] = after /\ state'[i] = IF GameOver(after) THEN "FINISHED" ELSE "RUNNING"
    BY <2>1, <2>2, <2>4
  <2>8. Life(i)!Play(player, target)
    BY <2>1, <2>3, <2>4, <2>7 DEF Life!Play
  <2> QED
    BY <2>5, <2>6, <2>8 DEF TableStep, EntryStep
<1>2. CASE RunningOf(c) = {}
  BY <1>2 DEF on_game_play, Failed, lobby, TableStep
<1> QED
  BY <1>1, <1>2

LEMMA GameLeaveIsATableStep ==
  ASSUME TableInv, NEW c \in Clients, on_game_leave(c)
  PROVE  TableStep
<1>1. CASE RunningOf(c) # {}
  <2>1. PICK i \in LobbyIdx :
          i = find_running_lobby(c) /\ state[i] = "RUNNING" /\ c \in Players(i)
    BY <1>1, FoundRunning DEF TableInv
  <2>2. state \in [LobbyIdx -> LobbyState]
    BY DEF TableInv, TypeOK
  <2>3. /\ state' = [state EXCEPT ![i] = "FINISHED"]
        /\ request'.from = c /\ UNCHANGED << client, awale >>
    BY <1>1, <2>1 DEF on_game_leave, Handled
  <2>4. Alone(i)
    BY <2>2, <2>3 DEF Alone
  <2>5. request'.from \in Players(i)'
    BY <2>1, <2>3 DEF Players
  <2>6. Life(i)!Leave
    BY <2>1, <2>2, <2>3 DEF Life!Leave
  <2> QED
    BY <2>4, <2>5, <2>6 DEF TableStep, EntryStep
<1>2. CASE RunningOf(c) = {}
  BY <1>2 DEF on_game_leave, Failed, lobby, TableStep
<1> QED
  BY <1>1, <1>2

LEMMA StepIsATableStep ==
  ASSUME TableInv, [Next]_vars
  PROVE  TableStep
<1>1. CASE UNCHANGED vars
  BY <1>1 DEF vars, lobby, TableStep
<1>2. ASSUME NEW c \in Clients, Register(c) PROVE TableStep
  BY <1>2 DEF Register, lobby, TableStep
<1>3. ASSUME NEW c \in Clients, on_game_state(c) PROVE TableStep
  BY <1>3 DEF on_game_state, Failed, lobby, TableStep
<1>4. ASSUME NEW c \in Clients, NEW d \in Clients, NEW observe \in BOOLEAN,
             on_game_observe(c, d, observe)
      PROVE  TableStep
  <2>1. UNCHANGED << state, client, awale >>
    BY <1>4 DEF on_game_observe, TakeSlot, FreeSlot, Failed, Crashes, lobby
  <2> QED
    BY <2>1 DEF TableStep
<1>5. ASSUME NEW c \in Clients, Command(c) PROVE TableStep
  BY <1>3, <1>4, <1>5, ChallengeIsATableStep, ChallengeHandleIsATableStep,
     GamePlayIsATableStep, GameLeaveIsATableStep DEF Command
<1> QED
  BY <1>1, <1>2, <1>5 DEF Next

(* The table implements LobbyLife entry by entry: whatever the clients do  *)
(* to other lobbies, each is offered once, answered once, played by the    *)
(* rules and final when finished.                                          *)
THEOREM TableImplementsLobbyLife == Spec => EachLobbyLives
<1>1. Init => \A i \in LobbyIdx : Life(i)!Init
  BY DEF Init, Life!Init
<1>2. TableInv /\ [Next]_vars => [ \A i \in LobbyIdx : [Life(i)!Next]_(Life(i)!vars) ]_vars
  <2> SUFFICES ASSUME TableInv, [Next]_vars, NEW i \in LobbyIdx
               PROVE  [Life(i)!Next]_(Life(i)!vars)
    OBVIOUS
  <2>1. CASE UNCHANGED << state, client, awale >>
    BY <2>1 DEF Life!vars
  <2>2. ASSUME NEW k \in LobbyIdx, Alone(k), EntryStep(k)
        PROVE  [Life(i)!Next]_(Life(i)!vars)
    <3>1. CASE i = k
      BY <2>2, <3>1 DEF EntryStep, Life!Next
    <3>2. CASE i # k
      BY <2>2, <3>2 DEF Alone, Life!vars
    <3> QED
      BY <3>1, <3>2
  <2> QED
    BY <2>1, <2>2, StepIsATableStep DEF TableStep
<1> QED
  BY <1>1, <1>2, TableInvariant, PTL DEF Spec, EachLobbyLives

(* What the games of running lobbies have in common with those of          *)
(* AwaleGame: their seeds are counted, so that play() keeps their types.   *)
GamesAreCounted ==
  \A i \in LobbyIdx :
    state[i] = "RUNNING"
      => Counted(awale[i]) /\ PlayerHasSeeds(awale[i].current, awale[i].grid)

LEMMA EntryStepKeepsTheGame ==
  ASSUME NEW i \in LobbyIdx, EntryStep(i), state[i]' = "RUNNING",
         state[i] = "RUNNING"
           => Counted(awale[i]) /\ PlayerHasSeeds(awale[i].current, awale[i].grid)
  PROVE  Counted(awale[i]') /\ PlayerHasSeeds(awale[i].current, awale[i].grid)'
<1>1. ASSUME NEW c \in Clients, NEW d \in Clients, Life(i)!Offer(c, d) PROVE FALSE
  BY <1>1 DEF Life!Offer
<1>2. CASE Life(i)!Accept
  <2>1. PICK game \in ResetAwale : awale[i]' = game
    BY <1>2 DEF Life!Accept
  <2> QED
    BY <2>1, ResetIsFair
<1>3. CASE Life(i)!Reject \/ Life(i)!Leave
  BY <1>3 DEF Life!Reject, Life!Leave
<1>4. ASSUME NEW p \in PlayerID, NEW t \in Targets, Life(i)!Play(p, t)
      PROVE  Counted(awale[i]') /\ PlayerHasSeeds(awale[i].current, awale[i].grid)'
  <2>1. PICK before : before = awale[i]
    OBVIOUS
  <2>2. /\ awale[i]' = AfterPlay(before, p, t)
        /\ Counted(before) /\ PlayerHasSeeds(before.current, before.grid)
    BY <1>4, <2>1 DEF Life!Play
  <2>3. before \in Awale
    BY <2>2 DEF Counted
  <2>4. /\ Counted(AfterPlay(before, p, t))
        /\ PlayerHasSeeds(AfterPlay(before, p, t).current, AfterPlay(before, p, t).grid)
    BY <2>2, <2>3, PlayKeepsCounted, PlayKeepsTheTurnHolderInSeeds
  <2> QED
    BY <2>2, <2>4
<1> QED
  BY <1>1, <1>2, <1>3, <1>4 DEF EntryStep

(* Every running game is one of the rules: whatever its players and        *)
(* strangers send, its counts are in range and the player whose turn it is *)
(* has a seed to sow.                                                      *)
THEOREM RunningGamesStaySound == Spec => []RunningGamesAreSound
<1>1. Init => GamesAreCounted
  BY DEF Init, GamesAreCounted
<1>2. TableInv /\ GamesAreCounted /\ [Next]_vars => GamesAreCounted'
  <2> SUFFICES ASSUME TableInv, GamesAreCounted, [Next]_vars,
                      NEW i \in LobbyIdx, state[i]' = "RUNNING"
               PROVE  /\ Counted(awale[i]')
                      /\ PlayerHasSeeds(awale[i].current, awale[i].grid)'
    BY DEF GamesAreCounted
  <2>1. state[i] = "RUNNING"
          => Counted(awale[i]) /\ PlayerHasSeeds(awale[i].current, awale[i].grid)
    BY DEF GamesAreCounted
  <2>2. CASE UNCHANGED << state, awale >>
    BY <2>1, <2>2
  <2>3. ASSUME NEW k \in LobbyIdx, Alone(k), EntryStep(k)
        PROVE  /\ Counted(awale[i]')
               /\ PlayerHasSeeds(awale[i].current, awale[i].grid)'
    <3>1. CASE i = k
      BY <2>1, <2>3, <3>1, EntryStepKeepsTheGame
    <3>2. CASE i # k
      <4>1. state[i]' = state[i] /\ awale[i]' = awale[i]
        BY <2>3, <3>2 DEF Alone
      <4> QED
        BY <2>1, <4>1
    <3> QED
      BY <3>1, <3>2
  <2> QED
    BY <2>2, <2>3, StepIsATableStep DEF TableStep
<1>3. GamesAreCounted => RunningGamesAreSound
  BY DEF GamesAreCounted, RunningGamesAreSound, Counted
<1> QED
  BY <1>1, <1>2, <1>3, TableInvariant, PTL DEF Spec

(* Whatever else is going on, an offer is answered by the challenged       *)
(* client and by nobody else.                                              *)
THEOREM ChallengedAnswers == Spec => OnlyTheChallengedAnswers
<1>1. TableInv /\ [Next]_vars
        => [ \A i \in LobbyIdx :
               state[i] = "WAITING" /\ state'[i] # "WAITING"
                 => request'.from = client[i][PLAYER2] ]_vars
  <2> SUFFICES ASSUME TableInv, [Next]_vars, NEW i \in LobbyIdx,
                      state[i] = "WAITING", state'[i] # "WAITING"
               PROVE  request'.from = client[i][PLAYER2]
    OBVIOUS
  <2>1. PICK k \in LobbyIdx : Alone(k) /\ EntryStep(k)
    BY StepIsATableStep DEF TableStep
  <2>2. i = k
    BY <2>1 DEF Alone
  <2> QED
    BY <2>1, <2>2 DEF EntryStep, Life!Offer, Life!Play, Life!Leave
<1> QED
  BY <1>1, TableInvariant, PTL DEF Spec, OnlyTheChallengedAnswers

(* A command changes one lobby at most, one that its sender plays in.      *)
THEOREM StrangersAreHarmless == Spec => StrangersCannotTouch
<1>1. TableInv /\ [Next]_vars
        => [ \A i \in LobbyIdx :
               << state[i], awale[i] >>' # << state[i], awale[i] >>
                 => /\ request'.from \in Players(i)'
                    /\ \A j \in LobbyIdx \ {i} :
                         << state[j], awale[j] >>' = << state[j], awale[j] >> ]_vars
  <2> SUFFICES ASSUME TableInv, [Next]_vars, NEW i \in LobbyIdx,
                      << state[i], awale[i] >>' # << state[i], awale[i] >>
               PROVE  /\ request'.from \in Players(i)'
                      /\ \A j \in LobbyIdx \ {i} :
                           << state[j], awale[j] >>' = << state[j], awale[j] >>
    OBVIOUS
  <2>1. PICK k \in LobbyIdx : Alone(k) /\ request'.from \in Players(k)'
    BY StepIsATableStep DEF TableStep
  <2>2. i = k
    BY <2>1 DEF Alone
  <2> QED
    BY <2>1, <2>2 DEF Alone
<1> QED
  BY <1>1, TableInvariant, PTL DEF Spec, StrangersCannotTouch

-----------------------------------------------------------------------------
(* Who is told of a change.                                                *)
Told(i) == Players(i)' \cup Observers(i) \subseteq { m.to : m \in sent' }

Changed(i) == << state[i], awale[i] >>' # << state[i], awale[i] >>

LEMMA TheAddressedAreTold ==
  ASSUME NEW cs, NEW cmd, NEW ms, To(cs, cmd) \subseteq ms
  PROVE  cs \subseteq { m.to : m \in ms }
<1> SUFFICES ASSUME NEW c \in cs PROVE \E m \in ms : m.to = c
  OBVIOUS
<1>1. [to |-> c, cmd |-> cmd] \in ms
  BY DEF To
<1> QED
  BY <1>1

(* A new offer: there were no observers of the entry it is put in.         *)
LEMMA ChallengeTells ==
  ASSUME TableInv, NEW c \in Clients, NEW d \in Clients, on_challenge(c, d),
         NEW i \in LobbyIdx, Changed(i)
  PROVE  Told(i)
<1>1. CASE /\ MayChallenge(c, d)
           /\ state' = [state EXCEPT ![lobbies_c] = "WAITING"]
           /\ client' = [client EXCEPT ![lobbies_c] = Pair(c, d)]
           /\ awale' = [awale EXCEPT ![lobbies_c] = NewAwale]
           /\ Handled(c, "CHALLENGE",
                      To({c}, "CHALLENGE") \cup To({d}, "CHALLENGE_EVENT"))
  <2>1. /\ state \in [LobbyIdx -> LobbyState] /\ DOMAIN client = LobbyIdx
        /\ awale = [j \in LobbyIdx |-> awale[j]] /\ lobbies_c >= lobbies_c
    BY DEF TableInv, TypeOK
  <2>2. i = lobbies_c
    BY <1>1, <2>1 DEF Changed
  <2>3. Observers(i) = {}
    BY <2>1, <2>2 DEF TableInv, TableIsFilledInOrder, NobodyWatchesAnOffer
  <2>4. Players(i)' \subseteq {c, d}
    <3>1. client'[i] = Pair(c, d)
      BY <1>1, <2>1, <2>2
    <3> QED
      BY <3>1 DEF Players, Pair, PlayerID
  <2>5. {c} \cup {d} \subseteq { m.to : m \in sent' }
    <3>1. To({c}, "CHALLENGE") \subseteq sent' /\ To({d}, "CHALLENGE_EVENT") \subseteq sent'
      BY <1>1 DEF Handled
    <3> QED
      BY <3>1, TheAddressedAreTold
  <2> QED
    BY <2>3, <2>4, <2>5 DEF Told
<1>2. CASE Failed(c, "CHALLENGE", c)
  BY <1>2 DEF Failed, lobby, Changed
<1> QED
  BY <1>1, <1>2 DEF on_challenge

(* An answer: the offer had no observers, and its two clients are told.    *)
LEMMA ChallengeHandleTells ==
  ASSUME TableInv, NEW c \in Clients, NEW d \in Clients, NEW accept \in BOOLEAN,
         on_challenge_handle(c, d, accept), NEW i \in LobbyIdx, Changed(i)
  PROVE  Told(i)
<1>1. CASE /\ MayAnswer(d, c)
           /\ Answered(find_waiting_lobby(d, c), accept)
           /\ Handled(c, "CHALLENGE_HANDLE",
                      To({c}, "CHALLENGE") \cup To({d}, "CHALLENGE_HANDLE_EVENT"))
           /\ UNCHANGED client
  <2>1. PICK k \in LobbyIdx : k = find_waiting_lobby(d, c) /\ state[k] = "WAITING"
    BY <1>1, FoundWaiting DEF TableInv, MayAnswer
  <2>2. /\ state \in [LobbyIdx -> LobbyState]
        /\ awale = [j \in LobbyIdx |-> awale[j]]
    BY DEF TableInv, TypeOK
  <2>3. Answered(k, accept)
    BY <1>1, <2>1
  <2>4. i = k
    BY <2>2, <2>3 DEF Answered, Changed
  <2>5. Observers(i) = {}
    BY <2>1, <2>4 DEF TableInv, NobodyWatchesAnOffer
  <2>6. Players(i)' \subseteq {c, d}
    <3>1. k \in WaitingOf(d, c)
      BY <1>1, <2>1, FoundWaiting DEF TableInv, MayAnswer
    <3> QED
      BY <1>1, <2>4, <3>1 DEF WaitingOf, Players, PlayerID
  <2>7. {c} \cup {d} \subseteq { m.to : m \in sent' }
    <3>1. /\ To({c}, "CHALLENGE") \subseteq sent'
          /\ To({d}, "CHALLENGE_HANDLE_EVENT") \subseteq sent'
      BY <1>1 DEF Handled
    <3> QED
      BY <3>1, TheAddressedAreTold
  <2> QED
    BY <2>5, <2>6, <2>7 DEF Told
<1>2. CASE Failed(c, "CHALLENGE_HANDLE", d)
  BY <1>2 DEF Failed, lobby, Changed
<1>3. CASE Crashes(c, "CHALLENGE_HANDLE")
  BY <1>3 DEF Crashes, lobby, Changed
<1> QED
  BY <1>1, <1>2, <1>3 DEF on_challenge_handle

LEMMA GamePlayTells ==
  ASSUME TableInv, NEW c \in Clients, NEW target, on_game_play(c, target),
         NEW i \in LobbyIdx, Changed(i)
  PROVE  Told(i)
<1>1. CASE RunningOf(c) # {}
  <2>1. PICK k : k = find_running_lobby(c)
    OBVIOUS
  <2>2. /\ state \in [LobbyIdx -> LobbyState]
        /\ awale = [j \in LobbyIdx |-> awale[j]]
    BY DEF TableInv, TypeOK
  <2>3. /\ Played(k, PlayerOf(k, c), target)
        /\ To(Players(k) \cup Observers(k), "GAME_STATE_EVENT") \subseteq sent'
        /\ UNCHANGED client
    BY <1>1, <2>1 DEF on_game_play, Handled
  <2>4. i = k
    BY <2>2, <2>3 DEF Played, Changed
  <2>5. Players(i) \cup Observers(i) \subseteq { m.to : m \in sent' }
    BY <2>3, <2>4, TheAddressedAreTold
  <2> QED
    BY <2>3, <2>5 DEF Told, Players
<1>2. CASE RunningOf(c) = {}
  BY <1>2 DEF on_game_play, Failed, lobby, Changed
<1> QED
  BY <1>1, <1>2

LEMMA GameLeaveTells ==
  ASSUME TableInv, NEW c \in Clients, on_game_leave(c), NEW i \in LobbyIdx, Changed(i)
  PROVE  Told(i)
<1>1. CASE RunningOf(c) # {}
  <2>1. PICK k : k = find_running_lobby(c)
    OBVIOUS
  <2>2. state \in [LobbyIdx -> LobbyState]
    BY DEF TableInv, TypeOK
  <2>3. /\ state' = [state EXCEPT ![k] = "FINISHED"]
        /\ To({c}, "GAME_LEAVE") \subseteq sent'
        /\ To((Players(k) \ {c}) \cup Observers(k), "GAME_LEAVE_EVENT") \subseteq sent'
        /\ UNCHANGED << client, awale >>
    BY <1>1, <2>1 DEF on_game_leave, Handled
  <2>4. i = k
    BY <2>2, <2>3 DEF Changed
  <2>5. /\ {c} \subseteq { m.to : m \in sent' }
        /\ (Players(i) \ {c}) \cup Observers(i) \subseteq { m.to : m \in sent' }
    BY <2>3, <2>4, TheAddressedAreTold
  <2> QED
    BY <2>3, <2>5 DEF Told, Players
<1>2. CASE RunningOf(c) = {}
  BY <1>2 DEF on_game_leave, Failed, lobby, Changed
<1> QED
  BY <1>1, <1>2

(* Nothing happens to a game or an offer behind the back of its players    *)
(* and observers: the command that changes it is the one that tells them.  *)
THEOREM ChangesAreTold == Spec => EveryoneInvolvedIsTold
<1>1. TableInv /\ [Next]_vars
        => [ \A i \in LobbyIdx :
               << state[i], awale[i] >>' # << state[i], awale[i] >>
                 => Players(i)' \cup Observers(i) \subseteq { m.to : m \in sent' } ]_vars
  <2> SUFFICES ASSUME TableInv, [Next]_vars, NEW i \in LobbyIdx, Changed(i)
               PROVE  Told(i)
    BY DEF Changed, Told
  <2>1. CASE UNCHANGED vars
    BY <2>1 DEF vars, lobby, Changed
  <2>2. ASSUME NEW c \in Clients, Register(c) PROVE Told(i)
    BY <2>2 DEF Register, lobby, Changed
  <2>3. ASSUME NEW c \in Clients, on_game_state(c) PROVE Told(i)
    BY <2>3 DEF on_game_state, Failed, lobby, Changed
  <2>4. ASSUME NEW c \in Clients, NEW d \in Clients, NEW observe \in BOOLEAN,
               on_game_observe(c, d, observe)
        PROVE  Told(i)
    <3>1. UNCHANGED << state, awale >>
      BY <2>4 DEF on_game_observe, TakeSlot, FreeSlot, Failed, Crashes, lobby
    <3> QED
      BY <3>1 DEF Changed
  <2>5. ASSUME NEW c \in Clients, Command(c) PROVE Told(i)
    BY <2>3, <2>4, <2>5, ChallengeTells, ChallengeHandleTells, GamePlayTells, GameLeaveTells
       DEF Command
  <2> QED
    BY <2>1, <2>2, <2>5 DEF Next
<1> QED
  BY <1>1, TableInvariant, PTL DEF Spec, EveryoneInvolvedIsTold
=============================================================================
