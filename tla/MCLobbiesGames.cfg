\* Three clients, two lobbies, whole games: a second game begins when the
\* first is decided or left, or runs beside it.  No one watches.
CONSTANTS
  GRID_ROWS = 2
  SEEDS = 1
  MAX_SCORE = 3
  Clients = {c1, c2, c3}
  NULL = NULL
  MAX_CLIENTS = 4
  Commands = {"CHALLENGE", "CHALLENGE_HANDLE", "GAME_PLAY", "GAME_LEAVE", "GAME_STATE"}
SPECIFICATION Spec
VIEW TableView
INVARIANT TypeOK
INVARIANT RunningGamesGoOn
INVARIANT RunningGamesAreSound
PROPERTY EachLobbyLives
CHECK_DEADLOCK FALSE
