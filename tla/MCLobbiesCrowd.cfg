\* Three clients, two lobbies with two scanned slots each: offers that cross,
\* two games of one client, more watchers than slots.  The board is too small for
\* a move; games end when a player leaves.
CONSTANTS
  GRID_ROWS = 1
  SEEDS = 1
  MAX_SCORE = 2
  Clients = {c1, c2, c3}
  NULL = NULL
  MAX_CLIENTS = 4
  Commands = {"CHALLENGE", "CHALLENGE_HANDLE", "GAME_PLAY", "GAME_LEAVE", "GAME_OBSERVE", "GAME_UNOBSERVE"}
SPECIFICATION Spec
SYMMETRY ClientSymmetry
VIEW TableView
INVARIANT OneWaitingPerPair
INVARIANT NobodyWatchesTwice
PROPERTY OnlyTheChallengedAnswers
PROPERTY StrangersCannotTouch
PROPERTY EveryoneInvolvedIsTold
CHECK_DEADLOCK FALSE
