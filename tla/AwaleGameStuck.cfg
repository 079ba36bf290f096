\* Does a game that is not over always leave its player a move?
CONSTANTS
  GRID_ROWS = 3
  SEEDS = 3
  MAX_SCORE = 10
SPECIFICATION Spec
INVARIANT NotOverMeansTheOpponentIsInReach
CHECK_DEADLOCK FALSE
