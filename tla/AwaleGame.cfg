\* Every game on a board of 2 * 3 pits with 3 seeds each; 10 of 18 seeds win.
CONSTANTS
  GRID_ROWS = 3
  SEEDS = 3
  MAX_SCORE = 10
SPECIFICATION Spec
INVARIANT TypeOK
INVARIANT SeedConservation
INVARIANT TurnHolderHasSeeds
INVARIANT ValidatedMoveIsTheMoveMade
INVARIANT StalemateIsFinal
PROPERTY DecidedForTheWinner
PROPERTY MoverTakesFromTheOpponentOnly
CHECK_DEADLOCK FALSE
