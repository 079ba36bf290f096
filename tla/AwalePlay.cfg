\* Every call of play() in every game on a board of 2 * 3 pits of 2 seeds:
\* a pit can hold enough seeds to be sown past itself.
CONSTANTS
  GRID_ROWS = 3
  SEEDS = 2
  MAX_SCORE = 7
SPECIFICATION Spec
INVARIANT TypeOK
INVARIANT NeverSownBack
INVARIANT SeedsAreConserved
INVARIANT CopyWithinSeeds
PROPERTY ImplementsAwaleGame
PROPERTY PlayReturns
CHECK_DEADLOCK FALSE
