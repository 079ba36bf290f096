\* Every session of the terminal game on a board of 2 * 3 pits of 2 seeds.
CONSTANTS
  GRID_ROWS = 3
  SEEDS = 2
  MAX_SCORE = 7
SPECIFICATION Spec
INVARIANT DrawMeansEven
PROPERTY PlaysAwale
CHECK_DEADLOCK FALSE
