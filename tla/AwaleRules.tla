----------------------------- MODULE AwaleRules -----------------------------
(***************************************************************************)
(* The rules of the game as lib/awale/awale.c computes them: pure          *)
(* operators on the value of a struct Awale.  The board is a grid with     *)
(* GRID_ROWS rows and one column per player; grid[i][j] is pit i of        *)
(* player j, as in the source.                                             *)
(***************************************************************************)
EXTENDS Integers

CONSTANTS
  GRID_ROWS,  (* pits per player; 6 in awale.h                             *)
  SEEDS,      (* seeds a pit starts with; 4 in reset()                     *)
  MAX_SCORE   (* the score that wins; 25 in awale.h                        *)

(***************************************************************************)
(* A player wins with more than half of the seeds: 25 of 2 * 6 * 4.        *)
(***************************************************************************)
ASSUME RulesAssumption ==
  /\ GRID_ROWS \in Nat \ {0}
  /\ SEEDS \in Nat \ {0}
  /\ MAX_SCORE \in Nat
  /\ MAX_SCORE > GRID_ROWS * SEEDS

PLAYER1 == 0
PLAYER2 == 1
PlayerID == {PLAYER1, PLAYER2}

Rows == 0 .. GRID_ROWS - 1

TotalSeeds == 2 * GRID_ROWS * SEEDS

Validity ==
  { "VALID", "INVALID_NO_SEEDS_IN_CASE", "INVALID_OPONENT_HAS_NO_SEEDS",
    "INVALID_NOT_PLAYER_ROUND", "INVALID_TARGET_OUT_OF_BOUNDS" }

GameStatus ==
  { "PASS_TURN_NO_SEEDS", "GAME_OVER_STALEMATE", "GAME_OVER_PLAYER1_WINS",
    "GAME_OVER_PLAYER2_WINS", "GAME_NOT_OVER" }

(* A grid, and struct Awale.  Every count is at most the number of seeds   *)
(* in play.                                                                *)
Grid == [Rows -> [PlayerID -> 0 .. TotalSeeds]]

Awale ==
  [ current : PlayerID,
    score   : [PlayerID -> 0 .. TotalSeeds],
    grid    : Grid ]

Opponent(player) == (player + 1) % 2

(* next_player(awale) *)
NextPlayer(awale) == Opponent(awale.current)

(* The boards reset() produces: either player may begin (rand() % 2).      *)
ResetAwale ==
  { [ current |-> p,
      score   |-> [q \in PlayerID |-> 0],
      grid    |-> [i \in Rows |-> [q \in PlayerID |-> SEEDS]] ] : p \in PlayerID }

PlayerHasSeeds(player, grid) == \E i \in Rows : grid[i][player] > 0

(* The pits numbered row by row, and the seeds in all of them.             *)
Pits == 2 * GRID_ROWS

PitRow(k) == k \div 2
PitLine(k) == k % 2

SeedsIn(grid) ==
  LET first[k \in 0 .. Pits] ==
        IF k = 0 THEN 0 ELSE first[k - 1] + grid[PitRow(k - 1)][PitLine(k - 1)]
  IN  first[Pits]

-----------------------------------------------------------------------------
(***************************************************************************)
(* Sowing.  A position is the pair (current, line) of the sowing loops.    *)
(* Player 2's column is walked upwards and player 1's downwards, so the    *)
(* walk is a cycle through the 2 * GRID_ROWS pits.                         *)
(***************************************************************************)
Position == [row : Rows, line : PlayerID]

(* Where one iteration of a sowing loop moves to.  The source spells the   *)
(* last row 5; it is GRID_ROWS - 1 there as here.                          *)
Ahead(pos) ==
  CASE pos.line = PLAYER2 /\ pos.row + 1 < GRID_ROWS -> [pos EXCEPT !.row = @ + 1]
    [] pos.line = PLAYER2 /\ pos.row + 1 = GRID_ROWS -> [pos EXCEPT !.line = PLAYER1]
    [] pos.line = PLAYER1 /\ pos.row > 0 -> [pos EXCEPT !.row = @ - 1]
    [] pos.line = PLAYER1 /\ pos.row = 0 -> [pos EXCEPT !.line = PLAYER2]

(* Where the next seed falls: the pit the seeds came from is passed over.  *)
NextSown(pos, begin) ==
  IF Ahead(pos) = begin THEN Ahead(begin) ELSE Ahead(pos)

(* Plausible slip: capturing on either side of the board.                  *)
CapturesOnBothSides(player, pos, seeds) == seeds \in {2, 3}

(* A seed that brings an opponent's pit to 2 or 3 seeds captures the pit.  *)
Captures(player, pos, seeds) ==
  /\ pos.line = Opponent(player)
  /\ seeds \in {2, 3}

(* Plausible slip in one of the two copies of the loop: no capture on 3.   *)
DropOnCopyCapturingTwos(player, grid, pos) ==
  LET n == grid[pos.row][pos.line] + 1
  IN  [grid EXCEPT ![pos.row][pos.line] =
         IF Captures(player, pos, n) /\ n = 2 THEN 0 ELSE n]

(* One seed sown on the copy that validates a move: the body of sow_seeds. *)
DropOnCopy(player, grid, pos) ==
  LET n == grid[pos.row][pos.line] + 1
  IN  [grid EXCEPT ![pos.row][pos.line] = IF Captures(player, pos, n) THEN 0 ELSE n]

(* Plausible slips: crediting the pit without the seed just sown, and      *)
(* crediting it without emptying it.                                       *)
DropAndScoreWithoutLastSeed(player, awale, pos) ==
  LET n == awale.grid[pos.row][pos.line] + 1
  IN  IF Captures(player, pos, n)
      THEN [awale EXCEPT !.grid[pos.row][pos.line] = 0, !.score[player] = @ + n - 1]
      ELSE [awale EXCEPT !.grid[pos.row][pos.line] = n]

DropAndScoreKeepingThePit(player, awale, pos) ==
  LET n == awale.grid[pos.row][pos.line] + 1
  IN  IF Captures(player, pos, n)
      THEN [awale EXCEPT !.grid[pos.row][pos.line] = n, !.score[player] = @ + n]
      ELSE [awale EXCEPT !.grid[pos.row][pos.line] = n]

(* One seed sown for good: the body of sow_seeds_update_grid_score, which  *)
(* also credits the captured pit to the player.                            *)
DropAndScore(player, awale, pos) ==
  LET n == awale.grid[pos.row][pos.line] + 1
  IN  IF Captures(player, pos, n)
      THEN [awale EXCEPT !.grid[pos.row][pos.line] = 0, !.score[player] = @ + n]
      ELSE [awale EXCEPT !.grid[pos.row][pos.line] = n]

(* The grid sow_seeds leaves in the copy.                                  *)
SowSeeds(player, grid, target) ==
  LET begin == [row |-> target, line |-> player]
      sown[n \in 0 .. grid[target][player]] ==
        IF n = 0
        THEN [pos |-> begin, grid |-> [grid EXCEPT ![target][player] = 0]]
        ELSE LET last == sown[n - 1]
                 pos == NextSown(last.pos, begin)
             IN  [pos |-> pos, grid |-> DropOnCopy(player, last.grid, pos)]
  IN  sown[grid[target][player]].grid

(* The game sow_seeds_update_grid_score leaves behind.                     *)
SowSeedsUpdateGridScore(player, awale, target) ==
  LET begin == [row |-> target, line |-> player]
      sown[n \in 0 .. awale.grid[target][player]] ==
        IF n = 0
        THEN [pos |-> begin, awale |-> [awale EXCEPT !.grid[target][player] = 0]]
        ELSE LET last == sown[n - 1]
                 pos == NextSown(last.pos, begin)
             IN  [pos |-> pos, awale |-> DropAndScore(player, last.awale, pos)]
  IN  sown[awale.grid[target][player]].awale

-----------------------------------------------------------------------------
(***************************************************************************)
(* Validation, status and a whole call of play().                          *)
(***************************************************************************)
(* Plausible slip: validation without the famine rule.                     *)
IsCoupValidWithoutFamine(awale, target) ==
  CASE target \notin Rows -> "INVALID_TARGET_OUT_OF_BOUNDS"
    [] target \in Rows /\ awale.grid[target][awale.current] = 0
         -> "INVALID_NO_SEEDS_IN_CASE"
    [] OTHER -> "VALID"

(* is_coup_valid(awale, target)                                            *)
IsCoupValid(awale, target) ==
  CASE target \notin Rows -> "INVALID_TARGET_OUT_OF_BOUNDS"
    [] target \in Rows /\ awale.grid[target][awale.current] = 0
         -> "INVALID_NO_SEEDS_IN_CASE"
    [] OTHER
         -> IF PlayerHasSeeds(NextPlayer(awale),
                              SowSeeds(awale.current, awale.grid, target))
            THEN "VALID"
            ELSE "INVALID_OPONENT_HAS_NO_SEEDS"

(* Plausible slip: one seed too many asked of player 1.                    *)
CanPlayOffByOne(awale, player) ==
  \E i \in Rows :
    awale.grid[i][player] >= (IF player = PLAYER1 THEN i + 2 ELSE i - 1)

(* can_play: the test made on each pit differs between the players.        *)
CanPlay(awale, player) ==
  \E i \in Rows :
    awale.grid[i][player] >= (IF player = PLAYER1 THEN i + 1 ELSE i - 1)

Status(awale) ==
  CASE awale.score[PLAYER1] >= MAX_SCORE -> "GAME_OVER_PLAYER1_WINS"
    [] awale.score[PLAYER1] < MAX_SCORE /\ awale.score[PLAYER2] >= MAX_SCORE
         -> "GAME_OVER_PLAYER2_WINS"
    [] OTHER
         -> CASE ~PlayerHasSeeds(awale.current, awale.grid)
                 /\ CanPlay(awale, NextPlayer(awale)) -> "PASS_TURN_NO_SEEDS"
              [] ~PlayerHasSeeds(NextPlayer(awale), awale.grid)
                 /\ ~CanPlay(awale, awale.current) -> "GAME_OVER_STALEMATE"
              [] OTHER -> "GAME_NOT_OVER"

GameOver(awale) == Status(awale) \notin {"GAME_NOT_OVER", "PASS_TURN_NO_SEEDS"}

(* Plausible slip: the arms of the comparison swapped.                     *)
WinnerSwapped(awale) ==
  { p \in PlayerID : awale.score[p] < awale.score[Opponent(p)] }

(* winner(): the players it names, none when the scores are equal.         *)
Winner(awale) ==
  { p \in PlayerID : awale.score[p] > awale.score[Opponent(p)] }

(* The value play() returns.                                               *)
PlayValidity(awale, player, target) ==
  IF awale.current = player THEN IsCoupValid(awale, target)
                            ELSE "INVALID_NOT_PLAYER_ROUND"

(* The end of a valid play(): the turn passes, and comes straight back     *)
(* when the other player has nothing to sow.                               *)
EndTurn(awale) ==
  LET passed == [awale EXCEPT !.current = Opponent(@)]
  IN  IF Status(passed) = "PASS_TURN_NO_SEEDS" THEN awale ELSE passed

AfterPlay(awale, player, target) ==
  IF PlayValidity(awale, player, target) = "VALID"
  THEN EndTurn(SowSeedsUpdateGridScore(player, awale, target))
  ELSE awale
=============================================================================
