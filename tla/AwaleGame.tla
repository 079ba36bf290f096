----------------------------- MODULE AwaleGame ------------------------------
(***************************************************************************)
(* One game of awale as its callers drive it: reset() and then calls of    *)
(* play(), each followed by a look at status() that ends the game.  The    *)
(* server (lib/server/server.c, awale_play) calls play() with whatever     *)
(* player and target a request names; the command-line game                *)
(* (AwaleCli) is stricter.                                                 *)
(***************************************************************************)
EXTENDS AwaleRules

VARIABLES
  awale,     (* the struct Awale                                           *)
  validity,  (* what the last call of play() returned; "INVALID" before it *)
  over       (* the caller has seen a status that ends the game            *)

vars == << awale, validity, over >>

Targets == -1 .. GRID_ROWS

TypeOK ==
  /\ awale \in Awale
  /\ validity \in Validity \cup {"INVALID"}
  /\ over \in BOOLEAN

Init ==
  /\ awale \in ResetAwale
  /\ validity = "INVALID"
  /\ over = FALSE

(* A call of play() and the look at status() that follows it.              *)
Play(player, target) ==
  /\ ~over
  /\ validity' = PlayValidity(awale, player, target)
  /\ awale' = AfterPlay(awale, player, target)
  /\ over' = GameOver(awale')

Next == \E player \in PlayerID, target \in Targets : Play(player, target)

Spec == Init /\ [][Next]_vars

-----------------------------------------------------------------------------
(* Sowing and capturing only move seeds: every seed reset() dealt is in a  *)
(* pit or in a score after every play(), whatever laps it made and however *)
(* many pits it captured on the way.                                       *)
SeedConservation ==
  SeedsIn(awale.grid) + awale.score[PLAYER1] + awale.score[PLAYER2] = TotalSeeds

(* The famine rule of is_coup_valid (awale.c:194) does its work through    *)
(* play(): the player whose turn it is always has a seed to sow, so the    *)
(* PASS_TURN_NO_SEEDS path of play() and of the callers is never needed.   *)
TurnHolderHasSeeds == PlayerHasSeeds(awale.current, awale.grid)

(* sow_seeds and sow_seeds_update_grid_score are two hand-written copies   *)
(* of one loop (awale.c:45 and 106): the grid a move was validated on is  *)
(* the grid it leaves behind.                                              *)
ValidatedMoveIsTheMoveMade ==
  \A target \in Rows :
    SowSeeds(awale.current, awale.grid, target)
      = SowSeedsUpdateGridScore(awale.current, awale, target).grid

(* GAME_OVER_STALEMATE (awale.c:262) is never premature: no target is a    *)
(* valid move of the player who would have to go on.                       *)
StalemateIsFinal ==
  Status(awale) = "GAME_OVER_STALEMATE"
    => \A target \in Rows : IsCoupValid(awale, target) # "VALID"

(* The status names the right winner: a game that ended on points was won  *)
(* by the player winner() names, who made the last move, and a stalemate   *)
(* leaves both below MAX_SCORE.                                            *)
DecidedForTheWinner ==
  [][ ~over /\ over' =>
        \/ /\ Status(awale)' = "GAME_OVER_PLAYER1_WINS"
           /\ Winner(awale)' = {PLAYER1} /\ awale.current = PLAYER1
        \/ /\ Status(awale)' = "GAME_OVER_PLAYER2_WINS"
           /\ Winner(awale)' = {PLAYER2} /\ awale.current = PLAYER2
        \/ /\ Status(awale)' = "GAME_OVER_STALEMATE"
           /\ \A p \in PlayerID : awale'.score[p] < MAX_SCORE ]_vars

(* A move takes from the opponent only: the opponent's score stays, the    *)
(* mover's own pits lose nothing but the one it sowed from, and an         *)
(* opponent's pit that shrank was captured, with its seeds credited to the *)
(* mover.                                                                  *)
MoverTakesFromTheOpponentOnly ==
  [][ LET mover == awale.current
          other == Opponent(mover)
      IN  /\ awale'.score[other] = awale.score[other]
          /\ \A i, j \in Rows :
               /\ awale'.grid[i][mover] < awale.grid[i][mover]
               /\ awale'.grid[j][mover] < awale.grid[j][mover]
               => i = j /\ awale'.grid[i][mover] = 0
          /\ \A i \in Rows :
               awale'.grid[i][other] < awale.grid[i][other]
                 => awale'.score[mover] >= awale.score[mover] + 2 ]_vars

-----------------------------------------------------------------------------
(* What the prompts promise: a player refused a move because the opponent  *)
(* has no seeds is told "Please choose another move."                      *)
(* (src/client/handlers/game.c:40).  For another move to exist, some pit   *)
(* must hold enough seeds to reach the opponent's side, which can_play     *)
(* looks for when status() is asked (awale.c:228-245): player 2 sows up to *)
(* the last row and on, player 1 down to row 0 and on.                     *)
SeedsToReachTheOpponent(player, i) ==
  IF player = PLAYER1 THEN i + 1 ELSE GRID_ROWS - i

NotOverMeansTheOpponentIsInReach ==
  /\ Status(awale) = "GAME_NOT_OVER"
  /\ ~PlayerHasSeeds(NextPlayer(awale), awale.grid)
  => \E i \in Rows :
       awale.grid[i][awale.current] >= SeedsToReachTheOpponent(awale.current, i)
=============================================================================
