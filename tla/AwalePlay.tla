----------------------------- MODULE AwalePlay ------------------------------
(***************************************************************************)
(* play() as awale.c runs it: the early returns, the sowing loop of        *)
(* sow_seeds on a copy of the grid, the famine test, the second sowing     *)
(* loop of sow_seeds_update_grid_score on the game itself, and the end of  *)
(* the turn.  One step is one iteration of a loop.  AwaleGame gives the    *)
(* same call as one step; this module is shown to implement it, and its    *)
(* invariants are proved in AwalePlayProofs.                               *)
(***************************************************************************)
EXTENDS AwaleRules

VARIABLES
  awale,     (* the struct Awale                                           *)
  validity,  (* what the last call returned; "INVALID" before it           *)
  over,      (* the caller has seen a status that ends the game            *)
  pc,        (* where the call in progress is                              *)
  player,    (* its arguments                                              *)
  target,
  seeds,     (* locals of the sowing loops: the seeds still in hand,       *)
  pos,       (*   (current, line),                                         *)
  copy,      (*   and the copy of the grid that is_coup_valid sows on      *)
  entry      (* the game when the call began; read by no action            *)

call == << player, target, entry >>
vars == << awale, validity, over, pc, player, target, seeds, pos, copy, entry >>

TypeOK ==
  /\ awale \in Awale
  /\ entry \in Awale
  /\ copy \in Grid
  /\ validity \in Validity \cup {"INVALID"}
  /\ over \in BOOLEAN
  /\ pc \in {"idle", "simulate", "sow"}
  /\ player \in PlayerID
  /\ target \in Rows
  /\ seeds \in 0 .. TotalSeeds
  /\ pos \in Position

Begin == [row |-> target, line |-> player]

Init ==
  /\ awale \in ResetAwale
  /\ entry = awale
  /\ copy = awale.grid
  /\ validity = "INVALID"
  /\ over = FALSE
  /\ pc = "idle"
  /\ player = PLAYER1
  /\ target = 0
  /\ seeds = 0
  /\ pos = [row |-> 0, line |-> PLAYER1]

(* The call returns, and the caller looks at status().                     *)
Return(answer) ==
  /\ pc' = "idle"
  /\ validity' = answer
  /\ over' = GameOver(awale')

(* play() and is_coup_valid() return before anything is sown.              *)
Refuse(p, t) ==
  /\ pc = "idle" /\ ~over
  /\ UNCHANGED << awale, seeds, pos, copy, call >>
  /\ \/ /\ awale.current # p
        /\ Return("INVALID_NOT_PLAYER_ROUND")
     \/ /\ awale.current = p /\ t \notin Rows
        /\ Return("INVALID_TARGET_OUT_OF_BOUNDS")
     \/ /\ awale.current = p /\ t \in Rows /\ awale.grid[t][p] = 0
        /\ Return("INVALID_NO_SEEDS_IN_CASE")

(* Taking the seeds of the target pit into the hand, on the copy.          *)
BeginSimulation(p, t) ==
  /\ pc = "idle" /\ ~over
  /\ awale.current = p /\ t \in Rows /\ awale.grid[t][p] # 0
  /\ pc' = "simulate"
  /\ player' = p /\ target' = t /\ entry' = awale
  /\ seeds' = awale.grid[t][p]
  /\ pos' = [row |-> t, line |-> p]
  /\ copy' = [awale.grid EXCEPT ![t][p] = 0]
  /\ UNCHANGED << awale, validity, over >>

(* Plausible slip: the move is simulated without its captures.             *)
SimulateSeedWithoutCapture ==
  /\ pc = "simulate" /\ seeds > 0
  /\ pos' = Ahead(pos)
  /\ IF pos' = Begin
     THEN UNCHANGED << copy, seeds >>
     ELSE /\ copy' = [copy EXCEPT ![pos'.row][pos'.line] = @ + 1]
          /\ seeds' = seeds - 1
  /\ UNCHANGED << awale, validity, over, pc, call >>

(* Plausible slip: seeds-- inside the branch that captures.                *)
SimulateSeedWithoutCount ==
  /\ pc = "simulate" /\ seeds > 0
  /\ pos' = Ahead(pos)
  /\ IF pos' = Begin
     THEN UNCHANGED << copy, seeds >>
     ELSE /\ copy' = DropOnCopy(player, copy, pos')
          /\ seeds' = IF copy'[pos'.row][pos'.line] = 0 THEN seeds - 1 ELSE seeds
  /\ UNCHANGED << awale, validity, over, pc, call >>

(* One iteration of the loop of sow_seeds.                                 *)
SimulateSeed ==
  /\ pc = "simulate" /\ seeds > 0
  /\ pos' = Ahead(pos)
  /\ IF pos' = Begin
     THEN UNCHANGED << copy, seeds >>
     ELSE /\ copy' = DropOnCopy(player, copy, pos')
          /\ seeds' = seeds - 1
  /\ UNCHANGED << awale, validity, over, pc, call >>

(* The famine test refuses the move ...                                    *)
Famine ==
  /\ pc = "simulate" /\ seeds = 0
  /\ ~PlayerHasSeeds(NextPlayer(awale), copy)
  /\ UNCHANGED << awale, seeds, pos, copy, call >>
  /\ Return("INVALID_OPONENT_HAS_NO_SEEDS")

(* ... or the seeds are taken up again, for good.                          *)
BeginSowing ==
  /\ pc = "simulate" /\ seeds = 0
  /\ PlayerHasSeeds(NextPlayer(awale), copy)
  /\ pc' = "sow"
  /\ seeds' = awale.grid[target][player]
  /\ pos' = Begin
  /\ awale' = [awale EXCEPT !.grid[target][player] = 0]
  /\ UNCHANGED << validity, over, copy, call >>

(* Plausible slip: the pit the seeds came from is not passed over.         *)
SowSeedIntoBegin ==
  /\ pc = "sow" /\ seeds > 0
  /\ pos' = Ahead(pos)
  /\ awale' = DropAndScore(player, awale, pos')
  /\ seeds' = seeds - 1
  /\ UNCHANGED << validity, over, pc, copy, call >>

(* Plausible slip: the walk does not move past the pit it stands on.       *)
SowSeedInPlace ==
  /\ pc = "sow" /\ seeds > 0
  /\ pos' = pos
  /\ IF pos' = Begin
     THEN UNCHANGED << awale, seeds >>
     ELSE /\ awale' = DropAndScore(player, awale, pos')
          /\ seeds' = seeds - 1
  /\ UNCHANGED << validity, over, pc, copy, call >>

(* One iteration of the loop of sow_seeds_update_grid_score.               *)
SowSeed ==
  /\ pc = "sow" /\ seeds > 0
  /\ pos' = Ahead(pos)
  /\ IF pos' = Begin
     THEN UNCHANGED << awale, seeds >>
     ELSE /\ awale' = DropAndScore(player, awale, pos')
          /\ seeds' = seeds - 1
  /\ UNCHANGED << validity, over, pc, copy, call >>

(* The turn passes and the call returns VALID.                             *)
EndSowing ==
  /\ pc = "sow" /\ seeds = 0
  /\ awale' = EndTurn(awale)
  /\ Return("VALID")
  /\ UNCHANGED << seeds, pos, copy, call >>

Targets == -1 .. GRID_ROWS

Call == \E p \in PlayerID, t \in Targets : Refuse(p, t) \/ BeginSimulation(p, t)

Run == SimulateSeed \/ Famine \/ BeginSowing \/ SowSeed \/ EndSowing

Next == Call \/ Run

(* play() is straight-line code: once called it keeps running.             *)
Spec == Init /\ [][Next]_vars /\ WF_vars(Run)

-----------------------------------------------------------------------------
(* A call takes effect in one step for its caller: with the game of a call *)
(* in progress read as it was on entry, these steps are those of AwaleGame,*)
(* whose operators state the two loops as functions.                       *)
Atomic == INSTANCE AwaleGame WITH
  awale <- IF pc = "idle" THEN awale ELSE entry

ImplementsAwaleGame == Atomic!Spec

(* Both sowing loops end: the hand empties though the pit it came from is  *)
(* passed over on every lap without sowing (awale.c:59 and 120).           *)
PlayReturns == pc # "idle" ~> pc = "idle"

(* However many laps a hand is sown for, no seed falls back into the pit   *)
(* it came from (awale.c:71, 91, 132 and 158), on the copy or for good.    *)
NeverSownBack ==
  /\ pc = "simulate" => copy[target][player] = 0
  /\ pc = "sow" => awale.grid[target][player] = 0

-----------------------------------------------------------------------------
(* Every seed reset() dealt is in a pit, in a score or in the hand, at     *)
(* every iteration of both loops: capturing moves seeds to the score of    *)
(* the player and nothing else makes or loses one.                         *)
SeedsAreConserved ==
  SeedsIn(awale.grid) + awale.score[PLAYER1] + awale.score[PLAYER2]
    + (IF pc = "sow" THEN seeds ELSE 0) = TotalSeeds

(* The simulation of a move works with seeds it took from the copy: the    *)
(* copy and the hand together never hold more seeds than are in play, so   *)
(* the famine test is never passed by seeds that do not exist.             *)
CopyWithinSeeds ==
  SeedsIn(copy) + (IF pc = "simulate" THEN seeds ELSE 0) <= TotalSeeds
=============================================================================
