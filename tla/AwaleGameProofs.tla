-------------------------- MODULE AwaleGameProofs ---------------------------
(***************************************************************************)
(* Proofs about whole games for boards of every size: whatever the callers *)
(* of play() ask for, no seed is lost, the player to move has one, the two *)
(* sowing loops agree, and a game ends when and for whom it should.        *)
(***************************************************************************)
EXTENDS AwaleGame, RulesProofs

(* The inductive invariant.  Counted is SeedConservation of running        *)
(* totals; a caller stops exactly when status() says so.                   *)
GameInv ==
  /\ TypeOK
  /\ Counted(awale)
  /\ TurnHolderHasSeeds
  /\ over = GameOver(awale)

LEMMA InitGameInv == Init => GameInv
<1> SUFFICES ASSUME Init PROVE GameInv
  OBVIOUS
<1>1. awale \in ResetAwale /\ validity = "INVALID" /\ over = FALSE
  BY DEF Init
<1>2. /\ Counted(awale) /\ PlayerHasSeeds(awale.current, awale.grid)
      /\ ~GameOver(awale)
  BY <1>1, ResetIsFair, ResetGoesOn
<1>3. GameOver(awale) \in BOOLEAN
  BY DEF GameOver
<1> QED
  BY <1>1, <1>2, <1>3 DEF GameInv, TypeOK, TurnHolderHasSeeds, Counted

LEMMA PlayKeepsGameInv ==
  ASSUME GameInv, NEW player \in PlayerID, NEW target, Play(player, target)
  PROVE  GameInv'
<1>1. /\ validity' = PlayValidity(awale, player, target)
      /\ awale' = AfterPlay(awale, player, target)
      /\ over' = GameOver(awale')
  BY DEF Play
<1>2. Counted(awale) /\ awale \in Awale /\ PlayerHasSeeds(awale.current, awale.grid)
  BY DEF GameInv, TypeOK, TurnHolderHasSeeds
<1>3. Counted(awale')
  BY <1>1, <1>2, PlayKeepsCounted
<1>4. TurnHolderHasSeeds'
  BY <1>1, <1>2, PlayKeepsTheTurnHolderInSeeds DEF TurnHolderHasSeeds
<1>5. validity' \in Validity
  BY <1>1 DEF PlayValidity, IsCoupValid, Validity
<1>6. over' \in BOOLEAN
  BY <1>1 DEF GameOver
<1> QED
  BY <1>1, <1>3, <1>4, <1>5, <1>6 DEF GameInv, TypeOK, Counted

(* The invariant holds of every game on every board.                       *)
THEOREM GameInvariant == Spec => []GameInv
<1>1. GameInv /\ [Next]_vars => GameInv'
  <2> SUFFICES ASSUME GameInv, [Next]_vars PROVE GameInv'
    OBVIOUS
  <2>1. CASE UNCHANGED vars
    BY <2>1 DEF vars, GameInv, TypeOK, TurnHolderHasSeeds
  <2>2. CASE Next
    BY <2>2, PlayKeepsGameInv DEF Next
  <2> QED
    BY <2>1, <2>2
<1> QED
  BY <1>1, InitGameInv, PTL DEF Spec

(* Every count of a game stays within the seeds in play.                   *)
THEOREM GameTypeCorrect == Spec => []TypeOK
BY GameInvariant, PTL DEF GameInv

(* Whole moves conserve seeds, with every lap and every capture.           *)
THEOREM GameConservesSeeds == Spec => []SeedConservation
<1>1. GameInv => SeedConservation
  BY CountedAddsUp DEF GameInv, SeedConservation
<1> QED
  BY <1>1, GameInvariant, PTL

(* The famine rule does its work: whose turn it is can sow, and the path   *)
(* of play() that passes a turn back is never taken.                       *)
THEOREM TurnHolderCanSow == Spec => []TurnHolderHasSeeds
BY GameInvariant, PTL DEF GameInv

(* The two hand-written copies of the sowing loop agree on every move of   *)
(* every game: the grid that was validated is the grid that is left.       *)
THEOREM ValidatedIsMade == Spec => []ValidatedMoveIsTheMoveMade
<1>1. GameInv => ValidatedMoveIsTheMoveMade
  <2> SUFFICES ASSUME GameInv, NEW t \in Rows
               PROVE  SowSeeds(awale.current, awale.grid, t)
                        = SowSeedsUpdateGridScore(awale.current, awale, t).grid
    BY DEF ValidatedMoveIsTheMoveMade
  <2>1. awale \in NatAwale /\ awale.current \in PlayerID
    BY AwaleGridIsNat DEF GameInv, TypeOK, Awale
  <2> QED
    BY <2>1, LoopsAgree
<1> QED
  BY <1>1, GameInvariant, PTL

(* A stalemate is never called while a pit could be sown.                  *)
THEOREM StalematesStay == Spec => []StalemateIsFinal
<1>1. GameInv => StalemateIsFinal
  BY AwaleGridIsNat, StalematesAreFinal DEF GameInv, TypeOK, StalemateIsFinal
<1> QED
  BY <1>1, GameInvariant, PTL

(* What a step is: nothing to the game, or a valid move.                   *)
LEMMA StepIsARefusalOrAMove ==
  ASSUME GameInv, [Next]_vars
  PROVE  \/ UNCHANGED << awale, over >>
         \/ \E p \in PlayerID, t \in Rows, made \in NatAwale :
              /\ ~over /\ awale.current = p /\ awale.grid[t][p] # 0
              /\ TakesFromTheOther(p, awale, t, made)
              /\ awale' =
                   [current |-> Opponent(p), score |-> made.score, grid |-> made.grid]
              /\ over' = GameOver(awale')
<1>1. CASE UNCHANGED vars
  BY <1>1 DEF vars
<1>2. ASSUME NEW p \in PlayerID, NEW t \in Targets, Play(p, t),
             PlayValidity(awale, p, t) # "VALID"
      PROVE  UNCHANGED << awale, over >>
  BY <1>2, RefusedPlay DEF Play, GameInv
<1>3. ASSUME NEW p \in PlayerID, NEW t \in Targets, Play(p, t),
             PlayValidity(awale, p, t) = "VALID"
      PROVE  /\ t \in Rows
             /\ \E made \in NatAwale :
                  /\ ~over /\ awale.current = p /\ awale.grid[t][p] # 0
                  /\ TakesFromTheOther(p, awale, t, made)
                  /\ awale' =
                       [current |-> Opponent(p), score |-> made.score, grid |-> made.grid]
                  /\ over' = GameOver(awale')
  <2>1. awale \in Awale
    BY DEF GameInv, TypeOK
  <2>2. ~over /\ awale' = AfterPlay(awale, p, t) /\ over' = GameOver(awale')
    BY <1>3 DEF Play
  <2> QED
    BY <1>3, <2>1, <2>2, ValidPlay
<1> QED
  BY <1>1, <1>2, <1>3 DEF Next

(* A game that ends on points is won by the player who has just moved, and *)
(* winner() says so; a stalemate leaves both players below MAX_SCORE.      *)
THEOREM DecisionsAreRight == Spec => DecidedForTheWinner
<1>1. GameInv /\ GameInv' /\ [Next]_vars
        => [ ~over /\ over' =>
               \/ /\ Status(awale)' = "GAME_OVER_PLAYER1_WINS"
                  /\ Winner(awale)' = {PLAYER1} /\ awale.current = PLAYER1
               \/ /\ Status(awale)' = "GAME_OVER_PLAYER2_WINS"
                  /\ Winner(awale)' = {PLAYER2} /\ awale.current = PLAYER2
               \/ /\ Status(awale)' = "GAME_OVER_STALEMATE"
                  /\ \A p \in PlayerID : awale'.score[p] < MAX_SCORE ]_vars
  <2> SUFFICES ASSUME GameInv, GameInv', [Next]_vars, ~over, over'
               PROVE  \/ /\ Status(awale)' = "GAME_OVER_PLAYER1_WINS"
                         /\ Winner(awale)' = {PLAYER1} /\ awale.current = PLAYER1
                      \/ /\ Status(awale)' = "GAME_OVER_PLAYER2_WINS"
                         /\ Winner(awale)' = {PLAYER2} /\ awale.current = PLAYER2
                      \/ /\ Status(awale)' = "GAME_OVER_STALEMATE"
                         /\ \A p \in PlayerID : awale'.score[p] < MAX_SCORE
    OBVIOUS
  <2>1. PICK p \in PlayerID, t \in Rows, made \in NatAwale :
          /\ awale.current = p
          /\ TakesFromTheOther(p, awale, t, made)
          /\ awale' = [current |-> Opponent(p), score |-> made.score, grid |-> made.grid]
    BY StepIsARefusalOrAMove
  <2>2. awale'.score[Opponent(p)] = awale.score[Opponent(p)]
    BY <2>1 DEF TakesFromTheOther
  <2>3. /\ PlayerID = {PLAYER1, PLAYER2} /\ PLAYER1 # PLAYER2
        /\ Opponent(PLAYER1) = PLAYER2 /\ Opponent(PLAYER2) = PLAYER1
    BY DEF PlayerID, Opponent, PLAYER1, PLAYER2
  <2> DEFINE a == awale'.score[PLAYER1]
             b == awale'.score[PLAYER2]
  <2>4. a \in Nat /\ b \in Nat /\ ~(a >= MAX_SCORE /\ b >= MAX_SCORE) /\ MAX_SCORE \in Nat
    <3>1. ASSUME NEW game, Counted(game)
          PROVE  /\ game.score[PLAYER1] \in Nat /\ game.score[PLAYER2] \in Nat
                 /\ ~(game.score[PLAYER1] >= MAX_SCORE /\ game.score[PLAYER2] >= MAX_SCORE)
      BY <3>1, ScoresAreHalved
    <3>2. Counted(awale')
      BY DEF GameInv
    <3> QED
      BY <3>1, <3>2, RulesAssumption
  <2>5. /\ ~(awale.score[PLAYER1] >= MAX_SCORE) /\ ~(awale.score[PLAYER2] >= MAX_SCORE)
    <3>1. ~GameOver(awale)
      BY DEF GameInv
    <3>2. awale.score[PLAYER1] \in Nat /\ awale.score[PLAYER2] \in Nat
      BY ScoresAreHalved DEF GameInv
    <3> QED
      BY <3>1, <3>2, RulesAssumption DEF GameOver, Status
  <2>6. GameOver(awale')
    BY DEF GameInv
  <2>7. CASE a >= MAX_SCORE
    <3>1. Status(awale)' = "GAME_OVER_PLAYER1_WINS"
      BY <2>4, <2>7 DEF Status
    <3>2. p = PLAYER1
      BY <2>2, <2>3, <2>5, <2>7
    <3>3. a > b
      BY <2>4, <2>7
    <3>4. Winner(awale)' = {PLAYER1}
      BY <2>3, <2>4, <3>3 DEF Winner
    <3> QED
      BY <2>1, <3>1, <3>2, <3>4
  <2>8. CASE ~(a >= MAX_SCORE) /\ b >= MAX_SCORE
    <3>1. Status(awale)' = "GAME_OVER_PLAYER2_WINS"
      BY <2>4, <2>8 DEF Status
    <3>2. p = PLAYER2
      BY <2>2, <2>3, <2>5, <2>8
    <3>3. b > a
      BY <2>4, <2>8
    <3>4. Winner(awale)' = {PLAYER2}
      BY <2>3, <2>4, <3>3 DEF Winner
    <3> QED
      BY <2>1, <3>1, <3>2, <3>4
  <2>9. CASE ~(a >= MAX_SCORE) /\ ~(b >= MAX_SCORE)
    <3>1. Status(awale') = "GAME_OVER_STALEMATE"
      BY <2>6, <2>9 DEF GameOver, Status
    <3>2. \A q \in PlayerID : awale'.score[q] < MAX_SCORE
      BY <2>3, <2>4, <2>9
    <3> QED
      BY <3>1, <3>2
  <2> QED
    BY <2>7, <2>8, <2>9
<1> QED
  BY <1>1, GameInvariant, PTL DEF Spec, DecidedForTheWinner

(* A move costs the opponent no points, takes up one pit of the mover's    *)
(* and empties pits of the opponent only for the mover's score.            *)
THEOREM MovesTakeFromTheOther == Spec => MoverTakesFromTheOpponentOnly
<1>1. GameInv /\ [Next]_vars
        => [ LET mover == awale.current
                 other == Opponent(mover)
             IN  /\ awale'.score[other] = awale.score[other]
                 /\ \A i, j \in Rows :
                      /\ awale'.grid[i][mover] < awale.grid[i][mover]
                      /\ awale'.grid[j][mover] < awale.grid[j][mover]
                      => i = j /\ awale'.grid[i][mover] = 0
                 /\ \A i \in Rows :
                      awale'.grid[i][other] < awale.grid[i][other]
                        => awale'.score[mover] >= awale.score[mover] + 2 ]_vars
  <2> SUFFICES ASSUME GameInv, [Next]_vars
               PROVE  LET mover == awale.current
                          other == Opponent(mover)
                      IN  /\ awale'.score[other] = awale.score[other]
                          /\ \A i, j \in Rows :
                               /\ awale'.grid[i][mover] < awale.grid[i][mover]
                               /\ awale'.grid[j][mover] < awale.grid[j][mover]
                               => i = j /\ awale'.grid[i][mover] = 0
                          /\ \A i \in Rows :
                               awale'.grid[i][other] < awale.grid[i][other]
                                 => awale'.score[mover] >= awale.score[mover] + 2
    OBVIOUS
  <2> DEFINE mover == awale.current
             other == Opponent(mover)
  <2>1. /\ mover \in PlayerID /\ other \in PlayerID
        /\ \A i \in Rows, q \in PlayerID : awale.grid[i][q] \in Nat
    BY AwaleGridIsNat, TheOther DEF GameInv, TypeOK, Awale, NatGrid
  <2>2. CASE UNCHANGED awale
    <3>1. \A i \in Rows : /\ ~(awale'.grid[i][mover] < awale.grid[i][mover])
                          /\ ~(awale'.grid[i][other] < awale.grid[i][other])
      BY <2>1, <2>2
    <3> QED
      BY <2>2, <3>1
  <2>3. CASE \E p \in PlayerID, t \in Rows, made \in NatAwale :
               /\ awale.current = p
               /\ TakesFromTheOther(p, awale, t, made)
               /\ awale' =
                    [current |-> Opponent(p), score |-> made.score, grid |-> made.grid]
    <3>1. PICK t \in Rows, made \in NatAwale :
            /\ TakesFromTheOther(mover, awale, t, made)
            /\ awale'.score = made.score /\ awale'.grid = made.grid
      BY <2>3
    <3>2. /\ \A i \in Rows, q \in PlayerID : made.grid[i][q] \in Nat
      BY DEF NatAwale, NatGrid
    <3>3. /\ awale'.score[other] = awale.score[other]
          /\ awale'.grid[t][mover] = 0
          /\ \A i \in Rows \ {t} : awale'.grid[i][mover] >= awale.grid[i][mover]
          /\ \A i \in Rows :
               \/ awale'.grid[i][other] >= awale.grid[i][other]
               \/ awale'.score[mover] >= awale.score[mover] + 2
      BY <3>1 DEF TakesFromTheOther
    <3> HIDE DEF mover, other
    <3>4. ASSUME NEW i \in Rows, awale'.grid[i][mover] < awale.grid[i][mover]
          PROVE  i = t
      BY <2>1, <3>1, <3>2, <3>3, <3>4
    <3>5. ASSUME NEW i \in Rows, awale'.grid[i][other] < awale.grid[i][other]
          PROVE  awale'.score[mover] >= awale.score[mover] + 2
      BY <2>1, <3>1, <3>2, <3>3, <3>5
    <3> QED
      BY <3>3, <3>4, <3>5 DEF mover, other
  <2> QED
    BY <2>2, <2>3, StepIsARefusalOrAMove
<1> QED
  BY <1>1, GameInvariant, PTL DEF Spec, MoverTakesFromTheOpponentOnly
=============================================================================
