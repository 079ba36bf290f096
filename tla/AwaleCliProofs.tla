--------------------------- MODULE AwaleCliProofs ---------------------------
(***************************************************************************)
(* Proofs about the terminal game for boards of every size: its loop is a  *)
(* caller of play() as AwaleGame has them, and it announces a draw exactly *)
(* when the scores are even.                                               *)
(***************************************************************************)
EXTENDS AwaleCli, RulesProofs

(* The inductive invariant: the loop has announced what status() says.     *)
CliInv ==
  /\ Counted(awale)
  /\ PlayerHasSeeds(awale.current, awale.grid)
  /\ announced = Announcement(awale)

(* A line is printed for the games that are over.                          *)
LEMMA AnnouncedWhenOver ==
  ASSUME NEW game
  PROVE  GameOver(game) = (Announcement(game) # "nothing")
<1>1. CASE Status(game) = "GAME_OVER_STALEMATE"
  <2>1. Announcement(game) \in {"match nul", "joueur 0", "joueur 1"}
    BY <1>1 DEF Announcement, Joueur
  <2> QED
    BY <1>1, <2>1 DEF GameOver
<1>2. CASE Status(game) # "GAME_OVER_STALEMATE"
  <2>1. Status(game) \in GameStatus
    BY DEF Status, GameStatus
  <2> QED
    BY <1>2, <2>1 DEF GameOver, GameStatus, Announcement
<1> QED
  BY <1>1, <1>2

LEMMA InitCliInv == Init => CliInv
<1> SUFFICES ASSUME Init PROVE CliInv
  OBVIOUS
<1>1. awale \in ResetAwale /\ announced = "nothing"
  BY DEF Init
<1>2. /\ Counted(awale) /\ PlayerHasSeeds(awale.current, awale.grid)
      /\ ~GameOver(awale)
  BY <1>1, ResetIsFair, ResetGoesOn
<1> QED
  BY <1>1, <1>2, AnnouncedWhenOver DEF CliInv

LEMMA AnswerKeepsCliInv ==
  ASSUME CliInv, NEW t \in Rows, Answer(t)
  PROVE  CliInv'
<1>1. /\ announced = "nothing"
      /\ coupValidity' = PlayValidity(awale, awale.current, t)
      /\ awale' = AfterPlay(awale, awale.current, t)
      /\ announced' = IF coupValidity' = "VALID" THEN Announcement(awale')
                                                 ELSE announced
  BY DEF Answer
<1>2. /\ Counted(awale) /\ awale \in Awale /\ awale.current \in PlayerID
      /\ PlayerHasSeeds(awale.current, awale.grid)
  BY DEF CliInv, Counted, Awale
<1>3. Counted(awale')
  BY <1>1, <1>2, PlayKeepsCounted
<1>4. PlayerHasSeeds(awale.current, awale.grid)'
  BY <1>1, <1>2, PlayKeepsTheTurnHolderInSeeds
<1>5. announced' = Announcement(awale')
  <2>1. CASE coupValidity' = "VALID"
    BY <1>1, <2>1
  <2>2. CASE coupValidity' # "VALID"
    <3>1. awale' = awale /\ announced' = announced
      BY <1>1, <2>2, RefusedPlay
    <3> QED
      BY <3>1 DEF CliInv
  <2> QED
    BY <2>1, <2>2
<1> QED
  BY <1>3, <1>4, <1>5 DEF CliInv

(* The invariant holds of every game at every terminal.                    *)
THEOREM CliInvariant == Spec => []CliInv
<1>1. CliInv /\ [Next]_vars => CliInv'
  <2> SUFFICES ASSUME CliInv, [Next]_vars PROVE CliInv'
    OBVIOUS
  <2>1. CASE UNCHANGED vars
    BY <2>1 DEF vars, CliInv
  <2>2. CASE Next
    BY <2>2, AnswerKeepsCliInv DEF Next
  <2> QED
    BY <2>1, <2>2
<1> QED
  BY <1>1, InitCliInv, PTL DEF Spec

(* "match nul" means even scores: a win on points and one with them even   *)
(* would take more seeds than there are, and winner() names somebody in an *)
(* uneven stalemate.                                                       *)
THEOREM DrawsAreEven == Spec => []DrawMeansEven
<1>1. CliInv => DrawMeansEven
  <2> SUFFICES ASSUME CliInv, announced # "nothing"
               PROVE  (announced = "match nul")
                        = (awale.score[PLAYER1] = awale.score[PLAYER2])
    BY DEF DrawMeansEven
  <2> DEFINE a == awale.score[PLAYER1]
             b == awale.score[PLAYER2]
  <2>1. /\ a \in Nat /\ b \in Nat /\ ~(a >= MAX_SCORE /\ b >= MAX_SCORE)
        /\ MAX_SCORE \in Nat
    BY ScoresAreHalved, RulesAssumption DEF CliInv
  <2>2. /\ PlayerID = {PLAYER1, PLAYER2}
        /\ Opponent(PLAYER1) = PLAYER2 /\ Opponent(PLAYER2) = PLAYER1
    BY DEF PlayerID, Opponent, PLAYER1, PLAYER2
  <2>3. announced = Announcement(awale)
    BY DEF CliInv
  <2>4. CASE Status(awale) = "GAME_OVER_PLAYER1_WINS"
    <3>1. a >= MAX_SCORE
      BY <2>1, <2>4 DEF Status
    <3>2. announced = "joueur 1"
      BY <2>3, <2>4 DEF Announcement
    <3> QED
      BY <2>1, <3>1, <3>2
  <2>5. CASE Status(awale) = "GAME_OVER_PLAYER2_WINS"
    <3>1. b >= MAX_SCORE
      BY <2>1, <2>5 DEF Status
    <3>2. announced = "joueur 2"
      BY <2>3, <2>5 DEF Announcement
    <3> QED
      BY <2>1, <3>1, <3>2
  <2>6. CASE Status(awale) = "GAME_OVER_STALEMATE"
    <3>1. (Winner(awale) = {}) = (a = b)
      BY <2>1, <2>2 DEF Winner
    <3>2. announced = IF Winner(awale) = {} THEN "match nul"
                      ELSE Joueur(CHOOSE p \in Winner(awale) : TRUE)
      BY <2>3, <2>6 DEF Announcement
    <3>3. \A p : Joueur(p) # "match nul"
      BY DEF Joueur
    <3> QED
      BY <3>1, <3>2, <3>3
  <2> QED
    BY <2>3, <2>4, <2>5, <2>6 DEF Announcement
<1> QED
  BY <1>1, CliInvariant, PTL

(* The rules of Game are those of this module.                             *)
LEMMA SameRules ==
  /\ Game!PlayerID = PlayerID /\ Game!ResetAwale = ResetAwale
  /\ \A game, p, t : Game!PlayValidity(game, p, t) = PlayValidity(game, p, t)
  /\ \A game, p, t : Game!AfterPlay(game, p, t) = AfterPlay(game, p, t)
  /\ \A game : Game!GameOver(game) = GameOver(game)
<1>1. Game!PlayerID = PlayerID /\ Game!ResetAwale = ResetAwale
  BY DEF Game!PlayerID, Game!ResetAwale, Game!Rows, Game!PLAYER1, Game!PLAYER2,
     PlayerID, ResetAwale, Rows, PLAYER1, PLAYER2
<1>2. ASSUME NEW game, NEW p, NEW t
      PROVE  Game!PlayValidity(game, p, t) = PlayValidity(game, p, t)
  BY DEF Game!PlayValidity, Game!IsCoupValid, Game!PlayerHasSeeds, Game!NextPlayer,
     Game!SowSeeds, Game!NextSown, Game!Ahead, Game!DropOnCopy, Game!Captures,
     Game!Opponent, Game!Rows, Game!PLAYER1, Game!PLAYER2,
     PlayValidity, IsCoupValid, PlayerHasSeeds, NextPlayer,
     SowSeeds, NextSown, Ahead, DropOnCopy, Captures,
     Opponent, Rows, PLAYER1, PLAYER2
<1>3. ASSUME NEW game PROVE Game!Status(game) = Status(game)
  BY DEF Game!Status, Game!PlayerHasSeeds, Game!CanPlay, Game!NextPlayer,
     Game!Opponent, Game!Rows, Game!PLAYER1, Game!PLAYER2,
     Status, PlayerHasSeeds, CanPlay, NextPlayer,
     Opponent, Rows, PLAYER1, PLAYER2
<1>4. ASSUME NEW game PROVE Game!GameOver(game) = GameOver(game)
  BY <1>3 DEF Game!GameOver, GameOver
<1>5. ASSUME NEW game, NEW p, NEW t
      PROVE  Game!SowSeedsUpdateGridScore(p, game, t) = SowSeedsUpdateGridScore(p, game, t)
  BY DEF Game!SowSeedsUpdateGridScore, Game!NextSown, Game!Ahead, Game!DropAndScore,
     Game!Captures, Game!Opponent, Game!PLAYER1, Game!PLAYER2,
     SowSeedsUpdateGridScore, NextSown, Ahead, DropAndScore,
     Captures, Opponent, PLAYER1, PLAYER2
<1>6. ASSUME NEW game PROVE Game!EndTurn(game) = EndTurn(game)
  BY <1>3 DEF Game!EndTurn, Game!Opponent, EndTurn, Opponent
<1>7. ASSUME NEW game, NEW p, NEW t
      PROVE  Game!AfterPlay(game, p, t) = AfterPlay(game, p, t)
  BY <1>2, <1>5, <1>6 DEF Game!AfterPlay, AfterPlay
<1> QED
  BY <1>1, <1>2, <1>4, <1>7

(* The terminal loop plays a legal game: every prompt that is answered is  *)
(* one call of play() by the player whose turn it is, and the loop ends    *)
(* with the move that ends the game.                                       *)
THEOREM TerminalPlaysAwale == Spec => PlaysAwale
<1>1. Init => Game!Init
  BY SameRules DEF Init, Game!Init
<1>2. CliInv /\ CliInv' /\ [Next]_vars => [Game!Next]_(Game!vars)
  <2> SUFFICES ASSUME CliInv, CliInv', [Next]_vars PROVE [Game!Next]_(Game!vars)
    OBVIOUS
  <2>1. CASE UNCHANGED vars
    BY <2>1 DEF vars, Game!vars
  <2>2. ASSUME NEW t \in Rows, Answer(t) PROVE Game!Next
    <3>1. /\ announced = "nothing"
          /\ coupValidity' = PlayValidity(awale, awale.current, t)
          /\ awale' = AfterPlay(awale, awale.current, t)
      BY <2>2 DEF Answer
    <3>2. (announced' # "nothing") = GameOver(awale')
      <4>1. ASSUME NEW game PROVE GameOver(game) = (Announcement(game) # "nothing")
        BY AnnouncedWhenOver
      <4> QED
        BY <4>1 DEF CliInv
    <3>3. awale.current \in PlayerID /\ t \in Game!Targets
      BY RulesAssumption DEF CliInv, Counted, Awale, Rows, Game!Targets
    <3>4. Game!Play(awale.current, t)
      BY <3>1, <3>2, SameRules DEF Game!Play
    <3> QED
      BY <3>3, <3>4, SameRules DEF Game!Next
  <2> QED
    BY <2>1, <2>2 DEF Next
<1> QED
  BY <1>1, <1>2, CliInvariant, PTL DEF Spec, PlaysAwale, Game!Spec
=============================================================================
