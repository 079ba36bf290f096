------------------------------ MODULE AwaleCli ------------------------------
(***************************************************************************)
(* The game at one terminal (src/awale/main.c): print the board, prompt    *)
(* the player whose turn it is until play() accepts a pit, look at         *)
(* status(), and stop with an announcement when the game is over.          *)
(***************************************************************************)
EXTENDS AwaleRules

VARIABLES
  awale,         (* the struct Awale                                       *)
  coupValidity,  (* what the last play() returned                          *)
  announced      (* match nul, joueur 0, 1 or 2; "nothing" before the end  *)

vars == << awale, coupValidity, announced >>

(* The name the screen gives a player (main.c:42 to 47).                   *)
Joueur(player) == IF player = PLAYER1 THEN "joueur 0" ELSE "joueur 1"

Init ==
  /\ awale \in ResetAwale
  /\ coupValidity = "INVALID"
  /\ announced = "nothing"

(* Plausible slips: every stalemate announced as a draw, and a stalemate   *)
(* that does not leave the loop.                                           *)
AnnouncementAlwaysDraw(game) ==
  CASE Status(game) = "GAME_OVER_PLAYER1_WINS" -> "joueur 1"
    [] Status(game) = "GAME_OVER_PLAYER2_WINS" -> "joueur 2"
    [] Status(game) = "GAME_OVER_STALEMATE" -> "match nul"
    [] OTHER -> "nothing"

AnnouncementOnPointsOnly(game) ==
  CASE Status(game) = "GAME_OVER_PLAYER1_WINS" -> "joueur 1"
    [] Status(game) = "GAME_OVER_PLAYER2_WINS" -> "joueur 2"
    [] OTHER -> "nothing"

(* The line printed for a status: the number is spelled out for a win on   *)
(* points, and is the PlayerID that winner() stored after a stalemate.     *)
Announcement(game) ==
  CASE Status(game) = "GAME_OVER_PLAYER1_WINS" -> "joueur 1"
    [] Status(game) = "GAME_OVER_PLAYER2_WINS" -> "joueur 2"
    [] Status(game) = "GAME_OVER_STALEMATE" ->
         IF Winner(game) = {} THEN "match nul"
                              ELSE Joueur(CHOOSE p \in Winner(game) : TRUE)
    [] OTHER -> "nothing"

(* A number between 0 and 5 answers the prompt; anything else is asked     *)
(* again and changes nothing.  A refused pit prompts again; an accepted    *)
(* one is followed by the look at status().                                *)
Answer(caseDepart) ==
  /\ announced = "nothing"
  /\ coupValidity' = PlayValidity(awale, awale.current, caseDepart)
  /\ awale' = AfterPlay(awale, awale.current, caseDepart)
  /\ announced' = IF coupValidity' = "VALID" THEN Announcement(awale')
                                             ELSE announced

Next == \E caseDepart \in Rows : Answer(caseDepart)

Spec == Init /\ [][Next]_vars

-----------------------------------------------------------------------------
(* The loop plays a legal game: each turn is a play() by the player whose  *)
(* turn it is, and although it looks at status() only after an accepted    *)
(* pit it stops exactly when status() says so (main.c:78 to 107).          *)
Game == INSTANCE AwaleGame WITH
  validity <- coupValidity,
  over <- announced # "nothing"

PlaysAwale == Game!Spec

(* "match nul" is announced for an even score and for nothing else, though *)
(* the status that leads there says only that no move is left.             *)
DrawMeansEven ==
  announced # "nothing"
    => (announced = "match nul") = (awale.score[PLAYER1] = awale.score[PLAYER2])
=============================================================================
