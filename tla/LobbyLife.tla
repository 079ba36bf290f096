----------------------------- MODULE LobbyLife ------------------------------
(***************************************************************************)
(* What one entry of the server's lobby table promises the two clients it  *)
(* was made for: it is offered once, answered once, carries one game that  *)
(* changes only by calls of play(), and never changes again once it is     *)
(* finished.  The game is a parameter here.  Lobbies is shown to implement *)
(* this for every entry.                                                   *)
(***************************************************************************)
CONSTANTS
  Clients,             (* client ids                                       *)
  NULL,
  PlayerID, PLAYER1,   (* the sides of a game, and the challenger's        *)
  Targets,             (* what a player may ask play() for                 *)
  NewAwale,            (* the game of new_awale()                          *)
  ResetAwale,          (* the games reset() produces                       *)
  AfterPlay(_, _, _),  (* the game play() leaves behind                    *)
  GameOver(_)          (* what status() says of a game                     *)

VARIABLES
  state,   (* "UNUSED" or the LobbyState                                   *)
  client,  (* the players, by PlayerID                                     *)
  awale    (* the game                                                     *)

vars == << state, client, awale >>

Init ==
  /\ state = "UNUSED"
  /\ client = [q \in PlayerID |-> NULL]
  /\ awale = NewAwale

Offer(challenger, challenged) ==
  /\ state = "UNUSED"
  /\ challenger # challenged
  /\ state' = "WAITING"
  /\ client' = [q \in PlayerID |-> IF q = PLAYER1 THEN challenger ELSE challenged]
  /\ UNCHANGED awale

Reject ==
  /\ state = "WAITING"
  /\ state' = "FINISHED"
  /\ UNCHANGED << client, awale >>

Accept ==
  /\ state = "WAITING"
  /\ state' = "RUNNING"
  /\ awale' \in ResetAwale
  /\ UNCHANGED client

Play(player, target) ==
  /\ state = "RUNNING"
  /\ awale' = AfterPlay(awale, player, target)
  /\ state' = IF GameOver(awale') THEN "FINISHED" ELSE "RUNNING"
  /\ UNCHANGED client

Leave ==
  /\ state = "RUNNING"
  /\ state' = "FINISHED"
  /\ UNCHANGED << client, awale >>

Next ==
  \/ \E challenger, challenged \in Clients : Offer(challenger, challenged)
  \/ Reject
  \/ Accept
  \/ \E player \in PlayerID, target \in Targets : Play(player, target)
  \/ Leave

Spec == Init /\ [][Next]_vars
=============================================================================
