----------------------------- MODULE MCLobbies ------------------------------
(***************************************************************************)
(* Instances of Lobbies for TLC: see the cfg files.                        *)
(***************************************************************************)
EXTENDS Lobbies, TLC

(* Clients differ only in the order they come in.                          *)
ClientSymmetry == Permutations(Clients)

(* request and sent describe the last step.  No handler reads them and the *)
(* properties look at their next values only, so states that differ in     *)
(* nothing else have the same steps to check.                              *)
TableView == << pool, lobby, up >>
=============================================================================
