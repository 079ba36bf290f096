----------------------------- MODULE MCSessions -----------------------------
(***************************************************************************)
(* Instances of Sessions for TLC: see the cfg files.                       *)
(***************************************************************************)
EXTENDS Sessions, TLC

ProgramSymmetry == Permutations(Programs)

Own(n) == [name |-> n, password |-> n]

TwoLogins == { Own("ann"), Own("bob") }

ThreeLogins == TwoLogins \cup {Own("cam")}

SetInfo(n, w) == [cmd |-> "SET_INFO", name |-> n, password |-> w]
Challenge == [cmd |-> "CHALLENGE", name |-> NULL, password |-> NULL]
Chat == [cmd |-> "CHAT", name |-> NULL, password |-> NULL]

Logout == [cmd |-> "LOGOUT", name |-> NULL, password |-> NULL]

(* A good bye is "03000000"; what is chatted to one client is often only   *)
(* digits, a new name hardly ever.                                         *)
LogoutAndChat == {Logout, Chat}

(* /set-username and /chat.                                                *)
AccountSays == {SetInfo("bob", NULL), Chat}
ChallengeSays == {Challenge}
ChatSays == {Chat}
=============================================================================
