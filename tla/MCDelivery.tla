----------------------------- MODULE MCDelivery -----------------------------
(***************************************************************************)
(* Instances of Delivery for TLC: see the cfg files.                       *)
(***************************************************************************)
EXTENDS Delivery, TLC

ProgramSymmetry == Permutations(Programs)

TwoLogins == { [name |-> n, password |-> n] : n \in {"ann", "bob"} }

Line(prefix, word, number) == [prefix |-> prefix, word |-> word, number |-> number]

ChatLines == { Line("/chat", "hello", NULL), Line("/chat", "0", 0) }

InfoLines == { Line("/user", NULL, NULL), Line("/users", "0", 0),
               Line("/set-username", "cam", NULL) }

AllLines == ChatLines \cup InfoLines

EveryLine == AllLines \cup { Line("/set-password", "new", NULL),
                            Line("/set-description", "words", NULL) }

(* What lines may become.                                                  *)
DeliverySays ==
  { Ask(cmd, about) : cmd \in {"CHAT", "GET_INFO"}, about \in {NULL} \cup 0 .. MAX_CLIENTS }
    \cup { Ask("LIST_ALL", page) : page \in 0 .. MAX_CLIENTS }
    \cup { SetInfo(name, password) : name \in {NULL, "cam"}, password \in {NULL, "new"} }

(* Questions and chats about a client or a page, and the good bye.         *)
DigitsOnly ==
  { m \in DeliverySays : m.cmd # "SET_INFO" /\ m.about # NULL }
    \cup { [cmd |-> "LOGOUT", name |-> NULL, password |-> NULL] }

(* In the last life nobody reads the database any more, and only how many  *)
(* records it has still counts (MaxRecords).                               *)
DeliveryView ==
  << server, lives, pool, maxfd, conn, serving, clients, added,
     IF lives = MaxLives THEN Len(db) ELSE db,
     IF lives = MaxLives THEN writing = NULL ELSE writing >>
=============================================================================
