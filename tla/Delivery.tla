------------------------------ MODULE Delivery ------------------------------
(***************************************************************************)
(* Sessions with what the server sends and what the client programs make   *)
(* of it: the answers and events of src/server/handlers/user.h and chat.h, *)
(* lib/socket/socket.c, the lines users type (lib/client/cmd.c and         *)
(* src/client/mediator.c), the reading thread of src/client/main.c and     *)
(* the id src/client/handlers/user.c keeps.  Each action of Sessions is    *)
(* conjoined with what its handler sends.  Challenges and games are in     *)
(* Lobbies.                                                                *)
(***************************************************************************)
EXTENDS Sessions

CONSTANTS
  Lines,             (* [prefix, word, number] a user may type             *)
  PAGE_MAX_CLIENTS,  (* accounts on a page of the user list                *)
  MaxUnseen          (* bound: users wait while a program has more to read *)

ASSUME DeliveryAssumption ==
  /\ {PAGE_MAX_CLIENTS, MaxUnseen} \subseteq Nat
  /\ PAGE_MAX_CLIENTS > 0

VARIABLES
  inbox,             (* what each program was sent and has not read        *)
  CLIENT_ID,         (* the id each program takes for its own; NULL is -1  *)
  broken,            (* descriptors written to after their program went    *)
  sigpipe            (* TRUE if the server was ended by SIGPIPE            *)

screens == << inbox, CLIENT_ID >>
added == << screens, broken, sigpipe >>
allvars == << vars, added >>

Message(cmd, about) == [cmd |-> cmd, about |-> about]

Events == {"LOGIN_EVENT", "LOGOUT_EVENT", "CHAT_WRITE_EVENT"}
Answers == {"REGISTER", "LOGIN", "SET_INFO", "GET_INFO", "LIST_ALL", "CHAT_WRITE", "ERROR_EVENT"}
Errors == {"CLIENT_FOUND", "CLIENT_NOT_FOUND", "PAGE_OUT_OF_BOUNDS"}

Delivered ==
  [cmd : Events \cup {"REGISTER", "GET_INFO", "CHAT_WRITE"}, about : Nat]
    \cup [cmd : {"LOGIN", "SET_INFO"}, about : {NULL}]
    \cup [cmd : {"LIST_ALL"}, about : Seq(Nat)]
    \cup [cmd : {"ERROR_EVENT"}, about : Errors]

DeliveryTypeOK ==
  /\ TypeOK
  /\ inbox \in [Programs -> Seq(Delivered)]
  /\ CLIENT_ID \in [Programs -> Nat \cup {NULL}]
  /\ broken \subseteq { fd \in Fds : conn[fd] # NULL /\ phase[conn[fd]] = "GONE" }
  /\ sigpipe \in BOOLEAN

-----------------------------------------------------------------------------
(* What handlers send: a sequence of [to, msg], to being a socket number.  *)
(* The one of an account that left is Stdin's, where writing just fails.   *)
SendTo(socket, cmd, about) == << [to |-> socket, msg |-> Message(cmd, about)] >>

Error(socket, code) == SendTo(socket, "ERROR_EVENT", code)

(* The members of S among 1 .. n, in order, as a loop collects them.       *)
InOrder(S, n) ==
  LET upto[k \in 0 .. n] ==
        IF k = 0 THEN << >> ELSE IF k \in S THEN Append(upto[k - 1], k) ELSE upto[k - 1]
  IN  upto[n]

(* Plausible slip: the sender is not left out.                             *)
ToPoolAndSender(ps, i, cmd, about) ==
  [j \in DOMAIN ps |-> [to |-> ps[j].socket, msg |-> Message(cmd, about)]]

(* send_cmd_to_pool: everyone in the pool, online or not, but account i.   *)
ToPool(ps, i, cmd, about) ==
  [j \in 1 .. Len(ps) - 1 |->
     [to |-> ps[IF j < i THEN j ELSE j + 1].socket, msg |-> Message(cmd, about)]]

(* send_cmd_to_client                                                      *)
ToClient(client, out) == IF client.online THEN out ELSE << >>

(* Plausible slip: a newcomer is announced before it is answered.          *)
AnnouncedRegister(ps, m, socket) ==
  IF MayRegister(ps, m)
  THEN SendTo(socket, "LOGIN_EVENT", Len(ps)) \o SendTo(socket, "REGISTER", Len(ps))
  ELSE Error(socket, IF Taken(ps, m.name) THEN "CLIENT_FOUND" ELSE "CLIENT_NOT_FOUND")

AnswerRegister(ps, m, socket) ==
  IF MayRegister(ps, m) THEN SendTo(socket, "REGISTER", Len(ps))
  ELSE Error(socket, IF Taken(ps, m.name) THEN "CLIENT_FOUND" ELSE "CLIENT_NOT_FOUND")

(* A wrong password or a client that is online gets no answer.             *)
AnswerLogin(ps, m, socket) ==
  IF MayLogin(ps, m)
  THEN LET i == find_client_by_name(ps, m.name)
       IN  SendTo(socket, "LOGIN", NULL)
             \o ToPool(on_user_login(ps, m, socket), i, "LOGIN_EVENT", i - 1)
  ELSE IF Taken(ps, m.name) THEN << >> ELSE Error(socket, "CLIENT_NOT_FOUND")

(* A name that is taken gets no answer.                                    *)
AnswerSetInfo(ps, m, id) ==
  IF MaySetInfo(ps, m) THEN SendTo(ps[id + 1].socket, "SET_INFO", NULL) ELSE << >>

(* Plausible slip: the event carries the id of who it is for.              *)
on_chat_write_naming_receiver(ps, to, id) ==
  LET client == ps[id + 1]
  IN  IF to # NULL /\ Known(ps, to)
      THEN ToClient(ps[to + 1], SendTo(ps[to + 1].socket, "CHAT_WRITE_EVENT", to))
             \o ToClient(client, SendTo(client.socket, "CHAT_WRITE", 1))
      ELSE << >>

(* Plausible slip: the confirmation goes to the one a message is for.      *)
on_chat_write_telling_receiver(ps, to, id) ==
  LET client == ps[id + 1]
  IN  IF to = NULL
      THEN ToPool(ps, id + 1, "CHAT_WRITE_EVENT", id)
             \o ToClient(client, SendTo(client.socket, "CHAT_WRITE", Len(ps) - 1))
      ELSE IF Known(ps, to)
      THEN ToClient(ps[to + 1], SendTo(ps[to + 1].socket, "CHAT_WRITE_EVENT", id)
                                  \o SendTo(ps[to + 1].socket, "CHAT_WRITE", 1))
      ELSE ToClient(client, Error(client.socket, "CLIENT_NOT_FOUND"))

(* The count answered is of the accounts, those offline included.          *)
on_chat_write(ps, to, id) ==
  LET client == ps[id + 1]
  IN  CASE to = NULL ->
             ToPool(ps, id + 1, "CHAT_WRITE_EVENT", id)
               \o ToClient(client, SendTo(client.socket, "CHAT_WRITE", Len(ps) - 1))
        [] to # NULL /\ Known(ps, to) ->
             ToClient(ps[to + 1], SendTo(ps[to + 1].socket, "CHAT_WRITE_EVENT", id))
               \o ToClient(client, SendTo(client.socket, "CHAT_WRITE", 1))
        [] OTHER -> ToClient(client, Error(client.socket, "CLIENT_NOT_FOUND"))

on_user_get_info(ps, about, id) ==
  IF about # NULL /\ Known(ps, about)
  THEN SendTo(ps[id + 1].socket, "GET_INFO", about)
  ELSE ToClient(ps[id + 1], Error(ps[id + 1].socket, "CLIENT_NOT_FOUND"))

(* The ids of a page of the user list: the others that are online, in the  *)
(* order of the pool.                                                      *)
Page(ps, page, id) ==
  LET others == InOrder({ i \in DOMAIN ps : i # id + 1 /\ ps[i].online }, Len(ps))
      before == page * PAGE_MAX_CLIENTS
  IN  [k \in { k \in 1 .. PAGE_MAX_CLIENTS : before + k <= Len(others) } |->
         others[before + k] - 1]

on_user_list_all(ps, page, id) ==
  LET client == ps[id + 1]
  IN  IF Page(ps, page, id) = << >>
      THEN ToClient(client, Error(client.socket, "PAGE_OUT_OF_BOUNDS"))
      ELSE SendTo(client.socket, "LIST_ALL", Page(ps, page, id))

Sent(ps, m, id) ==
  CASE m.cmd = "REGISTER" -> AnswerRegister(ps, m, id)
    [] m.cmd = "LOGIN" -> AnswerLogin(ps, m, id)
    [] m.cmd = "LOGOUT" -> ToPool(ps, id + 1, "LOGOUT_EVENT", id)
    [] m.cmd = "SET_INFO" -> AnswerSetInfo(ps, m, id)
    [] m.cmd = "CHAT" -> on_chat_write(ps, m.about, id)
    [] m.cmd = "GET_INFO" -> on_user_get_info(ps, m.about, id)
    [] m.cmd = "LIST_ALL" -> on_user_list_all(ps, m.about, id)

-----------------------------------------------------------------------------
(* What the server handles next, and in whose name.                        *)
Turns ==
  IF server # "RUNNING" \/ writing # NULL \/ (Waits /\ SelectFails) THEN {}
  ELSE IF serving # NULL THEN {[p |-> conn[serving], id |-> serving, peers |-> conn]}
  ELSE IF backlog # << >>
  THEN {[p |-> Head(backlog), id |-> LowestFree,
         peers |-> [conn EXCEPT ![LowestFree] = Head(backlog)]]}
  ELSE { [p |-> conn[pool[i].socket], id |-> i - 1, peers |-> conn] : i \in Talking }

(* At the end of a stream the buffer still holds the REGISTER command.     *)
Handled(t) ==
  IF wire[t.p] # << >> THEN Head(wire[t.p])
  ELSE [cmd |-> "REGISTER", name |-> args[t.p].name, password |-> args[t.p].password]

Out(t) == Sent(pool, Handled(t), t.id)

Writes(t, fd) == { k \in DOMAIN Out(t) : Out(t)[k].to = fd }

Left(t) == { fd \in Fds : t.peers[fd] # NULL /\ phase[t.peers[fd]] = "GONE" }

Received(t, p) ==
  LET mine == InOrder({ k \in DOMAIN Out(t) :
                          Out(t)[k].to \in Fds /\ t.peers[Out(t)[k].to] = p }, Len(Out(t)))
  IN  [k \in DOMAIN mine |-> Out(t)[mine[k]].msg]

(* write_to_socket: everything sent is there for its program, in order.  A *)
(* program that has gone answers the first write with a reset.             *)
Deliver(t) ==
  /\ inbox' = [p \in Programs |->
       IF phase[p] = "GONE" THEN inbox[p] ELSE inbox[p] \o Received(t, p)]
  /\ broken' = broken \cup { fd \in Left(t) : Writes(t, fd) # {} }
  /\ UNCHANGED << CLIENT_ID, sigpipe >>

Forget ==
  /\ inbox' = All(<< >>) /\ CLIENT_ID' = All(NULL) /\ broken' = {}

(* The server handles a command, or the end of a first stream.             *)
Handle ==
  \E t \in Turns :
    /\ Accept \/ ReadLogin \/ ReadHangup \/ \E i \in DOMAIN pool : Talk(i)
    /\ Deliver(t)

(* After the reset the next write raises SIGPIPE, which nobody handles.    *)
BrokenPipe ==
  \E t \in Turns :
    /\ wire[t.p] # << >> \/ (serving # NULL /\ phase[t.p] = "GONE")
    /\ ~Crashes(pool, Handled(t), t.id)
    /\ \E fd \in Left(t) :
         Cardinality(Writes(t, fd)) > IF fd \in broken THEN 0 ELSE 1
    /\ Exits /\ Forget
    /\ sigpipe' = TRUE
    /\ UNCHANGED << lives, db >>

Fails == (SelectError \/ ReadLoginCrash \/ Stop) /\ Forget /\ UNCHANGED sigpipe

Archive ==
  \E i \in DOMAIN pool :
    /\ HangUp(i)
    /\ broken' = broken \ {pool[i].socket}
    /\ UNCHANGED << screens, sigpipe >>

Write == write_cmd /\ UNCHANGED added

StartAgain == Restart /\ sigpipe' = FALSE /\ UNCHANGED << screens, broken >>

-----------------------------------------------------------------------------
(* The programs.                                                           *)
Calm == \A p \in Programs : Len(inbox[p]) < MaxUnseen

Launch(p) ==
  /\ Calm
  /\ \E l \in Logins : Start(p, l)
  /\ UNCHANGED added

LogIn(p) == Login(p) /\ UNCHANGED added

Leave(p) ==
  /\ Quit(p)
  /\ inbox' = [inbox EXCEPT ![p] = << >>]
  /\ CLIENT_ID' = [CLIENT_ID EXCEPT ![p] = NULL]
  /\ UNCHANGED << broken, sigpipe >>

Number(l) == l.number # NULL

SetInfo(name, password) == [cmd |-> "SET_INFO", name |-> name, password |-> password]

Ask(cmd, about) == [cmd |-> cmd, name |-> NULL, password |-> NULL, about |-> about]

(* The commands that may be sent for a line.  The argument of a lone /chat *)
(* is a pointer that was never set.                                        *)
client_chat(l) ==
  IF l.word = NULL THEN { Ask("CHAT", to) : to \in {NULL} \cup 0 .. MAX_CLIENTS - 1 }
  ELSE { Ask("CHAT", l.number) }

(* A word is 0 to atoi().                                                  *)
client_user(id, l) ==
  { Ask("GET_INFO", IF l.word = NULL THEN id ELSE IF Number(l) THEN l.number ELSE 0) }

client_users(l) == { Ask("LIST_ALL", IF Number(l) THEN l.number ELSE 0) }

client_set_username(l) == { SetInfo(l.word, NULL) : w \in {l.word} \ {NULL} }

client_set_password(l) == { SetInfo(NULL, l.word) : w \in {l.word} \ {NULL} }

client_set_description(l) == { SetInfo(NULL, NULL) : w \in {l.word} \ {NULL} }

(* handle_client_cmd, in a program that takes id for its own: what begins  *)
(* with another word is not sent.                                          *)
Requests(id, l) ==
  CASE l.prefix = "/chat" -> client_chat(l)
    [] l.prefix = "/user" -> client_user(id, l)
    [] l.prefix = "/users" -> client_users(l)
    [] l.prefix = "/set-username" -> client_set_username(l)
    [] l.prefix = "/set-password" -> client_set_password(l)
    [] l.prefix = "/set-description" -> client_set_description(l)
    [] OTHER -> {}

(* Says is what lines may become.                                          *)
Asked ==
  [cmd : {"CHAT", "GET_INFO"}, name : {NULL}, password : {NULL}, about : Nat \cup {NULL}]
    \cup [cmd : {"LIST_ALL"}, name : {NULL}, password : {NULL}, about : Nat]

ASSUME LinesAssumption ==
  /\ \A m \in Says : m \in Asked \/ m.cmd = "SET_INFO"
  /\ \A l \in Lines : \A id \in {NULL} \cup 0 .. MAX_CLIENTS - 1 : Requests(id, l) \subseteq Says

Type(p, l) ==
  /\ Calm
  /\ \E m \in Requests(CLIENT_ID[p], l) : Say(p, m)
  /\ UNCHANGED added

(* Plausible slip: the id is taken from announcements of logins too.       *)
LearnedFromLogins(id, msg) ==
  IF msg.cmd \in {"REGISTER", "LOGIN_EVENT"} THEN msg.about ELSE id

(* What a message changes in a program: on_user_register.                  *)
Learned(id, msg) == IF msg.cmd = "REGISTER" THEN msg.about ELSE id

(* The reading thread, started after LOGIN: it takes what has come, a part *)
(* or all of it, and shows the first message only.                         *)
Read(p) ==
  /\ phase[p] = "SETTLED"
  /\ \E n \in 1 .. Len(inbox[p]) :
       inbox' = [inbox EXCEPT ![p] = SubSeq(@, n + 1, Len(@))]
  /\ CLIENT_ID' = [CLIENT_ID EXCEPT ![p] = Learned(@, Head(inbox[p]))]
  /\ UNCHANGED << vars, broken, sigpipe >>

-----------------------------------------------------------------------------
DeliveryInit ==
  /\ Init
  /\ inbox = All(<< >>) /\ CLIENT_ID = All(NULL)
  /\ broken = {} /\ sigpipe = FALSE

DeliveryNext ==
  \/ \E p \in Programs : Launch(p) \/ LogIn(p) \/ Leave(p) \/ Read(p)
  \/ \E p \in Programs : \E l \in Lines : Type(p, l)
  \/ Handle \/ Write \/ Archive
  \/ BrokenPipe \/ Fails
  \/ StartAgain

DeliverySpec == DeliveryInit /\ [][DeliveryNext]_allvars

-----------------------------------------------------------------------------
New(p) == SubSeq(inbox'[p], Len(inbox[p]) + 1, Len(inbox'[p]))

(* The answer that carries the id is the first thing a program is sent, so *)
(* that it is not lost behind another in a read (main.c:82); LOGIN comes   *)
(* after it and events only to those in the pool.                          *)
TheIdIsNotMissed ==
  \A p \in Programs : \A k \in DOMAIN inbox[p] : inbox[p][k].cmd = "REGISTER" => k = 1

(* A program that knows an id and is logged in is logged in under that id  *)
(* (user.c:17): it marks the right player's turn.                          *)
OwnIdIsRight ==
  \A p \in Programs : \A i \in DOMAIN pool :
    pool[i].online /\ conn[pool[i].socket] = p /\ CLIENT_ID[p] # NULL => CLIENT_ID[p] = i - 1

(* One command makes one event at most for a program, and none about its   *)
(* own account unless its user chats to himself, however the socket        *)
(* numbers in the pool came about (socket.c:59-74).  Holds in the first    *)
(* life of a server, with no account numbered like a descriptor: a command *)
(* read where LOGIN is expected is handled under the descriptor's number.  *)
EventsReachOthersOnce ==
  [][ lives = 1 /\ Len(pool) <= FirstFd => \A p \in Programs :
        LET events == { k \in DOMAIN New(p) : New(p)[k].cmd \in Events }
        IN  /\ Cardinality(events) <= 1
            /\ \A k \in events : \A i \in DOMAIN pool' :
                 pool'[i].online /\ conn'[pool'[i].socket] = p /\ New(p)[k].about = i - 1 =>
                   Head(wire[p]) = Ask("CHAT", i - 1) ]_allvars

(* An answer goes to the program whose command was read (socket.c:81-88).  *)
(* Holds under the same conditions, for the same reasons.                  *)
AnswersGoToTheAsker ==
  [][ lives = 1 /\ Len(pool) <= FirstFd => \A p \in Programs :
        (\E k \in DOMAIN New(p) : New(p)[k].cmd \in Answers) => wire[p] # << >> /\ wire'[p] = << >> ]_allvars

(* What is announced of a user, or said by him, comes from the program     *)
(* that is logged in under that account (main.c:119, user.h:113, chat.h:   *)
(* 23).  Holds in the first life of a server.                              *)
EventsNameTheSpeaker ==
  [][ lives = 1 => \A p, speaker \in Programs : \A k \in DOMAIN New(p) :
        /\ New(p)[k].cmd \in {"LOGOUT_EVENT", "CHAT_WRITE_EVENT"}
        /\ wire[speaker] # << >> /\ wire'[speaker] = << >>
        => \A i \in DOMAIN pool :
             pool[i].online /\ conn[pool[i].socket] = speaker => New(p)[k].about = i - 1 ]_allvars

-----------------------------------------------------------------------------
(* "You can launch multiple clients to connect to the server"              *)
(* (src/README.md:60): the server is not ended by one of them leaving.     *)
ServerOutlivesItsClients == ~sigpipe
=============================================================================
