------------------------------ MODULE Sessions ------------------------------
(***************************************************************************)
(* Connections, accounts and the database of the server: the select loop   *)
(* of src/server/main.c, the client table of lib/socket/pool.c, the        *)
(* account handlers of src/server/handlers/user.h, the mediator and the    *)
(* persistor of lib/cmds, the replay of src/server/main.h, and what        *)
(* src/client/main.c sends and when.  The server is one thread, so it can  *)
(* only be interrupted where it waits or is killed.  What the server sends *)
(* changes nothing here and is left out.                                   *)
(***************************************************************************)
EXTENDS Naturals, Sequences, FiniteSets

CONSTANTS
  Programs,     (* client programs, each with at most one connection       *)
  Logins,       (* [name, password] a program may be started with          *)
  Says,         (* commands a user may type: SET_INFO, CHALLENGE, CHAT     *)
  Numerals,     (* the commands whose text has decimal digits only         *)
  NULL,
  MAX_CLIENTS,  (* the capacity of the pool; 100 in pool.h                 *)
  FirstFd,      (* first descriptor for clients; 0-4 are stdio, db, socket *)
  MaxUnread,    (* bound on the commands typed ahead of the server         *)
  MaxRecords,   (* bound on the records of the database                    *)
  MaxLives      (* bound on the starts of the server                       *)

ASSUME SessionsAssumption ==
  /\ IsFiniteSet(Programs)
  /\ NULL \notin Programs \cup Nat
  /\ {MAX_CLIENTS, MaxUnread, MaxRecords} \subseteq Nat
  /\ {FirstFd, MaxLives} \subseteq Nat \ {0}
  /\ \A m \in Says : m.cmd \notin {"REGISTER", "LOGIN"}
  /\ \A m \in Numerals : m.cmd \notin {"REGISTER", "LOGIN", "SET_INFO", "CHALLENGE"}

(* accept returns the lowest free descriptor.                              *)
Fds == FirstFd .. FirstFd + Cardinality(Programs) - 1

Stdin == 0

VARIABLES
  server,       (* RUNNING or DOWN                                         *)
  lives,        (* how often the server was started                        *)
  db,           (* the records of the database file                        *)
  pool,         (* the accounts; the id of pool[i] is i - 1                *)
  maxfd,        (* the highest descriptor select watches                   *)
  conn,         (* the program at the other end of each descriptor         *)
  serving,      (* the connection being let in                             *)
  writing,      (* the record a handled command leaves to write            *)
  backlog,      (* connections to accept                                   *)
  phase,        (* how far each program is                                 *)
  args,         (* the name and the password it was started with           *)
  wire          (* the commands it sent that the server has not read       *)

process == << pool, maxfd, conn, serving, writing >>
clients == << backlog, phase, args, wire >>
vars == << server, lives, db, process, clients >>

Commands == Says \cup [cmd : {"REGISTER", "LOGIN"}, name : { l.name : l \in Logins },
                       password : { l.password : l \in Logins }]
                 \cup { [cmd |-> "LOGOUT", name |-> NULL, password |-> NULL] }

Client == [name : { m.name : m \in Commands }, password : { m.password : m \in Commands },
           socket : Fds \cup {Stdin}, online : BOOLEAN]

(* What write_cmd puts in the file: the command that was handled, and      *)
(* whatever was behind it in the buffer.                                   *)
Record == [client_id : Nat, cmd : Commands, tail : Seq(Commands)]

(* NULL says that there is nothing to write.                               *)
ASSUME NullAssumption == NULL \notin Record

TypeOK ==
  /\ server \in {"RUNNING", "DOWN"}
  /\ lives \in 1 .. MaxLives
  /\ db \in Seq(Record)
  /\ pool \in Seq(Client) /\ Len(pool) <= MAX_CLIENTS
  /\ maxfd \in Fds \cup {FirstFd - 1}
  /\ conn \in [Fds -> Programs \cup {NULL}]
  /\ serving \in Fds \cup {NULL}
  /\ writing \in Record \cup {NULL}
  /\ backlog \in Seq(Programs)
  /\ phase \in [Programs -> {"OFF", "REGISTERING", "SETTLED", "GONE"}]
  /\ args \in [Programs -> Logins \cup {NULL}]
  /\ wire \in [Programs -> Seq(Commands)]

-----------------------------------------------------------------------------
(* The pool ps.  A handler gets the id or, at first, the descriptor.       *)
Taken(ps, name) == \E i \in DOMAIN ps : ps[i].name = name

find_client_by_name(ps, name) ==
  CHOOSE i \in DOMAIN ps :
    ps[i].name = name /\ \A j \in DOMAIN ps : ps[j].name = name => i <= j

Known(ps, id) == id + 1 \in DOMAIN ps

(* Plausible slip: one client more than there is room for.                 *)
MayRegisterOneMore(ps, m) == ~Taken(ps, m.name) /\ Len(ps) <= MAX_CLIENTS

(* Plausible slip: the name is not looked up first.                        *)
MayRegisterTaken(ps, m) == Len(ps) < MAX_CLIENTS

MayRegister(ps, m) == ~Taken(ps, m.name) /\ Len(ps) < MAX_CLIENTS

on_user_register(ps, m, socket) ==
  Append(ps, [name |-> m.name, password |-> m.password,
              socket |-> socket, online |-> FALSE])

(* Plausible slip: a client that is online may log in again.               *)
MayLoginTwice(ps, m) ==
  /\ Taken(ps, m.name)
  /\ ps[find_client_by_name(ps, m.name)].password = m.password

MayLogin(ps, m) ==
  /\ Taken(ps, m.name)
  /\ LET existing == ps[find_client_by_name(ps, m.name)]
     IN  ~existing.online /\ existing.password = m.password

(* Plausible slip: the number of the client is taken for its socket.       *)
on_user_login_by_number(ps, m, socket) ==
  LET i == find_client_by_name(ps, m.name)
  IN  [ps EXCEPT ![i].online = TRUE, ![i].socket = i - 1]

(* unarchive_client                                                        *)
on_user_login(ps, m, socket) ==
  LET i == find_client_by_name(ps, m.name)
  IN  [ps EXCEPT ![i].online = TRUE, ![i].socket = socket]

Set(old, new) == IF new = NULL THEN old ELSE new

(* Plausible slip: the new name is not looked up.                          *)
MaySetInfoTaken(ps, m) == TRUE

MaySetInfo(ps, m) == m.name = NULL \/ ~Taken(ps, m.name)

on_user_set_info(ps, m, id) ==
  [ps EXCEPT ![id + 1].name = Set(@, m.name), ![id + 1].password = Set(@, m.password)]

(* Plausible slip: the socket of a client that left is not forgotten.      *)
archive_client_keeping_socket(ps, i) == [ps EXCEPT ![i].online = FALSE]

archive_client(ps, i) ==
  IF ps[i].online THEN [ps EXCEPT ![i].online = FALSE, ![i].socket = Stdin] ELSE ps

(* handle_cmd on the pool: a handler that does not succeed changes         *)
(* nothing.  Whether a challenge of another account succeeds is the lobby  *)
(* table's affair.                                                         *)
Outcomes(ps, m) ==
  CASE m.cmd = "REGISTER" -> {MayRegister(ps, m)}
    [] m.cmd = "LOGIN" -> {MayLogin(ps, m)}
    [] m.cmd = "SET_INFO" -> {MaySetInfo(ps, m)}
    [] m.cmd = "CHALLENGE" -> IF Len(ps) > 1 THEN BOOLEAN ELSE {FALSE}
    [] OTHER -> {TRUE}

After(ps, m, id) ==
  CASE m.cmd = "REGISTER" -> on_user_register(ps, m, id)
    [] m.cmd = "LOGIN" -> on_user_login(ps, m, id)
    [] m.cmd = "SET_INFO" -> on_user_set_info(ps, m, id)
    [] OTHER -> ps

(* find_client_by_id found no one and the handler follows the pointer.     *)
Crashes(ps, m, id) ==
  /\ ~Known(ps, id)
  /\ m.cmd \notin {"REGISTER", "LOGIN"}
  /\ m.cmd = "SET_INFO" => MaySetInfo(ps, m)

Persisted == {"REGISTER", "SET_INFO", "CHALLENGE"}

(* Plausible slip: renamed clients are written as newly registered ones.   *)
PersistRegisterOnly(m) == m.cmd = "REGISTER"

Persist(m) == m.cmd \in Persisted

(* The persistor reads the file word by word, an id by %d and then a       *)
(* command by %s, whatever the lines are.  Of a command behind another %d  *)
(* takes the digits: a numeral is taken for an id, and one left waiting    *)
(* for its command when its record ends is given the id line of the next   *)
(* record, whose command then is read alone.                               *)
Waiting(words) ==
  LET waits[n \in 0 .. Len(words)] ==
        n > 0 /\ ~waits[n - 1] /\ words[n] \in Numerals
  IN  waits[Len(words)]

Swallowed(records, n) == n > 1 /\ Waiting(records[n - 1].tail)

(* More than one command was in the buffer a record was written from.      *)
Garbled(records) == \E k \in DOMAIN records : records[k].tail # << >>

Replayed(ps, r) ==
  IF Outcomes(ps, r.cmd) = {FALSE} THEN ps ELSE After(ps, r.cmd, r.client_id)

(* The accounts main.h rebuilds from the records.  A command read under    *)
(* a number that is no id, or as a number that is no command, gives none.  *)
Replay(records) ==
  LET accounts[n \in 0 .. Len(records)] ==
        IF n = 0 THEN << >>
        ELSE IF Swallowed(records, n) THEN accounts[n - 1]
        ELSE Replayed(accounts[n - 1], records[n])
  IN  accounts[Len(records)]

(* There are no lobbies yet, so that a challenge between two accounts is   *)
(* fatal, and so is an account that went with a swallowed record.          *)
Fatal(records) ==
  \E n \in DOMAIN records :
    /\ ~Swallowed(records, n)
    /\ \/ /\ records[n].cmd.cmd = "CHALLENGE"
          /\ \A k \in 1 .. n : ~Swallowed(records, k)
       \/ Crashes(Replay(SubSeq(records, 1, n - 1)), records[n].cmd, records[n].client_id)

-----------------------------------------------------------------------------
All(v) == [p \in Programs |-> v]

NoConn == [fd \in Fds |-> NULL]

Init ==
  /\ server = "RUNNING" /\ lives = 1 /\ db = << >>
  /\ pool = << >> /\ maxfd = FirstFd - 1
  /\ conn = NoConn /\ serving = NULL /\ writing = NULL
  /\ backlog = << >> /\ phase = All("OFF") /\ args = All(NULL) /\ wire = All(<< >>)

-----------------------------------------------------------------------------
(* Client programs.  After connect they send REGISTER, sleep, send LOGIN   *)
(* and then what is typed; they wait for no answer.                        *)
Start(p, l) ==
  /\ server = "RUNNING"
  /\ phase[p] = "OFF"
  /\ backlog' = Append(backlog, p)
  /\ phase' = [phase EXCEPT ![p] = "REGISTERING"]
  /\ args' = [args EXCEPT ![p] = l]
  /\ wire' = [wire EXCEPT ![p] = << [cmd |-> "REGISTER", name |-> l.name,
                                      password |-> l.password] >>]
  /\ UNCHANGED << server, lives, db, process >>

Login(p) ==
  /\ phase[p] = "REGISTERING"
  /\ phase' = [phase EXCEPT ![p] = "SETTLED"]
  /\ wire' = [wire EXCEPT ![p] = Append(@, [cmd |-> "LOGIN", name |-> args[p].name,
                                             password |-> args[p].password])]
  /\ UNCHANGED << server, lives, db, process, backlog, args >>

Say(p, m) ==
  /\ phase[p] = "SETTLED"
  /\ Len(wire[p]) < MaxUnread
  /\ Persist(m) => Len(db) < MaxRecords
  /\ wire' = [wire EXCEPT ![p] = Append(@, m)]
  /\ UNCHANGED << server, lives, db, process, backlog, phase, args >>

(* handle_sigint, once it is set up, says good bye; a program may also be  *)
(* killed.                                                                 *)
Quit(p) ==
  /\ phase[p] \in {"REGISTERING", "SETTLED"}
  /\ phase' = [phase EXCEPT ![p] = "GONE"]
  /\ \/ UNCHANGED wire
     \/ /\ phase[p] = "SETTLED"
        /\ wire' = [wire EXCEPT ![p] = Append(@, [cmd |-> "LOGOUT", name |-> NULL,
                                                   password |-> NULL])]
  /\ UNCHANGED << server, lives, db, process, backlog, args >>

-----------------------------------------------------------------------------
(* The server.                                                             *)
Exits ==
  /\ server' = "DOWN"
  /\ pool' = << >> /\ maxfd' = FirstFd - 1
  /\ conn' = NoConn /\ serving' = NULL /\ writing' = NULL
  /\ backlog' = << >> /\ phase' = All("OFF") /\ args' = All(NULL) /\ wire' = All(<< >>)

Waits == server = "RUNNING" /\ serving = NULL /\ writing = NULL

Sockets == { pool[i].socket : i \in DOMAIN pool } \ {Stdin}

(* select refuses a descriptor that is not open.                           *)
SelectFails == \E fd \in Sockets : fd <= maxfd /\ conn[fd] = NULL

SelectError == Waits /\ SelectFails /\ Exits /\ UNCHANGED << lives, db >>

(* Killed, or asked to end on its standard input.                          *)
Stop == server = "RUNNING" /\ Exits /\ UNCHANGED << lives, db >>

Readable(fd) ==
  /\ fd \in Sockets /\ fd <= maxfd
  /\ wire[conn[fd]] # << >> \/ phase[conn[fd]] = "GONE"

(* recv takes all that has arrived and only the first command is handled,  *)
(* in the name of id.  What is to be written is written in the next step.  *)
HandleFirst(p, id, persist) ==
  LET m == Head(wire[p])
  IN  /\ ~Crashes(pool, m, id)
      /\ \E ok \in Outcomes(pool, m) :
           /\ pool' = IF ok THEN After(pool, m, id) ELSE pool
           /\ writing' = IF ok /\ persist /\ Persist(m)
                         THEN [client_id |-> id, cmd |-> m, tail |-> Tail(wire[p])]
                         ELSE NULL
      /\ wire' = [wire EXCEPT ![p] = << >>]
      /\ UNCHANGED << server, lives, db, phase, args >>

HandleCrash(p, id) ==
  /\ Crashes(pool, Head(wire[p]), id)
  /\ Exits
  /\ UNCHANGED << lives, db >>

write_cmd ==
  /\ writing # NULL
  /\ db' = Append(db, writing)
  /\ writing' = NULL
  /\ UNCHANGED << server, lives, pool, maxfd, conn, serving, clients >>

LowestFree == CHOOSE fd \in Fds : conn[fd] = NULL /\ \A f \in FirstFd .. fd - 1 : conn[f] # NULL

Accept ==
  /\ Waits /\ ~SelectFails
  /\ backlog # << >>
  /\ backlog' = Tail(backlog)
  /\ conn' = [conn EXCEPT ![LowestFree] = Head(backlog)]
  /\ serving' = LowestFree
  /\ HandleFirst(Head(backlog), LowestFree, TRUE)
  /\ UNCHANGED maxfd

(* Plausible slip: the new descriptor is not counted in.                   *)
LetInUnwatched ==
  /\ server = "RUNNING" /\ serving # NULL /\ writing = NULL
  /\ serving' = NULL
  /\ UNCHANGED << maxfd, conn, backlog >>

(* The second read of a new connection blocks until there is something.    *)
LetIn ==
  /\ server = "RUNNING" /\ serving # NULL /\ writing = NULL
  /\ serving' = NULL
  /\ maxfd' = IF serving > maxfd THEN serving ELSE maxfd
  /\ UNCHANGED << conn, backlog >>

ReadLogin ==
  /\ LetIn
  /\ wire[conn[serving]] # << >>
  /\ HandleFirst(conn[serving], serving, FALSE)

ReadLoginCrash ==
  /\ server = "RUNNING" /\ serving # NULL /\ writing = NULL
  /\ wire[conn[serving]] # << >>
  /\ HandleCrash(conn[serving], serving)

(* The buffer still holds the REGISTER command, which is refused now.      *)
ReadHangup ==
  /\ LetIn
  /\ wire[conn[serving]] = << >> /\ phase[conn[serving]] = "GONE"
  /\ UNCHANGED << server, lives, db, pool, writing, phase, args, wire >>

(* Descriptors are looked at in the order of the pool, one per round, and  *)
(* only when no connection is to be accepted.                              *)
Talking ==
  { i \in DOMAIN pool :
      /\ Readable(pool[i].socket)
      /\ \A j \in 1 .. i - 1 : ~Readable(pool[j].socket) }

Round(i) ==
  /\ Waits /\ ~SelectFails
  /\ backlog = << >>
  /\ i \in Talking

Talk(i) ==
  LET p == conn[pool[i].socket]
  IN  /\ Round(i)
      /\ wire[p] # << >>
      /\ HandleFirst(p, i - 1, TRUE)
      /\ UNCHANGED << maxfd, conn, serving, backlog >>

HangUp(i) ==
  LET fd == pool[i].socket
  IN  /\ Round(i)
      /\ wire[conn[fd]] = << >>
      /\ pool[i].online
      /\ pool' = archive_client(pool, i)
      /\ conn' = [conn EXCEPT ![fd] = NULL]
      /\ phase' = [phase EXCEPT ![conn[fd]] = "OFF"]
      /\ args' = [args EXCEPT ![conn[fd]] = NULL]
      /\ UNCHANGED << server, lives, db, maxfd, serving, writing, backlog, wire >>

(* A hangup on the socket of a client that is not online is not dealt      *)
(* with, and the next round finds it again.                                *)
HangUpIgnored(i) ==
  /\ Round(i)
  /\ wire[conn[pool[i].socket]] = << >>
  /\ ~pool[i].online
  /\ UNCHANGED vars

(* What is read of a garbled database may end the server: a command under  *)
(* an unknown id, or a number above MAX_COMMANDS (mediator.c:31).          *)
Restart ==
  /\ server = "DOWN"
  /\ lives < MaxLives
  /\ lives' = lives + 1
  /\ \/ /\ ~Fatal(db)
        /\ server' = "RUNNING"
        /\ pool' = Replay(db)
     \/ /\ Fatal(db) \/ Garbled(db)
        /\ UNCHANGED << server, pool >>
  /\ UNCHANGED << db, maxfd, conn, serving, writing, clients >>

Serve == \E i \in DOMAIN pool : Talk(i) \/ HangUp(i) \/ HangUpIgnored(i)

Server ==
  SelectError \/ write_cmd \/ Accept \/ ReadLogin \/ ReadLoginCrash \/ ReadHangup \/ Serve

Next ==
  \/ \E p \in Programs : \E l \in Logins : Start(p, l)
  \/ \E p \in Programs : Login(p) \/ Quit(p)
  \/ \E p \in Programs : \E m \in Says : Say(p, m)
  \/ Server
  \/ Stop
  \/ Restart

Spec == Init /\ [][Next]_vars

(* The server runs and a program that slept goes on; nothing else has to   *)
(* happen.                                                                 *)
Fairness == WF_vars(Server) /\ \A p \in Programs : WF_vars(Login(p))

FairSpec == Spec /\ Fairness

-----------------------------------------------------------------------------
(* Whoever is online is on a connection of his own that is open and        *)
(* watched (pool.c:60-63, 84-85, main.c:101-103), whatever the replay left *)
(* in the other entries of the pool.                                       *)
OnlineSocketsAreOwn ==
  \A i \in DOMAIN pool : pool[i].online =>
    /\ pool[i].socket \in Fds /\ pool[i].socket # serving
    /\ conn[pool[i].socket] # NULL
    /\ serving = NULL => pool[i].socket <= maxfd
    /\ \A j \in DOMAIN pool : pool[j].online /\ j # i => pool[j].socket # pool[i].socket

(* No two accounts answer to one name, through registering, renaming and   *)
(* replaying (pool.c:26, user.h:23 and 195).                               *)
NamesAreUnique ==
  \A i, j \in DOMAIN pool : pool[i].name = pool[j].name => i = j

(* What the server would rebuild from its database is the accounts it has: *)
(* ids, names and passwords (mediator.c:41-48, main.h:37-39).  It need not *)
(* be once there are accounts numbered like descriptors: a SET_INFO read   *)
(* where LOGIN is expected changes such an account and is not written.     *)
(* Nor if the replay passes over a record: the premise AllRead leaves out  *)
(* the records that persistor.c:36 loses, as Restart shows.                *)
AllRead(records) == \A n \in DOMAIN records : ~Swallowed(records, n)

Accounts(ps) == [i \in DOMAIN ps |-> << ps[i].name, ps[i].password >>]

DatabaseRebuildsTheAccounts ==
  server = "RUNNING" /\ writing = NULL /\ Len(pool) <= FirstFd /\ AllRead(db) =>
    Accounts(pool) = Accounts(Replay(db))

(* A session lasts until its program has hung up: nothing another client   *)
(* does takes it over or ends it while the server runs.                    *)
SessionsEndByHangup ==
  [][ \A i \in DOMAIN pool :
        pool[i].online /\ server' = "RUNNING" =>
          LET fd == pool[i].socket
          IN  \/ /\ pool'[i].online /\ pool'[i].socket = fd
                 /\ conn'[fd] = conn[fd]
              \/ phase[conn[fd]] = "GONE" ]_vars

(* The client whose descriptor is ready is the client that is talking      *)
(* (main.c:114): no other entry of the pool has the socket of a client     *)
(* that is online, so that what its program sends is handled in its name,  *)
(* and what is sent to the pool (socket.c:59-74) reaches it once.          *)
SpeakerIsTheClient ==
  \A i, j \in DOMAIN pool :
    pool[i].online /\ j # i => pool[j].socket # pool[i].socket

(* select never sees a descriptor that was closed (main.c:66-73, pool.c    *)
(* 60-63).                                                                 *)
SelectSucceeds == server = "RUNNING" => ~SelectFails

(* Both hold as long as the server was not started on a database.          *)
FirstLifeIsSound == lives = 1 => SpeakerIsTheClient /\ SelectSucceeds

(* Starting the server again connects to its database, at least if every   *)
(* record was written from one command (main.h:35-41).                     *)
RestartsSucceed ==
  [][lives' # lives /\ ~Garbled(db) => server' = "RUNNING"]_vars

(* Once nothing new is started, typed or ended, the server comes to rest   *)
(* with every command of those logged in handled and everyone who left     *)
(* archived (main.c:66-136).  It is down otherwise, or stuck where the     *)
(* code can be: in the second read of a connection whose program has       *)
(* nothing more to say, or on a hangup that it does not deal with.         *)
Resting == Server \/ Stop \/ Restart \/ \E p \in Programs : Login(p)

WaitsForLogin ==
  serving # NULL /\ wire[conn[serving]] = << >> /\ phase[conn[serving]] = "SETTLED"

StuckOnHangup ==
  \E i \in DOMAIN pool : Round(i) /\ wire[conn[pool[i].socket]] = << >> /\ ~pool[i].online

Served ==
  /\ backlog = << >>
  /\ \A i \in DOMAIN pool : pool[i].online =>
       wire[conn[pool[i].socket]] = << >> /\ phase[conn[pool[i].socket]] # "GONE"

EveryoneIsServed ==
  <>[][Resting]_vars =>
    <>[](server = "DOWN" \/ WaitsForLogin \/ StuckOnHangup \/ Served)
=============================================================================
