--------------------------- MODULE SessionsProofs ---------------------------
(***************************************************************************)
(* Proofs about connections and accounts for every number of programs,     *)
(* accounts, records and lives: SessionsInv is inductive, and so is that   *)
(* replaying the database would rebuild the accounts.                      *)
(***************************************************************************)
EXTENDS Sessions, FiniteSetTheorems, SequenceTheorems, TLAPS

Names(ps) == \A i, j \in DOMAIN ps : ps[i].name = ps[j].name => i = j

-----------------------------------------------------------------------------
(* What the handlers do to the pool, entry by entry.                       *)
LEMMA PoolIsFunction ==
  ASSUME NEW ps \in Seq(Client)
  PROVE  /\ Len(ps) \in Nat /\ DOMAIN ps = 1 .. Len(ps)
         /\ \A i \in DOMAIN ps : ps[i] \in Client
BY LenProperties, ElementOfSeq

(* The first account of a name is the account of that name.                *)
LEMMA TheClientOfAName ==
  ASSUME NEW ps \in Seq(Client), NEW name, Taken(ps, name), Names(ps)
  PROVE  /\ find_client_by_name(ps, name) \in DOMAIN ps
         /\ ps[find_client_by_name(ps, name)].name = name
         /\ \A i \in DOMAIN ps : ps[i].name = name => i = find_client_by_name(ps, name)
<1>1. PICK i \in DOMAIN ps : ps[i].name = name
  BY DEF Taken
<1>2. i \in Nat
  BY PoolIsFunction
<1>3. \E k \in DOMAIN ps :
        ps[k].name = name /\ \A j \in DOMAIN ps : ps[j].name = name => k <= j
  <2>1. \A j \in DOMAIN ps : ps[j].name = name => i <= j
    BY <1>1, <1>2 DEF Names
  <2> QED
    BY <1>1, <2>1
<1> QED
  BY <1>1, <1>3 DEF find_client_by_name, Names

(* Registering adds an account, offline, with a name of its own.           *)
LEMMA Registering ==
  ASSUME NEW ps \in Seq(Client), NEW m \in Commands, NEW socket \in Fds \cup {Stdin},
         MayRegister(ps, m), Names(ps), NEW qs, qs = on_user_register(ps, m, socket)
  PROVE  /\ qs \in Seq(Client) /\ Len(qs) <= MAX_CLIENTS
         /\ Names(qs)
         /\ \A i \in DOMAIN ps : i \in DOMAIN qs /\ qs[i] = ps[i]
         /\ \A i \in DOMAIN qs \ DOMAIN ps :
              qs[i].name = m.name /\ qs[i].socket = socket /\ ~qs[i].online
         /\ \A i, j \in DOMAIN qs \ DOMAIN ps : i = j
<1> DEFINE new == [name |-> m.name, password |-> m.password, socket |-> socket, online |-> FALSE]
<1>0. qs = Append(ps, new)
  BY DEF on_user_register
<1>1. new \in Client
  BY DEF Client
<1>2. Len(ps) \in Nat /\ DOMAIN ps = 1 .. Len(ps)
  BY PoolIsFunction
<1>3. /\ qs \in Seq(Client) /\ Len(qs) = Len(ps) + 1
      /\ \A i \in 1 .. Len(ps) : qs[i] = ps[i]
      /\ qs[Len(ps) + 1] = new
  <2> HIDE DEF new
  <2> QED
    BY <1>0, <1>1, AppendProperties
<1>4. DOMAIN qs = 1 .. Len(ps) + 1
  BY <1>3, PoolIsFunction
<1>5. /\ new.name = m.name /\ new.socket = socket /\ ~new.online
  OBVIOUS
<1>6. \A i \in DOMAIN ps : ps[i].name # m.name
  BY DEF MayRegister, Taken
<1>7. Names(qs)
  <2> HIDE DEF new
  <2> QED
    BY <1>2, <1>3, <1>4, <1>5, <1>6 DEF Names
<1>8. Len(qs) <= MAX_CLIENTS
  BY <1>2, <1>3, SessionsAssumption DEF MayRegister
<1>9. /\ \A i \in DOMAIN ps : i \in DOMAIN qs /\ qs[i] = ps[i]
      /\ \A i \in DOMAIN qs \ DOMAIN ps : i = Len(ps) + 1
  BY <1>2, <1>3, <1>4
<1> HIDE DEF new
<1> QED
  BY <1>3, <1>5, <1>7, <1>8, <1>9

(* Logging in and leaving change the socket and the state of one account.  *)
LEMMA LoggingIn ==
  ASSUME NEW ps \in Seq(Client), NEW m, NEW socket \in Fds,
         MayLogin(ps, m), Names(ps), NEW qs, qs = on_user_login(ps, m, socket),
         NEW l, l = find_client_by_name(ps, m.name)
  PROVE  /\ qs \in Seq(Client) /\ Len(qs) = Len(ps) /\ DOMAIN qs = DOMAIN ps
         /\ l \in DOMAIN ps /\ ps[l].name = m.name /\ ~ps[l].online
         /\ \A i \in DOMAIN ps :
              /\ qs[i].name = ps[i].name
              /\ qs[i].socket = IF i = l THEN socket ELSE ps[i].socket
              /\ qs[i].online = (i = l \/ ps[i].online)
<1> DEFINE e == [ps[l] EXCEPT !.online = TRUE, !.socket = socket]
<1>1. /\ l \in DOMAIN ps /\ ps[l].name = m.name /\ ~ps[l].online
  BY TheClientOfAName DEF MayLogin
<1>2. qs = [ps EXCEPT ![l] = e]
  BY DEF on_user_login
<1>3. /\ Len(ps) \in Nat /\ DOMAIN ps = 1 .. Len(ps)
      /\ \A i \in DOMAIN ps : ps[i] \in Client
  BY PoolIsFunction
<1>4. /\ e \in Client /\ e.name = ps[l].name /\ e.socket = socket /\ e.online
  <2>1. ps[l] \in Client
    BY <1>1, <1>3
  <2> QED
    BY <2>1 DEF Client
<1> HIDE DEF e
<1>5. /\ qs \in Seq(Client) /\ Len(qs) = Len(ps)
      /\ \A j \in 1 .. Len(ps) : qs[j] = IF j = l THEN e ELSE ps[j]
  BY <1>1, <1>2, <1>3, <1>4, ExceptSeq
<1>6. DOMAIN qs = DOMAIN ps
  BY <1>3, <1>5, PoolIsFunction
<1>7. \A i \in DOMAIN ps : ps[i].online \in BOOLEAN
  BY <1>3 DEF Client
<1>8. \A i \in DOMAIN ps :
        /\ qs[i].name = ps[i].name
        /\ qs[i].socket = IF i = l THEN socket ELSE ps[i].socket
        /\ qs[i].online = (i = l \/ ps[i].online)
  <2>1. TAKE i \in DOMAIN ps
  <2>2. CASE i = l
    BY <1>3, <1>4, <1>5, <2>2
  <2>3. CASE i # l
    BY <1>3, <1>5, <1>7, <2>3
  <2> QED
    BY <2>2, <2>3
<1> QED
  BY <1>1, <1>5, <1>6, <1>8

LEMMA Archiving ==
  ASSUME NEW ps \in Seq(Client), NEW k \in DOMAIN ps,
         NEW qs, qs = archive_client(ps, k)
  PROVE  /\ qs \in Seq(Client) /\ Len(qs) = Len(ps) /\ DOMAIN qs = DOMAIN ps
         /\ \A i \in DOMAIN ps :
              /\ qs[i].name = ps[i].name
              /\ i # k => qs[i] = ps[i]
         /\ ~qs[k].online
         /\ ps[k].online => qs[k].socket = Stdin
<1> DEFINE e == [ps[k] EXCEPT !.online = FALSE, !.socket = Stdin]
<1>1. /\ Len(ps) \in Nat /\ DOMAIN ps = 1 .. Len(ps)
      /\ \A i \in DOMAIN ps : ps[i] \in Client
  BY PoolIsFunction
<1>2. CASE ~ps[k].online
  BY <1>1, <1>2 DEF archive_client
<1>3. CASE ps[k].online
  <2>1. qs = [ps EXCEPT ![k] = e]
    BY <1>3 DEF archive_client
  <2>2. /\ e \in Client /\ e.name = ps[k].name /\ e.socket = Stdin /\ ~e.online
    <3>1. ps[k] \in Client
      BY <1>1
    <3> QED
      BY <3>1 DEF Client
  <2> HIDE DEF e
  <2>3. /\ qs \in Seq(Client) /\ Len(qs) = Len(ps)
        /\ \A j \in 1 .. Len(ps) : qs[j] = IF j = k THEN e ELSE ps[j]
    BY <1>1, <2>1, <2>2, ExceptSeq
  <2>4. DOMAIN qs = DOMAIN ps
    BY <1>1, <2>3, PoolIsFunction
  <2> QED
    BY <1>1, <2>2, <2>3, <2>4
<1> QED
  BY <1>2, <1>3

(* A new name or password: sockets and who is online stay as they were.    *)
LEMMA Renaming ==
  ASSUME NEW ps \in Seq(Client), NEW m \in Commands, NEW id \in Nat,
         MaySetInfo(ps, m), Names(ps), NEW qs, qs = on_user_set_info(ps, m, id)
  PROVE  /\ qs \in Seq(Client) /\ Len(qs) = Len(ps) /\ DOMAIN qs = DOMAIN ps
         /\ \A i \in DOMAIN ps :
              qs[i].socket = ps[i].socket /\ qs[i].online = ps[i].online
         /\ Names(qs)
<1> DEFINE k == id + 1
           e == [ps[k] EXCEPT !.name = Set(@, m.name), !.password = Set(@, m.password)]
<1>1. /\ Len(ps) \in Nat /\ DOMAIN ps = 1 .. Len(ps)
      /\ \A i \in DOMAIN ps : ps[i] \in Client
  BY PoolIsFunction
<1>2. qs = [ps EXCEPT ![k] = e]
  BY DEF on_user_set_info
<1>3. CASE k \notin DOMAIN ps
  <2>1. qs = ps
    <3> HIDE DEF e, k
    <3>1. ps \in [1 .. Len(ps) -> Client]
      BY LenProperties
    <3>2. qs = [i \in 1 .. Len(ps) |-> IF i = k THEN e ELSE ps[i]]
      BY <1>1, <1>2
    <3>3. \A i \in 1 .. Len(ps) : (IF i = k THEN e ELSE ps[i]) = ps[i]
      BY <1>1, <1>3
    <3> QED
      BY <3>1, <3>2, <3>3
  <2> QED
    BY <2>1
<1>4. CASE k \in DOMAIN ps
  <2>1. ps[k] \in Client
    BY <1>1, <1>4
  <2> HIDE DEF k
  <2>2. /\ e \in Client /\ e.name = Set(ps[k].name, m.name)
        /\ e.socket = ps[k].socket /\ e.online = ps[k].online
    BY <2>1 DEF Client, Set
  <2> HIDE DEF e
  <2>3. /\ qs \in Seq(Client) /\ Len(qs) = Len(ps)
        /\ \A j \in 1 .. Len(ps) : qs[j] = IF j = k THEN e ELSE ps[j]
    BY <1>1, <1>2, <1>4, <2>2, ExceptSeq
  <2>4. DOMAIN qs = DOMAIN ps
    BY <1>1, <2>3, PoolIsFunction
  <2>5. \A i \in DOMAIN ps : qs[i].socket = ps[i].socket /\ qs[i].online = ps[i].online
    BY <1>1, <2>2, <2>3
  <2>6. \A i \in DOMAIN ps : ps[i].name # e.name \/ i = k \/ e.name = ps[k].name
    BY <2>2 DEF MaySetInfo, Taken, Set
  <2>7. Names(qs)
    BY <1>1, <1>4, <2>3, <2>4, <2>6 DEF Names
  <2> QED
    BY <2>3, <2>4, <2>5, <2>7
<1> QED
  BY <1>3, <1>4

-----------------------------------------------------------------------------
(* The replay.  Records that were written have what it takes to read back  *)
(* accounts like those that were there: distinct names, all offline.       *)
Sound(ps) ==
  /\ ps \in Seq(Client) /\ Len(ps) <= MAX_CLIENTS
  /\ Names(ps)
  /\ \A i \in DOMAIN ps : ~ps[i].online

GoodRecord(r) ==
  /\ r \in Record /\ Persist(r.cmd)
  /\ r.cmd.cmd = "REGISTER" => r.client_id \in Fds

LEMMA ReplayedIsSound ==
  ASSUME NEW ps, Sound(ps), NEW r, GoodRecord(r)
  PROVE  Sound(Replayed(ps, r))
<1>1. /\ r.cmd \in Commands /\ r.client_id \in Nat
      /\ r.cmd.cmd \in {"REGISTER", "SET_INFO", "CHALLENGE"}
  BY DEF GoodRecord, Record, Persist, Persisted
<1>2. /\ Len(ps) \in Nat /\ DOMAIN ps = 1 .. Len(ps) /\ MAX_CLIENTS \in Nat
  BY PoolIsFunction, SessionsAssumption DEF Sound
<1>3. CASE Outcomes(ps, r.cmd) = {FALSE}
  BY <1>3 DEF Replayed
<1>4. CASE Outcomes(ps, r.cmd) # {FALSE} /\ r.cmd.cmd = "REGISTER"
  <2>1. MayRegister(ps, r.cmd)
    <3>1. Outcomes(ps, r.cmd) = {MayRegister(ps, r.cmd)}
      BY <1>4 DEF Outcomes
    <3>2. MayRegister(ps, r.cmd) \in BOOLEAN
      BY DEF MayRegister
    <3> QED
      BY <1>4, <3>1, <3>2
  <2>2. Replayed(ps, r) = on_user_register(ps, r.cmd, r.client_id)
    BY <1>4 DEF Replayed, After
  <2>3. r.client_id \in Fds \cup {Stdin}
    BY <1>4 DEF GoodRecord
  <2>a. ps \in Seq(Client) /\ Names(ps)
    BY DEF Sound
  <2> DEFINE qs == Replayed(ps, r)
  <2> HIDE DEF qs
  <2>4. /\ qs \in Seq(Client) /\ Len(qs) <= MAX_CLIENTS /\ Names(qs)
        /\ \A i \in DOMAIN ps : qs[i] = ps[i]
        /\ \A i \in DOMAIN qs \ DOMAIN ps : ~qs[i].online
    <3>1. qs = on_user_register(ps, r.cmd, r.client_id)
      BY <2>2 DEF qs
    <3> QED
      BY <1>1, <2>1, <2>3, <2>a, <3>1, Registering
  <2>5. \A i \in DOMAIN ps : ~ps[i].online
    BY DEF Sound
  <2>6. Sound(qs)
    BY <2>4, <2>5 DEF Sound
  <2> QED
    BY <2>6 DEF qs
<1>5. CASE Outcomes(ps, r.cmd) # {FALSE} /\ r.cmd.cmd = "SET_INFO"
  <2>1. MaySetInfo(ps, r.cmd)
    <3>1. Outcomes(ps, r.cmd) = {MaySetInfo(ps, r.cmd)}
      BY <1>5 DEF Outcomes
    <3>2. MaySetInfo(ps, r.cmd) \in BOOLEAN
      BY DEF MaySetInfo
    <3> QED
      BY <1>5, <3>1, <3>2
  <2>2. Replayed(ps, r) = on_user_set_info(ps, r.cmd, r.client_id)
    BY <1>5 DEF Replayed, After
  <2> QED
    BY <1>1, <2>1, <2>2, Renaming DEF Sound
<1>6. CASE Outcomes(ps, r.cmd) # {FALSE} /\ r.cmd.cmd = "CHALLENGE"
  BY <1>6 DEF Replayed, After
<1> QED
  BY <1>1, <1>3, <1>4, <1>5, <1>6

(* A record makes its difference, unless it is swallowed.                  *)
Taking(ps, records, n) ==
  IF Swallowed(records, n) THEN ps ELSE Replayed(ps, records[n])

(* A run of the replay: h[n] is the pool after n records.                  *)
RunOf(h, records) ==
  h = [n \in 0 .. Len(records) |-> IF n = 0 THEN << >> ELSE Taking(h[n - 1], records, n)]

(* What is swallowed depends on the records before.                        *)
LEMMA TakingAlike ==
  ASSUME NEW records, NEW more, NEW w \in Nat, NEW n \in 1 .. w,
         \A k \in 1 .. w : more[k] = records[k]
  PROVE  /\ Swallowed(more, n) = Swallowed(records, n)
         /\ \A ps : Taking(ps, more, n) = Taking(ps, records, n)
<1>1. n > 1 => n - 1 \in 1 .. w
  OBVIOUS
<1>2. Swallowed(more, n) = Swallowed(records, n)
  BY <1>1 DEF Swallowed
<1> QED
  BY <1>2 DEF Taking

(* A non-empty set of numbers has a least one.                             *)
LEMMA LeastExists ==
  ASSUME NEW n \in Nat, NEW S, S \subseteq 0 .. n, S # {}
  PROVE  \E x \in S : \A y \in S : x <= y
<1> DEFINE T == { 0 .. x : x \in S }
<1>1. T \subseteq FiniteSubsetsOf(Nat)
  <2>1. \A x \in S : 0 .. x \in SUBSET Nat /\ IsFiniteSet(0 .. x)
    BY FS_Interval
  <2> QED
    BY <2>1 DEF FiniteSubsetsOf
<1>2. T # {}
  OBVIOUS
<1>3. PICK U \in T : \A V \in T : ~(<< V, U >> \in StrictSubsetOrdering(Nat))
  <2> HIDE DEF T
  <2> QED
    BY <1>1, <1>2, FS_StrictSubsetOrderingWellFounded, WFMin
<1>4. PICK x \in S : U = 0 .. x
  OBVIOUS
<1>5. ASSUME NEW y \in S, y < x PROVE FALSE
  <2>1. 0 .. y \in T /\ 0 .. y \in SUBSET Nat /\ 0 .. x \in SUBSET Nat
    OBVIOUS
  <2>2. 0 .. y \subseteq 0 .. x /\ x \in 0 .. x /\ x \notin 0 .. y
    BY <1>5
  <2>3. << 0 .. y, U >> \in StrictSubsetOrdering(Nat)
    BY <1>4, <2>1, <2>2 DEF StrictSubsetOrdering
  <2> QED
    BY <1>3, <2>1, <2>3
<1> QED
  BY <1>5

LEMMA ReplayIsSound ==
  ASSUME NEW records \in Seq(Record), \E h : RunOf(h, records),
         \A k \in DOMAIN records : GoodRecord(records[k])
  PROVE  Sound(Replay(records))
<1> DEFINE accounts == CHOOSE h : RunOf(h, records)
<1>1. Replay(records) = accounts[Len(records)]
  BY DEF Replay, RunOf, Taking
<1>2. RunOf(accounts, records)
  OBVIOUS
<1> HIDE DEF accounts
<1>3. Len(records) \in Nat /\ DOMAIN records = 1 .. Len(records)
  BY LenProperties
<1>4. \A n \in 0 .. Len(records) :
        accounts[n] = IF n = 0 THEN << >> ELSE Taking(accounts[n - 1], records, n)
  BY <1>2 DEF RunOf
<1> DEFINE Wrong == { n \in 0 .. Len(records) : ~Sound(accounts[n]) }
<1>5. Wrong = {}
  <2>1. SUFFICES ASSUME Wrong # {} PROVE FALSE
    OBVIOUS
  <2>2. PICK n \in Wrong : \A k \in Wrong : n <= k
    BY <1>3, <2>1, LeastExists
  <2>3. n \in 0 .. Len(records) /\ ~Sound(accounts[n])
    OBVIOUS
  <2>4. n # 0
    <3>1. SUFFICES ASSUME n = 0 PROVE Sound(accounts[n])
      BY <2>3
    <3>2. accounts[n] = << >>
      BY <1>4, <2>3, <3>1
    <3>3. Sound(<< >>)
      BY EmptySeq, SessionsAssumption DEF Sound, Names
    <3> QED
      BY <3>2, <3>3
  <2>5. n - 1 \in 0 .. Len(records) /\ ~(n <= n - 1) /\ n \in DOMAIN records
    BY <1>3, <2>3, <2>4
  <2>6. Sound(accounts[n - 1])
    BY <2>2, <2>5
  <2>7. accounts[n] = Taking(accounts[n - 1], records, n)
    BY <1>4, <2>3, <2>4
  <2>8. Sound(Replayed(accounts[n - 1], records[n]))
    BY <2>5, <2>6, ReplayedIsSound
  <2> QED
    BY <2>3, <2>6, <2>7, <2>8 DEF Taking
<1>6. Len(records) \in 0 .. Len(records)
  BY <1>3
<1> QED
  BY <1>1, <1>5, <1>6

LEMMA ReplayGrows ==
  ASSUME NEW records \in Seq(Record), NEW r \in Record, NEW h, RunOf(h, records)
  PROVE  \E g : RunOf(g, Append(records, r))
<1> DEFINE more == Append(records, r)
           g == [n \in 0 .. Len(records) + 1 |->
               IF n <= Len(records) THEN h[n]
               ELSE Taking(h[Len(records)], more, Len(records) + 1)]
<1>1. /\ Len(records) \in Nat /\ Len(more) = Len(records) + 1
      /\ \A k \in 1 .. Len(records) : more[k] = records[k]
      /\ more[Len(records) + 1] = r
  BY LenProperties, AppendProperties
<1>2. \A n \in 0 .. Len(records) :
        h[n] = IF n = 0 THEN << >> ELSE Taking(h[n - 1], records, n)
  BY DEF RunOf
<1> HIDE DEF more
<1>3. \A n \in 0 .. Len(more) : g[n] = IF n = 0 THEN << >> ELSE Taking(g[n - 1], more, n)
  <2>1. TAKE n \in 0 .. Len(more)
  <2>2. CASE n = 0
    BY <1>1, <1>2, <2>2
  <2>3. CASE n \in 1 .. Len(records)
    <3>1. n - 1 \in 0 .. Len(records) /\ n \in 0 .. Len(records) + 1 /\ n - 1 \in 0 .. Len(records) + 1
          /\ n <= Len(records) /\ n - 1 <= Len(records) /\ n # 0
      BY <1>1, <2>3
    <3>2. g[n] = h[n] /\ g[n - 1] = h[n - 1]
      BY <3>1
    <3>3. Taking(h[n - 1], more, n) = Taking(h[n - 1], records, n)
      BY <1>1, <2>3, TakingAlike, ZenonT(60)
    <3>4. h[n] = Taking(h[n - 1], records, n)
      BY <1>2, <3>1
    <3> QED
      BY <3>1, <3>2, <3>3, <3>4
  <2>4. CASE n = Len(records) + 1
    <3>1. /\ n \in 0 .. Len(records) + 1 /\ ~(n <= Len(records)) /\ n # 0
          /\ n - 1 = Len(records) /\ Len(records) \in 0 .. Len(records) + 1
          /\ Len(records) <= Len(records)
      BY <1>1, <2>4
    <3>2. g[n] = Taking(h[Len(records)], more, n) /\ g[n - 1] = h[Len(records)]
      BY <3>1
    <3> QED
      BY <1>1, <2>4, <3>1, <3>2
  <2> QED
    BY <1>1, <2>2, <2>3, <2>4
<1>4. g = [n \in 0 .. Len(more) |-> g[n]]
  BY <1>1
<1> HIDE DEF g
<1>5. RunOf(g, more)
  BY <1>3, <1>4 DEF RunOf
<1> QED
  BY <1>5 DEF more

-----------------------------------------------------------------------------
(* The inductive invariant.  A program is in one place at most: it waits   *)
(* to be accepted or is at the other end of one descriptor.                *)
Places ==
  /\ \A p \in Programs : phase[p] = "OFF" =>
       /\ \A fd \in Fds : conn[fd] # p
       /\ \A k \in DOMAIN backlog : backlog[k] # p
  /\ \A f, g \in Fds : conn[f] = conn[g] /\ conn[f] # NULL => f = g
  /\ \A j, k \in DOMAIN backlog : backlog[j] = backlog[k] => j = k
  /\ \A fd \in Fds : \A k \in DOMAIN backlog : conn[fd] # backlog[k]
  /\ serving # NULL => conn[serving] # NULL

(* REGISTER is the first command of a connection to be accepted and found  *)
(* nowhere else, LOGIN is found before the connection is let in.           *)
Speech ==
  /\ \A p \in Programs : phase[p] # "OFF" => args[p] \in Logins
  /\ \A p \in Programs : \A k \in DOMAIN wire[p] :
       wire[p][k].cmd = "LOGIN" => wire[p][k].name = args[p].name
  /\ \A k \in DOMAIN backlog :
       /\ wire[backlog[k]] # << >>
       /\ Head(wire[backlog[k]]).cmd = "REGISTER"
       /\ Head(wire[backlog[k]]).name = args[backlog[k]].name
  /\ \A fd \in Fds : conn[fd] # NULL =>
       /\ \A k \in DOMAIN wire[conn[fd]] : wire[conn[fd]][k].cmd # "REGISTER"
       /\ fd # serving =>
            /\ phase[conn[fd]] \in {"SETTLED", "GONE"}
            /\ \A k \in DOMAIN wire[conn[fd]] : wire[conn[fd]][k].cmd # "LOGIN"
  /\ serving # NULL /\ phase[conn[serving]] = "REGISTERING" => wire[conn[serving]] = << >>

Records ==
  /\ writing # NULL => GoodRecord(writing)
  /\ \A k \in DOMAIN db : GoodRecord(db[k])
  /\ \E h : RunOf(h, db)

(* OnlineSocketsAreOwn, with maxfd right in the middle of letting in too.  *)
OnlineAreWatched ==
  \A i \in DOMAIN pool : pool[i].online =>
    /\ pool[i].socket \in Fds /\ pool[i].socket # serving
    /\ conn[pool[i].socket] # NULL
    /\ pool[i].socket <= maxfd
    /\ \A j \in DOMAIN pool : pool[j].online /\ j # i => pool[j].socket # pool[i].socket

(* Without a replay, the pool has only descriptors that are open, each at  *)
(* most once, and that of a connection being let in only under its name.   *)
FirstSockets ==
  lives = 1 =>
    /\ \A i \in DOMAIN pool : pool[i].socket # Stdin => conn[pool[i].socket] # NULL
    /\ \A i, j \in DOMAIN pool :
         pool[i].socket = pool[j].socket /\ i # j => pool[i].socket = Stdin
    /\ serving # NULL => \A i \in DOMAIN pool :
         pool[i].socket = serving => pool[i].name = args[conn[serving]].name

SessionsInv ==
  /\ TypeOK
  /\ Places
  /\ Speech
  /\ Names(pool)
  /\ Records
  /\ OnlineAreWatched
  /\ FirstSockets

LEMMA Constants ==
  /\ NULL \notin Programs /\ NULL \notin Nat
  /\ FirstFd \in Nat /\ FirstFd > 0
  /\ Cardinality(Programs) \in Nat
  /\ Fds \subseteq Nat /\ IsFiniteSet(Fds) /\ Cardinality(Fds) = Cardinality(Programs)
  /\ Stdin \notin Fds /\ NULL \notin Fds /\ Stdin \in Nat
<1>1. Cardinality(Programs) \in Nat
  BY SessionsAssumption, FS_CardinalityType
<1>2. FirstFd \in Nat /\ FirstFd > 0 /\ NULL \notin Programs /\ NULL \notin Nat
  BY SessionsAssumption
<1>3. PICK last \in Int : last = FirstFd + Cardinality(Programs) - 1
  BY <1>1, <1>2
<1>4. /\ IsFiniteSet(FirstFd .. last)
      /\ Cardinality(FirstFd .. last) = IF FirstFd > last THEN 0 ELSE last - FirstFd + 1
  BY <1>2, FS_Interval
<1>5. IsFiniteSet(Fds) /\ Cardinality(Fds) = Cardinality(Programs)
  BY <1>1, <1>2, <1>3, <1>4 DEF Fds
<1>6. \A fd \in Fds : fd \in Nat /\ fd > 0
  BY <1>1, <1>2 DEF Fds
<1>7. NULL \notin Fds
  BY <1>2, <1>6
<1>8. Stdin \notin Fds /\ Stdin \in Nat
  BY <1>6 DEF Stdin
<1> QED
  BY <1>1, <1>2, <1>5, <1>6, <1>7, <1>8

LEMMA InitSessionsInv == Init => SessionsInv
<1> SUFFICES ASSUME Init PROVE SessionsInv
  OBVIOUS
<1>1. << >> \in Seq(Record) /\ << >> \in Seq(Client) /\ << >> \in Seq(Programs)
      /\ << >> \in Seq(Commands) /\ Len(<< >>) = 0
  BY EmptySeq
<1>2. TypeOK
  BY <1>1, Constants, SessionsAssumption DEF Init, TypeOK, NoConn, All
<1>3. Places /\ Speech
  BY Constants DEF Init, Places, Speech, NoConn, All
<1>4. Records
  <2> DEFINE h == [n \in 0 .. Len(db) |-> << >>]
  <2>1. RunOf(h, db)
    BY <1>1 DEF Init, RunOf
  <2> QED
    BY <2>1 DEF Init, Records
<1>5. DOMAIN pool = {} /\ serving = NULL
  BY <1>1, PoolIsFunction DEF Init
<1>6. Names(pool) /\ OnlineAreWatched /\ FirstSockets
  BY <1>5 DEF Names, OnlineAreWatched, FirstSockets
<1> QED
  BY <1>2, <1>3, <1>4, <1>6 DEF SessionsInv

-----------------------------------------------------------------------------
(* The server ends: nothing is left of connections and accounts.           *)
LEMMA ExitsKeeps ==
  ASSUME SessionsInv, Exits, UNCHANGED << lives, db >>
  PROVE  SessionsInv'
<1>1. << >> \in Seq(Client) /\ << >> \in Seq(Programs)
      /\ << >> \in Seq(Commands) /\ Len(<< >>) = 0
  BY EmptySeq
<1>2. TypeOK'
  BY <1>1, Constants, SessionsAssumption DEF SessionsInv, Exits, TypeOK, NoConn, All
<1>3. Places' /\ Speech'
  BY Constants DEF Exits, Places, Speech, NoConn, All
<1>4. Records'
  BY DEF Exits, SessionsInv, Records
<1>5. DOMAIN pool' = {} /\ serving' = NULL
  BY <1>1, PoolIsFunction DEF Exits
<1>6. Names(pool)' /\ OnlineAreWatched' /\ FirstSockets'
  BY <1>5 DEF Names, OnlineAreWatched, FirstSockets
<1> QED
  BY <1>2, <1>3, <1>4, <1>6 DEF SessionsInv

-----------------------------------------------------------------------------
(* Client programs.  They only add to the backlog and to their own wire.   *)
LEMMA Appending ==
  ASSUME NEW S, NEW s \in Seq(S), NEW e \in S, NEW t, t = Append(s, e)
  PROVE  /\ t \in Seq(S) /\ t # << >>
         /\ Head(t) = IF s = << >> THEN e ELSE Head(s)
         /\ \A k \in DOMAIN s : k \in DOMAIN t /\ t[k] = s[k]
         /\ \A k \in DOMAIN t \ DOMAIN s : t[k] = e
         /\ \A j, k \in DOMAIN t \ DOMAIN s : j = k
<1>1. Len(s) \in Nat /\ DOMAIN s = 1 .. Len(s) /\ (s = << >> => Len(s) = 0)
      /\ (s # << >> => Len(s) # 0)
  BY LenProperties, EmptySeq
<1>2. /\ t \in Seq(S) /\ Len(t) = Len(s) + 1 /\ t # << >>
      /\ \A k \in 1 .. Len(s) : t[k] = s[k]
      /\ t[Len(s) + 1] = e
  BY AppendProperties, <1>1
<1>3. DOMAIN t = 1 .. Len(s) + 1
  BY <1>2, LenProperties
<1>4. Head(t) = IF s = << >> THEN e ELSE Head(s)
  BY <1>1, <1>2
<1> QED
  BY <1>1, <1>2, <1>3, <1>4

LEMMA TheCommands ==
  /\ Says \subseteq Commands
  /\ \A l \in Logins : \A c \in {"REGISTER", "LOGIN"} :
       [cmd |-> c, name |-> l.name, password |-> l.password] \in Commands
  /\ [cmd |-> "LOGOUT", name |-> NULL, password |-> NULL] \in Commands
BY DEF Commands

LEMMA StartKeeps ==
  ASSUME SessionsInv, NEW p \in Programs, NEW l \in Logins, Start(p, l)
  PROVE  SessionsInv'
<1> DEFINE m == [cmd |-> "REGISTER", name |-> l.name, password |-> l.password]
<1>1. m \in Commands /\ m.cmd = "REGISTER" /\ m.name = l.name
  BY TheCommands
<1>2. /\ TypeOK /\ Places /\ Speech /\ Names(pool) /\ Records /\ OnlineAreWatched /\ FirstSockets
  BY DEF SessionsInv
<1>3. /\ phase[p] = "OFF" /\ backlog' = Append(backlog, p)
      /\ phase' = [phase EXCEPT ![p] = "REGISTERING"] /\ args' = [args EXCEPT ![p] = l]
      /\ wire' = [wire EXCEPT ![p] = << m >>]
      /\ UNCHANGED << server, lives, db, pool, maxfd, conn, serving, writing >>
  BY DEF Start, process
<1> HIDE DEF m
<1>4. /\ << m >> \in Seq(Commands) /\ << m >> # << >> /\ Head(<< m >>) = m
      /\ DOMAIN << m >> = {1} /\ << m >>[1] = m
  BY <1>1
<1>5. /\ backlog \in Seq(Programs) /\ backlog' \in Seq(Programs)
      /\ \A k \in DOMAIN backlog : k \in DOMAIN backlog' /\ backlog'[k] = backlog[k] /\ backlog[k] \in Programs
      /\ \A k \in DOMAIN backlog' \ DOMAIN backlog : backlog'[k] = p
      /\ \A j, k \in DOMAIN backlog' \ DOMAIN backlog : j = k
  <2>1. backlog \in Seq(Programs)
    BY <1>2 DEF TypeOK
  <2>2. \A k \in DOMAIN backlog : backlog[k] \in Programs
    BY <2>1, LenProperties, ElementOfSeq
  <2> QED
    BY <1>3, <2>1, <2>2, Appending
<1>6. TypeOK'
  BY <1>2, <1>3, <1>4, <1>5 DEF TypeOK
<1>7. Places'
  BY <1>2, <1>3, <1>5 DEF TypeOK, Places
<1>8. /\ phase'[p] = "REGISTERING" /\ args'[p] = l /\ wire'[p] = << m >>
      /\ \A q \in Programs : q # p =>
           phase'[q] = phase[q] /\ args'[q] = args[q] /\ wire'[q] = wire[q]
      /\ \A fd \in Fds : conn[fd] # NULL => conn[fd] \in Programs /\ conn[fd] # p
  BY <1>2, <1>3 DEF TypeOK, Places
<1>9. Speech'
  <2>1. \A q \in Programs : phase'[q] # "OFF" => args'[q] \in Logins
    BY <1>2, <1>8 DEF Speech
  <2>2. \A q \in Programs : \A k \in DOMAIN wire'[q] :
          wire'[q][k].cmd = "LOGIN" => wire'[q][k].name = args'[q].name
    BY <1>1, <1>2, <1>4, <1>8 DEF Speech
  <2>3. \A k \in DOMAIN backlog' :
          /\ wire'[backlog'[k]] # << >>
          /\ Head(wire'[backlog'[k]]).cmd = "REGISTER"
          /\ Head(wire'[backlog'[k]]).name = args'[backlog'[k]].name
    <3>1. TAKE k \in DOMAIN backlog'
    <3>2. CASE k \in DOMAIN backlog
      <4>1. backlog[k] # p /\ backlog'[k] = backlog[k] /\ backlog[k] \in Programs
        BY <1>2, <1>3, <1>5, <3>2 DEF Places
      <4> QED
        BY <1>2, <1>8, <3>2, <4>1 DEF Speech
    <3>3. CASE k \notin DOMAIN backlog
      BY <1>1, <1>4, <1>5, <1>8, <3>3
    <3> QED
      BY <3>2, <3>3
  <2>4. /\ \A fd \in Fds : conn'[fd] # NULL =>
             /\ \A k \in DOMAIN wire'[conn'[fd]] : wire'[conn'[fd]][k].cmd # "REGISTER"
             /\ fd # serving' =>
                  /\ phase'[conn'[fd]] \in {"SETTLED", "GONE"}
                  /\ \A k \in DOMAIN wire'[conn'[fd]] : wire'[conn'[fd]][k].cmd # "LOGIN"
    BY <1>2, <1>3, <1>8, SMTT(30) DEF Speech
  <2>5. serving' # NULL /\ phase'[conn'[serving']] = "REGISTERING" => wire'[conn'[serving']] = << >>
    BY <1>2, <1>3, <1>8 DEF Speech, Places, TypeOK
  <2> QED
    BY <2>1, <2>2, <2>3, <2>4, <2>5 DEF Speech
<1>10. FirstSockets'
  BY <1>2, <1>3, <1>8 DEF FirstSockets, Places, TypeOK
<1>11. Names(pool)' /\ Records' /\ OnlineAreWatched'
  BY <1>2, <1>3 DEF Names, Records, OnlineAreWatched
<1> QED
  BY <1>6, <1>7, <1>9, <1>10, <1>11 DEF SessionsInv

(* A program that has connected goes on, with a command or without.        *)
LEMMA Speaking ==
  ASSUME SessionsInv, NEW p \in Programs, phase[p] \in {"REGISTERING", "SETTLED"},
         NEW x \in {"SETTLED", "GONE"}, phase' = [phase EXCEPT ![p] = x],
         NEW m \in Commands, m.cmd # "REGISTER",
         m.cmd = "LOGIN" => phase[p] = "REGISTERING" /\ m.name = args[p].name,
         wire' = wire \/ wire' = [wire EXCEPT ![p] = Append(@, m)],
         UNCHANGED << server, lives, db, process, backlog, args >>
  PROVE  SessionsInv'
<1>1. /\ TypeOK /\ Places /\ Speech /\ Names(pool) /\ Records /\ OnlineAreWatched /\ FirstSockets
  BY DEF SessionsInv
<1>2. /\ wire \in [Programs -> Seq(Commands)]
      /\ phase \in [Programs -> {"OFF", "REGISTERING", "SETTLED", "GONE"}]
      /\ conn \in [Fds -> Programs \cup {NULL}] /\ serving \in Fds \cup {NULL}
      /\ backlog \in Seq(Programs)
  BY <1>1 DEF TypeOK
<1>3. /\ wire' \in [Programs -> Seq(Commands)]
      /\ \A q \in Programs : q # p => wire'[q] = wire[q]
      /\ wire[p] # << >> => wire'[p] # << >> /\ Head(wire'[p]) = Head(wire[p])
      /\ \A k \in DOMAIN wire'[p] :
           wire'[p][k] = m \/ (k \in DOMAIN wire[p] /\ wire'[p][k] = wire[p][k])
  <2>1. CASE wire' = wire
    BY <1>2, <2>1
  <2>2. CASE wire' = [wire EXCEPT ![p] = Append(@, m)]
    <3>1. wire[p] \in Seq(Commands)
      BY <1>2
    <3>2. PICK t : t = Append(wire[p], m)
      OBVIOUS
    <3>3. /\ t \in Seq(Commands) /\ t # << >>
          /\ wire[p] # << >> => Head(t) = Head(wire[p])
          /\ \A k \in DOMAIN t : t[k] = m \/ (k \in DOMAIN wire[p] /\ t[k] = wire[p][k])
      BY <3>1, <3>2, Appending
    <3>4. wire' = [wire EXCEPT ![p] = t]
      BY <2>2, <3>2
    <3> QED
      BY <1>2, <3>3, <3>4
  <2> QED
    BY <2>1, <2>2
<1>4. /\ phase' \in [Programs -> {"OFF", "REGISTERING", "SETTLED", "GONE"}]
      /\ phase'[p] = x /\ \A q \in Programs : q # p => phase'[q] = phase[q]
  BY <1>2
<1>5. UNCHANGED << server, lives, db, pool, maxfd, conn, serving, writing, backlog, args >>
  BY DEF process
<1>6. TypeOK'
  BY <1>1, <1>3, <1>4, <1>5 DEF TypeOK
<1>7. Places'
  BY <1>1, <1>4, <1>5 DEF Places
<1>8. \A k \in DOMAIN backlog : backlog[k] \in Programs
  BY <1>2, LenProperties, ElementOfSeq
<1>9. Speech'
  <2>1. \A q \in Programs : phase'[q] # "OFF" => args'[q] \in Logins
    BY <1>1, <1>4, <1>5 DEF Speech
  <2>2. \A q \in Programs : \A k \in DOMAIN wire'[q] :
          wire'[q][k].cmd = "LOGIN" => wire'[q][k].name = args'[q].name
    BY <1>1, <1>3, <1>5 DEF Speech
  <2>3. \A k \in DOMAIN backlog' :
          /\ wire'[backlog'[k]] # << >>
          /\ Head(wire'[backlog'[k]]).cmd = "REGISTER"
          /\ Head(wire'[backlog'[k]]).name = args'[backlog'[k]].name
    BY <1>1, <1>3, <1>5, <1>8 DEF Speech
  <2>4. ASSUME NEW fd \in Fds, conn'[fd] # NULL
        PROVE  /\ \A k \in DOMAIN wire'[conn'[fd]] : wire'[conn'[fd]][k].cmd # "REGISTER"
               /\ fd # serving' =>
                    /\ phase'[conn'[fd]] \in {"SETTLED", "GONE"}
                    /\ \A k \in DOMAIN wire'[conn'[fd]] : wire'[conn'[fd]][k].cmd # "LOGIN"
    <3>1. conn[fd] \in Programs /\ conn'[fd] = conn[fd]
      BY <1>2, <1>5, <2>4
    <3>2. CASE conn[fd] # p
      <4>1. wire'[conn[fd]] = wire[conn[fd]] /\ phase'[conn[fd]] = phase[conn[fd]]
        BY <1>3, <1>4, <3>1, <3>2
      <4>2. /\ \A k \in DOMAIN wire[conn[fd]] : wire[conn[fd]][k].cmd # "REGISTER"
            /\ fd # serving =>
                 /\ phase[conn[fd]] \in {"SETTLED", "GONE"}
                 /\ \A k \in DOMAIN wire[conn[fd]] : wire[conn[fd]][k].cmd # "LOGIN"
        BY <1>1, <2>4, <3>1 DEF Speech
      <4> QED
        BY <1>5, <3>1, <4>1, <4>2
    <3>3. CASE conn[fd] = p
      <4>1. /\ \A k \in DOMAIN wire[p] : wire[p][k].cmd # "REGISTER"
            /\ fd # serving => phase[p] # "REGISTERING" /\
                 \A k \in DOMAIN wire[p] : wire[p][k].cmd # "LOGIN"
        BY <1>1, <1>5, <2>4, <3>3 DEF Speech
      <4> QED
        BY <1>3, <1>4, <1>5, <3>1, <3>3, <4>1
    <3> QED
      BY <3>2, <3>3
  <2>5. serving' # NULL /\ phase'[conn'[serving']] = "REGISTERING" => wire'[conn'[serving']] = << >>
    <3>1. ASSUME serving # NULL PROVE serving \in Fds /\ conn[serving] \in Programs
      BY <1>1, <1>2, <3>1 DEF Places
    <3> QED
      BY <1>1, <1>3, <1>4, <1>5, <3>1 DEF Speech
  <2> QED
    BY <2>1, <2>2, <2>3, <2>4, <2>5 DEF Speech
<1>10. Names(pool)' /\ Records' /\ OnlineAreWatched' /\ FirstSockets'
  BY <1>1, <1>5 DEF Names, Records, OnlineAreWatched, FirstSockets
<1> QED
  BY <1>6, <1>7, <1>9, <1>10 DEF SessionsInv

LEMMA ProgramsKeep ==
  ASSUME SessionsInv, NEW p \in Programs,
         Login(p) \/ Quit(p) \/ \E m \in Says : Say(p, m)
  PROVE  SessionsInv'
<1>1. phase \in [Programs -> {"OFF", "REGISTERING", "SETTLED", "GONE"}]
      /\ wire \in [Programs -> Seq(Commands)]
  BY DEF SessionsInv, TypeOK
<1>2. CASE Login(p)
  <2> DEFINE m == [cmd |-> "LOGIN", name |-> args[p].name, password |-> args[p].password]
  <2>1. args[p] \in Logins
    BY <1>2 DEF SessionsInv, Speech, Login
  <2>2. m \in Commands /\ m.cmd = "LOGIN" /\ m.name = args[p].name
    BY <2>1, TheCommands
  <2>3. /\ phase[p] = "REGISTERING" /\ phase' = [phase EXCEPT ![p] = "SETTLED"]
        /\ wire' = [wire EXCEPT ![p] = Append(@, m)]
        /\ UNCHANGED << server, lives, db, process, backlog, args >>
    BY <1>2 DEF Login
  <2> HIDE DEF m
  <2> QED
    BY <2>2, <2>3, Speaking
<1>3. CASE Quit(p)
  <2> DEFINE m == [cmd |-> "LOGOUT", name |-> NULL, password |-> NULL]
  <2>1. m \in Commands /\ m.cmd = "LOGOUT"
    BY TheCommands
  <2>2. /\ phase[p] \in {"REGISTERING", "SETTLED"} /\ phase' = [phase EXCEPT ![p] = "GONE"]
        /\ wire' = wire \/ wire' = [wire EXCEPT ![p] = Append(@, m)]
        /\ UNCHANGED << server, lives, db, process, backlog, args >>
    BY <1>3 DEF Quit
  <2> HIDE DEF m
  <2> QED
    BY <2>1, <2>2, Speaking
<1>4. CASE \E m \in Says : Say(p, m)
  <2>1. PICK m \in Says : Say(p, m)
    BY <1>4
  <2>2. m \in Commands /\ m.cmd \notin {"REGISTER", "LOGIN"}
    BY TheCommands, SessionsAssumption
  <2>3. /\ phase[p] = "SETTLED" /\ wire' = [wire EXCEPT ![p] = Append(@, m)]
        /\ UNCHANGED << server, lives, db, process, backlog, args >> /\ phase' = phase
    BY <2>1 DEF Say
  <2>4. phase' = [phase EXCEPT ![p] = "SETTLED"]
    BY <1>1, <2>3
  <2> QED
    BY <2>2, <2>3, <2>4, Speaking
<1> QED
  BY <1>2, <1>3, <1>4

-----------------------------------------------------------------------------
(* The server.                                                             *)
LEMMA WriteKeeps ==
  ASSUME SessionsInv, write_cmd
  PROVE  SessionsInv'
<1>1. /\ TypeOK /\ Places /\ Speech /\ Names(pool) /\ Records /\ OnlineAreWatched /\ FirstSockets
  BY DEF SessionsInv
<1>2. /\ writing # NULL /\ db' = Append(db, writing) /\ writing' = NULL
      /\ UNCHANGED << server, lives, pool, maxfd, conn, serving, backlog, phase, args, wire >>
  BY DEF write_cmd, clients
<1>3. db \in Seq(Record) /\ writing \in Record /\ GoodRecord(writing)
  BY <1>1, <1>2 DEF TypeOK, Records
<1>4. /\ db' \in Seq(Record)
      /\ \A k \in DOMAIN db' : db'[k] = writing \/ (k \in DOMAIN db /\ db'[k] = db[k])
  BY <1>2, <1>3, Appending
<1>5. TypeOK'
  BY <1>1, <1>2, <1>4 DEF TypeOK
<1>6. Records'
  <2>1. PICK h : RunOf(h, db)
    BY <1>1 DEF Records
  <2>2. \E g : RunOf(g, db')
    BY <1>2, <1>3, <2>1, ReplayGrows
  <2> QED
    BY <1>1, <1>2, <1>3, <1>4, <2>2 DEF Records
<1>7. Places' /\ Speech'
  BY <1>1, <1>2 DEF Places, Speech
<1>8. Names(pool)' /\ OnlineAreWatched' /\ FirstSockets'
  BY <1>1, <1>2 DEF Names, OnlineAreWatched, FirstSockets
<1> QED
  BY <1>5, <1>6, <1>7, <1>8 DEF SessionsInv

LEMMA RestartKeeps ==
  ASSUME SessionsInv, Restart
  PROVE  SessionsInv'
<1>1. /\ TypeOK /\ Places /\ Speech /\ Names(pool) /\ Records /\ OnlineAreWatched
  BY DEF SessionsInv
<1>2. /\ lives' = lives + 1 /\ lives < MaxLives
      /\ \/ server' = "RUNNING" /\ pool' = Replay(db)
         \/ server' = server /\ pool' = pool
      /\ UNCHANGED << db, maxfd, conn, serving, writing, backlog, phase, args, wire >>
  BY DEF Restart, clients
<1>3. lives' \in 1 .. MaxLives /\ lives' # 1
  BY <1>1, <1>2, SessionsAssumption DEF TypeOK
<1>4. /\ pool' \in Seq(Client) /\ Len(pool') <= MAX_CLIENTS /\ Names(pool')
      /\ \/ \A i \in DOMAIN pool' : ~pool'[i].online
         \/ pool' = pool
  <2>1. db \in Seq(Record) /\ \A k \in DOMAIN db : GoodRecord(db[k])
    BY <1>1 DEF TypeOK, Records
  <2>2. Sound(Replay(db))
    BY <1>1, <2>1, ReplayIsSound DEF Records
  <2> QED
    BY <1>1, <1>2, <2>2 DEF Sound, TypeOK
<1>5. TypeOK'
  BY <1>1, <1>2, <1>3, <1>4 DEF TypeOK
<1>6. Places' /\ Speech' /\ Records'
  BY <1>1, <1>2 DEF Places, Speech, Records
<1>7. OnlineAreWatched'
  BY <1>1, <1>2, <1>4 DEF OnlineAreWatched
<1>8. FirstSockets' /\ Names(pool)'
  BY <1>3, <1>4 DEF FirstSockets, Names
<1> QED
  BY <1>5, <1>6, <1>7, <1>8 DEF SessionsInv

LEMMA ReadHangupKeeps ==
  ASSUME SessionsInv, ReadHangup
  PROVE  SessionsInv'
<1>1. /\ TypeOK /\ Places /\ Speech /\ Names(pool) /\ Records /\ OnlineAreWatched /\ FirstSockets
  BY DEF SessionsInv
<1>2. /\ serving # NULL /\ serving' = NULL
      /\ maxfd' = IF serving > maxfd THEN serving ELSE maxfd
      /\ wire[conn[serving]] = << >> /\ phase[conn[serving]] = "GONE"
      /\ UNCHANGED << server, lives, db, pool, conn, writing, backlog, phase, args, wire >>
  BY DEF ReadHangup, LetIn
<1>3. /\ serving \in Fds /\ maxfd' \in Fds \cup {FirstFd - 1}
      /\ maxfd \in Int /\ maxfd' \in Int /\ maxfd <= maxfd' /\ Fds \subseteq Int
  BY <1>1, <1>2, Constants DEF TypeOK
<1>4. TypeOK'
  BY <1>1, <1>2, <1>3 DEF TypeOK
<1>5. Places' /\ Records' /\ Names(pool)'
  BY <1>1, <1>2 DEF Places, Records, Names
<1>6. Speech'
  <2>1. DOMAIN wire[conn[serving]] = {}
    BY <1>2, EmptySeq, LenProperties
  <2> QED
    BY <1>1, <1>2, <1>3, <2>1 DEF Speech
<1>7. OnlineAreWatched'
  <2>1. ASSUME NEW fd \in Fds, fd <= maxfd PROVE fd <= maxfd' /\ fd # NULL
    BY <1>3, <2>1, Constants
  <2> QED
    BY <1>1, <1>2, <2>1 DEF OnlineAreWatched
<1>8. FirstSockets'
  BY <1>1, <1>2 DEF FirstSockets
<1> QED
  BY <1>4, <1>5, <1>6, <1>7, <1>8 DEF SessionsInv

(* Nobody's session is ended by the step, unless its program has hung up.  *)
SessionsLast ==
  \A i \in DOMAIN pool :
    pool[i].online /\ server' = "RUNNING" =>
      LET fd == pool[i].socket
      IN  \/ /\ pool'[i].online /\ pool'[i].socket = fd
             /\ conn'[fd] = conn[fd]
          \/ phase[conn[fd]] = "GONE"

LEMMA HangUpKeeps ==
  ASSUME SessionsInv, NEW i \in DOMAIN pool, HangUp(i)
  PROVE  SessionsInv' /\ SessionsLast
<1>1. /\ TypeOK /\ Places /\ Speech /\ Names(pool) /\ Records /\ OnlineAreWatched /\ FirstSockets
  BY DEF SessionsInv
<1>2. PICK fd \in Fds : fd = pool[i].socket
  BY <1>1 DEF HangUp, OnlineAreWatched
<1>3. PICK p \in Programs : p = conn[fd]
  BY <1>1, <1>2 DEF HangUp, OnlineAreWatched, TypeOK
<1>4. /\ pool[i].online /\ pool' = archive_client(pool, i) /\ serving = NULL
      /\ conn' = [conn EXCEPT ![fd] = NULL]
      /\ phase' = [phase EXCEPT ![p] = "OFF"] /\ args' = [args EXCEPT ![p] = NULL]
      /\ wire[p] = << >>
      /\ UNCHANGED << server, lives, db, maxfd, serving, writing, backlog, wire >>
  BY <1>2, <1>3 DEF HangUp, Round, Waits
<1>5. /\ pool \in Seq(Client) /\ DOMAIN wire[p] = {} /\ Stdin \notin Fds
      /\ conn \in [Fds -> Programs \cup {NULL}] /\ serving' = NULL
  BY <1>1, <1>4, EmptySeq, LenProperties, Constants DEF TypeOK
<1>6. /\ pool' \in Seq(Client) /\ Len(pool') = Len(pool) /\ DOMAIN pool' = DOMAIN pool
      /\ \A j \in DOMAIN pool : pool'[j].name = pool[j].name /\ (j # i => pool'[j] = pool[j])
      /\ ~pool'[i].online /\ pool'[i].socket = Stdin
  BY <1>4, <1>5, Archiving
<1>7. /\ conn' \in [Fds -> Programs \cup {NULL}] /\ conn'[fd] = NULL
      /\ \A g \in Fds : g # fd => conn'[g] = conn[g] /\ conn[g] # p
      /\ phase' \in [Programs -> {"OFF", "REGISTERING", "SETTLED", "GONE"}]
      /\ args' \in [Programs -> Logins \cup {NULL}]
      /\ \A q \in Programs : q # p => phase'[q] = phase[q] /\ args'[q] = args[q]
      /\ phase'[p] = "OFF"
      /\ \A k \in DOMAIN backlog : backlog[k] # p
  <2>1. \A g \in Fds : g # fd => conn[g] # p
    BY <1>1, <1>3, Constants DEF Places
  <2>2. \A k \in DOMAIN backlog : backlog[k] # p
    BY <1>1, <1>3 DEF Places
  <2> QED
    BY <1>1, <1>4, <1>5, <2>1, <2>2 DEF TypeOK
<1>8. TypeOK'
  BY <1>1, <1>4, <1>6, <1>7 DEF TypeOK
<1>9. Places'
  <2>1. \A q \in Programs : phase'[q] = "OFF" =>
          /\ \A g \in Fds : conn'[g] # q
          /\ \A k \in DOMAIN backlog : backlog[k] # q
    <3>1. TAKE q \in Programs
    <3>2. CASE q = p
      BY <1>3, <1>7, <3>2, Constants
    <3>3. CASE q # p
      BY <1>1, <1>7, <3>3, Constants DEF Places
    <3> QED
      BY <3>2, <3>3
  <2>2. \A f, g \in Fds : conn'[f] = conn'[g] /\ conn'[f] # NULL => f = g
    BY <1>1, <1>7 DEF Places
  <2>3. \A g \in Fds : \A k \in DOMAIN backlog : conn'[g] # backlog[k]
    <3>1. \A k \in DOMAIN backlog : backlog[k] # NULL
      BY <1>1, LenProperties, ElementOfSeq, Constants DEF TypeOK
    <3> QED
      BY <1>1, <1>7, <3>1 DEF Places
  <2> QED
    BY <1>1, <1>4, <1>5, <2>1, <2>2, <2>3 DEF Places
<1>10. \A k \in DOMAIN backlog : backlog[k] \in Programs
  BY <1>1, LenProperties, ElementOfSeq DEF TypeOK
<1>11. Speech'
  <2>1. \A q \in Programs : phase'[q] # "OFF" => args'[q] \in Logins
    BY <1>1, <1>7 DEF Speech
  <2>2. \A q \in Programs : \A k \in DOMAIN wire'[q] :
          wire'[q][k].cmd = "LOGIN" => wire'[q][k].name = args'[q].name
    BY <1>1, <1>4, <1>5, <1>7 DEF Speech
  <2>3. \A k \in DOMAIN backlog' :
          /\ wire'[backlog'[k]] # << >>
          /\ Head(wire'[backlog'[k]]).cmd = "REGISTER"
          /\ Head(wire'[backlog'[k]]).name = args'[backlog'[k]].name
    BY <1>1, <1>4, <1>7, <1>10 DEF Speech
  <2>4. ASSUME NEW g \in Fds, conn'[g] # NULL
        PROVE  /\ \A k \in DOMAIN wire'[conn'[g]] : wire'[conn'[g]][k].cmd # "REGISTER"
               /\ g # serving' =>
                    /\ phase'[conn'[g]] \in {"SETTLED", "GONE"}
                    /\ \A k \in DOMAIN wire'[conn'[g]] : wire'[conn'[g]][k].cmd # "LOGIN"
    <3>1. conn'[g] = conn[g] /\ conn[g] # p /\ conn[g] \in Programs /\ g # serving
      BY <1>4, <1>5, <1>7, <2>4, Constants
    <3> QED
      BY <1>1, <1>4, <1>7, <2>4, <3>1 DEF Speech
  <2> QED
    BY <1>5, <2>1, <2>2, <2>3, <2>4 DEF Speech
<1>12. Names(pool)' /\ Records'
  BY <1>1, <1>4, <1>6 DEF Names, Records
<1>13. OnlineAreWatched'
  BY <1>1, <1>2, <1>4, <1>6, <1>7 DEF OnlineAreWatched
<1>14. FirstSockets'
  <2>1. \A j \in DOMAIN pool : pool[j].socket \in Fds \cup {Stdin}
    BY <1>5, PoolIsFunction DEF Client
  <2>2. SUFFICES ASSUME lives = 1 PROVE
          /\ \A j \in DOMAIN pool' : pool'[j].socket # Stdin => conn'[pool'[j].socket] # NULL
          /\ \A j, k \in DOMAIN pool' :
               pool'[j].socket = pool'[k].socket /\ j # k => pool'[j].socket = Stdin
    BY <1>4, <1>5 DEF FirstSockets
  <2>3. \A j \in DOMAIN pool : j # i => pool[j].socket # fd
    BY <1>1, <1>2, <1>5, <2>2 DEF FirstSockets
  <2>4. \A j \in DOMAIN pool' : pool'[j].socket # Stdin => conn'[pool'[j].socket] # NULL
    BY <1>1, <1>6, <1>7, <2>1, <2>2, <2>3 DEF FirstSockets
  <2>5. \A j, k \in DOMAIN pool' :
          pool'[j].socket = pool'[k].socket /\ j # k => pool'[j].socket = Stdin
    BY <1>1, <1>6, <2>2 DEF FirstSockets
  <2> QED
    BY <2>4, <2>5
<1>15. SessionsLast
  <2>1. phase[p] = "GONE"
    BY <1>2, <1>3, <1>4 DEF HangUp, Round, Talking, Readable
  <2>2. ASSUME NEW j \in DOMAIN pool, pool[j].online, j # i
        PROVE  pool'[j] = pool[j] /\ conn'[pool[j].socket] = conn[pool[j].socket]
    BY <1>1, <1>2, <1>4, <1>6, <1>7, <2>2 DEF OnlineAreWatched
  <2> QED
    BY <1>2, <1>3, <2>1, <2>2 DEF SessionsLast
<1> QED
  BY <1>8, <1>9, <1>11, <1>12, <1>13, <1>14, <1>15 DEF SessionsInv

-----------------------------------------------------------------------------
(* What handling the first of the commands read can do to the pool.        *)
Unmoved(ps, qs) ==
  /\ DOMAIN qs = DOMAIN ps
  /\ \A i \in DOMAIN ps : qs[i].socket = ps[i].socket /\ qs[i].online = ps[i].online

Registered(ps, qs, m, socket) ==
  /\ \A i \in DOMAIN ps : i \in DOMAIN qs /\ qs[i] = ps[i]
  /\ \A i \in DOMAIN qs \ DOMAIN ps :
       qs[i].name = m.name /\ qs[i].socket = socket /\ ~qs[i].online
  /\ \A i, j \in DOMAIN qs \ DOMAIN ps : i = j

LoggedIn(ps, qs, m, socket) ==
  /\ DOMAIN qs = DOMAIN ps
  /\ \E l \in DOMAIN ps :
       /\ ps[l].name = m.name /\ ~ps[l].online
       /\ \A i \in DOMAIN ps :
            /\ qs[i].name = ps[i].name
            /\ qs[i].socket = IF i = l THEN socket ELSE ps[i].socket
            /\ qs[i].online = (i = l \/ ps[i].online)

LEMMA HandlingThePool ==
  ASSUME NEW ps \in Seq(Client), Len(ps) <= MAX_CLIENTS, Names(ps),
         NEW m \in Commands, NEW id \in Nat, m.cmd \in {"REGISTER", "LOGIN"} => id \in Fds,
         NEW ok \in Outcomes(ps, m), NEW qs, qs = IF ok THEN After(ps, m, id) ELSE ps
  PROVE  /\ qs \in Seq(Client) /\ Len(qs) <= MAX_CLIENTS /\ Names(qs)
         /\ \/ m.cmd # "REGISTER" /\ Unmoved(ps, qs)
            \/ qs = ps
            \/ m.cmd = "REGISTER" /\ Registered(ps, qs, m, id)
            \/ m.cmd = "LOGIN" /\ LoggedIn(ps, qs, m, id)
<1>1. CASE qs = ps
  BY <1>1
<1>2. CASE ok /\ m.cmd = "REGISTER"
  <2>1. MayRegister(ps, m) /\ qs = on_user_register(ps, m, id) /\ id \in Fds \cup {Stdin}
    BY <1>2 DEF Outcomes, After
  <2> QED
    BY <1>2, <2>1, Registering DEF Registered
<1>3. CASE ok /\ m.cmd = "LOGIN"
  <2>1. MayLogin(ps, m) /\ qs = on_user_login(ps, m, id) /\ id \in Fds
    BY <1>3 DEF Outcomes, After
  <2>2. PICK l : l = find_client_by_name(ps, m.name)
    OBVIOUS
  <2>3. /\ qs \in Seq(Client) /\ Len(qs) = Len(ps) /\ DOMAIN qs = DOMAIN ps
        /\ l \in DOMAIN ps /\ ps[l].name = m.name /\ ~ps[l].online
        /\ \A i \in DOMAIN ps :
             /\ qs[i].name = ps[i].name
             /\ qs[i].socket = IF i = l THEN id ELSE ps[i].socket
             /\ qs[i].online = (i = l \/ ps[i].online)
    BY <2>1, <2>2, LoggingIn
  <2>4. Names(qs)
    BY <2>3 DEF Names
  <2>5. LoggedIn(ps, qs, m, id)
    BY <2>3 DEF LoggedIn
  <2> QED
    BY <1>3, <2>3, <2>4, <2>5
<1>4. CASE ok /\ m.cmd = "SET_INFO"
  <2>1. MaySetInfo(ps, m) /\ qs = on_user_set_info(ps, m, id)
    BY <1>4 DEF Outcomes, After
  <2>2. /\ qs \in Seq(Client) /\ Len(qs) = Len(ps) /\ DOMAIN qs = DOMAIN ps
        /\ \A i \in DOMAIN ps :
             qs[i].socket = ps[i].socket /\ qs[i].online = ps[i].online
        /\ Names(qs)
    BY <2>1, Renaming
  <2> QED
    BY <1>4, <2>2 DEF Unmoved
<1>5. CASE ok /\ m.cmd \notin {"REGISTER", "LOGIN", "SET_INFO"}
  BY <1>1, <1>5 DEF After
<1> QED
  BY <1>1, <1>2, <1>3, <1>4, <1>5

LEMMA Handling ==
  ASSUME SessionsInv, NEW p \in Programs, wire[p] # << >>, NEW id \in Nat,
         NEW persist \in BOOLEAN, HandleFirst(p, id, persist),
         NEW m, m = Head(wire[p]), m.cmd \in {"REGISTER", "LOGIN"} => id \in Fds
  PROVE  /\ pool' \in Seq(Client) /\ Len(pool') <= MAX_CLIENTS /\ Names(pool)'
         /\ \/ m.cmd # "REGISTER" /\ Unmoved(pool, pool')
            \/ pool' = pool
            \/ m.cmd = "REGISTER" /\ Registered(pool, pool', m, id)
            \/ m.cmd = "LOGIN" /\ LoggedIn(pool, pool', m, id)
         /\ writing' # NULL => GoodRecord(writing')
         /\ writing' \in Record \cup {NULL}
         /\ wire' \in [Programs -> Seq(Commands)] /\ wire'[p] = << >>
         /\ \A q \in Programs : q # p => wire'[q] = wire[q]
         /\ UNCHANGED << server, lives, db, phase, args >>
<1>1. /\ pool \in Seq(Client) /\ Len(pool) <= MAX_CLIENTS /\ Names(pool)
      /\ wire \in [Programs -> Seq(Commands)]
  BY DEF SessionsInv, TypeOK
<1>2. m \in Commands /\ Tail(wire[p]) \in Seq(Commands)
  BY <1>1, HeadTailProperties
<1>3. PICK ok \in Outcomes(pool, m) :
        /\ pool' = IF ok THEN After(pool, m, id) ELSE pool
        /\ writing' = IF ok /\ persist /\ Persist(m)
                      THEN [client_id |-> id, cmd |-> m, tail |-> Tail(wire[p])]
                      ELSE NULL
  BY DEF HandleFirst
<1>4. wire' = [wire EXCEPT ![p] = << >>] /\ UNCHANGED << server, lives, db, phase, args >>
  BY DEF HandleFirst
<1>5. /\ wire' \in [Programs -> Seq(Commands)] /\ wire'[p] = << >>
      /\ \A q \in Programs : q # p => wire'[q] = wire[q]
  BY <1>1, <1>4, EmptySeq
<1>6. writing' # NULL => GoodRecord(writing')
  <2>1. SUFFICES ASSUME writing' # NULL PROVE GoodRecord(writing')
    OBVIOUS
  <2>2. Persist(m) /\ writing' = [client_id |-> id, cmd |-> m, tail |-> Tail(wire[p])]
    BY <1>3, <2>1
  <2> QED
    BY <1>2, <2>2 DEF GoodRecord, Record
<1>7. writing' \in Record \cup {NULL}
  BY <1>6 DEF GoodRecord
<1>8. PICK qs : qs = pool'
  OBVIOUS
<1>9. /\ qs \in Seq(Client) /\ Len(qs) <= MAX_CLIENTS /\ Names(qs)
      /\ \/ m.cmd # "REGISTER" /\ Unmoved(pool, qs)
         \/ qs = pool
         \/ m.cmd = "REGISTER" /\ Registered(pool, qs, m, id)
         \/ m.cmd = "LOGIN" /\ LoggedIn(pool, qs, m, id)
  BY <1>1, <1>2, <1>3, <1>8, HandlingThePool
<1> QED
  BY <1>4, <1>5, <1>6, <1>7, <1>8, <1>9 DEF Names

LEMMA TalkKeeps ==
  ASSUME SessionsInv, NEW i \in DOMAIN pool, Talk(i)
  PROVE  SessionsInv' /\ SessionsLast
<1>1. /\ TypeOK /\ Places /\ Speech /\ Names(pool) /\ Records /\ OnlineAreWatched /\ FirstSockets
  BY DEF SessionsInv
<1>2. PICK fd : fd = pool[i].socket
  OBVIOUS
<1>3. /\ serving = NULL /\ ~SelectFails /\ i \in Talking
      /\ UNCHANGED << maxfd, conn, serving, backlog >>
      /\ wire[conn[fd]] # << >> /\ HandleFirst(conn[fd], i - 1, TRUE)
  BY <1>2 DEF Talk, Round, Waits
<1>4. fd \in Sockets /\ fd <= maxfd
  BY <1>2, <1>3 DEF Talking, Readable
<1>5. fd \in Fds /\ i - 1 \in Nat
  <2>1. pool \in Seq(Client)
    BY <1>1 DEF TypeOK
  <2>2. /\ pool[i] \in Client /\ Len(pool) \in Nat /\ i \in 1 .. Len(pool)
    BY <2>1, PoolIsFunction
  <2> QED
    BY <1>2, <1>4, <2>2 DEF Sockets, Client
<1>6. PICK p \in Programs : p = conn[fd]
  BY <1>1, <1>3, <1>4, <1>5 DEF SelectFails, TypeOK
<1>7. PICK m : m = Head(wire[p])
  OBVIOUS
<1>8. m.cmd \notin {"REGISTER", "LOGIN"}
  <2>1. wire[p] \in Seq(Commands) /\ fd # serving /\ conn[fd] # NULL
    BY <1>1, <1>3, <1>5, <1>6, Constants DEF TypeOK
  <2>2. 1 \in DOMAIN wire[p] /\ m = wire[p][1]
    BY <1>3, <1>6, <1>7, <2>1, EmptySeq, LenProperties
  <2> QED
    BY <1>1, <1>5, <1>6, <2>1, <2>2 DEF Speech
<1>9. /\ pool' \in Seq(Client) /\ Len(pool') <= MAX_CLIENTS /\ Names(pool)'
      /\ Unmoved(pool, pool')
      /\ writing' # NULL => GoodRecord(writing')
      /\ writing' \in Record \cup {NULL}
      /\ wire' \in [Programs -> Seq(Commands)] /\ wire'[p] = << >>
      /\ \A q \in Programs : q # p => wire'[q] = wire[q]
      /\ UNCHANGED << server, lives, db, phase, args >>
  BY <1>3, <1>5, <1>6, <1>7, <1>8, Handling DEF Unmoved
<1>10. TypeOK'
  BY <1>1, <1>3, <1>9 DEF TypeOK
<1>11. Places'
  BY <1>1, <1>3, <1>9 DEF Places
<1>12. /\ \A k \in DOMAIN backlog : backlog[k] \in Programs /\ backlog[k] # p
       /\ DOMAIN wire'[p] = {}
  BY <1>1, <1>5, <1>6, <1>9, LenProperties, ElementOfSeq, EmptySeq DEF TypeOK, Places
<1>13. Speech'
  <2>1. \A q \in Programs : \A k \in DOMAIN wire'[q] : k \in DOMAIN wire[q] /\ wire'[q] = wire[q]
    BY <1>9, <1>12
  <2>2. \A k \in DOMAIN backlog : wire'[backlog[k]] = wire[backlog[k]]
    BY <1>9, <1>12
  <2>3. \A g \in Fds : conn[g] # NULL => conn[g] \in Programs /\ g # serving
    BY <1>1, <1>3, Constants DEF TypeOK
  <2>4. /\ \A q \in Programs : phase[q] # "OFF" => args[q] \in Logins
        /\ \A q \in Programs : \A k \in DOMAIN wire'[q] :
             wire'[q][k].cmd = "LOGIN" => wire'[q][k].name = args[q].name
    BY <1>1, <2>1 DEF Speech
  <2>5. \A k \in DOMAIN backlog :
          /\ wire'[backlog[k]] # << >>
          /\ Head(wire'[backlog[k]]).cmd = "REGISTER"
          /\ Head(wire'[backlog[k]]).name = args[backlog[k]].name
    BY <1>1, <2>2 DEF Speech
  <2>6. \A g \in Fds : conn[g] # NULL =>
          /\ phase[conn[g]] \in {"SETTLED", "GONE"}
          /\ \A k \in DOMAIN wire'[conn[g]] :
               wire'[conn[g]][k].cmd # "REGISTER" /\ wire'[conn[g]][k].cmd # "LOGIN"
    BY <1>1, <2>1, <2>3 DEF Speech
  <2>7. UNCHANGED << phase, args, conn, serving, backlog >>
    BY <1>3, <1>9
  <2> QED
    BY <1>3, <2>4, <2>5, <2>6, <2>7 DEF Speech
<1>14. Records'
  BY <1>1, <1>9 DEF Records
<1>15. OnlineAreWatched'
  <2>1. Unmoved(pool, pool')
    BY <1>9
  <2> QED
    BY <1>1, <1>3, <2>1 DEF OnlineAreWatched, Unmoved
<1>16. FirstSockets'
  BY <1>1, <1>3, <1>9 DEF FirstSockets, Unmoved
<1>17. SessionsLast
  <2>1. Unmoved(pool, pool') /\ conn' = conn
    BY <1>3, <1>9
  <2> QED
    BY <2>1 DEF SessionsLast, Unmoved
<1> QED
  BY <1>9, <1>10, <1>11, <1>13, <1>14, <1>15, <1>16, <1>17 DEF SessionsInv

LEMMA ReadLoginKeeps ==
  ASSUME SessionsInv, ReadLogin
  PROVE  SessionsInv' /\ SessionsLast
<1>1. /\ TypeOK /\ Places /\ Speech /\ Names(pool) /\ Records /\ OnlineAreWatched /\ FirstSockets
  BY DEF SessionsInv
<1>2. /\ serving # NULL /\ serving' = NULL
      /\ maxfd' = IF serving > maxfd THEN serving ELSE maxfd
      /\ wire[conn[serving]] # << >> /\ HandleFirst(conn[serving], serving, FALSE)
      /\ UNCHANGED << conn, backlog >>
  BY DEF ReadLogin, LetIn
<1>3. PICK fd \in Fds : fd = serving
  BY <1>1, <1>2 DEF TypeOK
<1>4. PICK p \in Programs : p = conn[fd]
  BY <1>1, <1>2, <1>3 DEF Places, TypeOK
<1>5. PICK m : m = Head(wire[p])
  OBVIOUS
<1>6. /\ m.cmd # "REGISTER" /\ (m.cmd = "LOGIN" => m.name = args[p].name)
      /\ phase[p] \in {"SETTLED", "GONE"}
  <2>1. wire[p] \in Seq(Commands) /\ conn[fd] # NULL /\ phase[p] # "REGISTERING"
    BY <1>1, <1>2, <1>3, <1>4, Constants DEF TypeOK, Speech
  <2>2. 1 \in DOMAIN wire[p] /\ m = wire[p][1]
    BY <1>2, <1>3, <1>4, <1>5, <2>1, EmptySeq, LenProperties
  <2>3. phase[p] # "OFF"
    BY <1>1, <1>4 DEF Places
  <2> QED
    BY <1>1, <1>4, <2>1, <2>2, <2>3 DEF Speech, TypeOK
<1>7. /\ pool' \in Seq(Client) /\ Len(pool') <= MAX_CLIENTS /\ Names(pool)'
      /\ Unmoved(pool, pool') \/ LoggedIn(pool, pool', m, fd)
      /\ m.cmd = "LOGIN" \/ Unmoved(pool, pool')
      /\ writing' # NULL => GoodRecord(writing')
      /\ writing' \in Record \cup {NULL}
      /\ wire' \in [Programs -> Seq(Commands)] /\ wire'[p] = << >>
      /\ \A q \in Programs : q # p => wire'[q] = wire[q]
      /\ UNCHANGED << server, lives, db, phase, args >>
  <2>1. fd \in Nat /\ wire[p] # << >> /\ HandleFirst(p, fd, FALSE)
    BY <1>2, <1>3, <1>4, Constants
  <2> QED
    BY <1>5, <1>6, <2>1, Handling DEF Unmoved
<1>8. /\ fd <= maxfd' /\ maxfd' \in Fds \cup {FirstFd - 1}
      /\ \A g \in Fds : g <= maxfd => g <= maxfd'
  <2>1. maxfd \in Int /\ fd \in Int /\ Fds \subseteq Int
    BY <1>1, Constants DEF TypeOK
  <2>2. maxfd' = IF fd > maxfd THEN fd ELSE maxfd
    BY <1>2, <1>3
  <2>3. maxfd' \in Fds \cup {FirstFd - 1}
    BY <1>1, <2>2 DEF TypeOK
  <2> QED
    BY <2>1, <2>2, <2>3
<1>9. TypeOK'
  BY <1>1, <1>2, <1>7, <1>8 DEF TypeOK
<1>10. Places'
  BY <1>1, <1>2, <1>7 DEF Places
<1>11. /\ \A k \in DOMAIN backlog : backlog[k] \in Programs /\ backlog[k] # p
       /\ DOMAIN wire'[p] = {}
  BY <1>1, <1>4, <1>7, LenProperties, ElementOfSeq, EmptySeq DEF TypeOK, Places
<1>12. Speech'
  <2>1. \A q \in Programs : \A k \in DOMAIN wire'[q] : k \in DOMAIN wire[q] /\ wire'[q] = wire[q]
    BY <1>7, <1>11
  <2>2. \A k \in DOMAIN backlog : wire'[backlog[k]] = wire[backlog[k]]
    BY <1>7, <1>11
  <2>3. \A g \in Fds : conn[g] # NULL => conn[g] \in Programs
    BY <1>1 DEF TypeOK
  <2>4. \A g \in Fds : conn[g] # NULL => phase[conn[g]] \in {"SETTLED", "GONE"}
    BY <1>1, <1>3, <1>4, <1>6 DEF Speech
  <2>5. \A g \in Fds : conn[g] # NULL =>
          /\ \A k \in DOMAIN wire'[conn[g]] : wire'[conn[g]][k].cmd # "REGISTER"
          /\ \A k \in DOMAIN wire'[conn[g]] : wire'[conn[g]][k].cmd # "LOGIN"
    <3>1. TAKE g \in Fds
    <3>2. CASE g = fd
      BY <1>4, <1>11, <3>2
    <3>3. CASE g # fd
      BY <1>1, <1>3, <2>1, <2>3, <3>3 DEF Speech
    <3> QED
      BY <3>2, <3>3
  <2>6. /\ \A q \in Programs : phase[q] # "OFF" => args[q] \in Logins
        /\ \A q \in Programs : \A k \in DOMAIN wire'[q] :
             wire'[q][k].cmd = "LOGIN" => wire'[q][k].name = args[q].name
    BY <1>1, <2>1 DEF Speech
  <2>7. \A k \in DOMAIN backlog :
          /\ wire'[backlog[k]] # << >>
          /\ Head(wire'[backlog[k]]).cmd = "REGISTER"
          /\ Head(wire'[backlog[k]]).name = args[backlog[k]].name
    BY <1>1, <2>2 DEF Speech
  <2>8. UNCHANGED << phase, args, conn, backlog >>
    BY <1>2, <1>7
  <2> QED
    BY <1>2, <2>4, <2>5, <2>6, <2>7, <2>8 DEF Speech
<1>13. Records'
  BY <1>1, <1>7 DEF Records
<1>14. OnlineAreWatched'
  <2>1. \A g \in Fds : g # serving'
    BY <1>2, Constants
  <2>2. CASE Unmoved(pool, pool')
    BY <1>1, <1>2, <1>8, <2>1, <2>2 DEF OnlineAreWatched, Unmoved
  <2>3. CASE LoggedIn(pool, pool', m, fd)
    <3>1. PICK l \in DOMAIN pool :
            \A i \in DOMAIN pool :
              /\ pool'[i].socket = IF i = l THEN fd ELSE pool[i].socket
              /\ pool'[i].online = (i = l \/ pool[i].online)
      BY <2>3 DEF LoggedIn
    <3>2. DOMAIN pool' = DOMAIN pool
      BY <2>3 DEF LoggedIn
    <3>3. conn[fd] # NULL /\ \A i \in DOMAIN pool : pool[i].online => pool[i].socket # fd
      BY <1>1, <1>3, <1>4, Constants DEF OnlineAreWatched
    <3>4. ASSUME NEW i \in DOMAIN pool, pool'[i].online
          PROVE  /\ pool'[i].socket \in Fds /\ conn[pool'[i].socket] # NULL
                 /\ pool'[i].socket <= maxfd'
                 /\ \A j \in DOMAIN pool : pool'[j].online /\ j # i => pool'[j].socket # pool'[i].socket
      <4>1. CASE i = l
        BY <1>8, <3>1, <3>3, <4>1
      <4>2. CASE i # l
        <5>1. pool[i].online /\ pool'[i].socket = pool[i].socket
          BY <3>1, <3>4, <4>2
        <5>2. \A j \in DOMAIN pool : pool'[j].online /\ j # i => pool'[j].socket # pool[i].socket
          BY <1>1, <3>1, <3>3, <5>1 DEF OnlineAreWatched
        <5> QED
          BY <1>1, <1>8, <5>1, <5>2 DEF OnlineAreWatched
      <4> QED
        BY <4>1, <4>2
    <3> QED
      BY <1>2, <2>1, <3>2, <3>4 DEF OnlineAreWatched
  <2> QED
    BY <1>7, <2>2, <2>3
<1>15. FirstSockets'
  <2>1. CASE Unmoved(pool, pool')
    BY <1>1, <1>2, <1>7, <2>1 DEF FirstSockets, Unmoved
  <2>2. CASE LoggedIn(pool, pool', m, fd) /\ m.cmd = "LOGIN"
    <3>1. PICK l \in DOMAIN pool :
            /\ pool[l].name = m.name
            /\ \A i \in DOMAIN pool : pool'[i].socket = IF i = l THEN fd ELSE pool[i].socket
      BY <2>2 DEF LoggedIn
    <3>2. DOMAIN pool' = DOMAIN pool
      BY <2>2 DEF LoggedIn
    <3>3. SUFFICES ASSUME lives = 1 PROVE
            /\ \A j \in DOMAIN pool : pool'[j].socket # Stdin => conn[pool'[j].socket] # NULL
            /\ \A j, k \in DOMAIN pool :
                 pool'[j].socket = pool'[k].socket /\ j # k => pool'[j].socket = Stdin
      BY <1>2, <1>7, <3>2 DEF FirstSockets
    <3>4. \A j \in DOMAIN pool : pool[j].socket = fd => j = l
      BY <1>1, <1>2, <1>3, <1>4, <1>6, <2>2, <3>1, <3>3 DEF FirstSockets, Names
    <3>5. \A j \in DOMAIN pool : pool'[j].socket # Stdin => conn[pool'[j].socket] # NULL
      BY <1>1, <1>4, <3>1, <3>3, Constants DEF FirstSockets
    <3>6. \A j, k \in DOMAIN pool :
            pool'[j].socket = pool'[k].socket /\ j # k => pool'[j].socket = Stdin
      BY <1>1, <3>1, <3>3, <3>4 DEF FirstSockets
    <3> QED
      BY <3>5, <3>6
  <2> QED
    BY <1>7, <2>1, <2>2
<1>16. SessionsLast
  <2>1. Unmoved(pool, pool') \/ LoggedIn(pool, pool', m, fd)
    BY <1>7
  <2>2. ASSUME NEW i \in DOMAIN pool, pool[i].online
        PROVE  pool'[i].online /\ pool'[i].socket = pool[i].socket
    BY <2>1, <2>2 DEF Unmoved, LoggedIn
  <2> QED
    BY <1>2, <2>2 DEF SessionsLast
<1> QED
  BY <1>7, <1>9, <1>10, <1>12, <1>13, <1>14, <1>15, <1>16 DEF SessionsInv

(* There is a descriptor for each program, so there is one to accept with. *)
LEMMA ThereIsADescriptor ==
  ASSUME TypeOK, Places, backlog # << >>
  PROVE  LowestFree \in Fds /\ conn[LowestFree] = NULL
<1>1. PICK x \in Programs : \A fd \in Fds : conn[fd] # x
  <2>1. backlog \in Seq(Programs)
    BY DEF TypeOK
  <2>2. 1 \in DOMAIN backlog /\ backlog[1] \in Programs
    BY <2>1, LenProperties, EmptySeq, ElementOfSeq
  <2> QED
    BY <2>2 DEF Places
<1>2. PICK f \in Fds : conn[f] = NULL
  <2>1. SUFFICES ASSUME \A f \in Fds : conn[f] # NULL PROVE FALSE
    OBVIOUS
  <2>2. conn \in [Fds -> Programs \ {x}]
    BY <1>1, <2>1 DEF TypeOK
  <2>3. /\ IsFiniteSet(Programs \ {x})
        /\ Cardinality(Programs \ {x}) = Cardinality(Programs) - 1
    BY SessionsAssumption, FS_RemoveElement
  <2>4. Cardinality(Programs \ {x}) < Cardinality(Fds) /\ IsFiniteSet(Fds)
    BY <2>3, Constants
  <2>5. PICK f \in Fds, g \in Fds : f # g /\ conn[f] = conn[g]
    BY <2>2, <2>3, <2>4, FS_PigeonHole
  <2> QED
    BY <2>1, <2>5 DEF Places
<1> DEFINE Free == { fd \in Fds : conn[fd] = NULL }
<1>3. PICK n \in Nat : Free \subseteq 0 .. n
  <2>1. FirstFd + Cardinality(Programs) \in Nat /\ \A fd \in Fds : fd \in 0 .. FirstFd + Cardinality(Programs)
    BY Constants DEF Fds
  <2> QED
    BY <2>1
<1>4. PICK fd \in Free : \A g \in Free : fd <= g
  <2>1. Free # {}
    BY <1>2
  <2> HIDE DEF Free
  <2> QED
    BY <1>3, <2>1, LeastExists
<1>5. \A g \in FirstFd .. fd - 1 : conn[g] # NULL
  <2>1. TAKE g \in FirstFd .. fd - 1
  <2>2. g \in Fds /\ ~(fd <= g)
    BY <1>4, Constants DEF Fds
  <2> QED
    BY <1>4, <2>2
<1>6. fd \in Fds /\ conn[fd] = NULL
  BY <1>4
<1> QED
  BY <1>5, <1>6 DEF LowestFree

LEMMA AcceptKeeps ==
  ASSUME SessionsInv, Accept
  PROVE  SessionsInv' /\ SessionsLast
<1>1. /\ TypeOK /\ Places /\ Speech /\ Names(pool) /\ Records /\ OnlineAreWatched /\ FirstSockets
  BY DEF SessionsInv
<1>2. PICK fd \in Fds : fd = LowestFree /\ conn[fd] = NULL
  BY <1>1, ThereIsADescriptor DEF Accept
<1>3. backlog # << >> /\ backlog \in Seq(Programs)
  BY <1>1 DEF Accept, TypeOK
<1>4. /\ 1 \in DOMAIN backlog /\ backlog[1] = Head(backlog) /\ Head(backlog) \in Programs
      /\ \A k \in DOMAIN backlog : backlog[k] \in Programs
  BY <1>3, LenProperties, EmptySeq, ElementOfSeq
<1>5. PICK p \in Programs : p = Head(backlog)
  BY <1>4
<1>6. /\ serving = NULL /\ serving' = fd /\ maxfd' = maxfd
      /\ backlog' = Tail(backlog) /\ conn' = [conn EXCEPT ![fd] = p]
      /\ HandleFirst(p, fd, TRUE)
  BY <1>2, <1>5 DEF Accept, Waits
<1>7. PICK m : m = Head(wire[p])
  OBVIOUS
<1>8. wire[p] # << >> /\ m.cmd = "REGISTER" /\ m.name = args[p].name
  BY <1>1, <1>4, <1>5, <1>7 DEF Speech
<1>9. /\ pool' \in Seq(Client) /\ Len(pool') <= MAX_CLIENTS /\ Names(pool)'
      /\ pool' = pool \/ Registered(pool, pool', m, fd)
      /\ writing' # NULL => GoodRecord(writing')
      /\ writing' \in Record \cup {NULL}
      /\ wire' \in [Programs -> Seq(Commands)] /\ wire'[p] = << >>
      /\ \A q \in Programs : q # p => wire'[q] = wire[q]
      /\ UNCHANGED << server, lives, db, phase, args >>
  <2>1. fd \in Nat
    BY Constants
  <2> QED
    BY <1>6, <1>7, <1>8, <2>1, Handling
<1>10. /\ backlog' \in Seq(Programs)
       /\ \A k \in DOMAIN backlog' : k + 1 \in DOMAIN backlog /\ backlog'[k] = backlog[k + 1]
            /\ k \in Nat /\ k + 1 # 1
  <2>1. /\ Tail(backlog) \in Seq(Programs) /\ Len(Tail(backlog)) = Len(backlog) - 1
        /\ \A k \in 1 .. Len(Tail(backlog)) : Tail(backlog)[k] = backlog[k + 1]
    BY <1>3, HeadTailProperties
  <2>2. Len(backlog) \in Nat /\ DOMAIN backlog = 1 .. Len(backlog)
        /\ DOMAIN Tail(backlog) = 1 .. Len(Tail(backlog))
    BY <1>3, <2>1, LenProperties
  <2> QED
    BY <1>6, <2>1, <2>2
<1>11. \A k \in DOMAIN backlog' : \E j \in DOMAIN backlog :
         backlog'[k] = backlog[j] /\ backlog[j] # p /\ backlog[j] \in Programs
  BY <1>1, <1>4, <1>5, <1>10 DEF Places
<1>12. /\ conn \in [Fds -> Programs \cup {NULL}] /\ conn' \in [Fds -> Programs \cup {NULL}]
       /\ conn'[fd] = p
       /\ \A g \in Fds : g # fd => conn'[g] = conn[g] /\ conn[g] # p
       /\ p # NULL /\ fd # NULL
  BY <1>1, <1>4, <1>5, <1>6, Constants DEF TypeOK, Places
<1>13. TypeOK'
  BY <1>1, <1>6, <1>9, <1>10, <1>12 DEF TypeOK
<1>14. Places'
  <2>1. \A q \in Programs : phase'[q] = "OFF" =>
          /\ \A g \in Fds : conn'[g] # q
          /\ \A k \in DOMAIN backlog' : backlog'[k] # q
    <3>1. phase[p] # "OFF"
      BY <1>1, <1>4, <1>5 DEF Places
    <3>2. \A q \in Programs : phase[q] = "OFF" => \A k \in DOMAIN backlog' : backlog'[k] # q
      BY <1>1, <1>11 DEF Places
    <3>3. \A q \in Programs : phase[q] = "OFF" => \A g \in Fds : conn'[g] # q
      BY <1>1, <1>12, <3>1 DEF Places
    <3> QED
      BY <1>9, <3>2, <3>3
  <2>2. \A f, g \in Fds : conn'[f] = conn'[g] /\ conn'[f] # NULL => f = g
    BY <1>1, <1>12 DEF Places
  <2>3. \A j, k \in DOMAIN backlog' : backlog'[j] = backlog'[k] => j = k
    <3>1. TAKE j, k \in DOMAIN backlog'
    <3>2. HAVE backlog'[j] = backlog'[k]
    <3>3. j + 1 = k + 1
      BY <1>1, <1>10, <3>2 DEF Places
    <3> QED
      BY <1>10, <3>3
  <2>4. \A g \in Fds : \A k \in DOMAIN backlog' : conn'[g] # backlog'[k]
    BY <1>1, <1>11, <1>12 DEF Places
  <2>5. conn'[serving'] # NULL
    BY <1>6, <1>12
  <2> QED
    BY <2>1, <2>2, <2>3, <2>4, <2>5 DEF Places
<1>15. Speech'
  <2>1. /\ \A q \in Programs : \A k \in DOMAIN wire'[q] : k \in DOMAIN wire[q] /\ wire'[q] = wire[q]
        /\ DOMAIN wire'[p] = {}
    <3>1. DOMAIN wire'[p] = {}
      BY <1>9, EmptySeq, LenProperties
    <3> QED
      BY <1>9, <3>1
  <2>2. /\ \A q \in Programs : phase[q] # "OFF" => args[q] \in Logins
        /\ \A q \in Programs : \A k \in DOMAIN wire'[q] :
             wire'[q][k].cmd = "LOGIN" => wire'[q][k].name = args[q].name
    BY <1>1, <2>1 DEF Speech
  <2>3. \A k \in DOMAIN backlog' :
          /\ wire'[backlog'[k]] # << >>
          /\ Head(wire'[backlog'[k]]).cmd = "REGISTER"
          /\ Head(wire'[backlog'[k]]).name = args[backlog'[k]].name
    <3>1. TAKE k \in DOMAIN backlog'
    <3>2. PICK j \in DOMAIN backlog :
            backlog'[k] = backlog[j] /\ backlog[j] # p /\ backlog[j] \in Programs
      BY <1>11
    <3>3. wire'[backlog'[k]] = wire[backlog[j]]
      BY <1>9, <3>2
    <3> QED
      BY <1>1, <3>2, <3>3 DEF Speech
  <2>4. \A g \in Fds : conn'[g] # NULL =>
          /\ \A k \in DOMAIN wire'[conn'[g]] : wire'[conn'[g]][k].cmd # "REGISTER"
          /\ g # fd =>
               /\ phase[conn'[g]] \in {"SETTLED", "GONE"}
               /\ \A k \in DOMAIN wire'[conn'[g]] : wire'[conn'[g]][k].cmd # "LOGIN"
    <3>1. TAKE g \in Fds
    <3>2. CASE g = fd
      BY <1>12, <2>1, <3>2
    <3>3. CASE g # fd
      <4>1. conn'[g] = conn[g] /\ g # serving
        BY <1>6, <1>12, <3>3, Constants
      <4>2. HAVE conn'[g] # NULL
      <4>3. conn[g] \in Programs
        BY <1>12, <4>1, <4>2
      <4> QED
        BY <1>1, <2>1, <4>1, <4>2, <4>3 DEF Speech
    <3> QED
      BY <3>2, <3>3
  <2>5. wire'[conn'[serving']] = << >>
    BY <1>6, <1>9, <1>12
  <2>6. UNCHANGED << phase, args >> /\ serving' = fd
    BY <1>6, <1>9
  <2> QED
    BY <2>2, <2>3, <2>4, <2>5, <2>6 DEF Speech
<1>16. Records'
  BY <1>1, <1>9 DEF Records
<1>17. OnlineAreWatched'
  <2>1. \A i \in DOMAIN pool : pool[i].online => pool[i].socket # fd
    BY <1>1, <1>2 DEF OnlineAreWatched
  <2>2. \A i \in DOMAIN pool' : pool'[i].online => i \in DOMAIN pool /\ pool'[i] = pool[i]
    BY <1>9 DEF Registered
  <2> QED
    BY <1>1, <1>6, <1>12, <2>1, <2>2 DEF OnlineAreWatched
<1>18. FirstSockets'
  <2>1. SUFFICES ASSUME lives = 1 PROVE
          /\ \A i \in DOMAIN pool' : pool'[i].socket # Stdin => conn'[pool'[i].socket] # NULL
          /\ \A i, j \in DOMAIN pool' :
               pool'[i].socket = pool'[j].socket /\ i # j => pool'[i].socket = Stdin
          /\ \A i \in DOMAIN pool' : pool'[i].socket = fd => pool'[i].name = args[p].name
    BY <1>6, <1>9, <1>12 DEF FirstSockets
  <2>2. \A i \in DOMAIN pool : pool[i].socket # fd
    BY <1>1, <1>2, <2>1, Constants DEF FirstSockets
  <2>3. pool \in Seq(Client)
    BY <1>1 DEF TypeOK
  <2>4. \A i \in DOMAIN pool :
          /\ pool[i].socket # Stdin => pool[i].socket \in Fds
          /\ i \in DOMAIN pool' /\ pool'[i] = pool[i]
    BY <1>9, <2>3, PoolIsFunction DEF Registered, Client
  <2>5. \A i \in DOMAIN pool' \ DOMAIN pool :
          pool'[i].socket = fd /\ pool'[i].name = args[p].name
    BY <1>8, <1>9 DEF Registered
  <2>6. \A i, j \in DOMAIN pool' \ DOMAIN pool : i = j
    BY <1>9 DEF Registered
  <2>7. \A i \in DOMAIN pool' : pool'[i].socket # Stdin => conn'[pool'[i].socket] # NULL
    BY <1>1, <1>12, <2>1, <2>2, <2>4, <2>5 DEF FirstSockets
  <2>8. \A i, j \in DOMAIN pool' :
          pool'[i].socket = pool'[j].socket /\ i # j => pool'[i].socket = Stdin
    BY <1>1, <2>1, <2>2, <2>4, <2>5, <2>6 DEF FirstSockets
  <2>9. \A i \in DOMAIN pool' : pool'[i].socket = fd => pool'[i].name = args[p].name
    BY <2>2, <2>4, <2>5
  <2> QED
    BY <2>7, <2>8, <2>9
<1>19. SessionsLast
  <2>1. ASSUME NEW i \in DOMAIN pool, pool[i].online
        PROVE  pool'[i] = pool[i] /\ conn'[pool[i].socket] = conn[pool[i].socket]
    <3>1. pool'[i] = pool[i]
      BY <1>9 DEF Registered
    <3>2. pool[i].socket \in Fds /\ pool[i].socket # fd
      BY <1>1, <1>2, <2>1 DEF OnlineAreWatched
    <3> QED
      BY <1>12, <3>1, <3>2
  <2> QED
    BY <2>1 DEF SessionsLast
<1> QED
  BY <1>9, <1>13, <1>14, <1>15, <1>16, <1>17, <1>18, <1>19 DEF SessionsInv

-----------------------------------------------------------------------------
(* A server that is down has no accounts.                                  *)
NoneWhenDown == server = "DOWN" => DOMAIN pool = {}

LEMMA NoneWhenDownKept ==
  ASSUME NoneWhenDown, [Next]_vars
  PROVE  NoneWhenDown'
<1>1. CASE Exits
  <2>1. DOMAIN pool' = {}
    BY <1>1, EmptySeq, LenProperties DEF Exits
  <2> QED
    BY <2>1 DEF NoneWhenDown
<1>2. CASE UNCHANGED << server, pool >>
  BY <1>2 DEF NoneWhenDown
<1>3. CASE server' = "RUNNING"
  BY <1>3 DEF NoneWhenDown
<1>4. Exits \/ UNCHANGED << server, pool >> \/ server' = "RUNNING"
  <2>1. ASSUME NEW p \in Programs, NEW l \in Logins, Start(p, l)
        PROVE  UNCHANGED << server, pool >>
    BY <2>1 DEF Start, process
  <2>2. ASSUME NEW p \in Programs, Login(p) \/ Quit(p) \/ \E m \in Says : Say(p, m)
        PROVE  UNCHANGED << server, pool >>
    BY <2>2 DEF Login, Quit, Say, process
  <2>3. ASSUME Server PROVE Exits \/ UNCHANGED << server, pool >> \/ server' = "RUNNING"
    <3>1. CASE SelectError \/ ReadLoginCrash
      BY <3>1 DEF SelectError, ReadLoginCrash, HandleCrash
    <3>2. CASE write_cmd \/ ReadHangup
      BY <3>2 DEF write_cmd, ReadHangup
    <3>3. CASE Accept \/ ReadLogin
      BY <3>3 DEF Accept, ReadLogin, LetIn, Waits, HandleFirst
    <3>4. CASE Serve
      <4>1. PICK i \in DOMAIN pool : Talk(i) \/ HangUp(i) \/ HangUpIgnored(i)
        BY <3>4 DEF Serve
      <4>2. server = "RUNNING"
        BY <4>1 DEF Talk, HangUp, HangUpIgnored, Round, Waits
      <4>3. server' = server
        BY <4>1 DEF Talk, HangUp, HangUpIgnored, HandleFirst, vars
      <4> QED
        BY <4>2, <4>3
    <3> QED
      BY <2>3, <3>1, <3>2, <3>3, <3>4 DEF Server
  <2>4. CASE Stop
    BY <2>4 DEF Stop
  <2>5. CASE Restart
    BY <2>5 DEF Restart
  <2>6. CASE UNCHANGED vars
    BY <2>6 DEF vars, process
  <2> QED
    BY <2>1, <2>2, <2>3, <2>4, <2>5, <2>6 DEF Next
<1> QED
  BY <1>1, <1>2, <1>3, <1>4

LEMMA SessionsNext ==
  ASSUME SessionsInv, NoneWhenDown, [Next]_vars
  PROVE  SessionsInv' /\ SessionsLast
<1>1. ASSUME UNCHANGED << pool, conn >> PROVE SessionsLast
  BY <1>1 DEF SessionsLast
<1>2. ASSUME Exits PROVE SessionsLast
  BY <1>2 DEF Exits, SessionsLast
<1>3. ASSUME UNCHANGED vars PROVE SessionsInv' /\ SessionsLast
  <2>1. UNCHANGED << server, lives, db, pool, maxfd, conn, serving, writing, backlog, phase, args, wire >>
    BY <1>3 DEF vars, process, clients
  <2>2. TypeOK' /\ Places' /\ Speech'
    BY <2>1 DEF SessionsInv, TypeOK, Places, Speech
  <2>3. Names(pool)' /\ Records' /\ OnlineAreWatched' /\ FirstSockets'
    BY <2>1 DEF SessionsInv, Names, Records, OnlineAreWatched, FirstSockets
  <2> QED
    BY <1>1, <2>1, <2>2, <2>3 DEF SessionsInv
<1>4. ASSUME NEW p \in Programs, NEW l \in Logins, Start(p, l)
      PROVE  SessionsInv' /\ SessionsLast
  <2>1. UNCHANGED << pool, conn >>
    BY <1>4 DEF Start, process
  <2> QED
    BY <1>1, <1>4, <2>1, StartKeeps
<1>5. ASSUME NEW p \in Programs, Login(p) \/ Quit(p) \/ \E m \in Says : Say(p, m)
      PROVE  SessionsInv' /\ SessionsLast
  <2>1. UNCHANGED << pool, conn >>
    BY <1>5 DEF Login, Quit, Say, process
  <2> QED
    BY <1>1, <1>5, <2>1, ProgramsKeep
<1>6. ASSUME Exits, UNCHANGED << lives, db >> PROVE SessionsInv' /\ SessionsLast
  BY <1>2, <1>6, ExitsKeeps
<1>7. CASE SelectError \/ ReadLoginCrash \/ Stop
  BY <1>6, <1>7 DEF SelectError, ReadLoginCrash, HandleCrash, Stop
<1>8. CASE write_cmd
  <2>1. UNCHANGED << pool, conn >>
    BY <1>8 DEF write_cmd
  <2> QED
    BY <1>1, <1>8, <2>1, WriteKeeps
<1>9. CASE Accept
  BY <1>9, AcceptKeeps
<1>10. CASE ReadLogin
  BY <1>10, ReadLoginKeeps
<1>11. CASE ReadHangup
  <2>1. UNCHANGED << pool, conn >>
    BY <1>11 DEF ReadHangup, LetIn
  <2> QED
    BY <1>1, <1>11, <2>1, ReadHangupKeeps
<1>12. CASE Serve
  <2>1. PICK i \in DOMAIN pool : Talk(i) \/ HangUp(i) \/ HangUpIgnored(i)
    BY <1>12 DEF Serve
  <2>2. CASE Talk(i)
    BY <2>2, TalkKeeps
  <2>3. CASE HangUp(i)
    BY <2>3, HangUpKeeps
  <2>4. CASE HangUpIgnored(i)
    BY <1>3, <2>4 DEF HangUpIgnored
  <2> QED
    BY <2>1, <2>2, <2>3, <2>4
<1>13. CASE Restart
  <2>1. SessionsLast
    BY <1>13 DEF Restart, NoneWhenDown, SessionsLast
  <2> QED
    BY <1>13, <2>1, RestartKeeps
<1> QED
  BY <1>3, <1>4, <1>5, <1>7, <1>8, <1>9, <1>10, <1>11, <1>12, <1>13 DEF Next, Server

LEMMA SessionsInvariant == Spec => [](SessionsInv /\ NoneWhenDown)
<1>1. Init => SessionsInv /\ NoneWhenDown
  <2>1. Init => NoneWhenDown
    BY DEF Init, NoneWhenDown
  <2> QED
    BY <2>1, InitSessionsInv
<1>2. SessionsInv /\ NoneWhenDown /\ [Next]_vars => (SessionsInv /\ NoneWhenDown)'
  BY SessionsNext, NoneWhenDownKept
<1> QED
  BY <1>1, <1>2, PTL DEF Spec

-----------------------------------------------------------------------------
(* Every state of the server and its clients has its type.                 *)
THEOREM SessionsTypeCorrect == Spec => []TypeOK
<1>1. SessionsInv => TypeOK
  BY DEF SessionsInv
<1> QED
  BY <1>1, SessionsInvariant, PTL

(* No two accounts answer to one name (pool.c:26, user.h:23 and 195), also *)
(* after any number of starts on a database.                               *)
THEOREM NamesStayUnique == Spec => []NamesAreUnique
<1>1. SessionsInv => NamesAreUnique
  BY DEF SessionsInv, Names, NamesAreUnique
<1> QED
  BY <1>1, SessionsInvariant, PTL

(* Whoever is online is on an open connection of his own that select       *)
(* watches (pool.c:60-63, 84-85, main.c:101-103), in every life.           *)
THEOREM OnlineSocketsStayOwn == Spec => []OnlineSocketsAreOwn
<1>1. SessionsInv => OnlineSocketsAreOwn
  BY DEF SessionsInv, OnlineAreWatched, OnlineSocketsAreOwn
<1> QED
  BY <1>1, SessionsInvariant, PTL

(* As long as the server was not started on a database, what a program     *)
(* sends is handled in its own name and select is never given a closed     *)
(* descriptor (main.c:66-73 and 114, pool.c:60-63).                        *)
THEOREM FirstLifeStaysSound == Spec => []FirstLifeIsSound
<1>1. ASSUME SessionsInv PROVE FirstLifeIsSound
  <2>1. SUFFICES ASSUME lives = 1 PROVE SpeakerIsTheClient /\ SelectSucceeds
    BY DEF FirstLifeIsSound
  <2>2. SpeakerIsTheClient
    BY <1>1, <2>1, Constants
    DEF SessionsInv, FirstSockets, OnlineAreWatched, SpeakerIsTheClient
  <2>3. SelectSucceeds
    BY <1>1, <2>1 DEF SessionsInv, FirstSockets, SelectSucceeds, SelectFails, Sockets
  <2> QED
    BY <2>2, <2>3
<1> QED
  BY <1>1, SessionsInvariant, PTL

(* Nothing another client does takes a session over or ends it (user.h:38, *)
(* main.c:119-124): it lasts until its program hangs up or the server ends.*)
THEOREM SessionsLastUntilHangup == Spec => SessionsEndByHangup
<1>1. SessionsInv /\ NoneWhenDown /\ [Next]_vars =>
        [ \A i \in DOMAIN pool :
            pool[i].online /\ server' = "RUNNING" =>
              LET fd == pool[i].socket
              IN  \/ /\ pool'[i].online /\ pool'[i].socket = fd
                     /\ conn'[fd] = conn[fd]
                  \/ phase[conn[fd]] = "GONE" ]_vars
  BY SessionsNext DEF SessionsLast
<1> QED
  BY <1>1, SessionsInvariant, PTL DEF Spec, SessionsEndByHangup

-----------------------------------------------------------------------------
(* The database is enough to start the server again: replaying it, with    *)
(* the record still to be written, gives the accounts there are.           *)

(* The same accounts: ids, names and passwords.                            *)
Same(ps, qs) ==
  /\ DOMAIN ps = DOMAIN qs
  /\ \A i \in DOMAIN ps : ps[i].name = qs[i].name /\ ps[i].password = qs[i].password

(* The database as it will be when what is handled has been written.       *)
Recorded == IF writing = NULL THEN db ELSE Append(db, writing)

Rebuilds ==
  /\ server = "RUNNING" /\ Len(pool) <= FirstFd /\ AllRead(Recorded) =>
       Same(pool, Replay(Recorded))
  /\ server = "DOWN" => writing = NULL

-----------------------------------------------------------------------------
LEMMA SameAccounts ==
  ASSUME NEW ps, NEW qs, Same(ps, qs)
  PROVE  Accounts(ps) = Accounts(qs)
BY DEF Same, Accounts

LEMMA SameIsTransitive ==
  ASSUME NEW ps, NEW qs, NEW rs, Same(ps, qs), Same(qs, rs)
  PROVE  Same(ps, rs)
BY DEF Same

(* The same accounts have the same names taken and the same room.          *)
LEMMA SameAllow ==
  ASSUME NEW ps \in Seq(Client), NEW qs \in Seq(Client), Same(ps, qs), NEW m
  PROVE  /\ Len(ps) = Len(qs)
         /\ MayRegister(ps, m) = MayRegister(qs, m)
         /\ MaySetInfo(ps, m) = MaySetInfo(qs, m)
<1>1. Len(ps) = Len(qs)
  <2>1. PICK a \in Nat, b \in Nat : a = Len(ps) /\ b = Len(qs)
    BY PoolIsFunction
  <2>2. 1 .. a = 1 .. b
    BY <2>1, PoolIsFunction DEF Same
  <2>3. (a = 0 \/ a \in 1 .. b) /\ (b = 0 \/ b \in 1 .. a)
    <3>1. (a = 0 \/ a \in 1 .. a) /\ (b = 0 \/ b \in 1 .. b)
      OBVIOUS
    <3> QED
      BY <2>2, <3>1
  <2> QED
    BY <2>1, <2>3
<1>2. \A name : Taken(ps, name) = Taken(qs, name)
  BY DEF Same, Taken
<1> QED
  BY <1>1, <1>2 DEF MayRegister, MaySetInfo

(* What a record does, it does alike to the same accounts.                 *)
LEMMA RegisteringAlike ==
  ASSUME NEW ps \in Seq(Client), NEW qs \in Seq(Client), Same(ps, qs), NEW m \in Commands,
         NEW s \in Fds, NEW t \in Fds
  PROVE  Same(on_user_register(ps, m, s), on_user_register(qs, m, t))
<1> DEFINE New(x) == [name |-> m.name, password |-> m.password, socket |-> x, online |-> FALSE]
<1>1. \A x \in Fds : New(x) \in Client /\ New(x).name = m.name /\ New(x).password = m.password
  BY DEF Client
<1>2. \A x : New(x).name = m.name /\ New(x).password = m.password
  OBVIOUS
<1>3. PICK a \in Client, b \in Client :
        /\ a = New(s) /\ b = New(t)
        /\ a.name = b.name /\ a.password = b.password
  BY <1>1
<1>4. /\ on_user_register(ps, m, s) = Append(ps, a)
      /\ on_user_register(qs, m, t) = Append(qs, b)
  BY <1>3 DEF on_user_register
<1>5. Len(ps) = Len(qs) /\ Len(ps) \in Nat /\ DOMAIN ps = 1 .. Len(ps) /\ DOMAIN qs = 1 .. Len(ps)
  BY SameAllow, PoolIsFunction
<1>6. /\ DOMAIN Append(ps, a) = 1 .. Len(ps) + 1
      /\ DOMAIN Append(qs, b) = 1 .. Len(ps) + 1
      /\ \A i \in 1 .. Len(ps) : Append(ps, a)[i] = ps[i] /\ Append(qs, b)[i] = qs[i]
      /\ Append(ps, a)[Len(ps) + 1] = a /\ Append(qs, b)[Len(ps) + 1] = b
  <2>1. /\ Append(ps, a) \in Seq(Client) /\ Len(Append(ps, a)) = Len(ps) + 1
        /\ Append(qs, b) \in Seq(Client) /\ Len(Append(qs, b)) = Len(ps) + 1
    BY <1>5, AppendProperties
  <2> QED
    BY <1>5, <2>1, AppendProperties, PoolIsFunction
<1>7. \A i \in 1 .. Len(ps) + 1 : i \in 1 .. Len(ps) \/ i = Len(ps) + 1
  BY <1>5
<1> HIDE DEF New
<1>8. \A i \in 1 .. Len(ps) + 1 :
        Append(ps, a)[i].name = Append(qs, b)[i].name /\ Append(ps, a)[i].password = Append(qs, b)[i].password
  BY <1>3, <1>5, <1>6, <1>7 DEF Same
<1> QED
  BY <1>4, <1>6, <1>8 DEF Same

LEMMA SettingAlike ==
  ASSUME NEW ps \in Seq(Client), NEW qs \in Seq(Client), Same(ps, qs), NEW m, NEW id
  PROVE  Same(on_user_set_info(ps, m, id), on_user_set_info(qs, m, id))
<1> DEFINE k == id + 1
           P(e) == [e EXCEPT !.name = Set(@, m.name), !.password = Set(@, m.password)]
<1>1. \A e \in Client : P(e).name = Set(e.name, m.name) /\ P(e).password = Set(e.password, m.password)
  BY DEF Client
<1>2. /\ on_user_set_info(ps, m, id) = [ps EXCEPT ![k] = P(ps[k])]
      /\ on_user_set_info(qs, m, id) = [qs EXCEPT ![k] = P(qs[k])]
  BY DEF on_user_set_info
<1>3. \A i \in DOMAIN ps : ps[i] \in Client /\ qs[i] \in Client
  BY PoolIsFunction DEF Same
<1> HIDE DEF P, k
<1>4. \A i \in DOMAIN ps :
        /\ [ps EXCEPT ![k] = P(ps[k])][i] = IF i = k THEN P(ps[i]) ELSE ps[i]
        /\ [qs EXCEPT ![k] = P(qs[k])][i] = IF i = k THEN P(qs[i]) ELSE qs[i]
  BY DEF Same
<1>5. \A i \in DOMAIN ps : P(ps[i]).name = P(qs[i]).name /\ P(ps[i]).password = P(qs[i]).password
  BY <1>1, <1>3 DEF Same
<1> QED
  BY <1>2, <1>4, <1>5 DEF Same

LEMMA ReplayedAlike ==
  ASSUME NEW ps \in Seq(Client), NEW qs \in Seq(Client), Same(ps, qs), NEW r, GoodRecord(r)
  PROVE  Same(Replayed(ps, r), Replayed(qs, r))
<1>1. /\ r.cmd \in Commands /\ r.cmd.cmd \in {"REGISTER", "SET_INFO", "CHALLENGE"}
      /\ r.cmd.cmd = "REGISTER" => r.client_id \in Fds
  BY DEF GoodRecord, Record, Persist, Persisted
<1>2. /\ MayRegister(ps, r.cmd) = MayRegister(qs, r.cmd)
      /\ MaySetInfo(ps, r.cmd) = MaySetInfo(qs, r.cmd)
  BY SameAllow
<1>a. Len(ps) = Len(qs)
  BY PoolIsFunction DEF Same
<1>3. Outcomes(ps, r.cmd) = Outcomes(qs, r.cmd)
  BY <1>1, <1>2, <1>a DEF Outcomes
<1>4. CASE Outcomes(ps, r.cmd) = {FALSE}
  BY <1>3, <1>4 DEF Replayed
<1>5. CASE Outcomes(ps, r.cmd) # {FALSE}
  <2>1. Replayed(ps, r) = After(ps, r.cmd, r.client_id) /\ Replayed(qs, r) = After(qs, r.cmd, r.client_id)
    BY <1>3, <1>5 DEF Replayed
  <2>2. CASE r.cmd.cmd = "REGISTER"
    BY <1>1, <2>1, <2>2, RegisteringAlike DEF After
  <2>3. CASE r.cmd.cmd = "SET_INFO"
    BY <2>1, <2>3, SettingAlike DEF After
  <2>4. CASE r.cmd.cmd = "CHALLENGE"
    BY <2>1, <2>4 DEF After
  <2> QED
    BY <1>1, <2>2, <2>3, <2>4
<1> QED
  BY <1>4, <1>5

(* Logging in, hanging up and the rest leave the accounts as they are.     *)
LEMMA LoggingInLeaves ==
  ASSUME NEW ps \in Seq(Client), NEW m, NEW socket
  PROVE  Same(on_user_login(ps, m, socket), ps)
<1> DEFINE k == find_client_by_name(ps, m.name)
           P(e) == [e EXCEPT !.online = TRUE, !.socket = socket]
<1>1. \A e \in Client : P(e).name = e.name /\ P(e).password = e.password
  BY DEF Client
<1>2. on_user_login(ps, m, socket) = [ps EXCEPT ![k] = P(ps[k])]
  BY DEF on_user_login
<1>3. \A i \in DOMAIN ps : ps[i] \in Client
  BY PoolIsFunction
<1> HIDE DEF P, k
<1>4. \A i \in DOMAIN ps : [ps EXCEPT ![k] = P(ps[k])][i] = IF i = k THEN P(ps[i]) ELSE ps[i]
  OBVIOUS
<1> QED
  BY <1>1, <1>2, <1>3, <1>4 DEF Same

LEMMA ArchivingLeaves ==
  ASSUME NEW ps \in Seq(Client), NEW k \in DOMAIN ps
  PROVE  Same(archive_client(ps, k), ps)
<1> DEFINE P(e) == [e EXCEPT !.online = FALSE, !.socket = Stdin]
<1>1. \A e \in Client : P(e).name = e.name /\ P(e).password = e.password
  BY DEF Client
<1>2. archive_client(ps, k) = IF ps[k].online THEN [ps EXCEPT ![k] = P(ps[k])] ELSE ps
  BY DEF archive_client
<1>3. \A i \in DOMAIN ps : ps[i] \in Client
  BY PoolIsFunction
<1> HIDE DEF P
<1>4. \A i \in DOMAIN ps : [ps EXCEPT ![k] = P(ps[k])][i] = IF i = k THEN P(ps[i]) ELSE ps[i]
  OBVIOUS
<1> QED
  BY <1>1, <1>2, <1>3, <1>4 DEF Same

-----------------------------------------------------------------------------
(* Two runs of the replay agree: they do not differ at a least number.     *)
LEMMA RunsAgree ==
  ASSUME NEW records \in Seq(Record), NEW more \in Seq(Record), NEW g, NEW h,
         RunOf(g, records), RunOf(h, more), Len(records) <= Len(more),
         \A k \in 1 .. Len(records) : more[k] = records[k]
  PROVE  g[Len(records)] = h[Len(records)]
<1>1. Len(records) \in Nat /\ Len(more) \in Nat
  BY LenProperties
<1>2. \A n \in 0 .. Len(records) :
        /\ g[n] = IF n = 0 THEN << >> ELSE Taking(g[n - 1], records, n)
        /\ h[n] = IF n = 0 THEN << >> ELSE Taking(h[n - 1], more, n)
  <2>1. \A n \in 0 .. Len(records) : n \in 0 .. Len(more)
    BY <1>1
  <2> QED
    BY <2>1 DEF RunOf
<1> DEFINE Differ == { n \in 0 .. Len(records) : g[n] # h[n] }
<1>3. Differ = {}
  <2>1. SUFFICES ASSUME Differ # {} PROVE FALSE
    OBVIOUS
  <2>2. PICK n \in Differ : \A k \in Differ : n <= k
    BY <1>1, <2>1, LeastExists
  <2>3. n \in 0 .. Len(records) /\ g[n] # h[n]
    OBVIOUS
  <2>4. n # 0
    BY <1>2, <2>3
  <2>5. n - 1 \in 0 .. Len(records) /\ ~(n <= n - 1) /\ n \in 1 .. Len(records)
    BY <1>1, <2>3, <2>4
  <2>6. g[n - 1] = h[n - 1]
    BY <2>2, <2>5
  <2>7. Taking(h[n - 1], more, n) = Taking(h[n - 1], records, n)
    <3>1. PICK w \in Nat : w = Len(records)
      BY <1>1
    <3>2. n \in 1 .. w /\ \A k \in 1 .. w : more[k] = records[k]
      BY <2>5, <3>1
    <3>3. \A ps : Taking(ps, more, n) = Taking(ps, records, n)
      BY ONLY <3>1, <3>2, TakingAlike
    <3> QED
      BY <3>3
  <2> QED
    BY <1>2, <2>3, <2>4, <2>6, <2>7
<1> QED
  BY <1>1, <1>3

(* One more record is replayed on what the others gave.                    *)
LEMMA ReplayOfOneMore ==
  ASSUME NEW records \in Seq(Record), NEW r \in Record, \E h : RunOf(h, records),
         AllRead(Append(records, r))
  PROVE  AllRead(records) /\ Replay(Append(records, r)) = Replayed(Replay(records), r)
<1>1. PICK more : more = Append(records, r)
  OBVIOUS
<1>2. /\ more \in Seq(Record) /\ Len(records) \in Nat /\ Len(more) = Len(records) + 1
      /\ \A k \in 1 .. Len(records) : more[k] = records[k]
      /\ more[Len(more)] = r
  BY <1>1, LenProperties, AppendProperties
<1> DEFINE g == CHOOSE f : RunOf(f, records)
           h == CHOOSE f : RunOf(f, more)
<1>3. RunOf(g, records) /\ RunOf(h, more)
  <2>1. \E f : RunOf(f, more)
    BY <1>1, ReplayGrows
  <2> QED
    BY <2>1
<1>4. Replay(records) = g[Len(records)] /\ Replay(more) = h[Len(more)]
  BY DEF Replay, RunOf, Taking
<1> HIDE DEF g, h
<1>5. g[Len(records)] = h[Len(records)]
  BY <1>2, <1>3, RunsAgree
<1>6. h[Len(more)] = Replayed(h[Len(records)], r)
  <2>1. /\ Len(more) \in 0 .. Len(more) /\ Len(more) # 0 /\ Len(more) - 1 = Len(records)
        /\ Len(more) \in DOMAIN more
    BY <1>2, LenProperties
  <2>2. h[Len(more)] = Taking(h[Len(records)], more, Len(more))
    BY <1>2, <1>3, <2>1 DEF RunOf
  <2>3. ~Swallowed(more, Len(more))
    BY <1>1, <2>1 DEF AllRead
  <2> QED
    BY <1>2, <2>2, <2>3 DEF Taking
<1>7. AllRead(records)
  <2>1. SUFFICES ASSUME NEW n \in DOMAIN records PROVE ~Swallowed(records, n)
    BY DEF AllRead
  <2>2. n \in 1 .. Len(records) /\ n \in DOMAIN more
    BY <1>2, LenProperties
  <2>3. Swallowed(more, n) = Swallowed(records, n)
    BY <1>2, <2>2, TakingAlike
  <2> QED
    BY <1>1, <2>2, <2>3 DEF AllRead
<1> QED
  BY <1>1, <1>4, <1>5, <1>6, <1>7

-----------------------------------------------------------------------------
(* Handling a command keeps it: what it does to the accounts is recorded.  *)
LEMMA HandlingIsRecorded ==
  ASSUME SessionsInv, Rebuilds, server = "RUNNING", writing = NULL,
         NEW p \in Programs, wire[p] # << >>, NEW id \in Nat,
         NEW persist \in BOOLEAN, HandleFirst(p, id, persist),
         NEW m, m = Head(wire[p]), m.cmd \in {"REGISTER", "LOGIN"} => id \in Fds,
         persist \/ (m.cmd # "REGISTER" /\ id >= FirstFd)
  PROVE  Rebuilds'
<1>1. /\ pool \in Seq(Client) /\ Len(pool) <= MAX_CLIENTS /\ db \in Seq(Record)
      /\ wire \in [Programs -> Seq(Commands)] /\ Names(pool)
      /\ \E h : RunOf(h, db)
      /\ \A k \in DOMAIN db : GoodRecord(db[k])
  BY DEF SessionsInv, TypeOK, Records
<1>2. m \in Commands /\ Tail(wire[p]) \in Seq(Commands)
  BY <1>1, HeadTailProperties
<1>3. PICK ok \in Outcomes(pool, m) :
        /\ pool' = IF ok THEN After(pool, m, id) ELSE pool
        /\ writing' = IF ok /\ persist /\ Persist(m)
                      THEN [client_id |-> id, cmd |-> m, tail |-> Tail(wire[p])]
                      ELSE NULL
  BY DEF HandleFirst
<1>4. UNCHANGED << server, db >> /\ ~Crashes(pool, m, id)
  BY DEF HandleFirst
<1>5. /\ pool' \in Seq(Client)
      /\ writing' # NULL => GoodRecord(writing')
  BY Handling
<1>6. /\ Len(pool) \in Nat /\ Len(pool') \in Nat /\ FirstFd \in Nat
      /\ DOMAIN pool = 1 .. Len(pool) /\ DOMAIN pool' = 1 .. Len(pool')
  BY <1>1, <1>5, PoolIsFunction, Constants
<1>7. SUFFICES ASSUME Len(pool') <= FirstFd, AllRead(Recorded)' PROVE Same(pool', Replay(Recorded)')
  BY <1>4 DEF Rebuilds
<1>8. Replay(db) \in Seq(Client)
  BY <1>1, ReplayIsSound DEF Sound
<1>9. m.cmd # "REGISTER" \/ ~ok => pool' = pool \/ Same(pool', pool) \/ m.cmd = "SET_INFO"
  BY <1>1, <1>3, LoggingInLeaves DEF After
<1>10. Len(pool) <= FirstFd
  <2>1. CASE ~ok
    BY <1>3, <1>7, <2>1
  <2>2. CASE ok /\ m.cmd = "REGISTER"
    <3>1. pool' = on_user_register(pool, m, id) /\ MayRegister(pool, m) /\ id \in Fds \cup {Stdin}
      BY <1>3, <2>2 DEF After, Outcomes
    <3>2. \A i \in DOMAIN pool : i \in DOMAIN pool'
      <4>1. PICK qs : qs = pool'
        OBVIOUS
      <4>2. \A i \in DOMAIN pool : i \in DOMAIN qs
        BY <1>1, <1>2, <3>1, <4>1, Registering
      <4> QED
        BY <4>1, <4>2
    <3>3. Len(pool) = 0 \/ Len(pool) \in DOMAIN pool'
      BY <1>6, <3>2
    <3> QED
      BY <1>6, <1>7, <3>3
  <2>3. CASE ok /\ m.cmd = "SET_INFO"
    <3>1. pool' = on_user_set_info(pool, m, id)
      BY <1>3, <2>3 DEF After
    <3>2. DOMAIN pool' = DOMAIN pool
      BY <3>1 DEF on_user_set_info
    <3> QED
      BY <1>6, <1>7, <3>2
  <2>4. CASE ok /\ m.cmd \notin {"REGISTER", "SET_INFO"}
    <3>1. DOMAIN pool' = DOMAIN pool
      BY <1>9, <2>4 DEF Same
    <3> QED
      BY <1>6, <1>7, <3>1
  <2> QED
    BY <2>1, <2>2, <2>3, <2>4
<1>11. ASSUME AllRead(db) PROVE Same(pool, Replay(db))
  BY <1>10, <1>11 DEF Rebuilds, Recorded
<1>12. CASE ok /\ persist /\ Persist(m)
  <2>1. PICK w \in Record :
          /\ w = writing' /\ w # NULL /\ GoodRecord(w)
          /\ w.client_id = id /\ w.cmd = m
    <3>1. writing' = [client_id |-> id, cmd |-> m, tail |-> Tail(wire[p])]
      BY <1>3, <1>12
    <3>2. writing' \in Record
      BY <1>2, <3>1 DEF Record
    <3> QED
      BY <1>5, <3>1, <3>2, NullAssumption
  <2>2. AllRead(db) /\ Replay(Recorded)' = Replayed(Replay(db), w)
    <3>1. Recorded' = Append(db, w)
      BY <1>4, <2>1 DEF Recorded
    <3>2. AllRead(Append(db, w))
      BY <1>7, <3>1 DEF AllRead, Swallowed
    <3>3. AllRead(db) /\ Replay(Append(db, w)) = Replayed(Replay(db), w)
      BY <1>1, <3>2, ReplayOfOneMore
    <3>4. Replay(Recorded)' = Replay(Append(db, w))
      BY <3>1 DEF Replay, Replayed, Swallowed
    <3> QED
      BY <3>3, <3>4
  <2>3. pool' = Replayed(pool, w)
    <3>1. Outcomes(pool, m) # {FALSE}
      BY <1>3, <1>12
    <3> QED
      BY <1>3, <1>12, <2>1, <3>1 DEF Replayed
  <2>4. Same(Replayed(pool, w), Replayed(Replay(db), w))
    BY <1>1, <1>8, <1>11, <2>1, <2>2, ReplayedAlike
  <2> QED
    BY <2>2, <2>3, <2>4
<1>13. CASE ~(ok /\ persist /\ Persist(m))
  <2>1. writing' = NULL
    BY <1>3, <1>13
  <2>2. AllRead(db) /\ Replay(Recorded)' = Replay(db)
    <3>1. Recorded' = db
      BY <1>4, <2>1 DEF Recorded
    <3>2. AllRead(db)
      BY <1>7, <3>1 DEF AllRead, Swallowed
    <3> QED
      BY <3>1, <3>2 DEF Replay, Replayed, Swallowed
  <2>3. Same(pool', pool)
    <3>1. CASE ~ok
      BY <1>3, <3>1 DEF Same
    <3>2. CASE ok /\ m.cmd = "SET_INFO"
      <4>1. ~persist /\ id >= FirstFd
        BY <1>13, <3>2 DEF Persist, Persisted
      <4>2. MaySetInfo(pool, m)
        BY <3>2 DEF Outcomes
      <4>3. Known(pool, id)
        BY <1>4, <3>2, <4>2 DEF Crashes
      <4>4. id + 1 <= Len(pool)
        BY <1>6, <4>3 DEF Known
      <4> QED
        BY <1>6, <1>10, <4>1, <4>4
    <3>3. CASE ok /\ m.cmd # "SET_INFO"
      <4>1. m.cmd # "REGISTER"
        BY <1>13, <3>3 DEF Persist, Persisted
      <4> QED
        BY <1>9, <3>3, <4>1 DEF Same
    <3> QED
      BY <3>1, <3>2, <3>3
  <2> QED
    BY <1>11, <2>2, <2>3, SameIsTransitive
<1> QED
  BY <1>12, <1>13

(* Steps that do not touch accounts and records keep it.                   *)
LEMMA LeavingKeeps ==
  ASSUME Rebuilds, UNCHANGED << server, pool, db, writing >>
  PROVE  Rebuilds'
<1>1. Recorded' = Recorded
  BY DEF Recorded
<1>2. Replay(Recorded)' = Replay(Recorded) /\ AllRead(Recorded)' = AllRead(Recorded)
  BY <1>1 DEF Replay, Replayed, AllRead, Swallowed
<1> QED
  BY <1>2 DEF Rebuilds, Same

LEMMA RebuildsNext ==
  ASSUME SessionsInv, Rebuilds, [Next]_vars
  PROVE  Rebuilds'
<1>1. /\ TypeOK /\ Places /\ Speech
  BY DEF SessionsInv
<1>2. ASSUME Exits PROVE Rebuilds'
  BY <1>2 DEF Exits, Rebuilds
<1>3. ASSUME NEW p \in Programs, NEW l \in Logins, Start(p, l) PROVE Rebuilds'
  BY <1>3, LeavingKeeps DEF Start, process
<1>4. ASSUME NEW p \in Programs, Login(p) \/ Quit(p) \/ \E m \in Says : Say(p, m)
      PROVE  Rebuilds'
  BY <1>4, LeavingKeeps DEF Login, Quit, Say, process
<1>5. CASE SelectError \/ ReadLoginCrash \/ Stop
  BY <1>2, <1>5 DEF SelectError, ReadLoginCrash, HandleCrash, Stop
<1>6. CASE write_cmd
  <2>1. /\ writing # NULL /\ db' = Append(db, writing) /\ writing' = NULL
        /\ UNCHANGED << server, pool >>
    BY <1>6 DEF write_cmd
  <2>2. Recorded' = Recorded
    BY <2>1 DEF Recorded
  <2>3. Replay(Recorded)' = Replay(Recorded) /\ AllRead(Recorded)' = AllRead(Recorded)
    BY <2>2 DEF Replay, Replayed, AllRead, Swallowed
  <2> QED
    BY <2>1, <2>3 DEF Rebuilds, Same
<1>7. CASE Accept
  <2>1. PICK fd \in Fds : fd = LowestFree
    BY <1>1, <1>7, ThereIsADescriptor DEF Accept
  <2>2. /\ backlog # << >> /\ backlog \in Seq(Programs)
        /\ server = "RUNNING" /\ writing = NULL
    BY <1>1, <1>7 DEF Accept, Waits, TypeOK
  <2>3. 1 \in DOMAIN backlog /\ backlog[1] = Head(backlog) /\ Head(backlog) \in Programs
    BY <2>2, LenProperties, EmptySeq, ElementOfSeq
  <2>4. PICK p \in Programs : p = Head(backlog)
    BY <2>3
  <2>5. wire[p] # << >> /\ HandleFirst(p, fd, TRUE)
    BY <1>1, <1>7, <2>1, <2>3, <2>4 DEF Accept, Speech
  <2>6. fd \in Nat
    BY Constants
  <2> QED
    BY <2>2, <2>5, <2>6, HandlingIsRecorded
<1>8. CASE ReadLogin
  <2>1. /\ serving # NULL /\ server = "RUNNING" /\ writing = NULL
        /\ wire[conn[serving]] # << >> /\ HandleFirst(conn[serving], serving, FALSE)
    BY <1>8 DEF ReadLogin, LetIn
  <2>2. PICK fd \in Fds : fd = serving
    BY <1>1, <2>1 DEF TypeOK
  <2>3. PICK p \in Programs : p = conn[fd]
    BY <1>1, <2>1, <2>2 DEF Places, TypeOK
  <2>4. PICK m : m = Head(wire[p])
    OBVIOUS
  <2>5. m.cmd # "REGISTER"
    <3>1. wire[p] \in Seq(Commands) /\ conn[fd] # NULL
      BY <1>1, <2>1, <2>2, <2>3, Constants DEF TypeOK
    <3>2. 1 \in DOMAIN wire[p] /\ m = wire[p][1]
      BY <2>1, <2>2, <2>3, <2>4, <3>1, EmptySeq, LenProperties
    <3> QED
      BY <1>1, <2>3, <3>1, <3>2 DEF Speech
  <2>6. fd \in Nat /\ fd >= FirstFd
    BY Constants DEF Fds
  <2> QED
    BY <2>1, <2>2, <2>3, <2>4, <2>5, <2>6, HandlingIsRecorded
<1>9. CASE ReadHangup
  BY <1>9, LeavingKeeps DEF ReadHangup
<1>10. CASE Serve
  <2>1. PICK i \in DOMAIN pool : Talk(i) \/ HangUp(i) \/ HangUpIgnored(i)
    BY <1>10 DEF Serve
  <2>2. pool \in Seq(Client)
    BY <1>1 DEF TypeOK
  <2>3. CASE Talk(i)
    <3>1. PICK fd : fd = pool[i].socket
      OBVIOUS
    <3>2. /\ server = "RUNNING" /\ writing = NULL /\ serving = NULL
          /\ ~SelectFails /\ i \in Talking
          /\ wire[conn[fd]] # << >> /\ HandleFirst(conn[fd], i - 1, TRUE)
      BY <2>3, <3>1 DEF Talk, Round, Waits
    <3>3. fd \in Sockets /\ fd <= maxfd
      BY <3>1, <3>2 DEF Talking, Readable
    <3>4. fd \in Fds /\ i - 1 \in Nat
      <4>1. pool[i] \in Client /\ Len(pool) \in Nat /\ i \in 1 .. Len(pool)
        BY <2>2, PoolIsFunction
      <4> QED
        BY <3>1, <3>3, <4>1 DEF Sockets, Client
    <3>5. PICK p \in Programs : p = conn[fd]
      BY <1>1, <3>2, <3>3, <3>4 DEF SelectFails, TypeOK
    <3>6. PICK m : m = Head(wire[p])
      OBVIOUS
    <3>7. m.cmd \notin {"REGISTER", "LOGIN"}
      <4>1. wire[p] \in Seq(Commands) /\ fd # serving /\ conn[fd] # NULL
        BY <1>1, <3>2, <3>4, <3>5, Constants DEF TypeOK
      <4>2. 1 \in DOMAIN wire[p] /\ m = wire[p][1]
        BY <3>2, <3>5, <3>6, <4>1, EmptySeq, LenProperties
      <4> QED
        BY <1>1, <3>4, <3>5, <4>1, <4>2 DEF Speech
    <3> QED
      BY <3>2, <3>4, <3>5, <3>6, <3>7, HandlingIsRecorded
  <2>4. CASE HangUp(i)
    <3>1. pool' = archive_client(pool, i) /\ UNCHANGED << server, db, writing >>
      BY <2>4 DEF HangUp
    <3>2. Same(pool', pool)
      BY <2>2, <3>1, ArchivingLeaves
    <3>3. Len(pool') = Len(pool)
      <4>1. PICK qs : qs = pool'
        OBVIOUS
      <4>2. Len(qs) = Len(pool)
        BY <2>2, <3>1, <4>1, Archiving
      <4> QED
        BY <4>1, <4>2
    <3>4. Recorded' = Recorded
      BY <3>1 DEF Recorded
    <3>5. Replay(Recorded)' = Replay(Recorded) /\ AllRead(Recorded)' = AllRead(Recorded)
      BY <3>4 DEF Replay, Replayed, AllRead, Swallowed
    <3>6. CASE server = "RUNNING" /\ Len(pool) <= FirstFd /\ AllRead(Recorded)
      BY <3>1, <3>2, <3>5, <3>6, SameIsTransitive DEF Rebuilds
    <3>7. CASE ~(server = "RUNNING" /\ Len(pool) <= FirstFd /\ AllRead(Recorded))
      BY <3>1, <3>3, <3>5, <3>7 DEF Rebuilds
    <3> QED
      BY <3>6, <3>7
  <2>5. CASE HangUpIgnored(i)
    BY <2>5, LeavingKeeps DEF HangUpIgnored, vars, process
  <2> QED
    BY <2>1, <2>3, <2>4, <2>5
<1>11. CASE Restart
  <2>1. /\ server = "DOWN" /\ UNCHANGED << db, writing >>
        /\ \/ server' = "RUNNING" /\ pool' = Replay(db)
           \/ UNCHANGED << server, pool >>
    BY <1>11 DEF Restart
  <2>2. writing = NULL
    BY <2>1 DEF Rebuilds
  <2>3. CASE server' = "RUNNING" /\ pool' = Replay(db)
    <3>1. Recorded' = db
      BY <2>1, <2>2 DEF Recorded
    <3>2. Replay(Recorded)' = Replay(db)
      BY <3>1 DEF Replay, Replayed, Swallowed
    <3> QED
      BY <2>3, <3>2 DEF Rebuilds, Same
  <2>4. CASE UNCHANGED << server, pool >>
    BY <2>1, <2>4, LeavingKeeps
  <2> QED
    BY <2>1, <2>3, <2>4
<1>12. CASE UNCHANGED vars
  BY <1>12, LeavingKeeps DEF vars, process
<1> QED
  BY <1>3, <1>4, <1>5, <1>6, <1>7, <1>8, <1>9, <1>10, <1>11, <1>12 DEF Next, Server

LEMMA InitRebuilds == Init => Rebuilds
<1> SUFFICES ASSUME Init PROVE Rebuilds
  OBVIOUS
<1>1. pool = << >> /\ db = << >> /\ writing = NULL /\ server = "RUNNING"
  BY DEF Init
<1>2. PICK h : RunOf(h, db)
  BY InitSessionsInv DEF SessionsInv, Records
<1> DEFINE g == CHOOSE f : RunOf(f, db)
<1>3. RunOf(g, db)
  BY <1>2
<1>4. Replay(db) = g[Len(db)]
  BY DEF Replay, RunOf, Taking
<1> HIDE DEF g
<1>5. Replay(db) = << >>
  <2>1. Len(db) = 0
    BY <1>1, EmptySeq
  <2> QED
    BY <1>3, <1>4, <2>1 DEF RunOf
<1> QED
  BY <1>1, <1>5 DEF Rebuilds, Recorded, Same

(* Killed at any time and started again, the server has the accounts it    *)
(* had, but for a command it had not written (mediator.c:41-48, main.h:    *)
(* 37-39), as long as there are at most FirstFd of them and no record is   *)
(* lost to what was in the buffer behind another (persistor.c:36).         *)
THEOREM DatabaseStaysComplete == Spec => []DatabaseRebuildsTheAccounts
<1>1. Init => Rebuilds
  BY InitRebuilds
<1>2. SessionsInv /\ Rebuilds /\ [Next]_vars => Rebuilds'
  BY RebuildsNext
<1>3. Rebuilds => DatabaseRebuildsTheAccounts
  BY SameAccounts DEF Rebuilds, Recorded, DatabaseRebuildsTheAccounts
<1> QED
  BY <1>1, <1>2, <1>3, SessionsInvariant, PTL DEF Spec
=============================================================================
