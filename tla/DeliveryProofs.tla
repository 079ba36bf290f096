--------------------------- MODULE DeliveryProofs ---------------------------
(***************************************************************************)
(* Proofs about what the server sends and what the client programs make of *)
(* it, for every number of programs, accounts, lines and lives: each step  *)
(* is a step of Sessions, DeliveryInv is inductive, and every message goes *)
(* where it should.                                                        *)
(***************************************************************************)
EXTENDS Delivery, SessionsProofs

-----------------------------------------------------------------------------
(* The loop of InOrder, up to k.                                           *)
Collects(u, S, k) ==
  u = [j \in 0 .. k |->
         IF j = 0 THEN << >> ELSE IF j \in S THEN Append(u[j - 1], j) ELSE u[j - 1]]

(* Induction on the numbers up to n.                                       *)
LEMMA CountUp ==
  ASSUME NEW n \in Nat, NEW T, 0 \in T,
         \A k \in 0 .. n : k # n /\ k \in T => k + 1 \in T
  PROVE  \A k \in 0 .. n : k \in T
<1> DEFINE Missed == (0 .. n) \ T
<1>1. SUFFICES ASSUME Missed # {} PROVE FALSE
  OBVIOUS
<1>2. PICK k \in Missed : \A j \in Missed : k <= j
  BY <1>1, LeastExists
<1>3. k \in 0 .. n /\ k \notin T /\ k # 0
  OBVIOUS
<1>4. k - 1 \in 0 .. n /\ k - 1 # n /\ (k - 1) + 1 = k /\ ~(k <= k - 1)
  BY <1>3
<1>5. k - 1 \in T
  BY <1>2, <1>4
<1> QED
  BY <1>3, <1>4, <1>5

LEMMA CollectionExists ==
  ASSUME NEW S, NEW n \in Nat
  PROVE  \E u : Collects(u, S, n)
<1> DEFINE Done == { k \in Nat : \E u : Collects(u, S, k) }
<1>1. 0 \in Done
  <2>1. Collects([j \in 0 .. 0 |-> << >>], S, 0)
    BY DEF Collects
  <2> QED
    BY <2>1
<1>2. ASSUME NEW k \in 0 .. n, k \in Done PROVE k + 1 \in Done
  <2>1. PICK u : Collects(u, S, k)
    BY <1>2
  <2> DEFINE step(v, j) == IF j = 0 THEN << >> ELSE IF j \in S THEN Append(v[j - 1], j) ELSE v[j - 1]
             w == [j \in 0 .. k + 1 |-> IF j = k + 1 THEN step(u, j) ELSE u[j]]
  <2>2. u = [j \in 0 .. k |-> step(u, j)]
    BY <2>1 DEF Collects
  <2>3. ASSUME NEW j \in 0 .. k + 1 PROVE w[j] = step(w, j)
    <3>1. CASE j = 0
      BY <2>2, <3>1
    <3>2. CASE j # 0
      <4>1. j - 1 \in 0 .. k + 1 /\ j - 1 \in 0 .. k /\ w[j - 1] = u[j - 1]
        BY <3>2
      <4>2. w[j] = step(u, j)
        <5>1. CASE j = k + 1
          BY <5>1
        <5>2. CASE j # k + 1
          <6>1. j \in 0 .. k /\ w[j] = u[j]
            BY <5>2
          <6> HIDE DEF step, w
          <6> QED
            BY <2>2, <6>1
        <5> QED
          BY <5>1, <5>2
      <4> HIDE DEF w
      <4> QED
        BY <4>1, <4>2
    <3> QED
      BY <3>1, <3>2
  <2>4. w = [j \in 0 .. k + 1 |-> step(w, j)]
    <3>1. w = [j \in 0 .. k + 1 |-> w[j]]
      OBVIOUS
    <3> HIDE DEF w, step
    <3> QED
      BY <2>3, <3>1
  <2>5. Collects(w, S, k + 1)
    <3> HIDE DEF w
    <3> QED
      BY <2>4 DEF Collects
  <2> QED
    BY <2>5
<1>3. \A k \in 0 .. n : k \in Done
  <2> HIDE DEF Done
  <2> QED
    BY <1>1, <1>2, CountUp
<1> QED
  BY <1>3

(* What the loop collects are members of S, each once.                     *)
LEMMA InOrderLists ==
  ASSUME NEW S, NEW n \in Nat
  PROVE  /\ InOrder(S, n) \in Seq(S \cap (1 .. n))
         /\ \A j, k \in DOMAIN InOrder(S, n) : InOrder(S, n)[j] = InOrder(S, n)[k] => j = k
<1> DEFINE u == CHOOSE v : Collects(v, S, n)
<1>1. InOrder(S, n) = u[n]
  BY DEF InOrder, Collects
<1>2. Collects(u, S, n)
  BY CollectionExists
<1> HIDE DEF u
<1>3. \A j \in 0 .. n :
        u[j] = IF j = 0 THEN << >> ELSE IF j \in S THEN Append(u[j - 1], j) ELSE u[j - 1]
  BY <1>2 DEF Collects
<1> DEFINE Lists(s, m) == /\ s \in Seq(S \cap (1 .. m))
                          /\ \A j, k \in DOMAIN s : s[j] = s[k] => j = k
           Done == { m \in Nat : Lists(u[m], m) }
<1>4. 0 \in Done
  <2>1. u[0] = << >>
    BY <1>3
  <2>2. << >> \in Seq(S \cap (1 .. 0)) /\ DOMAIN << >> = {}
    BY EmptySeq
  <2> QED
    BY <2>1, <2>2
<1>5. ASSUME NEW m \in 0 .. n, m # n, m \in Done PROVE m + 1 \in Done
  <2>1. m + 1 \in 0 .. n /\ m + 1 # 0 /\ (m + 1) - 1 = m /\ m + 1 \in Nat /\ m \in Nat
    BY <1>5
  <2>2. PICK s : s = u[m]
    OBVIOUS
  <2>3. s \in Seq(S \cap (1 .. m)) /\ \A j, k \in DOMAIN s : s[j] = s[k] => j = k
    BY <1>5, <2>2
  <2>4. /\ s \in Seq(S \cap (1 .. m + 1)) /\ Len(s) \in Nat /\ DOMAIN s = 1 .. Len(s)
        /\ \A j \in DOMAIN s : s[j] \in 1 .. m
    <3>1. S \cap (1 .. m) \subseteq S \cap (1 .. m + 1)
      BY <2>1
    <3> QED
      BY <2>3, <3>1, SeqMonotonic, LenProperties, ElementOfSeq
  <2>5. CASE m + 1 \in S
    <3>1. u[m + 1] = Append(s, m + 1)
      BY <1>3, <2>1, <2>2, <2>5
    <3>2. m + 1 \in S \cap (1 .. m + 1) /\ m + 1 \notin 1 .. m
      BY <2>1, <2>5
    <3>3. /\ Append(s, m + 1) \in Seq(S \cap (1 .. m + 1))
          /\ DOMAIN Append(s, m + 1) = 1 .. Len(s) + 1
          /\ \A j \in 1 .. Len(s) : Append(s, m + 1)[j] = s[j]
          /\ Append(s, m + 1)[Len(s) + 1] = m + 1
      BY <2>4, <3>2, AppendProperties, LenProperties
    <3>4. \A j, k \in DOMAIN Append(s, m + 1) :
            Append(s, m + 1)[j] = Append(s, m + 1)[k] => j = k
      BY <2>3, <2>4, <3>2, <3>3
    <3> QED
      BY <2>1, <3>1, <3>3, <3>4
  <2>6. CASE m + 1 \notin S
    <3>1. u[m + 1] = s
      BY <1>3, <2>1, <2>2, <2>6
    <3> QED
      BY <2>1, <2>3, <2>4, <3>1
  <2> QED
    BY <2>5, <2>6
<1>6. \A m \in 0 .. n : m \in Done
  <2> HIDE DEF Done
  <2> QED
    BY <1>4, <1>5, CountUp
<1> QED
  BY <1>1, <1>6

-----------------------------------------------------------------------------
(* What handlers send.                                                     *)
Addressed == [to : Nat, msg : Delivered]

LEMMA WhatIsDelivered ==
  /\ \A n \in Nat : \A cmd \in Events \cup {"REGISTER", "GET_INFO", "CHAT_WRITE"} :
       Message(cmd, n) \in Delivered
  /\ \A cmd \in {"LOGIN", "SET_INFO"} : Message(cmd, NULL) \in Delivered
  /\ \A page \in Seq(Nat) : Message("LIST_ALL", page) \in Delivered
  /\ \A code \in Errors : Message("ERROR_EVENT", code) \in Delivered
BY DEF Delivered, Message

(* Who a command speaks for: the client it is handled as, or who logs in.  *)
Speaker(ps, m, id) == IF m.cmd = "LOGIN" THEN find_client_by_name(ps, m.name) - 1 ELSE id

(* What the handler of m may send, the pool being ps before and qs after:  *)
(* answers to the one who asked, events to others.                         *)
Proper(ps, qs, m, id) ==
  { o \in Addressed :
      /\ o.msg.cmd \in Answers =>
           o.to = IF m.cmd \in {"REGISTER", "LOGIN"} THEN id ELSE ps[id + 1].socket
      /\ o.msg.cmd = "REGISTER" =>
           m.cmd = "REGISTER" /\ MayRegister(ps, m) /\ o.msg.about = Len(ps)
      /\ o.msg.cmd \in Events =>
           /\ o.msg.about = Speaker(ps, m, id)
           /\ \E i \in DOMAIN qs : /\ o.to = qs[i].socket
                                   /\ i = Speaker(ps, m, id) + 1 => m = Ask("CHAT", id)
      /\ o.msg.cmd \in {"LOGOUT_EVENT", "CHAT_WRITE_EVENT"} => m.cmd \in {"LOGOUT", "CHAT"} }

(* No socket gets two events.                                              *)
Once(out) ==
  \A j, k \in DOMAIN out :
    /\ out[j].msg.cmd \in Events /\ out[k].msg.cmd \in Events
    /\ out[j].to = out[k].to /\ out[j].to # Stdin
    => j = k

Silent(out) == \A j \in DOMAIN out : out[j].msg.cmd \notin Events

Distinct(ps) ==
  \A i, j \in DOMAIN ps : ps[i].socket = ps[j].socket /\ i # j => ps[i].socket = Stdin

LEMMA SentToOne ==
  ASSUME NEW S, NEW socket, NEW cmd, NEW about,
         [to |-> socket, msg |-> Message(cmd, about)] \in S
  PROVE  /\ SendTo(socket, cmd, about) \in Seq(S)
         /\ Once(SendTo(socket, cmd, about))
         /\ cmd \notin Events => Silent(SendTo(socket, cmd, about))
<1>1. PICK e \in S : e = [to |-> socket, msg |-> Message(cmd, about)]
  OBVIOUS
<1>2. SendTo(socket, cmd, about) = << e >>
  BY <1>1 DEF SendTo
<1>3. << e >> \in Seq(S) /\ DOMAIN << e >> = {1} /\ << e >>[1] = e
  OBVIOUS
<1>4. e.msg.cmd = cmd
  BY <1>1 DEF Message
<1> QED
  BY <1>2, <1>3, <1>4 DEF Once, Silent

LEMMA SentToNone ==
  ASSUME NEW S
  PROVE  << >> \in Seq(S) /\ Once(<< >>) /\ Silent(<< >>)
BY EmptySeq DEF Once, Silent

LEMMA SentToBoth ==
  ASSUME NEW S, NEW a \in Seq(S), NEW b \in Seq(S)
  PROVE  /\ a \o b \in Seq(S)
         /\ Silent(a) /\ Once(b) => Once(a \o b)
         /\ Once(a) /\ Silent(b) => Once(a \o b)
<1>1. /\ Len(a) \in Nat /\ DOMAIN a = 1 .. Len(a)
      /\ Len(b) \in Nat /\ DOMAIN b = 1 .. Len(b)
  BY LenProperties
<1>2. PICK c : c = a \o b
  OBVIOUS
<1>3. /\ c \in Seq(S) /\ Len(c) = Len(a) + Len(b)
      /\ \A i \in 1 .. Len(a) + Len(b) : c[i] = IF i <= Len(a) THEN a[i] ELSE b[i - Len(a)]
  BY <1>2, ConcatProperties
<1>4. DOMAIN c = 1 .. Len(a) + Len(b)
  BY <1>3, LenProperties
<1>5. \A i \in DOMAIN c : \/ i \in DOMAIN a /\ c[i] = a[i]
                          \/ i - Len(a) \in DOMAIN b /\ c[i] = b[i - Len(a)]
  BY <1>1, <1>3, <1>4
<1>6. Len(a) \in Int /\ DOMAIN c \subseteq Int
  BY <1>1, <1>4
<1>7. ASSUME Silent(a), Once(b) PROVE Once(c)
  <2>1. SUFFICES ASSUME NEW j \in DOMAIN c, NEW k \in DOMAIN c,
                        c[j].msg.cmd \in Events, c[k].msg.cmd \in Events,
                        c[j].to = c[k].to, c[j].to # Stdin
                 PROVE  j = k
    BY DEF Once
  <2>2. /\ j - Len(a) \in DOMAIN b /\ c[j] = b[j - Len(a)]
        /\ k - Len(a) \in DOMAIN b /\ c[k] = b[k - Len(a)]
    BY <1>5, <1>7, <2>1 DEF Silent
  <2>3. j - Len(a) = k - Len(a)
    BY <1>7, <2>1, <2>2 DEF Once
  <2> QED
    BY <1>6, <2>3
<1>8. ASSUME Once(a), Silent(b) PROVE Once(c)
  <2>1. \A j \in DOMAIN c : c[j].msg.cmd \in Events => j \in DOMAIN a /\ c[j] = a[j]
    BY <1>5, <1>8 DEF Silent
  <2> QED
    BY <1>8, <2>1 DEF Once
<1> QED
  BY <1>2, <1>3, <1>7, <1>8

LEMMA SentToPool ==
  ASSUME NEW ps \in Seq(Client), NEW i \in DOMAIN ps, NEW cmd, NEW about, NEW S,
         \A j \in DOMAIN ps \ {i} : [to |-> ps[j].socket, msg |-> Message(cmd, about)] \in S
  PROVE  ToPool(ps, i, cmd, about) \in Seq(S) /\ (Distinct(ps) => Once(ToPool(ps, i, cmd, about)))
<1> DEFINE other(k) == IF k < i THEN k ELSE k + 1
           sent == [k \in 1 .. Len(ps) - 1 |->
                      [to |-> ps[other(k)].socket, msg |-> Message(cmd, about)]]
<1>1. ToPool(ps, i, cmd, about) = sent
  BY DEF ToPool
<1>2. Len(ps) \in Nat /\ DOMAIN ps = 1 .. Len(ps) /\ i \in Nat /\ Len(ps) - 1 \in Nat
  BY PoolIsFunction
<1>3. /\ \A k \in 1 .. Len(ps) - 1 : other(k) \in DOMAIN ps \ {i}
      /\ \A j, k \in 1 .. Len(ps) - 1 : other(j) = other(k) => j = k
  BY <1>2
<1> HIDE DEF other
<1>4. sent \in Seq(S)
  BY <1>2, <1>3
<1>5. DOMAIN sent = 1 .. Len(ps) - 1
  OBVIOUS
<1>6. ASSUME Distinct(ps) PROVE Once(sent)
  <2>1. \A k \in DOMAIN sent : sent[k].to = ps[other(k)].socket
    OBVIOUS
  <2> HIDE DEF sent
  <2> QED
    BY <1>3, <1>5, <1>6, <2>1 DEF Once, Distinct
<1> QED
  BY <1>1, <1>4, <1>6

(* The kinds of commands.                                                  *)
LEMMA KindsOfCommands ==
  ASSUME NEW m \in Commands
  PROVE  \/ m.cmd \in {"REGISTER", "LOGIN", "LOGOUT", "SET_INFO"}
         \/ m \in Asked
<1>1. m.cmd = "REGISTER" \/ m.cmd = "LOGIN" \/ m.cmd = "LOGOUT" \/ m \in Says
  BY DEF Commands
<1> QED
  BY <1>1, LinesAssumption

LEMMA KindsOfQuestions ==
  ASSUME NEW m \in Asked
  PROVE  /\ m.cmd \in {"CHAT", "GET_INFO", "LIST_ALL"} /\ m = Ask(m.cmd, m.about)
         /\ m.about \in Nat \cup {NULL} /\ (m.cmd = "LIST_ALL" => m.about \in Nat)
BY DEF Asked, Ask

LEMMA SocketsAreNat ==
  ASSUME NEW ps \in Seq(Client)
  PROVE  \A i \in DOMAIN ps : ps[i].socket \in Nat /\ ps[i].socket \in Fds \cup {Stdin}
<1>1. \A i \in DOMAIN ps : ps[i] \in Client
  BY PoolIsFunction
<1> QED
  BY <1>1, Constants DEF Client

LEMMA AskerIsKnown ==
  ASSUME NEW ps \in Seq(Client), NEW m, NEW id \in Nat, ~Crashes(ps, m, id),
         m.cmd \notin {"REGISTER", "LOGIN"}, m.cmd = "SET_INFO" => MaySetInfo(ps, m)
  PROVE  id + 1 \in DOMAIN ps /\ ps[id + 1].socket \in Nat
<1>1. id + 1 \in DOMAIN ps
  BY DEF Crashes, Known
<1> QED
  BY <1>1, SocketsAreNat

LEMMA RegisterIsAnswered ==
  ASSUME NEW ps \in Seq(Client), NEW qs, NEW m, NEW id \in Nat, m.cmd = "REGISTER"
  PROVE  LET out == Sent(ps, m, id)
         IN  out \in Seq(Proper(ps, qs, m, id)) /\ Once(out) /\ Silent(out)
<1>1. Sent(ps, m, id) = AnswerRegister(ps, m, id)
  BY DEF Sent
<1>2. CASE MayRegister(ps, m)
  <2>1. Len(ps) \in Nat
    BY PoolIsFunction
  <2>2. [to |-> id, msg |-> Message("REGISTER", Len(ps))] \in Proper(ps, qs, m, id)
    <3>1. Message("REGISTER", Len(ps)) \in Delivered
      BY <2>1, WhatIsDelivered
    <3> QED
      BY <1>2, <3>1 DEF Proper, Addressed, Message, Events
  <2>3. AnswerRegister(ps, m, id) = SendTo(id, "REGISTER", Len(ps))
    BY <1>2 DEF AnswerRegister
  <2>4. "REGISTER" \notin Events
    BY DEF Events
  <2> QED
    BY <1>1, <2>2, <2>3, <2>4, SentToOne
<1>3. CASE ~MayRegister(ps, m)
  <2>1. PICK code \in Errors : AnswerRegister(ps, m, id) = Error(id, code)
    BY <1>3 DEF AnswerRegister, Errors
  <2>2. [to |-> id, msg |-> Message("ERROR_EVENT", code)] \in Proper(ps, qs, m, id)
    <3>1. Message("ERROR_EVENT", code) \in Delivered
      BY WhatIsDelivered
    <3> QED
      BY <3>1 DEF Proper, Addressed, Message, Events
  <2>3. "ERROR_EVENT" \notin Events
    BY DEF Events
  <2> QED
    BY <1>1, <2>1, <2>2, <2>3, SentToOne DEF Error
<1> QED
  BY <1>2, <1>3

(* An answer that is proper: to the one who asked.                         *)
LEMMA ProperAnswer ==
  ASSUME NEW ps, NEW qs, NEW m, NEW id \in Nat, NEW cmd \in Answers \ {"REGISTER"}, NEW about,
         Message(cmd, about) \in Delivered,
         NEW socket \in Nat,
         socket = IF m.cmd \in {"REGISTER", "LOGIN"} THEN id ELSE ps[id + 1].socket
  PROVE  /\ SendTo(socket, cmd, about) \in Seq(Proper(ps, qs, m, id))
         /\ Once(SendTo(socket, cmd, about)) /\ Silent(SendTo(socket, cmd, about))
<1>1. cmd \notin Events
  BY DEF Answers, Events
<1>2. [to |-> socket, msg |-> Message(cmd, about)] \in Proper(ps, qs, m, id)
  BY <1>1 DEF Proper, Addressed, Message, Events
<1> QED
  BY <1>1, <1>2, SentToOne

(* So is one that is only sent to a client that is online.                 *)
LEMMA ProperAnswerIfOnline ==
  ASSUME NEW ps, NEW qs, NEW m, NEW id \in Nat, NEW cmd \in Answers \ {"REGISTER"}, NEW about,
         Message(cmd, about) \in Delivered, NEW client, client.socket \in Nat,
         client.socket = IF m.cmd \in {"REGISTER", "LOGIN"} THEN id ELSE ps[id + 1].socket
  PROVE  LET out == ToClient(client, SendTo(client.socket, cmd, about))
         IN  out \in Seq(Proper(ps, qs, m, id)) /\ Once(out) /\ Silent(out)
<1>1. PICK out : out = SendTo(client.socket, cmd, about)
  OBVIOUS
<1>2. out \in Seq(Proper(ps, qs, m, id)) /\ Once(out) /\ Silent(out)
  BY <1>1, ProperAnswer
<1>3. ToClient(client, out) = IF client.online THEN out ELSE << >>
  BY DEF ToClient
<1> QED
  BY <1>1, <1>2, <1>3, SentToNone

LEMMA LoginIsAnswered ==
  ASSUME NEW ps \in Seq(Client), Names(ps), NEW qs, NEW m, NEW id \in Fds, m.cmd = "LOGIN",
         MayLogin(ps, m) => qs = on_user_login(ps, m, id)
  PROVE  LET out == Sent(ps, m, id)
         IN  out \in Seq(Proper(ps, qs, m, id)) /\ (Distinct(qs) => Once(out))
<1>0. id \in Nat /\ Sent(ps, m, id) = AnswerLogin(ps, m, id)
  BY Constants DEF Sent
<1>1. CASE MayLogin(ps, m)
  <2>1. PICK i : i = find_client_by_name(ps, m.name)
    OBVIOUS
  <2>2. qs \in Seq(Client) /\ DOMAIN qs = DOMAIN ps /\ i \in DOMAIN qs
    BY <1>1, <2>1, LoggingIn
  <2>3. i \in Nat /\ i - 1 \in Nat
    BY <2>2, PoolIsFunction
  <2>4. Speaker(ps, m, id) = i - 1
    BY <2>1 DEF Speaker
  <2>5. ASSUME NEW j \in DOMAIN qs \ {i}
        PROVE  [to |-> qs[j].socket, msg |-> Message("LOGIN_EVENT", i - 1)] \in Proper(ps, qs, m, id)
    <3>1. Message("LOGIN_EVENT", i - 1) \in Delivered
      BY <2>3, WhatIsDelivered DEF Events
    <3>2. qs[j].socket \in Nat
      BY <2>2, SocketsAreNat
    <3>3. j # Speaker(ps, m, id) + 1
      BY <2>3, <2>4
    <3> QED
      BY <2>4, <3>1, <3>2, <3>3 DEF Proper, Addressed, Message, Answers
  <2>6. PICK a, b : a = SendTo(id, "LOGIN", NULL) /\ b = ToPool(qs, i, "LOGIN_EVENT", i - 1)
    OBVIOUS
  <2>7. a \in Seq(Proper(ps, qs, m, id)) /\ Silent(a)
    BY <1>0, <2>6, ProperAnswer, WhatIsDelivered DEF Answers
  <2>8. b \in Seq(Proper(ps, qs, m, id)) /\ (Distinct(qs) => Once(b))
    BY <2>2, <2>5, <2>6, SentToPool
  <2>9. AnswerLogin(ps, m, id) = a \o b
    BY <1>1, <2>1, <2>6 DEF AnswerLogin
  <2>10. a \o b \in Seq(Proper(ps, qs, m, id))
    BY <2>7, <2>8, ConcatProperties
  <2>11. ASSUME Distinct(qs) PROVE Once(a \o b)
    <3>1. PICK S : S = Proper(ps, qs, m, id)
      OBVIOUS
    <3>2. a \in Seq(S) /\ b \in Seq(S) /\ Silent(a) /\ Once(b)
      BY <2>7, <2>8, <2>11, <3>1
    <3> QED
      BY <3>2, SentToBoth
  <2> QED
    BY <1>0, <2>9, <2>10, <2>11
<1>2. CASE ~MayLogin(ps, m) /\ Taken(ps, m.name)
  BY <1>0, <1>2, SentToNone DEF AnswerLogin
<1>3. CASE ~MayLogin(ps, m) /\ ~Taken(ps, m.name)
  <2>1. AnswerLogin(ps, m, id) = SendTo(id, "ERROR_EVENT", "CLIENT_NOT_FOUND")
    BY <1>3 DEF AnswerLogin, Error
  <2> QED
    BY <1>0, <2>1, ProperAnswer, WhatIsDelivered DEF Answers, Errors
<1> QED
  BY <1>1, <1>2, <1>3

(* An event that is proper: of the one who asked, to another.              *)
LEMMA ProperEvent ==
  ASSUME NEW ps \in Seq(Client), NEW m, NEW id \in Nat, NEW j \in DOMAIN ps,
         NEW cmd \in {"LOGOUT_EVENT", "CHAT_WRITE_EVENT"}, m.cmd \in {"LOGOUT", "CHAT"},
         j = id + 1 => m = Ask("CHAT", id)
  PROVE  [to |-> ps[j].socket, msg |-> Message(cmd, id)] \in Proper(ps, ps, m, id)
<1>1. Message(cmd, id) \in Delivered
  BY WhatIsDelivered DEF Events
<1>2. ps[j].socket \in Nat
  BY SocketsAreNat
<1>3. Speaker(ps, m, id) = id
  BY DEF Speaker
<1>4. cmd \notin Answers /\ cmd # "REGISTER"
  BY DEF Answers
<1>5. Message(cmd, id).cmd = cmd /\ Message(cmd, id).about = id
  BY DEF Message
<1> QED
  BY <1>1, <1>2, <1>3, <1>4, <1>5 DEF Proper, Addressed

LEMMA EventsToThePool ==
  ASSUME NEW ps \in Seq(Client), NEW m, NEW id \in Nat, id + 1 \in DOMAIN ps,
         NEW cmd \in {"LOGOUT_EVENT", "CHAT_WRITE_EVENT"}, m.cmd \in {"LOGOUT", "CHAT"}
  PROVE  LET out == ToPool(ps, id + 1, cmd, id)
         IN  out \in Seq(Proper(ps, ps, m, id)) /\ (Distinct(ps) => Once(out))
<1>1. \A j \in DOMAIN ps \ {id + 1} :
        [to |-> ps[j].socket, msg |-> Message(cmd, id)] \in Proper(ps, ps, m, id)
  BY ProperEvent
<1> QED
  BY <1>1, SentToPool

LEMMA LogoutIsAnnounced ==
  ASSUME NEW ps \in Seq(Client), NEW m, NEW id \in Nat, m.cmd = "LOGOUT", ~Crashes(ps, m, id)
  PROVE  LET out == Sent(ps, m, id)
         IN  out \in Seq(Proper(ps, ps, m, id)) /\ (Distinct(ps) => Once(out))
<1>1. Sent(ps, m, id) = ToPool(ps, id + 1, "LOGOUT_EVENT", id)
  BY DEF Sent
<1>2. id + 1 \in DOMAIN ps
  BY AskerIsKnown
<1> QED
  BY <1>1, <1>2, EventsToThePool

LEMMA SetInfoIsAnswered ==
  ASSUME NEW ps \in Seq(Client), NEW qs, NEW m, NEW id \in Nat, m.cmd = "SET_INFO", ~Crashes(ps, m, id)
  PROVE  LET out == Sent(ps, m, id)
         IN  out \in Seq(Proper(ps, qs, m, id)) /\ Once(out) /\ Silent(out)
<1>1. Sent(ps, m, id) = AnswerSetInfo(ps, m, id)
  BY DEF Sent
<1>2. CASE MaySetInfo(ps, m)
  <2>1. ps[id + 1].socket \in Nat
    BY <1>2, AskerIsKnown
  <2>2. AnswerSetInfo(ps, m, id) = SendTo(ps[id + 1].socket, "SET_INFO", NULL)
    BY <1>2 DEF AnswerSetInfo
  <2> QED
    BY <1>1, <2>1, <2>2, ProperAnswer, WhatIsDelivered DEF Answers
<1>3. CASE ~MaySetInfo(ps, m)
  BY <1>1, <1>3, SentToNone DEF AnswerSetInfo
<1> QED
  BY <1>2, <1>3

LEMMA GetInfoIsAnswered ==
  ASSUME NEW ps \in Seq(Client), NEW qs, NEW m \in Asked, NEW id \in Nat, m.cmd = "GET_INFO",
         ~Crashes(ps, m, id)
  PROVE  LET out == Sent(ps, m, id)
         IN  out \in Seq(Proper(ps, qs, m, id)) /\ Once(out) /\ Silent(out)
<1>1. Sent(ps, m, id) = on_user_get_info(ps, m.about, id)
  BY DEF Sent
<1>2. ps[id + 1].socket \in Nat
  BY AskerIsKnown
<1>3. CASE m.about # NULL /\ Known(ps, m.about)
  <2>1. m.about \in Nat
    BY <1>3, KindsOfQuestions
  <2>2. on_user_get_info(ps, m.about, id) = SendTo(ps[id + 1].socket, "GET_INFO", m.about)
    BY <1>3 DEF on_user_get_info
  <2> QED
    BY <1>1, <1>2, <2>1, <2>2, ProperAnswer, WhatIsDelivered DEF Answers
<1>4. CASE ~(m.about # NULL /\ Known(ps, m.about))
  <2>1. PICK client : client = ps[id + 1]
    OBVIOUS
  <2>2. on_user_get_info(ps, m.about, id)
          = ToClient(client, SendTo(client.socket, "ERROR_EVENT", "CLIENT_NOT_FOUND"))
    BY <1>4, <2>1 DEF on_user_get_info, Error
  <2>3. Message("ERROR_EVENT", "CLIENT_NOT_FOUND") \in Delivered /\ "ERROR_EVENT" \in Answers
    BY WhatIsDelivered DEF Errors, Answers
  <2> QED
    BY <1>1, <1>2, <2>1, <2>2, <2>3, ProperAnswerIfOnline
<1> QED
  BY <1>3, <1>4

(* The page of the user list is a sequence of ids.                         *)
LEMMA PagesList ==
  ASSUME NEW ps \in Seq(Client), NEW page \in Nat, NEW id \in Nat
  PROVE  Page(ps, page, id) \in Seq(Nat)
<1> DEFINE others == InOrder({ i \in DOMAIN ps : i # id + 1 /\ ps[i].online }, Len(ps))
           before == page * PAGE_MAX_CLIENTS
           shown == { k \in 1 .. PAGE_MAX_CLIENTS : before + k <= Len(others) }
           last == IF before + PAGE_MAX_CLIENTS <= Len(others) THEN PAGE_MAX_CLIENTS
                   ELSE IF before <= Len(others) THEN Len(others) - before ELSE 0
<1>1. Page(ps, page, id) = [k \in shown |-> others[before + k] - 1]
  BY DEF Page
<1>2. Len(ps) \in Nat
  BY PoolIsFunction
<1>3. others \in Seq(1 .. Len(ps))
  <2>1. PICK S : S = { i \in DOMAIN ps : i # id + 1 /\ ps[i].online }
    OBVIOUS
  <2>2. InOrder(S, Len(ps)) \in Seq(S \cap (1 .. Len(ps)))
    BY <1>2, InOrderLists
  <2>3. S \cap (1 .. Len(ps)) \subseteq 1 .. Len(ps)
    OBVIOUS
  <2> QED
    BY <2>1, <2>2, <2>3, SeqMonotonic
<1> HIDE DEF others
<1>4. Len(others) \in Nat /\ \A k \in 1 .. Len(others) : others[k] - 1 \in Nat
  BY <1>2, <1>3, LenProperties, ElementOfSeq
<1>5. PAGE_MAX_CLIENTS \in Nat /\ PAGE_MAX_CLIENTS > 0 /\ before \in Nat
  BY DeliveryAssumption
<1> HIDE DEF before
<1>6. last \in Nat /\ shown = 1 .. last
  BY <1>4, <1>5
<1>7. \A k \in shown : others[before + k] - 1 \in Nat
  BY <1>4, <1>5
<1> HIDE DEF last
<1>8. [k \in 1 .. last |-> others[before + k] - 1] \in Seq(Nat)
  BY <1>6, <1>7
<1> QED
  BY <1>1, <1>6, <1>8

LEMMA ListAllIsAnswered ==
  ASSUME NEW ps \in Seq(Client), NEW qs, NEW m \in Asked, NEW id \in Nat, m.cmd = "LIST_ALL",
         ~Crashes(ps, m, id)
  PROVE  LET out == Sent(ps, m, id)
         IN  out \in Seq(Proper(ps, qs, m, id)) /\ Once(out) /\ Silent(out)
<1>1. Sent(ps, m, id) = on_user_list_all(ps, m.about, id)
  BY DEF Sent
<1>2. ps[id + 1].socket \in Nat
  BY AskerIsKnown
<1>3. PICK client : client = ps[id + 1]
  OBVIOUS
<1>4. CASE Page(ps, m.about, id) = << >>
  <2>1. on_user_list_all(ps, m.about, id)
          = ToClient(client, SendTo(client.socket, "ERROR_EVENT", "PAGE_OUT_OF_BOUNDS"))
    BY <1>3, <1>4 DEF on_user_list_all, Error
  <2>2. Message("ERROR_EVENT", "PAGE_OUT_OF_BOUNDS") \in Delivered /\ "ERROR_EVENT" \in Answers
    BY WhatIsDelivered DEF Errors, Answers
  <2> QED
    BY <1>1, <1>2, <1>3, <2>1, <2>2, ProperAnswerIfOnline
<1>5. CASE Page(ps, m.about, id) # << >>
  <2>1. Page(ps, m.about, id) \in Seq(Nat)
    BY KindsOfQuestions, PagesList
  <2>2. on_user_list_all(ps, m.about, id)
          = SendTo(client.socket, "LIST_ALL", Page(ps, m.about, id))
    BY <1>3, <1>5 DEF on_user_list_all
  <2> QED
    BY <1>1, <1>2, <1>3, <2>1, <2>2, ProperAnswer, WhatIsDelivered DEF Answers
<1> QED
  BY <1>4, <1>5

LEMMA ChatIsDelivered ==
  ASSUME NEW ps \in Seq(Client), NEW m \in Asked, NEW id \in Nat, m.cmd = "CHAT", ~Crashes(ps, m, id)
  PROVE  LET out == Sent(ps, m, id)
         IN  out \in Seq(Proper(ps, ps, m, id)) /\ (Distinct(ps) => Once(out))
<1>1. Sent(ps, m, id) = on_chat_write(ps, m.about, id)
  BY DEF Sent
<1>2. id + 1 \in DOMAIN ps /\ ps[id + 1].socket \in Nat /\ Len(ps) \in Nat /\ Len(ps) - 1 \in Nat
  BY AskerIsKnown, PoolIsFunction
<1>3. PICK client : client = ps[id + 1]
  OBVIOUS
<1>4. PICK S : S = Proper(ps, ps, m, id)
  OBVIOUS
<1>5. ASSUME NEW n \in Nat
      PROVE  LET out == ToClient(client, SendTo(client.socket, "CHAT_WRITE", n))
             IN  out \in Seq(S) /\ Once(out) /\ Silent(out)
  <2>1. Message("CHAT_WRITE", n) \in Delivered /\ "CHAT_WRITE" \in Answers
    BY WhatIsDelivered DEF Answers
  <2> QED
    BY <1>2, <1>3, <1>4, <2>1, ProperAnswerIfOnline
<1>6. CASE m.about = NULL
  <2>1. PICK a, b : /\ a = ToPool(ps, id + 1, "CHAT_WRITE_EVENT", id)
                    /\ b = ToClient(client, SendTo(client.socket, "CHAT_WRITE", Len(ps) - 1))
    OBVIOUS
  <2>2. on_chat_write(ps, m.about, id) = a \o b
    BY <1>3, <1>6, <2>1 DEF on_chat_write
  <2>3. a \in Seq(S) /\ (Distinct(ps) => Once(a))
    BY <1>2, <1>4, <2>1, EventsToThePool
  <2>4. b \in Seq(S) /\ Silent(b)
    BY <1>2, <1>5, <2>1
  <2>5. a \o b \in Seq(S)
    BY <2>3, <2>4, ConcatProperties
  <2>6. ASSUME Distinct(ps) PROVE Once(a \o b)
    BY <2>3, <2>4, <2>6, SentToBoth
  <2> QED
    BY <1>1, <1>4, <2>2, <2>5, <2>6
<1>7. CASE m.about # NULL /\ Known(ps, m.about)
  <2>1. PICK j \in DOMAIN ps : j = m.about + 1
    BY <1>7 DEF Known
  <2>2. m.about \in Nat /\ m = Ask("CHAT", m.about)
    BY <1>7, KindsOfQuestions
  <2>3. j = id + 1 => m = Ask("CHAT", id)
    BY <2>1, <2>2
  <2>4. PICK to : to = ps[j]
    OBVIOUS
  <2>5. PICK a, b : /\ a = ToClient(to, SendTo(to.socket, "CHAT_WRITE_EVENT", id))
                    /\ b = ToClient(client, SendTo(client.socket, "CHAT_WRITE", 1))
    OBVIOUS
  <2>6. on_chat_write(ps, m.about, id) = a \o b
    BY <1>3, <1>7, <2>1, <2>4, <2>5 DEF on_chat_write
  <2>7. a \in Seq(S) /\ Once(a)
    <3>1. [to |-> to.socket, msg |-> Message("CHAT_WRITE_EVENT", id)] \in S
      BY <1>4, <2>3, <2>4, ProperEvent
    <3>2. PICK out : out = SendTo(to.socket, "CHAT_WRITE_EVENT", id)
      OBVIOUS
    <3>3. out \in Seq(S) /\ Once(out)
      BY <3>1, <3>2, SentToOne
    <3>4. a = IF to.online THEN out ELSE << >>
      BY <2>5, <3>2 DEF ToClient
    <3> QED
      BY <3>3, <3>4, SentToNone
  <2>8. b \in Seq(S) /\ Silent(b)
    BY <1>5, <2>5
  <2> QED
    BY <1>1, <1>4, <2>6, <2>7, <2>8, SentToBoth
<1>8. CASE m.about # NULL /\ ~Known(ps, m.about)
  <2>1. on_chat_write(ps, m.about, id)
          = ToClient(client, SendTo(client.socket, "ERROR_EVENT", "CLIENT_NOT_FOUND"))
    BY <1>3, <1>8 DEF on_chat_write, Error
  <2>2. Message("ERROR_EVENT", "CLIENT_NOT_FOUND") \in Delivered /\ "ERROR_EVENT" \in Answers
    BY WhatIsDelivered DEF Errors, Answers
  <2> QED
    BY <1>1, <1>2, <1>3, <2>1, <2>2, ProperAnswerIfOnline
<1> QED
  BY <1>6, <1>7, <1>8

(* Whatever is handled, what is sent is proper.  Events are sent once if   *)
(* no two accounts of the pool share a socket.                             *)
LEMMA SentIsProper ==
  ASSUME NEW ps \in Seq(Client), Names(ps), NEW qs, NEW m \in Commands, NEW id \in Nat,
         ~Crashes(ps, m, id), m.cmd \in {"REGISTER", "LOGIN"} => id \in Fds,
         m.cmd = "LOGIN" /\ MayLogin(ps, m) => qs = on_user_login(ps, m, id),
         m.cmd \in {"LOGOUT", "CHAT"} => qs = ps
  PROVE  LET out == Sent(ps, m, id)
         IN  /\ out \in Seq(Proper(ps, qs, m, id))
             /\ Distinct(qs) => Once(out)
             /\ m.cmd = "REGISTER" => Len(out) = 1
<1>1. CASE m.cmd = "REGISTER"
  <2>1. Sent(ps, m, id) = AnswerRegister(ps, m, id)
    BY <1>1 DEF Sent
  <2>2. Len(AnswerRegister(ps, m, id)) = 1
    BY DEF AnswerRegister, Error, SendTo
  <2> QED
    BY <1>1, <2>1, <2>2, RegisterIsAnswered
<1>2. CASE m.cmd = "LOGIN"
  BY <1>2, LoginIsAnswered
<1>3. CASE m.cmd = "LOGOUT"
  <2>1. qs = ps
    BY <1>3
  <2> QED
    BY <1>3, <2>1, LogoutIsAnnounced
<1>4. CASE m.cmd = "SET_INFO"
  BY <1>4, SetInfoIsAnswered
<1>5. CASE m \in Asked /\ m.cmd = "CHAT"
  <2>1. qs = ps
    BY <1>5
  <2> QED
    BY <1>5, <2>1, ChatIsDelivered
<1>6. CASE m \in Asked /\ m.cmd = "GET_INFO"
  BY <1>6, GetInfoIsAnswered
<1>7. CASE m \in Asked /\ m.cmd = "LIST_ALL"
  BY <1>7, ListAllIsAnswered
<1> QED
  BY <1>1, <1>2, <1>3, <1>4, <1>5, <1>6, <1>7, KindsOfCommands, KindsOfQuestions

-----------------------------------------------------------------------------
(* What the server handles.                                                *)
Turned(t, m) ==
  /\ t.p \in Programs /\ t.id \in Nat /\ t.peers = conn'
  /\ m = Handled(t) /\ m \in Commands /\ ~Crashes(pool, m, t.id)
  /\ m.cmd \in {"REGISTER", "LOGIN"} => t.id \in Fds
  /\ m.cmd = "LOGIN" /\ MayLogin(pool, m) => pool' = on_user_login(pool, m, t.id)
  /\ m.cmd \in {"LOGOUT", "CHAT"} => pool' = pool
  /\ \A q \in Programs : q # t.p => wire'[q] = wire[q]
  /\ wire[t.p] # << >> => m = Head(wire[t.p]) /\ wire'[t.p] = << >>
  /\ UNCHANGED << lives, server, phase, args >>

LEMMA FirstIsHandled ==
  ASSUME SessionsInv, NEW p \in Programs, wire[p] # << >>, NEW id \in Nat,
         NEW persist \in BOOLEAN, HandleFirst(p, id, persist), NEW m, m = Head(wire[p])
  PROVE  /\ m \in Commands /\ ~Crashes(pool, m, id)
         /\ m.cmd = "REGISTER" => pool' = IF MayRegister(pool, m)
                                          THEN on_user_register(pool, m, id) ELSE pool
         /\ m.cmd = "LOGIN" => pool' = IF MayLogin(pool, m)
                                       THEN on_user_login(pool, m, id) ELSE pool
         /\ m.cmd \in {"LOGOUT", "CHAT"} => pool' = pool
         /\ wire'[p] = << >> /\ \A q \in Programs : q # p => wire'[q] = wire[q]
         /\ UNCHANGED << lives, server, phase, args >>
<1>1. wire \in [Programs -> Seq(Commands)]
  BY DEF SessionsInv, TypeOK
<1>2. m \in Commands
  BY <1>1, HeadTailProperties
<1>3. ~Crashes(pool, m, id)
  BY DEF HandleFirst
<1>4. PICK ok \in Outcomes(pool, m) : pool' = IF ok THEN After(pool, m, id) ELSE pool
  BY DEF HandleFirst
<1>5. wire' = [wire EXCEPT ![p] = << >>] /\ UNCHANGED << lives, server, phase, args >>
  BY DEF HandleFirst
<1>6. /\ m.cmd = "REGISTER" => ok = MayRegister(pool, m)
      /\ m.cmd = "LOGIN" => ok = MayLogin(pool, m)
  BY <1>4 DEF Outcomes
<1>7. m.cmd = "REGISTER" => pool' = IF MayRegister(pool, m)
                                    THEN on_user_register(pool, m, id) ELSE pool
  BY <1>4, <1>6 DEF After
<1>8. m.cmd = "LOGIN" => pool' = IF MayLogin(pool, m)
                                 THEN on_user_login(pool, m, id) ELSE pool
  BY <1>4, <1>6 DEF After
<1>9. m.cmd \in {"LOGOUT", "CHAT"} => pool' = pool
  BY <1>4 DEF After
<1> QED
  BY <1>1, <1>2, <1>3, <1>5, <1>7, <1>8, <1>9

Accepted(t, m) ==
  /\ serving = NULL /\ serving' = t.id /\ t.id \in Fds
  /\ conn[t.id] = NULL /\ conn' = [conn EXCEPT ![t.id] = t.p]
  /\ \A fd \in Fds : conn[fd] # t.p
  /\ wire[t.p] # << >>
  /\ m.cmd = "REGISTER" /\ m.name = args[t.p].name
  /\ pool' = IF MayRegister(pool, m) THEN on_user_register(pool, m, t.id) ELSE pool

LEMMA AcceptTurns ==
  ASSUME SessionsInv, NEW t \in Turns, Accept, NEW m, m = Handled(t)
  PROVE  Turned(t, m) /\ Accepted(t, m)
<1>1. TypeOK /\ Places /\ Speech
  BY DEF SessionsInv
<1>2. serving = NULL /\ backlog # << >>
  BY DEF Accept, Waits
<1>3. t = [p |-> Head(backlog), id |-> LowestFree,
           peers |-> [conn EXCEPT ![LowestFree] = Head(backlog)]]
  BY <1>2 DEF Turns
<1>4. PICK fd \in Fds : fd = LowestFree /\ conn[fd] = NULL
  BY <1>1, <1>2, ThereIsADescriptor
<1>5. PICK p \in Programs : p = Head(backlog) /\ 1 \in DOMAIN backlog /\ p = backlog[1]
  <2>1. backlog \in Seq(Programs)
    BY <1>1 DEF TypeOK
  <2> QED
    BY <1>2, <2>1, LenProperties, EmptySeq, ElementOfSeq
<1>6. t.p = p /\ t.id = fd /\ t.peers = [conn EXCEPT ![fd] = p] /\ fd \in Nat
  BY <1>3, <1>4, <1>5, Constants
<1>7. conn' = [conn EXCEPT ![fd] = p] /\ serving' = fd /\ HandleFirst(p, fd, TRUE)
  BY <1>4, <1>5 DEF Accept
<1>8. wire[p] # << >> /\ Head(wire[p]).cmd = "REGISTER" /\ Head(wire[p]).name = args[p].name
  BY <1>1, <1>5 DEF Speech
<1>9. m = Head(wire[p])
  BY <1>6, <1>8 DEF Handled
<1>10. \A g \in Fds : conn[g] # p
  BY <1>1, <1>5 DEF Places
<1>11. /\ m \in Commands /\ ~Crashes(pool, m, fd)
       /\ pool' = IF MayRegister(pool, m) THEN on_user_register(pool, m, fd) ELSE pool
       /\ wire'[p] = << >> /\ \A q \in Programs : q # p => wire'[q] = wire[q]
       /\ UNCHANGED << lives, server, phase, args >>
  BY <1>6, <1>7, <1>8, <1>9, FirstIsHandled
<1>12. Accepted(t, m)
  BY <1>2, <1>4, <1>6, <1>7, <1>8, <1>9, <1>10, <1>11 DEF Accepted
<1>13. Turned(t, m)
  BY <1>6, <1>7, <1>8, <1>9, <1>11 DEF Turned
<1> QED
  BY <1>12, <1>13

LetsIn(t, m) ==
  /\ serving # NULL /\ serving' = NULL /\ t.id = serving /\ serving \in Fds
  /\ t.p = conn[serving] /\ conn' = conn
  /\ wire[t.p] # << >> => m.cmd # "REGISTER" /\ (m.cmd = "LOGIN" => m.name = args[t.p].name)
  /\ wire[t.p] = << >> => phase[t.p] = "GONE" /\ m.cmd = "REGISTER" /\ pool' = pool

LEMMA LetInTurns ==
  ASSUME SessionsInv, NEW t \in Turns, ReadLogin \/ ReadHangup, NEW m, m = Handled(t)
  PROVE  Turned(t, m) /\ LetsIn(t, m)
<1>1. TypeOK /\ Places /\ Speech
  BY DEF SessionsInv
<1>2. serving # NULL /\ serving' = NULL /\ conn' = conn
  BY DEF ReadLogin, ReadHangup, LetIn
<1>3. t = [p |-> conn[serving], id |-> serving, peers |-> conn]
  BY <1>2 DEF Turns
<1>4. serving \in Fds /\ serving \in Nat /\ conn[serving] \in Programs
  BY <1>1, <1>2, Constants DEF TypeOK, Places
<1>5. PICK p \in Programs : p = conn[serving]
  BY <1>4
<1>6. t.p = p /\ t.id = serving /\ t.peers = conn
  BY <1>3, <1>5
<1>7. CASE ReadLogin
  <2>1. wire[p] # << >> /\ HandleFirst(p, serving, FALSE)
    BY <1>5, <1>7 DEF ReadLogin
  <2>2. m = Head(wire[p])
    BY <1>6, <2>1 DEF Handled
  <2>3. /\ m \in Commands /\ ~Crashes(pool, m, serving)
        /\ m.cmd = "LOGIN" => pool' = IF MayLogin(pool, m)
                                      THEN on_user_login(pool, m, serving) ELSE pool
        /\ m.cmd \in {"LOGOUT", "CHAT"} => pool' = pool
        /\ wire'[p] = << >> /\ \A q \in Programs : q # p => wire'[q] = wire[q]
        /\ UNCHANGED << lives, server, phase, args >>
    BY <1>4, <2>1, <2>2, FirstIsHandled
  <2>4. 1 \in DOMAIN wire[p] /\ m = wire[p][1]
    BY <1>1, <2>1, <2>2, LenProperties, EmptySeq DEF TypeOK
  <2>5. m.cmd # "REGISTER" /\ (m.cmd = "LOGIN" => m.name = args[p].name)
    <3>1. PICK fd \in Fds : fd = serving /\ conn[fd] = p /\ conn[fd] # NULL
      BY <1>4, <1>5, Constants
    <3>2. wire[p][1].cmd # "REGISTER"
      BY <1>1, <2>4, <3>1 DEF Speech
    <3>3. wire[p][1].cmd = "LOGIN" => wire[p][1].name = args[p].name
      BY <1>1, <2>4 DEF Speech
    <3> QED
      BY <2>4, <3>2, <3>3
  <2>6. LetsIn(t, m)
    BY <1>2, <1>4, <1>5, <1>6, <2>1, <2>5 DEF LetsIn
  <2>7. Turned(t, m)
    BY <1>2, <1>4, <1>6, <2>1, <2>2, <2>3 DEF Turned
  <2> QED
    BY <2>6, <2>7
<1>8. CASE ReadHangup
  <2>1. /\ wire[p] = << >> /\ phase[p] = "GONE"
        /\ UNCHANGED << server, lives, pool, phase, args, wire >>
    BY <1>5, <1>8 DEF ReadHangup
  <2>2. m = [cmd |-> "REGISTER", name |-> args[p].name, password |-> args[p].password]
    BY <1>6, <2>1 DEF Handled
  <2>3. args[p] \in Logins
    BY <1>1, <2>1 DEF Speech
  <2>4. m \in Commands /\ m.cmd = "REGISTER"
    <3>1. PICK l \in Logins : l = args[p]
      BY <2>3
    <3>2. m = [cmd |-> "REGISTER", name |-> l.name, password |-> l.password]
      BY <2>2, <3>1
    <3>3. [cmd |-> "REGISTER", name |-> l.name, password |-> l.password] \in Commands
      BY TheCommands
    <3> QED
      BY <3>2, <3>3
  <2>5. ~Crashes(pool, m, serving)
    BY <2>4 DEF Crashes
  <2>6. LetsIn(t, m)
    BY <1>2, <1>4, <1>5, <1>6, <2>1, <2>4 DEF LetsIn
  <2>7. Turned(t, m)
    BY <1>2, <1>4, <1>6, <2>1, <2>4, <2>5 DEF Turned
  <2> QED
    BY <2>6, <2>7
<1> QED
  BY <1>7, <1>8

Talked(t, m) ==
  /\ serving = NULL /\ serving' = NULL /\ conn' = conn
  /\ t.id + 1 \in DOMAIN pool
  /\ pool[t.id + 1].socket \in Fds /\ conn[pool[t.id + 1].socket] = t.p
  /\ wire[t.p] # << >>
  /\ m.cmd \notin {"REGISTER", "LOGIN"}

LEMMA TalkTurns ==
  ASSUME SessionsInv, NEW t \in Turns, NEW i \in DOMAIN pool, Talk(i), NEW m, m = Handled(t)
  PROVE  Turned(t, m) /\ Talked(t, m) /\ Unmoved(pool, pool')
<1>1. TypeOK /\ Places /\ Speech
  BY DEF SessionsInv
<1>2. /\ serving = NULL /\ backlog = << >> /\ i \in Talking /\ ~SelectFails
      /\ conn' = conn /\ serving' = serving
  BY DEF Talk, Round, Waits
<1>3. PICK j \in Talking : t = [p |-> conn[pool[j].socket], id |-> j - 1, peers |-> conn]
  BY <1>2 DEF Turns
<1>4. DOMAIN pool = 1 .. Len(pool) /\ Len(pool) \in Nat
  BY <1>1, PoolIsFunction DEF TypeOK
<1>5. j = i
  <2>1. i \in 1 .. Len(pool) /\ j \in 1 .. Len(pool)
    BY <1>2, <1>4 DEF Talking
  <2>2. ~(i \in 1 .. j - 1) /\ ~(j \in 1 .. i - 1)
    BY <1>2, <1>3 DEF Talking
  <2> QED
    BY <2>1, <2>2
<1>6. PICK fd : fd = pool[i].socket
  OBVIOUS
<1>7. fd \in Sockets /\ fd <= maxfd
  BY <1>2, <1>6 DEF Talking, Readable
<1>8. fd \in Fds
  <2>1. pool[i] \in Client
    BY <1>1, PoolIsFunction DEF TypeOK
  <2> QED
    BY <1>6, <1>7, <2>1 DEF Sockets, Client
<1>9. PICK p \in Programs : p = conn[fd]
  BY <1>1, <1>2, <1>7, <1>8 DEF SelectFails, TypeOK
<1>10. /\ t.p = p /\ t.id = i - 1 /\ t.peers = conn
       /\ i - 1 \in Nat /\ (i - 1) + 1 = i
  BY <1>3, <1>4, <1>5, <1>6, <1>9
<1>11. wire[p] # << >> /\ HandleFirst(p, i - 1, TRUE)
  BY <1>6, <1>9 DEF Talk
<1>12. m = Head(wire[p])
  BY <1>10, <1>11 DEF Handled
<1>13. m.cmd \notin {"REGISTER", "LOGIN"}
  <2>1. wire[p] \in Seq(Commands) /\ fd # serving /\ conn[fd] # NULL
    BY <1>1, <1>2, <1>8, <1>9, Constants DEF TypeOK
  <2>2. 1 \in DOMAIN wire[p] /\ m = wire[p][1]
    BY <1>11, <1>12, <2>1, EmptySeq, LenProperties
  <2> QED
    BY <1>1, <1>8, <1>9, <2>1, <2>2 DEF Speech
<1>14. /\ m \in Commands /\ ~Crashes(pool, m, i - 1)
       /\ m.cmd \in {"LOGOUT", "CHAT"} => pool' = pool
       /\ wire'[p] = << >> /\ \A q \in Programs : q # p => wire'[q] = wire[q]
       /\ UNCHANGED << lives, server, phase, args >>
  BY <1>10, <1>11, <1>12, FirstIsHandled
<1>15. Unmoved(pool, pool')
  BY <1>10, <1>11, <1>12, <1>13, Handling DEF Unmoved
<1>16. Talked(t, m)
  BY <1>2, <1>6, <1>8, <1>9, <1>10, <1>11, <1>13 DEF Talked
<1>17. Turned(t, m)
  BY <1>2, <1>10, <1>11, <1>12, <1>13, <1>14 DEF Turned
<1> QED
  BY <1>15, <1>16, <1>17

-----------------------------------------------------------------------------
(* The inductive invariant.  The ids p has, or will have once it reads.    *)
Ids(p) ==
  ({CLIENT_ID[p]} \ {NULL})
    \cup { inbox[p][k].about : k \in { k \in DOMAIN inbox[p] : inbox[p][k].cmd = "REGISTER" } }

(* A program that left or has no connection has been sent nothing.         *)
Unconnected ==
  \A p \in Programs : phase[p] = "GONE" \/ (\A fd \in Fds : conn[fd] # p) =>
    inbox[p] = << >> /\ CLIENT_ID[p] = NULL

(* The id a program knows is of the account it is logged in under, or has  *)
(* just registered.                                                        *)
IdsAreOwn ==
  \A p \in Programs : \A n \in Ids(p) :
    /\ n \in 0 .. MAX_CLIENTS - 1
    /\ \A i \in DOMAIN pool : pool[i].online /\ conn[pool[i].socket] = p => n = i - 1
    /\ serving # NULL /\ conn[serving] = p =>
         n + 1 \in DOMAIN pool /\ pool[n + 1].name = args[p].name

NobodyWhenDown == server = "DOWN" => \A fd \in Fds : conn[fd] = NULL

DeliveryInv ==
  /\ DeliveryTypeOK
  /\ TheIdIsNotMissed
  /\ Unconnected
  /\ IdsAreOwn
  /\ NobodyWhenDown

-----------------------------------------------------------------------------
(* Each step is a step of Sessions.                                        *)
LEMMA TypeSays ==
  ASSUME DeliveryInv, NEW p \in Programs, NEW l \in Lines, Type(p, l)
  PROVE  \E m \in Says : Say(p, m)
<1>1. PICK m \in Requests(CLIENT_ID[p], l) : Say(p, m)
  BY DEF Type
<1>2. CLIENT_ID[p] \in {NULL} \cup 0 .. MAX_CLIENTS - 1
  <2>1. CLIENT_ID[p] # NULL => CLIENT_ID[p] \in Ids(p)
    BY DEF Ids
  <2> QED
    BY <2>1 DEF DeliveryInv, IdsAreOwn
<1>3. m \in Says
  BY <1>1, <1>2, LinesAssumption
<1> QED
  BY <1>1, <1>3

LEMMA StepsOfSessions ==
  ASSUME DeliveryInv, DeliveryNext
  PROVE  [Next]_vars
<1>1. ASSUME NEW p \in Programs, Launch(p) \/ LogIn(p) \/ Leave(p) \/ Read(p)
      PROVE  [Next]_vars
  <2>1. CASE Launch(p)
    BY <2>1 DEF Launch, Next
  <2>2. CASE LogIn(p) \/ Leave(p)
    BY <2>2 DEF LogIn, Leave, Next
  <2>3. CASE Read(p)
    BY <2>3 DEF Read
  <2> QED
    BY <1>1, <2>1, <2>2, <2>3
<1>2. ASSUME NEW p \in Programs, NEW l \in Lines, Type(p, l) PROVE Next
  BY <1>2, TypeSays DEF Next
<1>3. CASE Handle
  <2>1. Accept \/ ReadLogin \/ ReadHangup \/ \E i \in DOMAIN pool : Talk(i)
    BY <1>3 DEF Handle
  <2> QED
    BY <2>1 DEF Next, Server, Serve
<1>4. CASE Write
  BY <1>4 DEF Write, Next, Server
<1>5. CASE Archive
  BY <1>5 DEF Archive, Next, Server, Serve
<1>6. CASE BrokenPipe
  <2>1. Exits /\ UNCHANGED << lives, db >> /\ Turns # {}
    BY <1>6 DEF BrokenPipe
  <2>2. server = "RUNNING"
    BY <2>1 DEF Turns
  <2> QED
    BY <2>1, <2>2 DEF Stop, Next
<1>7. CASE Fails
  BY <1>7 DEF Fails, Next, Server
<1>8. CASE StartAgain
  BY <1>8 DEF StartAgain, Next
<1> QED
  BY <1>1, <1>2, <1>3, <1>4, <1>5, <1>6, <1>7, <1>8 DEF DeliveryNext

-----------------------------------------------------------------------------
(* What a program receives are messages of what was sent, each once, that  *)
(* were sent to the descriptor it is at.                                   *)
ReceivedAs(got, out, peers, p, mine) ==
  /\ got \in Seq(Delivered) /\ DOMAIN got = 1 .. Len(got)
  /\ \A k \in DOMAIN got :
       /\ mine[k] \in DOMAIN out /\ got[k] = out[mine[k]].msg
       /\ out[mine[k]].to \in Fds /\ peers[out[mine[k]].to] = p
  /\ \A j, k \in DOMAIN got : mine[j] = mine[k] => j = k

LEMMA WhatIsReceived ==
  ASSUME NEW t, Out(t) \in Seq(Addressed), NEW p
  PROVE  \E mine : ReceivedAs(Received(t, p), Out(t), t.peers, p, mine)
<1> DEFINE S == { k \in DOMAIN Out(t) : Out(t)[k].to \in Fds /\ t.peers[Out(t)[k].to] = p }
           mine == InOrder(S, Len(Out(t)))
           got == [k \in DOMAIN mine |-> Out(t)[mine[k]].msg]
<1>1. Received(t, p) = got
  BY DEF Received
<1>2. Len(Out(t)) \in Nat
  BY LenProperties
<1>3. /\ mine \in Seq(S \cap (1 .. Len(Out(t))))
      /\ \A j, k \in DOMAIN mine : mine[j] = mine[k] => j = k
  <2> HIDE DEF S
  <2> QED
    BY <1>2, InOrderLists
<1> HIDE DEF mine
<1>4. Len(mine) \in Nat /\ DOMAIN mine = 1 .. Len(mine) /\ \A k \in DOMAIN mine : mine[k] \in S
  <2> HIDE DEF S
  <2> QED
    BY <1>3, LenProperties, ElementOfSeq
<1>5. \A k \in DOMAIN mine : Out(t)[mine[k]].msg \in Delivered
  <2>1. \A k \in DOMAIN Out(t) : Out(t)[k] \in Addressed
    BY LenProperties, ElementOfSeq
  <2> QED
    BY <1>4, <2>1 DEF Addressed
<1>6. got \in Seq(Delivered)
  BY <1>4, <1>5
<1>7. DOMAIN got = 1 .. Len(mine) /\ Len(got) = Len(mine) /\ \A k \in DOMAIN got : got[k] = Out(t)[mine[k]].msg
  BY <1>4
<1>8. ReceivedAs(got, Out(t), t.peers, p, mine)
  <2>1. \A k \in DOMAIN mine : /\ mine[k] \in DOMAIN Out(t)
                               /\ Out(t)[mine[k]].to \in Fds /\ t.peers[Out(t)[mine[k]].to] = p
    BY <1>4
  <2> HIDE DEF got
  <2> QED
    BY <1>3, <1>4, <1>6, <1>7, <2>1 DEF ReceivedAs
<1> QED
  BY <1>1, <1>8

(* What is new to a program after a turn: proper messages of what the      *)
(* handler sent.                                                           *)
Arrives(t, m, p, mine) ==
  /\ Out(t) \in Seq(Proper(pool, pool', m, t.id))
  /\ Distinct(pool') => Once(Out(t))
  /\ m.cmd = "REGISTER" => Len(Out(t)) = 1
  /\ New(p) \in Seq(Delivered) /\ inbox'[p] = inbox[p] \o New(p)
  /\ ReceivedAs(New(p), Out(t), conn', p, mine)
  /\ phase[p] = "GONE" => DOMAIN New(p) = {}

LEMMA TheRest ==
  ASSUME NEW S, NEW a \in Seq(S), NEW b \in Seq(S)
  PROVE  SubSeq(a \o b, Len(a) + 1, Len(a \o b)) = b
<1>1. Len(a) \in Nat /\ Len(b) \in Nat
  BY LenProperties
<1>2. PICK c : c = a \o b
  OBVIOUS
<1>3. /\ c \in Seq(S) /\ Len(c) = Len(a) + Len(b)
      /\ \A i \in 1 .. Len(a) + Len(b) : c[i] = IF i <= Len(a) THEN a[i] ELSE b[i - Len(a)]
  BY <1>2, ConcatProperties
<1>4. SubSeq(c, Len(a) + 1, Len(c)) = [i \in 1 .. Len(b) |-> c[i + Len(a)]]
  BY <1>1, <1>3
<1>5. \A i \in 1 .. Len(b) : c[i + Len(a)] = b[i]
  BY <1>1, <1>3
<1>6. b = [i \in 1 .. Len(b) |-> b[i]]
  BY LenProperties
<1> QED
  BY <1>2, <1>4, <1>5, <1>6

LEMMA NothingIsNew ==
  ASSUME NEW p \in Programs, inbox[p] \in Seq(Delivered), inbox'[p] \in Seq(Delivered),
         Len(inbox'[p]) <= Len(inbox[p])
  PROVE  DOMAIN New(p) = {}
<1>1. PICK a, b : a = inbox[p] /\ b = inbox'[p]
  OBVIOUS
<1>2. Len(a) \in Nat /\ Len(b) \in Nat /\ Len(b) <= Len(a)
  BY <1>1, LenProperties
<1>3. New(p) = SubSeq(b, Len(a) + 1, Len(b))
  BY <1>1 DEF New
<1>4. DOMAIN SubSeq(b, Len(a) + 1, Len(b)) = {}
  BY <1>2
<1> QED
  BY <1>3, <1>4

LEMMA WhatArrives ==
  ASSUME SessionsInv, DeliveryTypeOK, NEW t, NEW m, Turned(t, m), Deliver(t), NEW p \in Programs
  PROVE  \E mine : Arrives(t, m, p, mine)
<1>1. /\ m \in Commands /\ ~Crashes(pool, m, t.id) /\ t.id \in Nat /\ m = Handled(t)
      /\ m.cmd \in {"REGISTER", "LOGIN"} => t.id \in Fds
      /\ m.cmd = "LOGIN" /\ MayLogin(pool, m) => pool' = on_user_login(pool, m, t.id)
      /\ m.cmd \in {"LOGOUT", "CHAT"} => pool' = pool
      /\ t.peers = conn'
  BY DEF Turned
<1>2. pool \in Seq(Client) /\ Names(pool)
  BY DEF SessionsInv, TypeOK
<1>3. PICK qs, id, out : qs = pool' /\ id = t.id /\ out = Sent(pool, m, id)
  OBVIOUS
<1>4. out = Out(t)
  BY <1>1, <1>3 DEF Out
<1>5. /\ out \in Seq(Proper(pool, qs, m, id))
      /\ Distinct(qs) => Once(out)
      /\ m.cmd = "REGISTER" => Len(out) = 1
  BY <1>1, <1>2, <1>3, SentIsProper
<1>6. out \in Seq(Addressed)
  <2>1. Proper(pool, qs, m, id) \subseteq Addressed
    BY DEF Proper
  <2> QED
    BY <1>5, <2>1, SeqMonotonic
<1>7. inbox \in [Programs -> Seq(Delivered)] /\ inbox[p] \in Seq(Delivered)
  BY DEF DeliveryTypeOK
<1>8. CASE phase[p] = "GONE"
  <2>1. inbox'[p] = inbox[p]
    BY <1>8 DEF Deliver
  <2>2. New(p) = << >>
    <3>1. New(p) = SubSeq(inbox[p], Len(inbox[p]) + 1, Len(inbox[p]))
      BY <2>1 DEF New
    <3>2. inbox[p] = inbox[p] \o << >>
      BY <1>7, EmptySeq, ConcatEmptySeq
    <3> QED
      BY <1>7, <3>1, <3>2, EmptySeq, TheRest
  <2>3. << >> \in Seq(Delivered) /\ DOMAIN << >> = {} /\ DOMAIN << >> = 1 .. Len(<< >>)
    BY EmptySeq
  <2>4. inbox'[p] = inbox[p] \o << >>
    BY <1>7, <2>1, ConcatEmptySeq
  <2>5. ReceivedAs(New(p), Out(t), conn', p, << >>)
    BY <2>2, <2>3 DEF ReceivedAs
  <2>6. Arrives(t, m, p, << >>)
    BY <1>3, <1>4, <1>5, <2>2, <2>3, <2>4, <2>5 DEF Arrives
  <2> QED
    BY <2>6
<1>9. CASE phase[p] # "GONE"
  <2>1. PICK got : got = Received(t, p)
    OBVIOUS
  <2>2. inbox'[p] = inbox[p] \o got
    BY <1>9, <2>1 DEF Deliver
  <2>3. PICK mine : ReceivedAs(got, Out(t), conn', p, mine)
    BY <1>1, <1>4, <1>6, <2>1, WhatIsReceived
  <2>4. got \in Seq(Delivered)
    BY <2>3 DEF ReceivedAs
  <2>5. New(p) = got
    BY <1>7, <2>2, <2>4, TheRest DEF New
  <2>6. Arrives(t, m, p, mine)
    BY <1>3, <1>4, <1>5, <1>9, <2>2, <2>3, <2>4, <2>5 DEF Arrives
  <2> QED
    BY <2>6
<1> QED
  BY <1>8, <1>9

(* The answer with the id comes to a program that was just accepted, which *)
(* has been sent nothing else.                                             *)
TheIdComes(t, m, p, k) ==
  /\ Accepted(t, m) /\ p = t.p /\ k = 1
  /\ MayRegister(pool, m) /\ New(p)[k].about = Len(pool)
  /\ inbox[p] = << >> /\ CLIENT_ID[p] = NULL

LEMMA TheIdComesFirst ==
  ASSUME SessionsInv, Unconnected, NEW t, NEW m, Turned(t, m), NEW p \in Programs,
         NEW mine, Arrives(t, m, p, mine), Accepted(t, m),
         NEW k \in DOMAIN New(p), New(p)[k].cmd = "REGISTER"
  PROVE  TheIdComes(t, m, p, k)
<1>1. PICK o : o = Out(t)[mine[k]]
  OBVIOUS
<1>2. /\ mine[k] \in DOMAIN Out(t) /\ New(p)[k] = o.msg /\ o.to \in Fds /\ conn'[o.to] = p
      /\ DOMAIN New(p) = 1 .. Len(New(p)) /\ Len(New(p)) \in Nat
  BY <1>1, LenProperties DEF Arrives, ReceivedAs
<1>3. o \in Proper(pool, pool', m, t.id)
  BY <1>1, <1>2, LenProperties, ElementOfSeq DEF Arrives
<1>4. MayRegister(pool, m) /\ o.msg.about = Len(pool) /\ m.cmd = "REGISTER" /\ o.to = t.id
  BY <1>2, <1>3 DEF Proper, Answers
<1>5. /\ t.id \in Fds /\ t.p \in Programs
      /\ conn' = [conn EXCEPT ![t.id] = t.p] /\ \A fd \in Fds : conn[fd] # t.p
  BY DEF Accepted, Turned
<1>6. p = t.p
  <2>1. conn \in [Fds -> Programs \cup {NULL}]
    BY DEF SessionsInv, TypeOK
  <2> QED
    BY <1>2, <1>4, <1>5, <2>1
<1>7. inbox[p] = << >> /\ CLIENT_ID[p] = NULL
  BY <1>5, <1>6 DEF Unconnected
<1>8. k = 1
  <2>1. Len(Out(t)) = 1 /\ DOMAIN Out(t) = 1 .. 1
    BY <1>4, LenProperties DEF Arrives
  <2>2. 1 \in DOMAIN New(p)
    BY <1>2
  <2>3. mine[1] \in 1 .. 1 /\ mine[k] \in 1 .. 1
    BY <2>1, <2>2 DEF Arrives, ReceivedAs
  <2>4. mine[k] = mine[1]
    BY <2>3
  <2> QED
    BY <2>2, <2>4 DEF Arrives, ReceivedAs
<1> QED
  BY <1>2, <1>4, <1>6, <1>7, <1>8 DEF TheIdComes

LEMMA NoIdComes ==
  ASSUME SessionsInv, NEW t, NEW m, Turned(t, m), NEW p \in Programs,
         NEW mine, Arrives(t, m, p, mine), LetsIn(t, m) \/ Talked(t, m)
  PROVE  \A k \in DOMAIN New(p) : New(p)[k].cmd # "REGISTER"
<1>1. SUFFICES ASSUME NEW k \in DOMAIN New(p), New(p)[k].cmd = "REGISTER" PROVE FALSE
  OBVIOUS
<1>2. PICK o : o = Out(t)[mine[k]]
  OBVIOUS
<1>3. mine[k] \in DOMAIN Out(t) /\ New(p)[k] = o.msg /\ conn'[o.to] = p
  BY <1>2 DEF Arrives, ReceivedAs
<1>4. o \in Proper(pool, pool', m, t.id)
  BY <1>2, <1>3, LenProperties, ElementOfSeq DEF Arrives
<1>5. m.cmd = "REGISTER" /\ o.to = t.id
  BY <1>1, <1>3, <1>4 DEF Proper, Answers
<1>6. CASE LetsIn(t, m)
  <2>1. wire[t.p] = << >> /\ phase[t.p] = "GONE" /\ conn'[t.id] = t.p
    BY <1>5, <1>6 DEF LetsIn
  <2>2. p = t.p
    BY <1>3, <1>5, <2>1
  <2> QED
    BY <1>1, <2>1, <2>2 DEF Arrives
<1>7. CASE Talked(t, m)
  BY <1>5, <1>7 DEF Talked
<1> QED
  BY <1>6, <1>7

(* Who is online after a connection was let in.                            *)
LEMMA LetInThePool ==
  ASSUME SessionsInv, ReadLogin \/ ReadHangup, NEW i \in DOMAIN pool', pool'[i].online
  PROVE  /\ i \in DOMAIN pool
         /\ \/ pool[i].online /\ pool'[i].socket = pool[i].socket
            \/ /\ pool'[i].socket = serving /\ wire[conn[serving]] # << >>
               /\ Head(wire[conn[serving]]).cmd = "LOGIN"
               /\ Head(wire[conn[serving]]).name = pool[i].name
<1>1. CASE ReadHangup
  <2>1. pool' = pool
    BY <1>1 DEF ReadHangup
  <2> QED
    BY <2>1
<1>2. CASE ReadLogin
  <2>1. /\ serving \in Fds /\ serving \in Nat /\ conn[serving] \in Programs
        /\ wire[conn[serving]] \in Seq(Commands)
    BY <1>2, Constants DEF ReadLogin, LetIn, SessionsInv, TypeOK, Places
  <2>2. PICK p, m : p \in Programs /\ p = conn[serving] /\ m = Head(wire[p])
    BY <2>1
  <2>3. wire[p] # << >> /\ HandleFirst(p, serving, FALSE)
    BY <1>2, <2>2 DEF ReadLogin
  <2>4. \/ m.cmd # "REGISTER" /\ Unmoved(pool, pool')
        \/ pool' = pool
        \/ m.cmd = "REGISTER" /\ Registered(pool, pool', m, serving)
        \/ m.cmd = "LOGIN" /\ LoggedIn(pool, pool', m, serving)
    BY <2>1, <2>2, <2>3, Handling
  <2>5. CASE Unmoved(pool, pool')
    BY <2>5 DEF Unmoved
  <2>6. CASE pool' = pool
    BY <2>6
  <2>7. CASE Registered(pool, pool', m, serving)
    BY <2>7 DEF Registered
  <2>8. CASE m.cmd = "LOGIN" /\ LoggedIn(pool, pool', m, serving)
    <3>1. PICK l \in DOMAIN pool :
            /\ pool[l].name = m.name
            /\ \A j \in DOMAIN pool :
                 /\ pool'[j].socket = IF j = l THEN serving ELSE pool[j].socket
                 /\ pool'[j].online = (j = l \/ pool[j].online)
      BY <2>8 DEF LoggedIn
    <3>2. i \in DOMAIN pool
      BY <2>8 DEF LoggedIn
    <3>3. CASE i = l
      BY <2>2, <2>3, <2>8, <3>1, <3>2, <3>3
    <3>4. CASE i # l
      BY <3>1, <3>2, <3>4
    <3> QED
      BY <3>3, <3>4
  <2> QED
    BY <2>4, <2>5, <2>6, <2>7, <2>8
<1> QED
  BY <1>1, <1>2

-----------------------------------------------------------------------------
(* Turns of the server keep the invariant.                                 *)
LEMMA TurnKeepsTypes ==
  ASSUME SessionsInv, SessionsInv', DeliveryInv, NEW t \in Turns, NEW m, Turned(t, m), Deliver(t),
         Accepted(t, m) \/ conn' = conn
  PROVE  DeliveryTypeOK' /\ Unconnected' /\ NobodyWhenDown'
<1>1. /\ inbox \in [Programs -> Seq(Delivered)] /\ CLIENT_ID \in [Programs -> Nat \cup {NULL}]
      /\ broken \subseteq { fd \in Fds : conn[fd] # NULL /\ phase[conn[fd]] = "GONE" }
      /\ sigpipe \in BOOLEAN
      /\ conn \in [Fds -> Programs \cup {NULL}] /\ conn' \in [Fds -> Programs \cup {NULL}]
      /\ TypeOK'
  BY DEF DeliveryInv, DeliveryTypeOK, SessionsInv, TypeOK
<1>2. t.p \in Programs /\ t.peers = conn' /\ phase' = phase /\ server' = server
  BY DEF Turned
<1>3. \A fd \in Fds : conn[fd] # NULL => conn'[fd] = conn[fd]
  BY <1>1 DEF Accepted
<1>4. \A p \in Programs : inbox'[p] \in Seq(Delivered)
  <2>1. TAKE p \in Programs
  <2>2. PICK mine : Arrives(t, m, p, mine)
    BY WhatArrives DEF DeliveryInv
  <2>3. inbox[p] \in Seq(Delivered)
    BY <1>1
  <2> QED
    BY <2>2, <2>3, ConcatProperties DEF Arrives
<1>5. inbox' \in [Programs -> Seq(Delivered)]
  <2>1. inbox' = [p \in Programs |-> inbox'[p]]
    BY DEF Deliver
  <2> QED
    BY <1>4, <2>1
<1>6. broken' \subseteq { fd \in Fds : conn'[fd] # NULL /\ phase'[conn'[fd]] = "GONE" }
  BY <1>1, <1>2, <1>3 DEF Deliver, Left
<1>7. DeliveryTypeOK'
  BY <1>1, <1>5, <1>6 DEF Deliver, DeliveryTypeOK
<1>8. Unconnected'
  <2>1. SUFFICES ASSUME NEW p \in Programs,
                        phase[p] = "GONE" \/ (\A fd \in Fds : conn'[fd] # p)
                 PROVE  inbox'[p] = << >> /\ CLIENT_ID'[p] = NULL
    BY <1>2 DEF Unconnected
  <2>2. phase[p] = "GONE" \/ (\A fd \in Fds : conn[fd] # p)
    BY <1>3, <2>1, Constants
  <2>3. inbox[p] = << >> /\ CLIENT_ID[p] = NULL
    BY <2>2 DEF DeliveryInv, Unconnected
  <2>4. PICK mine : Arrives(t, m, p, mine)
    BY WhatArrives DEF DeliveryInv
  <2>5. DOMAIN New(p) = {} /\ New(p) \in Seq(Delivered)
    BY <2>1, <2>4 DEF Arrives, ReceivedAs
  <2>6. New(p) = << >>
    BY <2>5, LenProperties, EmptySeq
  <2>7. inbox'[p] = << >> \o New(p)
    BY <2>3, <2>4 DEF Arrives
  <2> QED
    BY <2>3, <2>6, <2>7 DEF Deliver
<1>9. server = "RUNNING"
  BY DEF Turns
<1> QED
  BY <1>2, <1>7, <1>8, <1>9 DEF NobodyWhenDown

(* The messages of a program after a turn: those it had and the new ones.  *)
LEMMA OldAndNew ==
  ASSUME NEW p \in Programs, inbox[p] \in Seq(Delivered), New(p) \in Seq(Delivered),
         inbox'[p] = inbox[p] \o New(p)
  PROVE  /\ Len(inbox[p]) \in Nat
         /\ \A j \in DOMAIN inbox'[p] :
              /\ j \in Nat \ {0}
              /\ \/ j \in DOMAIN inbox[p] /\ inbox'[p][j] = inbox[p][j]
                 \/ j - Len(inbox[p]) \in DOMAIN New(p)
                    /\ inbox'[p][j] = New(p)[j - Len(inbox[p])]
<1>1. PICK a, b, c : a = inbox[p] /\ b = New(p) /\ c = a \o b
  OBVIOUS
<1>2. /\ Len(a) \in Nat /\ DOMAIN a = 1 .. Len(a)
      /\ Len(b) \in Nat /\ DOMAIN b = 1 .. Len(b)
  BY <1>1, LenProperties
<1>3. /\ c \in Seq(Delivered) /\ Len(c) = Len(a) + Len(b)
      /\ \A i \in 1 .. Len(a) + Len(b) : c[i] = IF i <= Len(a) THEN a[i] ELSE b[i - Len(a)]
  BY <1>1, ConcatProperties
<1>4. DOMAIN c = 1 .. Len(a) + Len(b)
  BY <1>3, LenProperties
<1> QED
  BY <1>1, <1>2, <1>3, <1>4

(* The ids a program knows after a turn.                                   *)
LEMMA KnownAfterATurn ==
  ASSUME SessionsInv, DeliveryInv, NEW t, NEW m, Turned(t, m), Deliver(t), NEW p \in Programs
  PROVE  /\ \A n \in Ids(p)' : n \in Ids(p) \/ \E k \in DOMAIN New(p) :
              New(p)[k].cmd = "REGISTER" /\ New(p)[k].about = n
         /\ \A j \in DOMAIN inbox'[p] : inbox'[p][j].cmd = "REGISTER" =>
              \/ j = 1
              \/ \E k \in DOMAIN New(p) : New(p)[k].cmd = "REGISTER" /\ j = Len(inbox[p]) + k
<1>1. PICK mine : Arrives(t, m, p, mine)
  BY WhatArrives DEF DeliveryInv
<1>2. inbox[p] \in Seq(Delivered)
  BY DEF DeliveryInv, DeliveryTypeOK
<1>3. /\ Len(inbox[p]) \in Nat
      /\ \A j \in DOMAIN inbox'[p] :
           /\ j \in Nat \ {0}
           /\ \/ j \in DOMAIN inbox[p] /\ inbox'[p][j] = inbox[p][j]
              \/ j - Len(inbox[p]) \in DOMAIN New(p)
                 /\ inbox'[p][j] = New(p)[j - Len(inbox[p])]
  BY <1>1, <1>2, OldAndNew DEF Arrives
<1>4. ASSUME NEW n \in Ids(p)'
      PROVE  n \in Ids(p) \/ \E k \in DOMAIN New(p) :
               New(p)[k].cmd = "REGISTER" /\ New(p)[k].about = n
  <2>1. CASE n = CLIENT_ID'[p] /\ n # NULL
    BY <2>1 DEF Deliver, Ids
  <2>2. CASE ~(n = CLIENT_ID'[p] /\ n # NULL)
    <3>1. PICK j \in DOMAIN inbox'[p] : inbox'[p][j].cmd = "REGISTER" /\ inbox'[p][j].about = n
      BY <2>2 DEF Ids
    <3>2. CASE j \in DOMAIN inbox[p] /\ inbox'[p][j] = inbox[p][j]
      BY <3>1, <3>2 DEF Ids
    <3>3. CASE j - Len(inbox[p]) \in DOMAIN New(p) /\ inbox'[p][j] = New(p)[j - Len(inbox[p])]
      BY <3>1, <3>3
    <3> QED
      BY <1>3, <3>2, <3>3
  <2> QED
    BY <2>1, <2>2
<1>5. ASSUME NEW j \in DOMAIN inbox'[p], inbox'[p][j].cmd = "REGISTER"
      PROVE  \/ j = 1
             \/ \E k \in DOMAIN New(p) : New(p)[k].cmd = "REGISTER" /\ j = Len(inbox[p]) + k
  <2>1. CASE j \in DOMAIN inbox[p] /\ inbox'[p][j] = inbox[p][j]
    BY <1>5, <2>1 DEF DeliveryInv, TheIdIsNotMissed
  <2>2. CASE j - Len(inbox[p]) \in DOMAIN New(p) /\ inbox'[p][j] = New(p)[j - Len(inbox[p])]
    <3>1. j = Len(inbox[p]) + (j - Len(inbox[p]))
      BY <1>3
    <3> QED
      BY <1>5, <2>2, <3>1
  <2> QED
    BY <1>3, <2>1, <2>2
<1> QED
  BY <1>4, <1>5

LEMMA AcceptKeepsIds ==
  ASSUME SessionsInv, DeliveryInv, NEW t, NEW m, Turned(t, m), Deliver(t), Accepted(t, m)
  PROVE  TheIdIsNotMissed' /\ IdsAreOwn'
<1>1. /\ conn \in [Fds -> Programs \cup {NULL}] /\ pool \in Seq(Client) /\ Names(pool)
      /\ OnlineAreWatched
  BY DEF SessionsInv, TypeOK
<1>2. /\ serving' = t.id /\ t.id \in Fds /\ conn[t.id] = NULL /\ conn' = [conn EXCEPT ![t.id] = t.p]
      /\ \A fd \in Fds : conn[fd] # t.p
      /\ m.name = args[t.p].name /\ args' = args /\ m \in Commands /\ t.p \in Programs
      /\ pool' = IF MayRegister(pool, m) THEN on_user_register(pool, m, t.id) ELSE pool
  BY DEF Accepted, Turned
<1>3. PICK fd \in Fds, q \in Programs : fd = t.id /\ q = t.p
  BY <1>2
<1>4. /\ conn'[fd] = q /\ \A f \in Fds : conn[f] # NULL => conn'[f] = conn[f]
      /\ \A f \in Fds : f # fd => conn'[f] = conn[f]
  BY <1>1, <1>2, <1>3
<1>5. PICK qs : qs = pool'
  OBVIOUS
<1>6. ASSUME MayRegister(pool, m)
      PROVE  /\ \A i \in DOMAIN pool : i \in DOMAIN qs /\ qs[i] = pool[i]
             /\ \A i \in DOMAIN qs \ DOMAIN pool : ~qs[i].online
             /\ Len(pool) + 1 \in DOMAIN qs /\ qs[Len(pool) + 1].name = m.name
             /\ Len(pool) \in 0 .. MAX_CLIENTS - 1
  <2>1. qs = on_user_register(pool, m, fd)
    BY <1>2, <1>3, <1>5, <1>6
  <2>2. /\ \A i \in DOMAIN pool : i \in DOMAIN qs /\ qs[i] = pool[i]
        /\ \A i \in DOMAIN qs \ DOMAIN pool : qs[i].name = m.name /\ ~qs[i].online
    BY <1>1, <1>2, <1>6, <2>1, Registering
  <2>3. Len(pool) \in Nat /\ DOMAIN pool = 1 .. Len(pool)
    BY <1>1, PoolIsFunction
  <2>4. DOMAIN qs = 1 .. Len(pool) + 1
    BY <1>1, <1>2, <2>1, <2>3 DEF on_user_register
  <2>5. Len(pool) \in 0 .. MAX_CLIENTS - 1
    BY <1>6, <2>3, SessionsAssumption DEF MayRegister
  <2> QED
    BY <2>2, <2>3, <2>4, <2>5
<1>7. \A i \in DOMAIN qs : qs[i].online =>
        i \in DOMAIN pool /\ pool[i].online /\ qs[i].socket = pool[i].socket
  BY <1>2, <1>5, <1>6
<1>8. ASSUME NEW i \in DOMAIN qs, qs[i].online
      PROVE  /\ i \in DOMAIN pool /\ pool[i].online
             /\ conn'[qs[i].socket] = conn[pool[i].socket] /\ conn'[qs[i].socket] # q
  <2>1. i \in DOMAIN pool /\ pool[i].online /\ qs[i].socket = pool[i].socket
    BY <1>7, <1>8
  <2>2. pool[i].socket \in Fds /\ conn[pool[i].socket] # NULL
    BY <1>1, <2>1 DEF OnlineAreWatched
  <2> QED
    BY <1>2, <1>3, <1>4, <2>1, <2>2
<1>9. ASSUME NEW p \in Programs, NEW k \in DOMAIN New(p), New(p)[k].cmd = "REGISTER"
      PROVE  /\ p = q /\ k = 1 /\ inbox[p] = << >>
             /\ MayRegister(pool, m) /\ New(p)[k].about = Len(pool)
  <2>1. PICK mine : Arrives(t, m, p, mine)
    BY WhatArrives DEF DeliveryInv
  <2>2. TheIdComes(t, m, p, k)
    BY <1>9, <2>1, TheIdComesFirst DEF DeliveryInv
  <2> QED
    BY <1>3, <2>2 DEF TheIdComes
<1>10. TheIdIsNotMissed'
  <2>1. SUFFICES ASSUME NEW p \in Programs, NEW j \in DOMAIN inbox'[p], inbox'[p][j].cmd = "REGISTER"
                 PROVE  j = 1
    BY DEF TheIdIsNotMissed
  <2>2. CASE j # 1
    <3>1. PICK k \in DOMAIN New(p) : New(p)[k].cmd = "REGISTER" /\ j = Len(inbox[p]) + k
      BY <2>1, <2>2, KnownAfterATurn
    <3>2. k = 1 /\ Len(inbox[p]) = 0
      BY <1>9, <3>1, EmptySeq
    <3> QED
      BY <3>1, <3>2
  <2> QED
    BY <2>2
<1>11. IdsAreOwn'
  <2>1. SUFFICES ASSUME NEW p \in Programs, NEW n \in Ids(p)'
                 PROVE  /\ n \in 0 .. MAX_CLIENTS - 1
                        /\ \A i \in DOMAIN qs : qs[i].online /\ conn'[qs[i].socket] = p => n = i - 1
                        /\ p = q => n + 1 \in DOMAIN qs /\ qs[n + 1].name = args[p].name
    <3>1. serving' = fd /\ conn'[fd] = q /\ args' = args /\ pool' = qs
      BY <1>2, <1>3, <1>4, <1>5
    <3> QED
      BY <2>1, <3>1 DEF IdsAreOwn
  <2>2. CASE n \in Ids(p)
    <3>1. n \in 0 .. MAX_CLIENTS - 1
          /\ \A i \in DOMAIN pool : pool[i].online /\ conn[pool[i].socket] = p => n = i - 1
      BY <2>2 DEF DeliveryInv, IdsAreOwn
    <3>2. inbox[p] # << >> \/ CLIENT_ID[p] # NULL
      <4>1. DOMAIN << >> = {}
        BY EmptySeq
      <4> QED
        BY <2>2, <4>1 DEF Ids
    <3>3. p # q
      BY <1>2, <1>3, <3>2 DEF DeliveryInv, Unconnected
    <3> QED
      BY <1>8, <3>1, <3>3
  <2>3. CASE n \notin Ids(p)
    <3>1. PICK k \in DOMAIN New(p) : New(p)[k].cmd = "REGISTER" /\ New(p)[k].about = n
      BY <2>1, <2>3, KnownAfterATurn
    <3>2. p = q /\ MayRegister(pool, m) /\ n = Len(pool)
      BY <1>9, <3>1
    <3> QED
      BY <1>2, <1>3, <1>6, <1>8, <3>2
  <2> QED
    BY <2>2, <2>3
<1> QED
  BY <1>10, <1>11

(* Without an id on its way a turn must only keep who is online as who.    *)
LEMMA OthersKeepIds ==
  ASSUME SessionsInv, DeliveryInv, NEW t, NEW m, Turned(t, m), Deliver(t),
         LetsIn(t, m) \/ Talked(t, m), serving' = NULL,
         \A p \in Programs : \A n \in Ids(p) : \A i \in DOMAIN pool' :
           pool'[i].online /\ conn'[pool'[i].socket] = p => n = i - 1
  PROVE  TheIdIsNotMissed' /\ IdsAreOwn'
<1>1. ASSUME NEW p \in Programs
      PROVE  \A k \in DOMAIN New(p) : New(p)[k].cmd # "REGISTER"
  <2>1. PICK mine : Arrives(t, m, p, mine)
    BY WhatArrives DEF DeliveryInv
  <2> QED
    BY <2>1, NoIdComes
<1>2. ASSUME NEW p \in Programs, NEW j \in DOMAIN inbox'[p], inbox'[p][j].cmd = "REGISTER"
      PROVE  j = 1
  BY <1>1, <1>2, KnownAfterATurn
<1>3. ASSUME NEW p \in Programs, NEW n \in Ids(p)'
      PROVE  n \in Ids(p) /\ n \in 0 .. MAX_CLIENTS - 1
  <2>1. n \in Ids(p)
    BY <1>1, <1>3, KnownAfterATurn
  <2> QED
    BY <2>1 DEF DeliveryInv, IdsAreOwn
<1>4. TheIdIsNotMissed'
  BY <1>2 DEF TheIdIsNotMissed
<1>5. IdsAreOwn'
  BY <1>3 DEF IdsAreOwn
<1> QED
  BY <1>4, <1>5

LEMMA LetInKeepsIds ==
  ASSUME SessionsInv, DeliveryInv, NEW t, NEW m, Turned(t, m), Deliver(t), LetsIn(t, m),
         ReadLogin \/ ReadHangup
  PROVE  TheIdIsNotMissed' /\ IdsAreOwn'
<1>1. /\ serving # NULL /\ serving' = NULL /\ t.id = serving /\ serving \in Fds
      /\ t.p = conn[serving] /\ conn' = conn
      /\ wire[t.p] # << >> => (m.cmd = "LOGIN" => m.name = args[t.p].name)
      /\ wire[t.p] # << >> => m = Head(wire[t.p])
  BY DEF LetsIn, Turned
<1>2. ASSUME NEW p \in Programs, NEW n \in Ids(p), NEW i \in DOMAIN pool',
             pool'[i].online, conn'[pool'[i].socket] = p
      PROVE  n = i - 1
  <2>1. /\ i \in DOMAIN pool
        /\ \/ pool[i].online /\ pool'[i].socket = pool[i].socket
           \/ /\ pool'[i].socket = serving /\ wire[conn[serving]] # << >>
              /\ Head(wire[conn[serving]]).cmd = "LOGIN"
              /\ Head(wire[conn[serving]]).name = pool[i].name
    BY <1>2, LetInThePool
  <2>2. CASE pool[i].online /\ pool'[i].socket = pool[i].socket
    BY <1>1, <1>2, <2>1, <2>2 DEF DeliveryInv, IdsAreOwn
  <2>3. CASE /\ pool'[i].socket = serving /\ wire[conn[serving]] # << >>
             /\ Head(wire[conn[serving]]).cmd = "LOGIN"
             /\ Head(wire[conn[serving]]).name = pool[i].name
    <3>1. p = conn[serving] /\ pool[i].name = args[p].name
      BY <1>1, <1>2, <2>3
    <3>2. n + 1 \in DOMAIN pool /\ pool[n + 1].name = args[p].name /\ n \in 0 .. MAX_CLIENTS - 1
      BY <1>1, <3>1 DEF DeliveryInv, IdsAreOwn
    <3>3. n + 1 = i
      BY <2>1, <3>1, <3>2 DEF SessionsInv, Names
    <3> QED
      BY <3>2, <3>3, SessionsAssumption
  <2> QED
    BY <2>1, <2>2, <2>3
<1> QED
  BY <1>1, <1>2, OthersKeepIds

LEMMA TalkKeepsIds ==
  ASSUME SessionsInv, DeliveryInv, NEW t, NEW m, Turned(t, m), Deliver(t), Talked(t, m),
         Unmoved(pool, pool')
  PROVE  TheIdIsNotMissed' /\ IdsAreOwn'
<1>1. serving' = NULL /\ conn' = conn
  BY DEF Talked
<1>2. \A p \in Programs : \A n \in Ids(p) : \A i \in DOMAIN pool' :
        pool'[i].online /\ conn'[pool'[i].socket] = p => n = i - 1
  BY <1>1 DEF Unmoved, DeliveryInv, IdsAreOwn
<1> QED
  BY <1>1, <1>2, OthersKeepIds

LEMMA HandleKeeps ==
  ASSUME SessionsInv, SessionsInv', DeliveryInv, Handle
  PROVE  DeliveryInv'
<1>1. PICK t \in Turns : /\ Accept \/ ReadLogin \/ ReadHangup \/ \E i \in DOMAIN pool : Talk(i)
                         /\ Deliver(t)
  BY DEF Handle
<1>2. PICK m : m = Handled(t)
  OBVIOUS
<1>3. CASE Accept
  <2>1. Turned(t, m) /\ Accepted(t, m)
    BY <1>2, <1>3, AcceptTurns
  <2> QED
    BY <1>1, <2>1, TurnKeepsTypes, AcceptKeepsIds DEF DeliveryInv
<1>4. CASE ReadLogin \/ ReadHangup
  <2>1. Turned(t, m) /\ LetsIn(t, m)
    BY <1>2, <1>4, LetInTurns
  <2>2. conn' = conn
    BY <2>1 DEF LetsIn
  <2> QED
    BY <1>1, <1>4, <2>1, <2>2, TurnKeepsTypes, LetInKeepsIds DEF DeliveryInv
<1>5. CASE \E i \in DOMAIN pool : Talk(i)
  <2>1. Turned(t, m) /\ Talked(t, m) /\ Unmoved(pool, pool')
    BY <1>2, <1>5, TalkTurns
  <2>2. conn' = conn
    BY <2>1 DEF Talked
  <2> QED
    BY <1>1, <2>1, <2>2, TurnKeepsTypes, TalkKeepsIds DEF DeliveryInv
<1> QED
  BY <1>1, <1>3, <1>4, <1>5

-----------------------------------------------------------------------------
(* So do the other steps.                                                  *)
LEMMA QuietKeeps ==
  ASSUME SessionsInv', DeliveryInv, UNCHANGED << added, conn, pool, serving, phase, args >>,
         server' = server \/ server' = "RUNNING"
  PROVE  DeliveryInv'
<1>1. UNCHANGED << inbox, CLIENT_ID, broken, sigpipe, conn, pool, serving, phase, args >>
  BY DEF added, screens
<1>2. TypeOK'
  BY DEF SessionsInv
<1>3. DeliveryTypeOK' /\ TheIdIsNotMissed' /\ Unconnected' /\ NobodyWhenDown'
  BY <1>1, <1>2 DEF DeliveryInv, DeliveryTypeOK, TheIdIsNotMissed, Unconnected, NobodyWhenDown
<1>4. IdsAreOwn'
  BY <1>1 DEF DeliveryInv, IdsAreOwn, Ids
<1> QED
  BY <1>3, <1>4 DEF DeliveryInv

LEMMA ExitsForgets ==
  ASSUME SessionsInv', DeliveryInv, Exits, Forget, sigpipe' \in BOOLEAN
  PROVE  DeliveryInv'
<1>1. /\ inbox' = [p \in Programs |-> << >>] /\ CLIENT_ID' = [p \in Programs |-> NULL]
      /\ broken' = {} /\ conn' = [fd \in Fds |-> NULL]
      /\ << >> \in Seq(Delivered) /\ DOMAIN << >> = {} /\ TypeOK'
  BY EmptySeq DEF Forget, Exits, All, NoConn, SessionsInv
<1>2. DeliveryTypeOK'
  BY <1>1 DEF DeliveryTypeOK
<1>3. TheIdIsNotMissed' /\ Unconnected' /\ NobodyWhenDown'
  BY <1>1 DEF TheIdIsNotMissed, Unconnected, NobodyWhenDown
<1>4. \A p \in Programs : Ids(p)' = {}
  BY <1>1 DEF Ids
<1> QED
  BY <1>2, <1>3, <1>4 DEF DeliveryInv, IdsAreOwn

LEMMA InitDelivery == DeliveryInit => DeliveryInv
<1> SUFFICES ASSUME DeliveryInit PROVE DeliveryInv
  OBVIOUS
<1>1. /\ inbox = [p \in Programs |-> << >>] /\ CLIENT_ID = [p \in Programs |-> NULL]
      /\ broken = {} /\ sigpipe = FALSE /\ conn = [fd \in Fds |-> NULL]
      /\ << >> \in Seq(Delivered) /\ DOMAIN << >> = {}
  BY EmptySeq DEF DeliveryInit, Init, All, NoConn
<1>2. TypeOK
  BY InitSessionsInv DEF DeliveryInit, SessionsInv
<1>3. DeliveryTypeOK
  BY <1>1, <1>2 DEF DeliveryTypeOK
<1>4. TheIdIsNotMissed /\ Unconnected /\ NobodyWhenDown
  BY <1>1 DEF TheIdIsNotMissed, Unconnected, NobodyWhenDown
<1>5. \A p \in Programs : Ids(p) = {}
  BY <1>1 DEF Ids
<1> QED
  BY <1>3, <1>4, <1>5 DEF DeliveryInv, IdsAreOwn

(* A program without a connection knows no id.                             *)
LEMMA UnconnectedKnowNone ==
  ASSUME DeliveryInv, NEW p \in Programs, phase[p] = "GONE" \/ \A fd \in Fds : conn[fd] # p
  PROVE  inbox[p] = << >> /\ CLIENT_ID[p] = NULL /\ Ids(p) = {}
<1>1. inbox[p] = << >> /\ CLIENT_ID[p] = NULL
  BY DEF DeliveryInv, Unconnected
<1>2. DOMAIN << >> = {}
  BY EmptySeq
<1> QED
  BY <1>1, <1>2 DEF Ids

LEMMA LaunchKeeps ==
  ASSUME SessionsInv, SessionsInv', DeliveryInv, NEW p \in Programs, Launch(p)
  PROVE  DeliveryInv'
<1>1. PICK l \in Logins : Start(p, l)
  BY DEF Launch
<1>2. /\ UNCHANGED << inbox, CLIENT_ID, broken, sigpipe, conn, pool, serving, server >>
      /\ phase[p] = "OFF" /\ phase' = [phase EXCEPT ![p] = "REGISTERING"]
      /\ args' = [args EXCEPT ![p] = l] /\ phase \in [Programs -> {"OFF", "REGISTERING", "SETTLED", "GONE"}]
      /\ args \in [Programs -> Logins \cup {NULL}]
      /\ \A fd \in Fds : conn[fd] # p
  BY <1>1 DEF Launch, Start, added, screens, process, SessionsInv, TypeOK, Places
<1>3. /\ \A q \in Programs : phase'[q] = "GONE" => phase[q] = "GONE"
      /\ \A q \in Programs : phase[q] = "GONE" => phase'[q] = "GONE"
      /\ \A q \in Programs : q # p => args'[q] = args[q]
  BY <1>2
<1>4. DeliveryTypeOK'
  <2>1. \A fd \in broken : conn[fd] \in Programs
    BY DEF DeliveryInv, DeliveryTypeOK, SessionsInv, TypeOK
  <2>2. broken' \subseteq { fd \in Fds : conn'[fd] # NULL /\ phase'[conn'[fd]] = "GONE" }
    BY <1>2, <1>3, <2>1 DEF DeliveryInv, DeliveryTypeOK
  <2> QED
    BY <1>2, <2>2 DEF DeliveryInv, DeliveryTypeOK, SessionsInv
<1>5. TheIdIsNotMissed' /\ NobodyWhenDown'
  BY <1>2 DEF DeliveryInv, TheIdIsNotMissed, NobodyWhenDown
<1>6. Unconnected'
  BY <1>2, <1>3 DEF DeliveryInv, Unconnected
<1>7. IdsAreOwn'
  <2>1. \A q \in Programs : Ids(q)' = Ids(q)
    BY <1>2 DEF Ids
  <2>2. Ids(p) = {}
    BY <1>2, UnconnectedKnowNone
  <2> QED
    BY <1>2, <1>3, <2>1, <2>2 DEF DeliveryInv, IdsAreOwn
<1> QED
  BY <1>4, <1>5, <1>6, <1>7 DEF DeliveryInv

LEMMA LogInKeeps ==
  ASSUME SessionsInv, SessionsInv', DeliveryInv, NEW p \in Programs, LogIn(p)
  PROVE  DeliveryInv'
<1>1. /\ UNCHANGED << inbox, CLIENT_ID, broken, sigpipe, conn, pool, serving, server, args >>
      /\ phase[p] = "REGISTERING" /\ phase' = [phase EXCEPT ![p] = "SETTLED"]
      /\ phase \in [Programs -> {"OFF", "REGISTERING", "SETTLED", "GONE"}]
  BY DEF LogIn, Login, added, screens, process, SessionsInv, TypeOK
<1>2. \A q \in Programs : phase'[q] = "GONE" <=> phase[q] = "GONE"
  BY <1>1
<1>3. DeliveryTypeOK'
  <2>1. \A fd \in broken : conn[fd] \in Programs
    BY DEF DeliveryInv, DeliveryTypeOK, SessionsInv, TypeOK
  <2>2. broken' \subseteq { fd \in Fds : conn'[fd] # NULL /\ phase'[conn'[fd]] = "GONE" }
    BY <1>1, <1>2, <2>1 DEF DeliveryInv, DeliveryTypeOK
  <2> QED
    BY <1>1, <2>2 DEF DeliveryInv, DeliveryTypeOK, SessionsInv
<1>4. TheIdIsNotMissed' /\ NobodyWhenDown' /\ Unconnected'
  BY <1>1, <1>2 DEF DeliveryInv, TheIdIsNotMissed, NobodyWhenDown, Unconnected
<1>5. IdsAreOwn'
  <2>1. \A q \in Programs : Ids(q)' = Ids(q)
    BY <1>1 DEF Ids
  <2> QED
    BY <1>1, <2>1 DEF DeliveryInv, IdsAreOwn
<1> QED
  BY <1>3, <1>4, <1>5 DEF DeliveryInv

LEMMA LeaveKeeps ==
  ASSUME SessionsInv, SessionsInv', DeliveryInv, NEW p \in Programs, Leave(p)
  PROVE  DeliveryInv'
<1>1. /\ UNCHANGED << broken, sigpipe, conn, pool, serving, server, args >>
      /\ inbox' = [inbox EXCEPT ![p] = << >>] /\ CLIENT_ID' = [CLIENT_ID EXCEPT ![p] = NULL]
      /\ phase' = [phase EXCEPT ![p] = "GONE"]
      /\ phase \in [Programs -> {"OFF", "REGISTERING", "SETTLED", "GONE"}]
      /\ inbox \in [Programs -> Seq(Delivered)] /\ CLIENT_ID \in [Programs -> Nat \cup {NULL}]
  BY DEF Leave, Quit, process, SessionsInv, TypeOK, DeliveryInv, DeliveryTypeOK
<1>2. /\ inbox'[p] = << >> /\ CLIENT_ID'[p] = NULL /\ phase'[p] = "GONE"
      /\ \A q \in Programs : q # p =>
           inbox'[q] = inbox[q] /\ CLIENT_ID'[q] = CLIENT_ID[q] /\ phase'[q] = phase[q]
      /\ << >> \in Seq(Delivered) /\ DOMAIN << >> = {}
  BY <1>1, EmptySeq
<1>3. DeliveryTypeOK'
  <2>1. \A fd \in broken : conn[fd] \in Programs
    BY DEF DeliveryInv, DeliveryTypeOK, SessionsInv, TypeOK
  <2>2. broken' \subseteq { fd \in Fds : conn'[fd] # NULL /\ phase'[conn'[fd]] = "GONE" }
    BY <1>1, <1>2, <2>1 DEF DeliveryInv, DeliveryTypeOK
  <2>3. inbox' \in [Programs -> Seq(Delivered)] /\ CLIENT_ID' \in [Programs -> Nat \cup {NULL}]
    BY <1>1, <1>2
  <2> QED
    BY <1>1, <2>2, <2>3 DEF DeliveryInv, DeliveryTypeOK, SessionsInv
<1>4. TheIdIsNotMissed' /\ NobodyWhenDown' /\ Unconnected'
  BY <1>1, <1>2 DEF DeliveryInv, TheIdIsNotMissed, NobodyWhenDown, Unconnected
<1>5. IdsAreOwn'
  <2>1. Ids(p)' = {} /\ \A q \in Programs : q # p => Ids(q)' = Ids(q)
    BY <1>2 DEF Ids
  <2> QED
    BY <1>1, <2>1 DEF DeliveryInv, IdsAreOwn
<1> QED
  BY <1>3, <1>4, <1>5 DEF DeliveryInv

LEMMA ReadKeeps ==
  ASSUME SessionsInv', DeliveryInv, NEW p \in Programs, Read(p)
  PROVE  DeliveryInv'
<1>1. PICK n \in 1 .. Len(inbox[p]) :
        inbox' = [inbox EXCEPT ![p] = SubSeq(inbox[p], n + 1, Len(inbox[p]))]
  BY DEF Read
<1>2. /\ UNCHANGED << broken, sigpipe, conn, pool, serving, server, args, phase >>
      /\ CLIENT_ID' = [CLIENT_ID EXCEPT ![p] = Learned(CLIENT_ID[p], Head(inbox[p]))]
      /\ phase[p] = "SETTLED"
      /\ inbox \in [Programs -> Seq(Delivered)] /\ CLIENT_ID \in [Programs -> Nat \cup {NULL}]
      /\ TypeOK'
  BY DEF Read, vars, process, clients, DeliveryInv, DeliveryTypeOK, SessionsInv
<1>3. PICK s, r : s \in Seq(Delivered) /\ s = inbox[p] /\ r = SubSeq(s, n + 1, Len(s))
  BY <1>2
<1>4. Len(s) \in Nat /\ DOMAIN s = 1 .. Len(s) /\ n \in 1 .. Len(s)
  BY <1>1, <1>3, LenProperties
<1>5. /\ r \in Seq(Delivered) /\ DOMAIN r = 1 .. Len(s) - n
      /\ \A j \in DOMAIN r : j + n \in DOMAIN s /\ r[j] = s[j + n] /\ j + n # 1
  <2>1. r = [j \in 1 .. Len(s) - n |-> s[j + n]]
    BY <1>3, <1>4
  <2>2. \A j \in 1 .. Len(s) - n : j + n \in DOMAIN s /\ j + n # 1 /\ s[j + n] \in Delivered
    BY <1>3, <1>4, ElementOfSeq
  <2>3. Len(s) - n \in Nat
    BY <1>4
  <2>4. r \in Seq(Delivered)
    <3>1. n + 1 \in Int /\ Len(s) \in Int /\ \A i \in n + 1 .. Len(s) : s[i] \in Delivered
      BY <1>3, <1>4, ElementOfSeq
    <3> QED
      BY <1>3, <3>1, SubSeqProperties
  <2> QED
    BY <2>1, <2>2, <2>4
<1>6. 1 \in DOMAIN s /\ Head(s) = s[1] /\ s[1] \in Delivered
  BY <1>3, <1>4, ElementOfSeq, HeadTailProperties, EmptySeq
<1>7. PICK id : id = Learned(CLIENT_ID[p], s[1])
  OBVIOUS
<1>8. /\ inbox'[p] = r /\ CLIENT_ID'[p] = id
      /\ \A q \in Programs : q # p => inbox'[q] = inbox[q] /\ CLIENT_ID'[q] = CLIENT_ID[q]
  BY <1>1, <1>2, <1>3, <1>6, <1>7
<1>9. \/ id = CLIENT_ID[p]
      \/ s[1].cmd = "REGISTER" /\ id = s[1].about /\ id \in Nat
  BY <1>6, <1>7 DEF Learned, Delivered
<1>10. DeliveryTypeOK'
  <2>1. inbox' \in [Programs -> Seq(Delivered)]
    BY <1>1, <1>2, <1>3, <1>5
  <2>2. id \in Nat \cup {NULL}
    BY <1>2, <1>9
  <2>3. CLIENT_ID' \in [Programs -> Nat \cup {NULL}]
    BY <1>2, <1>3, <1>6, <1>7, <2>2
  <2> QED
    BY <1>2, <2>1, <2>3 DEF DeliveryInv, DeliveryTypeOK
<1>11. TheIdIsNotMissed'
  <2>1. \A j \in DOMAIN r : r[j].cmd # "REGISTER"
    BY <1>3, <1>5 DEF DeliveryInv, TheIdIsNotMissed
  <2> QED
    BY <1>8, <2>1 DEF DeliveryInv, TheIdIsNotMissed
<1>12. Unconnected'
  <2>1. s # << >>
    BY <1>6, EmptySeq
  <2>2. ~(phase[p] = "GONE" \/ (\A fd \in Fds : conn[fd] # p))
    BY <1>3, <2>1 DEF DeliveryInv, Unconnected
  <2> QED
    BY <1>2, <1>8, <2>2 DEF DeliveryInv, Unconnected
<1>13. IdsAreOwn'
  <2>1. ASSUME NEW q \in Programs, NEW i \in Ids(q)' PROVE i \in Ids(q)
    <3>1. CASE q # p
      BY <1>8, <2>1, <3>1 DEF Ids
    <3>2. CASE q = p
      <4>1. CASE i = id /\ i # NULL
        BY <1>3, <1>6, <1>9, <3>2, <4>1 DEF Ids
      <4>2. CASE ~(i = id /\ i # NULL)
        <5>1. PICK j \in DOMAIN r : r[j].cmd = "REGISTER" /\ r[j].about = i
          BY <1>8, <2>1, <3>2, <4>2 DEF Ids
        <5> QED
          BY <1>3, <1>5, <3>2, <5>1 DEF Ids
      <4> QED
        BY <4>1, <4>2
    <3> QED
      BY <3>1, <3>2
  <2> QED
    BY <1>2, <2>1 DEF DeliveryInv, IdsAreOwn
<1>14. NobodyWhenDown'
  BY <1>2 DEF DeliveryInv, NobodyWhenDown
<1> QED
  BY <1>10, <1>11, <1>12, <1>13, <1>14 DEF DeliveryInv

LEMMA ArchiveKeeps ==
  ASSUME SessionsInv, SessionsInv', DeliveryInv, Archive
  PROVE  DeliveryInv'
<1>1. PICK i \in DOMAIN pool : HangUp(i) /\ broken' = broken \ {pool[i].socket}
  BY DEF Archive
<1>2. PICK fd : fd = pool[i].socket
  OBVIOUS
<1>3. /\ UNCHANGED << inbox, CLIENT_ID, sigpipe, server, serving >> /\ serving = NULL
      /\ pool' = archive_client(pool, i) /\ pool[i].online
      /\ conn' = [conn EXCEPT ![fd] = NULL]
      /\ phase' = [phase EXCEPT ![conn[fd]] = "OFF"]
      /\ wire[conn[fd]] = << >> /\ i \in Talking
  BY <1>1, <1>2 DEF Archive, HangUp, Round, Waits, screens
<1>4. /\ conn \in [Fds -> Programs \cup {NULL}] /\ pool \in Seq(Client)
      /\ phase \in [Programs -> {"OFF", "REGISTERING", "SETTLED", "GONE"}]
      /\ OnlineAreWatched /\ Places /\ TypeOK'
  BY DEF SessionsInv, TypeOK
<1>5. fd \in Fds /\ conn[fd] # NULL
  BY <1>2, <1>3, <1>4 DEF OnlineAreWatched
<1>6. PICK p \in Programs : p = conn[fd]
  BY <1>4, <1>5
<1>7. phase[p] = "GONE"
  BY <1>2, <1>3, <1>6 DEF Talking, Readable
<1>8. /\ conn'[fd] = NULL /\ \A f \in Fds : f # fd => conn'[f] = conn[f] /\ conn[f] # p
      /\ phase'[p] = "OFF" /\ \A q \in Programs : q # p => phase'[q] = phase[q]
  BY <1>3, <1>4, <1>5, <1>6 DEF Places
<1>9. inbox[p] = << >> /\ CLIENT_ID[p] = NULL /\ Ids(p) = {}
  BY <1>7, UnconnectedKnowNone
<1>10. DeliveryTypeOK'
  <2>1. ASSUME NEW f \in broken, f # fd
        PROVE  f \in Fds /\ conn'[f] # NULL /\ phase'[conn'[f]] = "GONE"
    <3>1. f \in Fds /\ conn[f] # NULL /\ phase[conn[f]] = "GONE"
      BY <2>1 DEF DeliveryInv, DeliveryTypeOK
    <3>2. conn'[f] = conn[f] /\ conn[f] \in Programs /\ conn[f] # p
      BY <1>4, <1>8, <2>1, <3>1
    <3> QED
      BY <1>8, <3>1, <3>2
  <2> QED
    BY <1>1, <1>2, <1>3, <1>4, <2>1 DEF DeliveryInv, DeliveryTypeOK
<1>11. TheIdIsNotMissed'
  BY <1>3 DEF DeliveryInv, TheIdIsNotMissed
<1>12. Unconnected'
  <2>1. ASSUME NEW q \in Programs, q # p, phase'[q] = "GONE" \/ \A f \in Fds : conn'[f] # q
        PROVE  phase[q] = "GONE" \/ \A f \in Fds : conn[f] # q
    BY <1>6, <1>8, <2>1
  <2> QED
    BY <1>3, <1>9, <2>1 DEF DeliveryInv, Unconnected
<1>13. NobodyWhenDown'
  BY <1>3, <1>5 DEF DeliveryInv, NobodyWhenDown
<1>14. \A j \in DOMAIN pool' : pool'[j].online =>
         /\ j \in DOMAIN pool /\ pool[j].online /\ pool'[j].socket = pool[j].socket
         /\ pool[j].socket \in Fds /\ pool[j].socket # fd
  <2>1. pool' = [pool EXCEPT ![i].online = FALSE, ![i].socket = Stdin]
    BY <1>3 DEF archive_client
  <2>2. /\ DOMAIN pool' = DOMAIN pool /\ \A j \in DOMAIN pool : j # i => pool'[j] = pool[j]
        /\ ~pool'[i].online
    <3>1. pool[i] \in Client
      BY <1>4, PoolIsFunction
    <3> QED
      BY <2>1, <3>1 DEF Client
  <2> QED
    BY <1>2, <1>3, <1>4, <2>2 DEF OnlineAreWatched
<1>15. IdsAreOwn'
  <2>1. \A q \in Programs : Ids(q)' = Ids(q)
    BY <1>3 DEF Ids
  <2>2. serving' = NULL
    BY <1>3
  <2>3. \A q \in Programs : \A n \in Ids(q) : \A j \in DOMAIN pool' :
          pool'[j].online /\ conn'[pool'[j].socket] = q => n = j - 1
    BY <1>8, <1>14 DEF DeliveryInv, IdsAreOwn
  <2> QED
    BY <2>1, <2>2, <2>3 DEF DeliveryInv, IdsAreOwn
<1> QED
  BY <1>10, <1>11, <1>12, <1>13, <1>15 DEF DeliveryInv

LEMMA StartAgainKeeps ==
  ASSUME SessionsInv, SessionsInv', DeliveryInv, StartAgain
  PROVE  DeliveryInv'
<1>1. /\ UNCHANGED << inbox, CLIENT_ID, broken, conn, serving, phase >> /\ sigpipe' = FALSE
      /\ server = "DOWN" /\ TypeOK'
  BY DEF StartAgain, Restart, screens, clients, SessionsInv
<1>2. \A fd \in Fds : conn[fd] = NULL
  BY <1>1 DEF DeliveryInv, NobodyWhenDown
<1>3. DeliveryTypeOK' /\ TheIdIsNotMissed' /\ Unconnected' /\ NobodyWhenDown'
  BY <1>1, <1>2 DEF DeliveryInv, DeliveryTypeOK, TheIdIsNotMissed, Unconnected, NobodyWhenDown
<1>4. \A p \in Programs : Ids(p)' = {}
  <2>1. \A p \in Programs : \A fd \in Fds : conn[fd] # p
    BY <1>2, Constants
  <2>2. \A p \in Programs : Ids(p) = {}
    BY <2>1, UnconnectedKnowNone
  <2>3. \A p \in Programs : Ids(p)' = Ids(p)
    BY <1>1 DEF Ids
  <2> QED
    BY <2>2, <2>3
<1> QED
  BY <1>3, <1>4 DEF DeliveryInv, IdsAreOwn

LEMMA DeliveryInvNext ==
  ASSUME SessionsInv, NoneWhenDown, DeliveryInv, [DeliveryNext]_allvars
  PROVE  SessionsInv' /\ NoneWhenDown' /\ DeliveryInv'
<1>1. CASE UNCHANGED allvars
  <2>1. UNCHANGED vars /\ UNCHANGED added
    BY <1>1 DEF allvars
  <2>2. SessionsInv' /\ NoneWhenDown'
    BY <2>1, SessionsNext, NoneWhenDownKept
  <2>3. UNCHANGED << conn, pool, serving, phase, args, server >>
    BY <2>1 DEF vars, process, clients
  <2> QED
    BY <2>1, <2>2, <2>3, QuietKeeps
<1>2. CASE DeliveryNext
  <2>1. SessionsInv' /\ NoneWhenDown'
    BY <1>2, StepsOfSessions, SessionsNext, NoneWhenDownKept
  <2>2. ASSUME NEW p \in Programs, Launch(p) \/ LogIn(p) \/ Leave(p) \/ Read(p)
        PROVE  DeliveryInv'
    BY <2>1, <2>2, LaunchKeeps, LogInKeeps, LeaveKeeps, ReadKeeps
  <2>3. ASSUME NEW p \in Programs, NEW l \in Lines, Type(p, l) PROVE DeliveryInv'
    <3>1. UNCHANGED << added, conn, pool, serving, phase, args, server >>
      BY <2>3 DEF Type, Say, process
    <3> QED
      BY <2>1, <3>1, QuietKeeps
  <2>4. CASE Handle
    BY <2>1, <2>4, HandleKeeps
  <2>5. CASE Write
    <3>1. UNCHANGED << added, conn, pool, serving, phase, args, server >>
      BY <2>5 DEF Write, write_cmd, clients
    <3> QED
      BY <2>1, <3>1, QuietKeeps
  <2>6. CASE Archive
    BY <2>1, <2>6, ArchiveKeeps
  <2>7. CASE BrokenPipe
    <3>1. Exits /\ Forget /\ sigpipe' \in BOOLEAN
      BY <2>7 DEF BrokenPipe
    <3> QED
      BY <2>1, <3>1, ExitsForgets
  <2>8. CASE Fails
    <3>1. Exits /\ Forget
      BY <2>8 DEF Fails, SelectError, ReadLoginCrash, HandleCrash, Stop
    <3>2. sigpipe' \in BOOLEAN
      BY <2>8 DEF Fails, DeliveryInv, DeliveryTypeOK
    <3> QED
      BY <2>1, <3>1, <3>2, ExitsForgets
  <2>9. CASE StartAgain
    BY <2>1, <2>9, StartAgainKeeps
  <2> QED
    BY <1>2, <2>1, <2>2, <2>3, <2>4, <2>5, <2>6, <2>7, <2>8, <2>9 DEF DeliveryNext
<1> QED
  BY <1>1, <1>2

LEMMA DeliveryInvariant == DeliverySpec => [](SessionsInv /\ NoneWhenDown /\ DeliveryInv)
<1>1. DeliveryInit => SessionsInv /\ NoneWhenDown /\ DeliveryInv
  <2>1. DeliveryInit => Init
    BY DEF DeliveryInit
  <2>2. Init => NoneWhenDown
    BY DEF Init, NoneWhenDown
  <2> QED
    BY <2>1, <2>2, InitSessionsInv, InitDelivery
<1>2. SessionsInv /\ NoneWhenDown /\ DeliveryInv /\ [DeliveryNext]_allvars
        => (SessionsInv /\ NoneWhenDown /\ DeliveryInv)'
  BY DeliveryInvNext
<1> QED
  BY <1>1, <1>2, PTL DEF DeliverySpec

-----------------------------------------------------------------------------
(* What is sent and what the programs make of it has its type.             *)
THEOREM DeliveryTypeCorrect == DeliverySpec => []DeliveryTypeOK
<1>1. DeliveryInv => DeliveryTypeOK
  BY DEF DeliveryInv
<1> QED
  BY <1>1, DeliveryInvariant, PTL

(* The answer to REGISTER is the first thing a program is sent, so the     *)
(* reading thread, which shows only the first message of a read            *)
(* (main.c:82), does not lose the id.                                      *)
THEOREM TheIdIsNeverMissed == DeliverySpec => []TheIdIsNotMissed
<1>1. DeliveryInv => TheIdIsNotMissed
  BY DEF DeliveryInv
<1> QED
  BY <1>1, DeliveryInvariant, PTL

(* A program that knows an id and is logged in is logged in under that id, *)
(* whatever is sent, lost or handled in between (user.c:17).               *)
THEOREM OwnIdStaysRight == DeliverySpec => []OwnIdIsRight
<1>1. DeliveryInv => OwnIdIsRight
  <2>1. SUFFICES ASSUME DeliveryInv, NEW p \in Programs, NEW i \in DOMAIN pool,
                        pool[i].online, conn[pool[i].socket] = p, CLIENT_ID[p] # NULL
                 PROVE  CLIENT_ID[p] = i - 1
    BY DEF OwnIdIsRight
  <2>2. CLIENT_ID[p] \in Ids(p)
    BY <2>1 DEF Ids
  <2> QED
    BY <2>1, <2>2 DEF DeliveryInv, IdsAreOwn
<1> QED
  BY <1>1, DeliveryInvariant, PTL

(* What the server and the programs do with what is sent adds nothing to   *)
(* what Sessions allows: each step is one of its steps or changes none of  *)
(* its variables, so that what is proved of Sessions holds here.           *)
THEOREM DeliveryImplementsSessions == DeliverySpec => Spec
<1>1. DeliveryInit => Init
  BY DEF DeliveryInit
<1>2. DeliveryInv /\ [DeliveryNext]_allvars => [Next]_vars
  <2>1. UNCHANGED allvars => UNCHANGED vars
    BY DEF allvars
  <2> QED
    BY <2>1, StepsOfSessions
<1> QED
  BY <1>1, <1>2, DeliveryInvariant, PTL DEF DeliverySpec, Spec

-----------------------------------------------------------------------------
(* Only a turn of the server brings a program something new.               *)
LEMMA OnlyTurnsBringNews ==
  ASSUME DeliveryInv, DeliveryInv', [DeliveryNext]_allvars, ~Handle, NEW p \in Programs
  PROVE  DOMAIN New(p) = {}
<1>1. inbox \in [Programs -> Seq(Delivered)] /\ inbox' \in [Programs -> Seq(Delivered)]
  BY DEF DeliveryInv, DeliveryTypeOK
<1>2. inbox[p] \in Seq(Delivered) /\ inbox'[p] \in Seq(Delivered) /\ Len(inbox[p]) \in Nat
  BY <1>1, LenProperties
<1>3. ASSUME inbox' = inbox PROVE DOMAIN New(p) = {}
  BY <1>2, <1>3, NothingIsNew
<1>4. ASSUME inbox'[p] = << >> PROVE DOMAIN New(p) = {}
  <2>1. Len(inbox'[p]) <= Len(inbox[p])
    <3>1. Len(<< >>) = 0
      BY EmptySeq
    <3> QED
      BY <1>2, <1>4, <3>1
  <2> QED
    BY <1>2, <2>1, NothingIsNew
<1>5. ASSUME NEW q \in Programs, Read(q) PROVE DOMAIN New(p) = {}
  <2>1. PICK n \in 1 .. Len(inbox[q]) :
          inbox' = [inbox EXCEPT ![q] = SubSeq(inbox[q], n + 1, Len(inbox[q]))]
    BY <1>5 DEF Read
  <2>2. CASE p = q
    <3>1. PICK s : s = inbox[q]
      OBVIOUS
    <3>2. inbox'[p] = SubSeq(s, n + 1, Len(s)) /\ Len(s) \in Nat /\ n \in 1 .. Len(s)
      BY <1>1, <1>2, <2>1, <2>2, <3>1
    <3>3. Len(SubSeq(s, n + 1, Len(s))) <= Len(s)
      BY <3>2
    <3> QED
      BY <1>2, <2>2, <3>1, <3>2, <3>3, NothingIsNew
  <2>3. CASE p # q
    <3>1. inbox'[p] = inbox[p]
      BY <1>1, <2>1, <2>3
    <3> QED
      BY <1>2, <3>1, NothingIsNew
  <2> QED
    BY <2>2, <2>3
<1>6. ASSUME NEW q \in Programs, Leave(q) PROVE DOMAIN New(p) = {}
  <2>1. inbox' = [inbox EXCEPT ![q] = << >>]
    BY <1>6 DEF Leave
  <2>2. CASE p = q
    BY <1>1, <1>4, <2>1, <2>2
  <2>3. CASE p # q
    <3>1. inbox'[p] = inbox[p]
      BY <1>1, <2>1, <2>3
    <3> QED
      BY <1>2, <3>1, NothingIsNew
  <2> QED
    BY <2>2, <2>3
<1>7. ASSUME Forget PROVE DOMAIN New(p) = {}
  BY <1>4, <1>7 DEF Forget, All
<1>8. CASE UNCHANGED allvars
  BY <1>3, <1>8 DEF allvars, added, screens
<1>9. CASE DeliveryNext
  <2>1. ASSUME NEW q \in Programs, Launch(q) \/ LogIn(q) PROVE DOMAIN New(p) = {}
    BY <1>3, <2>1 DEF Launch, LogIn, added, screens
  <2>2. ASSUME NEW q \in Programs, NEW l \in Lines, Type(q, l) PROVE DOMAIN New(p) = {}
    BY <1>3, <2>2 DEF Type, added, screens
  <2>3. CASE Write \/ Archive \/ StartAgain
    BY <1>3, <2>3 DEF Write, Archive, StartAgain, added, screens
  <2>4. CASE BrokenPipe \/ Fails
    BY <1>7, <2>4 DEF BrokenPipe, Fails
  <2> QED
    BY <1>5, <1>6, <1>9, <2>1, <2>2, <2>3, <2>4 DEF DeliveryNext
<1> QED
  BY <1>8, <1>9

(* One new message: what it is of what was sent.                           *)
Came(t, m, p, e) ==
  /\ e.msg.cmd \in Answers \cup Events /\ phase[p] # "GONE"
  /\ e \in Proper(pool, pool', m, t.id) /\ e.to \in Fds /\ conn'[e.to] = p
  /\ Out(t) # << >>

LEMMA WhatCame ==
  ASSUME SessionsInv, DeliveryTypeOK, NEW t, NEW m, Turned(t, m), Deliver(t), NEW p \in Programs,
         NEW k \in DOMAIN New(p)
  PROVE  \E e : Came(t, m, p, e) /\ New(p)[k] = e.msg
<1>1. PICK mine : Arrives(t, m, p, mine)
  BY WhatArrives
<1>2. PICK e : e = Out(t)[mine[k]]
  OBVIOUS
<1>3. /\ mine[k] \in DOMAIN Out(t) /\ New(p)[k] = e.msg /\ e.to \in Fds /\ conn'[e.to] = p
      /\ phase[p] # "GONE"
  BY <1>1, <1>2 DEF Arrives, ReceivedAs
<1>4. e \in Proper(pool, pool', m, t.id)
  BY <1>1, <1>2, <1>3, LenProperties, ElementOfSeq DEF Arrives
<1>5. e.msg.cmd \in Answers \cup Events
  BY <1>4 DEF Proper, Addressed, Delivered, Answers, Events
<1>6. Out(t) # << >>
  BY <1>3, EmptySeq
<1> QED
  BY <1>3, <1>4, <1>5, <1>6 DEF Came

(* Before there are as many accounts as numbers below the first            *)
(* descriptor, what is read where LOGIN is expected and is no LOGIN is not *)
(* answered.                                                               *)
LEMMA OnlyLoginIsAnswered ==
  ASSUME SessionsInv, NEW t, NEW m, Turned(t, m), LetsIn(t, m), Len(pool) <= FirstFd,
         Out(t) # << >>
  PROVE  m.cmd \in {"REGISTER", "LOGIN"}
<1>1. m = Handled(t) /\ ~Crashes(pool, m, t.id) /\ t.id \in Fds
  BY DEF Turned, LetsIn
<1>2. ~Known(pool, t.id)
  <2>1. DOMAIN pool = 1 .. Len(pool) /\ Len(pool) \in Nat
    BY PoolIsFunction DEF SessionsInv, TypeOK
  <2>2. t.id \in Nat /\ t.id >= FirstFd /\ FirstFd \in Nat
    BY <1>1, Constants DEF Fds
  <2> QED
    BY <2>1, <2>2 DEF Known
<1>3. m.cmd \in {"REGISTER", "LOGIN"} \/ (m.cmd = "SET_INFO" /\ ~MaySetInfo(pool, m))
  BY <1>1, <1>2 DEF Crashes
<1>4. m.cmd # "SET_INFO" \/ MaySetInfo(pool, m)
  BY <1>1 DEF Out, Sent, AnswerSetInfo
<1> QED
  BY <1>3, <1>4

-----------------------------------------------------------------------------
(* Who the events of a turn are about and who its answers go to.           *)
NamesTheSpeaker ==
  lives = 1 => \A p, speaker \in Programs : \A k \in DOMAIN New(p) :
    /\ New(p)[k].cmd \in {"LOGOUT_EVENT", "CHAT_WRITE_EVENT"}
    /\ wire[speaker] # << >> /\ wire'[speaker] = << >>
    => \A i \in DOMAIN pool :
         pool[i].online /\ conn[pool[i].socket] = speaker => New(p)[k].about = i - 1

AnswersTheAsker ==
  lives = 1 /\ Len(pool) <= FirstFd => \A p \in Programs :
    (\E k \in DOMAIN New(p) : New(p)[k].cmd \in Answers) => wire[p] # << >> /\ wire'[p] = << >>

LEMMA TurnNamesTheSpeaker ==
  ASSUME SessionsInv, DeliveryTypeOK, NEW t, NEW m, Turned(t, m), Deliver(t),
         Accepted(t, m) \/ LetsIn(t, m) \/ Talked(t, m)
  PROVE  NamesTheSpeaker
<1>1. SUFFICES ASSUME lives = 1, NEW p \in Programs, NEW speaker \in Programs,
                      NEW k \in DOMAIN New(p),
                      New(p)[k].cmd \in {"LOGOUT_EVENT", "CHAT_WRITE_EVENT"},
                      wire[speaker] # << >>, wire'[speaker] = << >>,
                      NEW i \in DOMAIN pool, pool[i].online, conn[pool[i].socket] = speaker
               PROVE  New(p)[k].about = i - 1
  BY DEF NamesTheSpeaker
<1>2. PICK e : Came(t, m, p, e) /\ New(p)[k] = e.msg
  BY WhatCame
<1>3. m.cmd \in {"LOGOUT", "CHAT"} /\ New(p)[k].about = t.id
  BY <1>1, <1>2 DEF Came, Proper, Speaker, Events
<1>4. speaker = t.p
  BY <1>1 DEF Turned
<1>5. /\ pool[i].socket \in Fds /\ pool[i].socket # serving /\ conn[pool[i].socket] # NULL
      /\ \A f, g \in Fds : conn[f] = conn[g] /\ conn[f] # NULL => f = g
  BY <1>1 DEF SessionsInv, OnlineAreWatched, Places
<1>6. CASE Accepted(t, m)
  BY <1>3, <1>6 DEF Accepted
<1>7. CASE LetsIn(t, m)
  BY <1>1, <1>4, <1>5, <1>7 DEF LetsIn
<1>8. CASE Talked(t, m)
  <2>1. t.id + 1 \in DOMAIN pool /\ pool[t.id + 1].socket \in Fds /\ conn[pool[t.id + 1].socket] = t.p
    BY <1>8 DEF Talked
  <2>2. pool[t.id + 1].socket = pool[i].socket
    BY <1>1, <1>4, <1>5, <2>1
  <2>3. t.id + 1 = i
    BY <1>1, <1>5, <2>1, <2>2, Constants DEF SessionsInv, FirstSockets
  <2>4. t.id \in Nat
    BY DEF Turned
  <2> QED
    BY <1>3, <2>3, <2>4
<1> QED
  BY <1>6, <1>7, <1>8

LEMMA TurnAnswersTheAsker ==
  ASSUME SessionsInv, DeliveryTypeOK, NEW t, NEW m, Turned(t, m), Deliver(t),
         Accepted(t, m) \/ LetsIn(t, m) \/ Talked(t, m)
  PROVE  AnswersTheAsker
<1>1. SUFFICES ASSUME Len(pool) <= FirstFd, NEW p \in Programs,
                      NEW k \in DOMAIN New(p), New(p)[k].cmd \in Answers
               PROVE  wire[p] # << >> /\ wire'[p] = << >>
  BY DEF AnswersTheAsker
<1>2. PICK e : Came(t, m, p, e) /\ New(p)[k] = e.msg
  BY WhatCame
<1>3. /\ e.to = IF m.cmd \in {"REGISTER", "LOGIN"} THEN t.id ELSE pool[t.id + 1].socket
      /\ conn'[e.to] = p /\ phase[p] # "GONE"
  BY <1>1, <1>2 DEF Came, Proper
<1>4. wire[t.p] # << >> => wire'[t.p] = << >>
  BY DEF Turned
<1>5. CASE Accepted(t, m)
  <2>1. m.cmd = "REGISTER" /\ conn'[t.id] = t.p /\ wire[t.p] # << >>
    BY <1>5 DEF Accepted, SessionsInv, TypeOK
  <2> QED
    BY <1>3, <1>4, <2>1
<1>6. CASE LetsIn(t, m)
  <2>1. m.cmd \in {"REGISTER", "LOGIN"}
    BY <1>1, <1>2, <1>6, OnlyLoginIsAnswered DEF Came
  <2>2. p = t.p
    BY <1>3, <1>6, <2>1 DEF LetsIn
  <2>3. wire[t.p] # << >>
    BY <1>3, <1>6, <2>2 DEF LetsIn
  <2> QED
    BY <1>4, <2>2, <2>3
<1>7. CASE Talked(t, m)
  <2>1. e.to = pool[t.id + 1].socket /\ conn'[e.to] = t.p /\ wire[t.p] # << >>
    BY <1>3, <1>7 DEF Talked
  <2> QED
    BY <1>3, <1>4, <2>1
<1> QED
  BY <1>5, <1>6, <1>7

ReachesOthersOnce ==
  lives = 1 /\ Len(pool) <= FirstFd => \A p \in Programs :
    LET events == { k \in DOMAIN New(p) : New(p)[k].cmd \in Events }
    IN  /\ Cardinality(events) <= 1
        /\ \A k \in events : \A i \in DOMAIN pool' :
             pool'[i].online /\ conn'[pool'[i].socket] = p /\ New(p)[k].about = i - 1 =>
               Head(wire[p]) = Ask("CHAT", i - 1)

LEMMA AtMostOne ==
  ASSUME NEW S, \A j, k \in S : j = k
  PROVE  Cardinality(S) <= 1
<1>1. CASE S = {}
  BY <1>1, FS_EmptySet
<1>2. CASE S # {}
  <2>1. PICK x \in S : S = {x}
    BY <1>2
  <2> QED
    BY <2>1, FS_Singleton
<1> QED
  BY <1>1, <1>2

LEMMA TurnReachesOthersOnce ==
  ASSUME SessionsInv, SessionsInv', DeliveryTypeOK, NEW t, NEW m, Turned(t, m), Deliver(t),
         Accepted(t, m) \/ LetsIn(t, m) \/ Talked(t, m)
  PROVE  ReachesOthersOnce
<1>1. SUFFICES ASSUME lives = 1, Len(pool) <= FirstFd, NEW p \in Programs
               PROVE  LET events == { k \in DOMAIN New(p) : New(p)[k].cmd \in Events }
                      IN  /\ Cardinality(events) <= 1
                          /\ \A k \in events : \A i \in DOMAIN pool' :
                               pool'[i].online /\ conn'[pool'[i].socket] = p
                               /\ New(p)[k].about = i - 1 =>
                                 Head(wire[p]) = Ask("CHAT", i - 1)
  BY DEF ReachesOthersOnce
<1> DEFINE events == { k \in DOMAIN New(p) : New(p)[k].cmd \in Events }
<1>2. /\ \A i, j \in DOMAIN pool' : pool'[i].socket = pool'[j].socket /\ i # j => pool'[i].socket = Stdin
      /\ \A f, g \in Fds : conn'[f] = conn'[g] /\ conn'[f] # NULL => f = g
      /\ pool' \in Seq(Client)
      /\ p # NULL
  BY <1>1, Constants DEF Turned, SessionsInv, FirstSockets, Places, TypeOK
<1>3. PICK qs : qs = pool'
  OBVIOUS
<1>4. Distinct(qs)
  BY <1>2, <1>3 DEF Distinct
<1>5. Cardinality(events) <= 1
  <2>1. PICK mine : Arrives(t, m, p, mine)
    BY WhatArrives
  <2>2. Once(Out(t))
    BY <1>3, <1>4, <2>1 DEF Arrives
  <2>3. ASSUME NEW j \in events, NEW k \in events PROVE j = k
    <3>1. PICK a, b : a = mine[j] /\ b = mine[k]
      OBVIOUS
    <3>2. /\ a \in DOMAIN Out(t) /\ Out(t)[a].msg.cmd \in Events
          /\ Out(t)[a].to \in Fds /\ conn'[Out(t)[a].to] = p
          /\ b \in DOMAIN Out(t) /\ Out(t)[b].msg.cmd \in Events
          /\ Out(t)[b].to \in Fds /\ conn'[Out(t)[b].to] = p
      BY <2>1, <2>3, <3>1 DEF Arrives, ReceivedAs
    <3>3. Out(t)[a].to = Out(t)[b].to /\ Out(t)[a].to # Stdin
      BY <1>2, <3>2, Constants
    <3>4. a = b
      BY <2>2, <3>2, <3>3 DEF Once
    <3> QED
      BY <2>1, <2>3, <3>1, <3>4 DEF Arrives, ReceivedAs
  <2> HIDE DEF events
  <2> QED
    BY <2>3, AtMostOne
<1>6. ASSUME NEW k \in events, NEW i \in DOMAIN pool', pool'[i].online,
             conn'[pool'[i].socket] = p, New(p)[k].about = i - 1
      PROVE  Head(wire[p]) = Ask("CHAT", i - 1)
  <2>1. PICK e : Came(t, m, p, e) /\ New(p)[k] = e.msg
    BY WhatCame
  <2>2. /\ e.to \in Fds /\ conn'[e.to] = p /\ e.msg.about = Speaker(pool, m, t.id)
        /\ e.msg.about = i - 1
    BY <1>6, <2>1 DEF Came, Proper
  <2>3. PICK r \in DOMAIN pool' :
          /\ e.to = pool'[r].socket
          /\ r = Speaker(pool, m, t.id) + 1 => m = Ask("CHAT", t.id)
    BY <1>6, <2>1 DEF Came, Proper
  <2>4. pool'[i].socket \in Fds
    BY <1>6 DEF SessionsInv, OnlineAreWatched
  <2>5. i = r
    BY <1>2, <1>6, <2>2, <2>3, <2>4, Constants
  <2>6. i \in Nat
    BY <1>2, <1>6, PoolIsFunction
  <2>7. m = Ask("CHAT", t.id)
    BY <2>2, <2>3, <2>5, <2>6
  <2>8. m.cmd = "CHAT" /\ t.id = i - 1
    BY <2>2, <2>7 DEF Ask, Speaker
  <2>9. CASE Accepted(t, m)
    BY <2>8, <2>9 DEF Accepted
  <2>10. CASE LetsIn(t, m)
    BY <1>1, <2>1, <2>8, <2>10, OnlyLoginIsAnswered DEF Came
  <2>11. CASE Talked(t, m)
    <3>1. pool' = pool /\ conn' = conn /\ t.id + 1 = i /\ conn[pool[t.id + 1].socket] = t.p
          /\ wire[t.p] # << >> /\ m = Head(wire[t.p])
      BY <2>6, <2>8, <2>11 DEF Talked, Turned
    <3>2. p = t.p
      BY <1>6, <3>1
    <3> QED
      BY <2>7, <2>8, <3>1, <3>2
  <2> QED
    BY <2>9, <2>10, <2>11
<1> QED
  BY <1>5, <1>6

LEMMA NewsAreRight ==
  ASSUME SessionsInv, SessionsInv', DeliveryInv, DeliveryInv', [DeliveryNext]_allvars
  PROVE  NamesTheSpeaker /\ AnswersTheAsker /\ ReachesOthersOnce
<1>1. CASE Handle
  <2>1. PICK t \in Turns : /\ Accept \/ ReadLogin \/ ReadHangup \/ \E i \in DOMAIN pool : Talk(i)
                           /\ Deliver(t)
    BY <1>1 DEF Handle
  <2>2. PICK m : m = Handled(t)
    OBVIOUS
  <2>3. Turned(t, m)
    BY <2>1, <2>2, AcceptTurns, LetInTurns, TalkTurns
  <2>4. Accepted(t, m) \/ LetsIn(t, m) \/ Talked(t, m)
    BY <2>1, <2>2, AcceptTurns, LetInTurns, TalkTurns
  <2>5. DeliveryTypeOK
    BY DEF DeliveryInv
  <2> QED
    BY <2>1, <2>3, <2>4, <2>5, TurnNamesTheSpeaker, TurnAnswersTheAsker, TurnReachesOthersOnce
<1>2. CASE ~Handle
  <2>1. \A p \in Programs : DOMAIN New(p) = {}
    BY <1>2, OnlyTurnsBringNews
  <2>2. NamesTheSpeaker /\ AnswersTheAsker
    BY <2>1 DEF NamesTheSpeaker, AnswersTheAsker
  <2>3. ReachesOthersOnce
    <3>1. \A p \in Programs : { k \in DOMAIN New(p) : New(p)[k].cmd \in Events } = {}
      BY <2>1
    <3>2. Cardinality({}) <= 1
      BY FS_EmptySet
    <3> QED
      BY <3>1, <3>2 DEF ReachesOthersOnce
  <2> QED
    BY <2>2, <2>3
<1> QED
  BY <1>1, <1>2

(* What is announced of a user, or said by him, comes from the program     *)
(* that is logged in under that account, in the first life of a server     *)
(* (main.c:119, user.h:113, chat.h:23).                                    *)
THEOREM EventsAlwaysNameTheSpeaker == DeliverySpec => EventsNameTheSpeaker
<1>1. /\ SessionsInv /\ NoneWhenDown /\ DeliveryInv
      /\ (SessionsInv /\ NoneWhenDown /\ DeliveryInv)'
      /\ [DeliveryNext]_allvars
      => [NamesTheSpeaker]_allvars
  BY NewsAreRight
<1>2. [][NamesTheSpeaker]_allvars => EventsNameTheSpeaker
  BY PTL DEF EventsNameTheSpeaker, NamesTheSpeaker
<1> QED
  BY <1>1, <1>2, DeliveryInvariant, PTL DEF DeliverySpec

(* An answer goes to the program whose command was read (socket.c:81-88),  *)
(* in the first life of a server that has no account numbered like a       *)
(* descriptor.                                                             *)
THEOREM AnswersAlwaysGoToTheAsker == DeliverySpec => AnswersGoToTheAsker
<1>1. /\ SessionsInv /\ NoneWhenDown /\ DeliveryInv
      /\ (SessionsInv /\ NoneWhenDown /\ DeliveryInv)'
      /\ [DeliveryNext]_allvars
      => [AnswersTheAsker]_allvars
  BY NewsAreRight
<1>2. [][AnswersTheAsker]_allvars => AnswersGoToTheAsker
  BY PTL DEF AnswersGoToTheAsker, AnswersTheAsker
<1> QED
  BY <1>1, <1>2, DeliveryInvariant, PTL DEF DeliverySpec

(* One command makes one event at most for a program, about another's      *)
(* account unless its user chats to himself (socket.c:59-74), in the same  *)
(* circumstances.                                                          *)
THEOREM EventsAlwaysReachOthersOnce == DeliverySpec => EventsReachOthersOnce
<1>1. /\ SessionsInv /\ NoneWhenDown /\ DeliveryInv
      /\ (SessionsInv /\ NoneWhenDown /\ DeliveryInv)'
      /\ [DeliveryNext]_allvars
      => [ReachesOthersOnce]_allvars
  BY NewsAreRight
<1>2. [][ReachesOthersOnce]_allvars => EventsReachOthersOnce
  BY PTL DEF EventsReachOthersOnce, ReachesOthersOnce
<1> QED
  BY <1>1, <1>2, DeliveryInvariant, PTL DEF DeliverySpec
=============================================================================
