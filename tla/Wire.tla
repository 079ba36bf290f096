-------------------------------- MODULE Wire --------------------------------
(***************************************************************************)
(* Commands as text: lib/cmds/cmd.c, what lib/socket/socket.c sends and    *)
(* reads, and the records lib/cmds/persistor.c writes and reads back.  One *)
(* side of a connection sends; the other reads what of it has arrived into *)
(* a buffer and handles one command.  A character is its value as a        *)
(* hexadecimal digit, or one of the three that are none.                   *)
(***************************************************************************)
EXTENDS Naturals, Sequences, SequencesExt, FiniteSetsExt

CONSTANTS
  Cmds,         (* [id, data] that may be sent; data is a sequence of bytes *)
  Persisted,    (* the ids whose handlers are registered with PERSIST       *)
  CLIENT_ID,    (* the id records are written under; one decimal digit      *)
  BUF_SIZE,     (* 2048 in socket.h                                         *)
  STRUCT_SIZE,  (* bytes of payload a handler looks at                      *)
  Splits,       (* bound: how short a read may be while there is more       *)
  MaxSent       (* bound on the commands sent                               *)

CMD_ID_SIZE == 2
PAYLOAD_LENGTH_SIZE == 6
HEADER == CMD_ID_SIZE + PAYLOAD_LENGTH_SIZE

ASSUME WireAssumption ==
  /\ \A c \in Cmds : /\ c \in [id : 0 .. 255, data : Seq(0 .. 255)]
                     /\ Len(c.data) < 16 ^ PAYLOAD_LENGTH_SIZE
  /\ CLIENT_ID \in 0 .. 9
  /\ {BUF_SIZE, STRUCT_SIZE, MaxSent} \subseteq Nat
  /\ HEADER + 2 * STRUCT_SIZE < BUF_SIZE

CR == 16
LF == 17
NUL == 18
CRLF == << CR, LF >>
Space == {CR, LF}

VARIABLES
  sent,         (* how many commands were sent                              *)
  pending,      (* commands sent that are not wholly read                   *)
  offset,       (* characters read of the first of them                     *)
  buffer,       (* the reader's                                             *)
  file,         (* the text of the database                                 *)
  records       (* what was written to it, and if from one whole command    *)

vars == << sent, pending, offset, buffer, file, records >>

-----------------------------------------------------------------------------
(* "%02X" and its like, and strtol.                                        *)
Numeral(n, width) == [i \in 1 .. width |-> (n \div 16 ^ (width - i)) % 16]

Run(s, Chars) ==
  CHOOSE k \in 0 .. Len(s) :
    (\A i \in 1 .. k : s[i] \in Chars) /\ (k < Len(s) => s[k + 1] \notin Chars)

SkipSpace(s) == SubSeq(s, Run(s, Space) + 1, Len(s))

strtol(s, base) ==
  LET t == SkipSpace(s)
      value[k \in 0 .. Len(t)] == IF k = 0 THEN 0 ELSE base * value[k - 1] + t[k]
  IN  value[Run(t, 0 .. base - 1)]

(* Plausible slip: "%X" leaves the zero of a small byte out.               *)
inline_cmd_unpadded(c) ==
  Numeral(c.id, CMD_ID_SIZE) \o Numeral(Len(c.data), PAYLOAD_LENGTH_SIZE)
    \o FlattenSeq([i \in DOMAIN c.data |-> Numeral(c.data[i], IF c.data[i] < 16 THEN 1 ELSE 2)])

inline_cmd(c) ==
  Numeral(c.id, CMD_ID_SIZE) \o Numeral(Len(c.data), PAYLOAD_LENGTH_SIZE)
    \o FlattenSeq([i \in DOMAIN c.data |-> Numeral(c.data[i], 2)])

Parsed(b, step) ==
  LET len == strtol(SubSeq(b, CMD_ID_SIZE + 1, HEADER), 16)
  IN  [id |-> strtol(SubSeq(b, 1, CMD_ID_SIZE), 16), len |-> len,
       data |-> [i \in 1 .. Min({len, STRUCT_SIZE}) |->
                   strtol(SubSeq(b, HEADER + step * i - 1, HEADER + step * i), 16)]]

(* Plausible slip: the loop advances a character, not a byte, at a time.   *)
parse_cmd_by_character(b) == Parsed(b, 1)

(* The length may be anything: a handler looks at the first bytes only.    *)
(* The loop goes through all of it, past the end of the buffer too, or     *)
(* malloc fails: if that ends the reader, the behaviour just stops here.   *)
parse_cmd(b) == Parsed(b, 2)

Meant(c) ==
  [id |-> c.id, len |-> Len(c.data), data |-> SubSeq(c.data, 1, Min({Len(c.data), STRUCT_SIZE}))]

write_to_socket(text) == text \o CRLF

Text(cs) == FlattenSeq([i \in DOMAIN cs |-> write_to_socket(inline_cmd(cs[i]))])

Stream == SubSeq(Text(pending), offset + 1, Len(Text(pending)))

String(b) == SubSeq(b, 1, Run(b, 0 .. NUL - 1))

Filled(s) == [i \in 1 .. BUF_SIZE |-> IF i <= Len(s) THEN s[i] ELSE NUL]

-----------------------------------------------------------------------------
(* The records: "%d\n%s\n" both ways; strtok only cuts a copy.             *)

(* Plausible slip: the copy is cut where its line ends, which then has none.*)
write_cmd_unended(text, b) ==
  text \o << CLIENT_ID, LF >> \o SubSeq(String(b), 1, Run(b, 0 .. 15))

write_cmd(text, b) == text \o << CLIENT_ID, LF >> \o String(b) \o << LF >>

(* One record and what is left; what a failed conversion leaves is not     *)
(* looked at.                                                              *)
read_cmd(text) ==
  LET number == SkipSpace(text)
      digits == Run(number, 0 .. 9)
      word   == SkipSpace(SubSeq(number, digits + 1, Len(number)))
      length == Run(word, 0 .. 15)
  IN  [client_id |-> strtol(SubSeq(number, 1, digits), 10),
       cmd |-> parse_cmd(Filled(SubSeq(word, 1, length))),
       rest |-> SkipSpace(SubSeq(word, length + 1, Len(word)))]

(* The text the loop of main.h has left after n records.                   *)
Left(n) ==
  LET left[k \in 0 .. n] == IF k = 0 THEN file ELSE read_cmd(left[k - 1]).rest
  IN  left[n]

-----------------------------------------------------------------------------
(* The buffer is not initialised.                                          *)
Init ==
  /\ sent = 0 /\ pending = << >> /\ offset = 0
  /\ \E any \in {0, 15, NUL} : buffer = [i \in 1 .. BUF_SIZE |-> any]
  /\ file = << >> /\ records = << >>

send_cmd_to(c) ==
  /\ sent < MaxSent
  /\ sent' = sent + 1
  /\ pending' = Append(pending, c)
  /\ UNCHANGED << offset, buffer, file, records >>

(* Plausible slip: no character is left for the end of the string.         *)
NoRoomForNul == BUF_SIZE

Room == BUF_SIZE - 1

(* recv takes as much as it finds and has room for; the network may have   *)
(* split what was sent.  The command at the start of the buffer is         *)
(* handled; ok says that a handler registered with PERSIST succeeded.      *)
Read(n, ok) ==
  LET whole == Max({ k \in 0 .. Len(pending) : Len(Text(SubSeq(pending, 1, k))) <= offset + n })
      cmd   == parse_cmd(buffer')
  IN  /\ n = Min({Len(Stream), Room}) \/ (n \in Splits /\ n < Len(Stream))
      /\ n > 0
      /\ buffer' = [i \in 1 .. BUF_SIZE |->
                      IF i <= n THEN Stream[i] ELSE IF i = n + 1 THEN NUL ELSE buffer[i]]
      /\ pending' = SubSeq(pending, whole + 1, Len(pending))
      /\ offset' = offset + n - Len(Text(SubSeq(pending, 1, whole)))
      /\ ok => cmd.id \in Persisted
      /\ IF ok
         THEN /\ file' = write_cmd(file, buffer')
              /\ records' = Append(records, [cmd |-> cmd, clean |-> offset = 0 /\ whole = 1
                                                                    /\ offset' = 0])
         ELSE UNCHANGED << file, records >>
      /\ UNCHANGED sent

Next ==
  \/ \E c \in Cmds : send_cmd_to(c)
  \/ \E n \in 1 .. Room : \E ok \in BOOLEAN : Read(n, ok)

Spec == Init /\ [][Next]_vars

-----------------------------------------------------------------------------
(* What was read is a string, in the buffer whole (socket.c:30-34).        *)
WireTypeOK ==
  /\ sent \in 0 .. MaxSent
  /\ pending \in Seq(Cmds) /\ Len(pending) <= sent
  /\ offset \in 0 .. IF pending = << >> THEN 0 ELSE Len(Text(SubSeq(pending, 1, 1))) - 1
  /\ buffer \in [1 .. BUF_SIZE -> 0 .. NUL]
  /\ offset > 0 \/ Len(pending) < sent => \E i \in 1 .. BUF_SIZE : buffer[i] = NUL
  /\ file \in Seq(0 .. NUL - 1)

(* A read that starts where a command does and takes all of it makes the   *)
(* reader handle that command, whatever came along with it and whatever    *)
(* the buffer held (cmd.c:10-84, socket.c:15-37), and every digit that the *)
(* loop of cmd.c:35-43 looks at was in this read.  It is not so of a read  *)
(* that takes part of a command, or begins within one: the loop then reads *)
(* what was left in the buffer or lies behind it, which may end the reader *)
(* before it has caught up.                                                *)
Handles(b, c) ==
  /\ parse_cmd(b) = Meant(c)
  /\ HEADER + 2 * Len(c.data) <= Len(String(b))

FirstIsHandled ==
  [][ Len(pending') < Len(pending) /\ offset = 0 => Handles(buffer', pending[1]) ]_vars

(* The records that were each written from one whole command are read back *)
(* as they were handled (persistor.c:34-62), up to the first that was     *)
(* not: what that one does to the file does not reach back.                *)
FileReadsBack ==
  \A n \in DOMAIN records :
    (\A k \in 1 .. n : records[k].clean) =>
      LET r == read_cmd(Left(n - 1))
      IN  r.client_id = CLIENT_ID /\ r.cmd = records[n].cmd
=============================================================================
