# Awalé in TLA+

A verification project for the Awalé game, its server and its client: TLA+
modules of the rules, of the lobbies and games the server keeps, and of its
connections, accounts and database; TLC configurations that check them on small
instances; and theorems about them that TLAPS checks for every value of the
constants. Modules also cover what the server sends, what the client programs
make of it, and commands as text. Paths are relative to the repository.

## The system

| Component | State it keeps | Operations | Depends on |
|---|---|---|---|
| `lib/awale` (rules) | `struct Awale`: grid, scores, turn | `reset`, `play`, `status`, `winner` | nothing |
| `src/awale` (terminal game) | one `struct Awale` | prompt, `play`, announce | `lib/awale` |
| `lib/server` (`lobby.c`, `server.c`) | the lobby table: players, state, game, observers | challenge, answer, play, observe, end | `lib/awale`, `lib/socket` |
| `src/server/handlers` | none of their own | one handler per command | `lib/server`, `lib/socket` |
| `lib/socket/pool.c` | the pool: account, socket, online | add, archive, unarchive, find | nothing |
| `lib/socket/socket.c` | none of its own | read once, write to one client or the pool | the pool, the wire format |
| `lib/cmds` | handler table, database file | dispatch, record, read back, wire format | the handlers |
| `src/server` (`main.c`, `main.h`) | descriptors, `maxfd` | replay, `select` loop, let in, read, archive | all of the above |
| `src/client`, `lib/client` | socket, client id, two threads | REGISTER, LOGIN, typed commands, display | the wire |

The server is one thread. Its `select` loop either lets one new connection in
(two blocking reads: REGISTER, LOGIN) or reads from the first ready client of
the pool; `handle_cmd` then runs one handler to its end, which changes the pool
or the lobby table and sends messages, and a successful command of a persisted
kind is appended to the database. When the server starts, the database is
replayed through the same handlers.

What makes this hard to test: commands of different clients come in any order
and name each other by id; TCP may deliver two commands to one read, or part of
one; clients hang up between any two steps; descriptor numbers are reused, and
events go to every number in the pool; the server may be killed after it
answered and before it wrote, or by the write to a client that has gone; whether
a client is served depends on those before it in the pool; two copies of the
sowing loop have to agree; laps, captures and the famine rule meet in rare
positions. `PROJECT.json` lists these hazards line by line.

## Modules

| Module | Models | State and actions |
|---|---|---|
| `AwaleRules` | every function of `lib/awale/awale.c` | operators on the value of a `struct Awale`; the two sowing loops are two recursive functions, as in the source |
| `AwaleGame` | a game as callers drive it | one action: a call of `play()` and the look at `status()` after it |
| `AwalePlay` | `play()` as it runs | one action per early return, loop iteration and turn end; local variables of the loops |
| `AwaleCli` | `src/awale/main.c` | the prompt loop and its announcements |
| `LobbyLife` | the promise of one lobby (abstract) | Offer, Reject, Accept, Play, Leave |
| `Lobbies` | `lib/server/*.c`, `handlers/challenge.h`, `handlers/game.h` | the lobby table; one action per handler, each with its error paths, crashes and messages |
| `Sessions` | `src/server/main.c`, `main.h`, `pool.c`, `handlers/user.h`, `mediator.c`, `persistor.c`, and when `src/client/main.c` sends | pool, descriptors, database, wires; one action per stretch the server runs without waiting |
| `Delivery` | what the handlers of `user.h` and `chat.h` send, `socket.c`, the lines of `client/mediator.c` and `lib/client/cmd.c` about users and chat, the threads of `client/main.c`, `CLIENT_ID` | `Sessions`, each action conjoined with what its handler sends; inboxes, ids, descriptors whose peer has gone |
| `Wire` | `lib/cmds/cmd.c`, reads and writes of `socket.c`, records of `persistor.c` | characters in flight, a read buffer, the file; send a command, read and handle one |
| `MCLobbies`, `MCSessions`, `MCDelivery`, `MCWire` | | instances for TLC: symmetry, views, inputs |
| `RulesProofs` | | what the operators of `AwaleRules` compute, for boards of every size |
| `AwaleGameProofs`, `AwaleCliProofs`, `AwalePlayProofs`, `LobbiesProofs`, `SessionsProofs`, `DeliveryProofs`, `WireProofs` | | theorems and proofs about the module each is named after |

`AwaleCli` and `AwalePlay` are shown to implement `AwaleGame`: the first because
the terminal loop is such a caller, the second because a call in progress, read
as the game was on entry, changes nothing until it returns. Every entry of the
table of `Lobbies` is shown to implement `LobbyLife` under the mapping that
reads its own state, players and game. `Lobbies` uses `AwaleRules` for its
games, so what it checks is checked with real moves. `Delivery` extends
`Sessions`: its steps are steps of `Sessions` or the end by SIGPIPE, which to
`Sessions` is a `Stop`.

Correspondence worth knowing:

- `Lobbies.request` and `Lobbies.sent` are the last command and the messages its
  handler addressed. No action reads them. A message is addressed to a client
  whether or not it is online; `send_cmd_to_client` drops it when it is not.
- In `Lobbies` a handler that dereferences a null pointer sets `up` to `FALSE`.
  Afterwards no action is enabled, so these runs do not check deadlock.
- In `Sessions`, `wire[p]` is what program `p` sent and the server has not read.
  A read empties it and only its head is handled, as in `main.c` and
  `handle_cmd`. Quitting may or may not send LOGOUT first (SIGINT, or killed).
- `Sessions` separates handling a command from writing its record
  (`write_cmd`), so that a kill can fall between them.
- A record written from a buffer with more than one command keeps the others as
  its `tail`. The file is scanned by words (`"%d\n%s\n"`): a command of decimal
  digits only (`Numerals`; LOGOUT is `03000000`) is taken for an id, and if it is
  the last one, the id line of the next record is taken for its command and that
  record's command is misread (`Swallowed`). `Replay` passes over such a record.
  Whatever is read of a tail may also end the server, so that `Restart` has both
  outcomes for a database with a tail in it.
- `HangUpIgnored` is the round that reads the end of the stream on the socket
  of an account that is not online: nothing changes, and it happens again.
- `Delivery.Turns` names the program whose command or hangup is handled next,
  the id it is handled under and who is connected then; `Out` is the sequence of
  messages its handler writes, in order, each to a socket number. `inbox[p]` is
  what was written to a program and not read. `Read` takes any part of it and
  looks at the first message only, as `read_handler` does.
- A descriptor is `broken` once the server has written to it after its program
  went. The next write, in the same handler or a later one, may end the server
  (`BrokenPipe`): whether the reset has come by then is up to the network, so
  `Handle` stays possible too. This is what a build does: with a client killed
  while the server lets another in, the server exits with status 141.
- `Wire` has one direction of one connection. A character is its value as a
  digit. `Read` takes all there is, all there is room for, or a shorter piece of
  one of the lengths in `Splits`; what earlier reads left in the buffer stays.
- `CHAT` in `Sessions` stands for all commands that change no account and no
  record, and `CHALLENGE` for those on the lobby table: whether they succeed is
  left open once there are two accounts, and with one none can. A replayed one is
  fatal because no lobby table exists yet.

## Runs

Passing:

| Run | Instance | Shows |
|---|---|---|
| `game` | 2 x 3 pits, 3 seeds, 10 wins; every target from -1 to 3 | conservation, turn holder has seeds, the copies of the loop agree, stalemates are final, winners, who a move takes from |
| `cli` | 2 x 3 pits, 2 seeds | the terminal game implements `AwaleGame`; draws are even |
| `play` | 2 x 3 pits, 2 seeds | seeds are conserved at every iteration; the loops implement the atomic step and terminate; no seed goes back |
| `lobbies_games` | 3 clients, 2 lobbies | decided games are closed, running games are sound, lobbies implement `LobbyLife` |
| `lobbies_crowd` | 3 clients, 2 lobbies, 2 scanned slots of 4; a board without moves | offers are unique, answers and changes come from those entitled, observers are distinct, everyone involved is told |
| `sessions` | 2 programs, 2 accounts, a rename, 3 records, two lives | sockets are open and own, names unique, the database faithful where no record is lost, sessions end by hangup, the first life is sound, everyone is served |
| `delivery` | 2 programs, 2 accounts, 5 lines, 2 records, two lives, pages of 1 | the id is right and not missed; events, answers and announcements reach whom they should, saying whom they should |
| `wire` | 4 of 3 commands, a buffer of 20 characters, reads of 9 characters | what fits and starts right is handled, and nothing else read for it; records read back |

The bounds. A board with 3 pits per player has pits that are first, last and in
between, and hands of up to 18 seeds lap it three times, which 2 x 6 pits with
48 seeds do not exceed. Two lobbies are two that may be confused; the third
client makes strangers, crossing offers and two games at once, and as players
may watch their own game, a third watcher for two scanned slots. Games of four
clients side by side are left to the theorems, which hold for any number and
cover every property of the two runs. `lobbies_games` has the moves and
`lobbies_crowd` the watchers; together they would not be small.

Two programs on two accounts take each other's accounts, hang up in every phase
and reuse descriptors; a second life is the first with records and stale
descriptors. `Commands` in `Lobbies` selects which commands a run sends;
`MaxUnread`, `MaxRecords` and `MaxLives` in `Sessions` bound what is typed ahead,
recorded by typed commands, and started. LOGIN and LOGOUT are not bounded by
`MaxUnread`, so coalesced reads occur under it. Any number of programs,
accounts and records is left to the theorems, which cover every safety property
of `sessions` and of `delivery`. In `delivery`, `MaxUnseen`
stops users from typing while a program has an unread message; what the server
sends on its own is not bounded by it, and inboxes grow to several messages. In
its last life nobody reads the database any more, so that states with as many
records there count as one (`DeliveryView`). Three properties of `delivery` hold
in the first life of a server only (`sessions_speaker` shows why) and say so; two
of them are stated for at most `FirstFd` accounts as well, as below.

In `wire` the buffer holds 19 characters and a command with two bytes takes 14,
so two commands never fit, a payload of three bytes just does, and a read of 9
characters ends within a command. The header has 2 and 6 digits as in the code.
`STRUCT_SIZE` is how much of a payload a handler looks at: `StateEvent` carries
more, other commands less than the header claims once a read was cut. Other
commands, buffers and numbers of records are left to the theorems, which cover
every property of `wire`.

`DatabaseRebuildsTheAccounts` is stated for databases whose records are all read
(`AllRead`): a record swallowed by the tail before it is lost, as told below.
`sessions` does reach databases with such records, LOGOUT being sent last and
often read with the command before it; without the premise TLC finds the account
that is lost. It is stated for at most `FirstFd` accounts, too. Beyond
that, a coalesced LOGIN makes the next command be handled under the descriptor's
number as id; with a real account of that number it would change an account
without a record. Below, that id is unknown and the handler crashes
(`ReadLoginCrash`). `EventsReachOthersOnce` and `AnswersGoToTheAsker` have the
same premise: the account of that number would be answered in place of the
program that asked.

Disagreements between the code and what it says of itself, each a run in which
TLC finds the violation:

| Run | What happens |
|---|---|
| `game_stuck` | `can_play` asks for `i - 1` seeds of player 2, where `GRID_ROWS - i` reach the other side, so positions without a move are "not over" |
| `sessions_speaker` | after a restart, commands run under another account |
| `sessions_restart` | a database with a challenge between two accounts cannot be loaded |
| `delivery_sigpipe` | a client that leaves before it is let in ends the server for all |

`game_stuck` asks only for what `can_play` looks for: when the opponent has no
seeds and the game is not over, some pit holds enough to reach his side. In its
trace player 2 has one seed, in a pit that takes two to reach player 1. With `GRID_ROWS - i` in
`can_play` the run finds no violation.

Others were met while modelling. They are in the modules as the code has them;
most of them one command shows, and none has a run of its own:

- `can_play` leaves captures out, with the right bound too: on three pits a pit
  of nine seeds reaches an opponent without any, captures all it drops there on
  the second lap, and is refused; the game is "not over" and has no move.
- A record can be lost when the server is started again. Say a SET_INFO and a
  LOGOUT are read together: the record has both, and when it is scanned back the
  `03000000` is an id and takes the id of the next record for its command. The
  command of that record is then read for an id, and what it registered is
  missing, or it ends the server: with the program built from the source, an
  account `bj` with the password `pp` is missing and the accounts after it are
  there, and most other names end the server at its start.
- A stalemate with unequal scores is shown as a draw by the client
  (`client/handlers/game.c:87`), while the terminal game names a winner.
- The terminal game announces "joueur 1" or "joueur 2" for players its board
  calls 0 and 1.
- Answering a challenger nobody knows ends the server (`challenge.h:48`), and
  the error of an answer without an offer goes to the challenger (`:65`).
- `/game-unobserve` of a game that is not watched starts watching it
  (`lobby.c:61`), and a newcomer to full scanned slots overwrites slot 0.
- The listed wins leave out games won as the challenged player (`user.h:164`).
- After a restart a departure can leave a closed descriptor in the set `select`
  is given, which ends the server: `FirstLifeIsSound` is stated for one life.
- Accepting an offer does not look whether either player is in a game
  (`server.c:226`): crossing offers, both accepted, put a client in two running
  games, and `/game-play` and `/game-leave` mean the first.
- When REGISTER and LOGIN have both arrived at the first read, LOGIN is dropped
  and the second read blocks the whole server until that client types something
  (`WaitsForLogin`). The client sleeps two seconds between them, and the server
  may be blocked that long by the client before, so clients started together
  are enough.
- When a LOGIN has been dropped that way, the command read in its place is
  handled under the descriptor's number as id: whoever has the account of that
  number is answered, and says in the chat what another typed.
- A hangup found on the socket of an account that is not online is never dealt
  with, and starves the accounts after it (`StuckOnHangup`).
- At the end of a first stream `buffer[0]` is 0, which parses as command 0:
  REGISTER, with the payload that is still there, is handled and refused again.
- A refused LOGIN and a refused new name are not answered, and the client has
  printed "Username updated" before it was sent (`client/mediator.c:230`).
- A program that is started again is refused REGISTER and keeps `CLIENT_ID` at
  -1: it never prints "It's your turn!", and `/user` asks for a client nobody
  is. `/user bob` asks for client 0, `/chat` alone reads a pointer never set.
- The number of receivers answered to `/chat` counts those offline; `/chat` to
  the own id comes back as an event.
- The two texts of `on_game_leave_event` are swapped (`client/handlers/game.c:61`).
- A program that is killed sends no LOGOUT, and others are not told; a player
  that disconnects leaves its game running.
- The handler table of the server is not initialised (`main.h:25`), so that
  commands without a handler are undefined rather than ignored.
- `page * PAGE_MAX_CLIENTS` wraps at 2^32 (`user.h:145`): a huge page is page 0.

## Fairness

`AwalePlay` assumes that a call in progress goes on (`WF(Run)`): it is
straight-line code. `Sessions!FairSpec` assumes that the server does something
when it can and that a program that slept goes on to LOGIN; it assumes nothing
of users, who need not type, or of kills. `EveryoneIsServed` is about what
happens when the world falls quiet: from some point on nothing is started,
typed or hung up any more (`<>[][Resting]_vars`). Without that premise it is
false, and rightly so: one descriptor is read per round, in the order of the
pool, and new connections go first, so a client that keeps talking starves those
after it. Under it the server ends down, served, or in one of the two places
named above. `LobbyLife`, `Lobbies`, `Delivery` and `Wire` have no liveness: a
handler is one step, and no client has to send anything.

## Proofs

`RulesProofs` (any number of pits and seeds, any winning score above half of the
seeds) says what the operators of `AwaleRules` compute. Two of them recurse over
data the provers cannot unfold: `SeedsIn` adds up a grid, and the sowing loops
take a hand round the board. Each is described by a relation instead.
`CountsSeeds` has running totals `s` over the pits in order; `PitChange` says how
one seed more or less in a pit shifts them, and `TotalsAreUnique` that they are
what `SeedsIn` computes: at the least pit where they differed, the pit before
would already have. `Sowing` has a run `h` of the loop, one entry per
seed; `SowingExists` builds it by counting up over the numbers of seeds sown
(`CountUp`: a set of numbers with the first and the next of each has them all,
induction without an operator as a parameter), and `SowingIsTheLoop` and
`SowingIsTheCopyLoop` show that either loop of the source ends where the run
does. On runs one argues as one would on paper: two runs on two grids drop the
same seeds (`LoopsAgree`), every entry keeps the seeds (`SowingConserves`),
takes from pits of the other player only and scores what it takes
(`SowingTakes`), and a hand too short for the last pits stays home
(`ShortHandsStayHome`, for the stalemates). Hence what `play` does:
`PlayKeepsCounted`, `PlayKeepsTheTurnHolderInSeeds`, `StalematesAreFinal`.

`AwaleGameProofs` proves every property of `game`. The inductive invariant
`GameInv` has the seeds counted, the player to move in seeds, and `over` just
when `status` says so. That a move leaves the next player seeds is looked up on
the copy, so it takes `LoopsAgree` to know it of the board. The action
properties `DecidedForTheWinner` and `MoverTakesFromTheOpponentOnly` follow from
it with one lemma on what a step is (`StepIsARefusalOrAMove`).

`AwaleCliProofs` proves every property of `cli`: `CliInv` is the same invariant
for the terminal loop, with what was announced of the game; `TerminalPlaysAwale`
shows that each turn of the loop is a turn of `AwaleGame` or none, the two
having the same rules (`SameRules`).

`AwalePlayProofs` proves every property of `play` but its termination. The
inductive invariant `PlayInv` states `SeedsAreConserved` and `CopyWithinSeeds` of
running totals (`SeedsAreCounted`, `CopyIsCounted`), with `TypeOK` and
`NeverSownBack`. Typing needs conservation, since a count is only known to stay
within `TotalSeeds` because all counts together do; conservation needs typing
for the arithmetic; the copy needs the same argument again. That the loops
implement the atomic move (`PlayImplementsAwaleGame`) needs to know how far a
call in progress has come: `InCall` says that it stands at step `n` of a run of
the game on entry, on the copy or on the board. The call returns at the end of
the run, which is what `AwaleRules` computes in one step.

`LobbiesProofs` (any finite or infinite set of clients, any capacity of at least
two). The inductive invariant `TableInv` adds to the properties that the table
is filled in order, so that a new lobby takes an unused entry with no observers,
and that slots beyond the scanned ones are empty, so that a client not found in
the scan is in no slot at all. From it follow `TableTypeCorrect`,
`OffersAreUnique`, `DecidedGamesAreClosed`, `ObserversAreDistinct` and
`OffersAreUnwatched`; the action properties `ChallengedAnswers`,
`StrangersAreHarmless` and `ChangesAreTold`, the last with what each handler
sends; and `TableImplementsLobbyLife`, step by step per handler. Through that
refinement the games come in: a lobby's game changes by `reset` or by a move
only, so `RunningGamesStaySound` follows from `GamesAreCounted` with the lemmas
of `RulesProofs`. For everything else a game stays abstract.

`SessionsProofs` (any finite set of programs, any capacity, number of lives and
records). The inductive invariant `SessionsInv` adds to `TypeOK`:

- `Places`: every program is in one place. Those waiting in the backlog are
  distinct and on no descriptor, those on descriptors are on one each, the rest
  are off. There are as many descriptors as programs, so a pigeonhole
  (`ThereIsADescriptor`) shows that `accept` finds one.
- `Speech`: what a program has sent and may send in each phase, so that the
  LOGIN read second carries the name its REGISTER had.
- `Names` and `Records`: names are unique in the pool, and what is recorded can
  be replayed. The replay is a recursive function; `ReplayIsSound` shows it
  keeps types and names by the least number of records at which it would not
  (`LeastExists`), since induction theorems with an operator parameter cannot be
  used.
- `OnlineAreWatched`: an account online is on a descriptor of its own that is
  open, not being let in, and counted in `maxfd`. `LetIn` keeps it because LOGIN
  needs an account that is offline.
- `FirstSockets`: in the first life, a socket number in the pool is of a
  connection that is open, and the only account it was registered for is the
  one that may log in on it.

From it follow `SessionsTypeCorrect`, `NamesStayUnique`, `OnlineSocketsStayOwn`,
`FirstLifeStaysSound` and, as an action property, `SessionsLastUntilHangup`.

`DatabaseStaysComplete` has an invariant of its own, `Rebuilds`. It is about
`Recorded`, the database with the record still to be written, so that it holds
between handling a command and writing it too. `ReplayOfOneMore` says that one
more record is replayed on what the others gave (two runs of the recursive
replay agree, again by the least number at which they would not), and
`ReplayedAlike` that a record does the same to two pools with the same accounts,
whatever their sockets. A SET_INFO read where LOGIN is expected is the case that
needs the bound on accounts. The premise `AllRead` is needed because the replay
passes over swallowed records, in the runs as in the code; whether a record is
swallowed is up to the one before it, so that records stay read once they are.

`DeliveryProofs` proves every property of `delivery`, on top of `SessionsProofs`:

- `DeliveryImplementsSessions`: each step is a step of `Sessions`, a `BrokenPipe`
  being a `Stop`, so that all that is proved of `Sessions` holds here.
- `SentIsProper` says of each handler what it writes and to whom (`Proper`):
  answers to the asker's socket number, an id only to a new account, events about
  the speaker and to numbers of the pool, never two to one number unless two
  accounts share it (`Once`), none to the speaker's but when he chats to himself.
- `WhatArrives` is what a program finds of it: the part of `Out` written to its
  descriptor, in order (`InOrderLists`, since `InOrder` is a loop).
- `DeliveryInv` adds to `TheIdIsNotMissed` where the ids are that a program may
  come to believe (`IdsAreOwn`: the one it holds, and any on its way to it) and
  that a program that is not connected has none on its way (`Unconnected`).
  `OwnIdIsRight` alone is not inductive: an id is wrong once it was wrong in the
  inbox. It needs `OnlineSocketsStayOwn`, so that no second program is logged
  in on the account, and that a LOGIN read second carries the name its REGISTER
  had (`Speech`).
- For the three action properties, only turns bring news (`OnlyTurnsBringNews`),
  and the socket numbers in the pool are right, in the first life because of
  `FirstSockets` (`TurnNamesTheSpeaker`, `TurnAnswersTheAsker`,
  `TurnReachesOthersOnce`).

`WireProofs` proves every property of `wire`, for any commands, any size of the
buffer that has room for what a handler looks at, any way of splitting reads and
any number of records. A loop over characters is a recursive function, and what
is proved of one is stated of any function that runs as it does, which `CountUp`
and `LoopExists` show there to be exactly one of: `Values` are the values of the
first digits (`StrtolIs`), `Joins` the first texts put together
(`FlattenIsJoined`), `Tails` what is left of the file (`LeftIs`).

- `NumeralOfByte` and `NumeralOfLength`: strtol reads what `%02X` and the like
  wrote, two digits or six.
- `InlineSpells` and `ParseIsMeant`: a buffer that begins with the digits of a
  command parses to it, whatever follows.
- `ReadIs` says of a read which commands it took to their ends and what the
  buffer has then (`Reading`). From it follow `WireTypeCorrect`, whose invariant
  is that what has been read of a command is less than its line, and
  `FirstCommandHandled`: `parse_cmd` gives the command, and the digits its loop
  looks at are all in what was read (`FirstIsInTheString`). It says nothing of a
  read that has part of a command: there the loop (`cmd.c:35-43`) goes on for as
  long as the header says, past the buffer too, which may end the reader. The
  module has the reader that came back from the loop; one that ended takes no
  further step, which every behaviour of the module may do.
- `RecordsReadBack` has the invariant `FileInv`: the file is the texts of the
  first records, those that are clean, with something after them that does not
  begin with a space, or nothing if all are. The last part is what makes it
  inductive: reading a record skips the spaces after it, so it has to be known
  that the next one begins with its client's id (`RecordBegins`) and not with
  the line ends of this one. `RecordIsRead` follows the conversions of `fscanf`
  through one record, `CleanIsWhole` shows that the text of a clean one is one
  line that was sent, whole.

Assumptions: `RulesAssumption`, `LobbiesAssumption`, `SessionsAssumption` (among
others that no REGISTER, LOGIN or SET_INFO has a text of decimal digits only:
some byte of the name or password has a letter in hexadecimal),
`NullAssumption` (no record of the database is the value for none),
`DeliveryAssumption`, `LinesAssumption` (what a line becomes is a command that
programs may send) and `WireAssumption` (a payload is bytes, as many as six
digits can count; the buffer holds more than a handler looks at), which TLC
evaluates in every run of their modules.

Model-checked only: the liveness properties `PlayReturns` and `EveryoneIsServed`,
since liveness and `ENABLED` are out of the prover's reach. Every other property
of a passing run is a theorem. Induction over data with an operator as a
parameter is out of reach too; counting up on sets (`CountUp`, `LeastExists`)
takes its place.

## Not modelled

Display, printing helpers and the build. The texts of challenge and game
commands as typed: `Lobbies` takes any id and target as input, which is what
`atoi` can make of a line. The wins and losses of the user list. Names are model
values: truncation to 12 bytes and descriptions are left out, as are messages'
texts. A `send` that takes part of a command only, and a connection that fails
otherwise than by its program leaving. Reads that cut a command are in `Wire`
only: in `Sessions` and `Delivery` a read takes whole commands. A command of
which the replay reads but a part, behind a tail, is lost or fatal in `Sessions`;
that it might be handled under a stray number that is an account's is left out.
`Delivery` does not include the messages of challenges and games, whose
addressees are in `Lobbies`.

## Plan

What could come next:

- Composition of `Sessions` with `Lobbies`: offline players miss what they are
  sent, disconnected ones leave lobbies running, and the replay meets the real
  table.
- Liveness of the table of `Lobbies`: which lobbies are never closed, and what
  the handlers would have to do for them to be.
