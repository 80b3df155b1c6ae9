# WeFish in TLA+

WeFish is a chat server (`server/`), a file server (`fserver/`) with its client
(`fclient/`), and an old example of a chat client (`client/`). All of them are
C++ programs over Boost.Asio that exchange lines of encrypted JSON-RPC over TCP.
This directory holds TLA+ models of the parts where things happen in an order
nobody wrote down, runs of the model checker TLC on small instances of them, and
proofs, checked by TLAPS, for instances of every size.

Line numbers below are those of the sources; `PROJECT.json` maps each definition
that models code to its lines.

## 1. The system

### Components, state and operations

| component | source | state | operations | model |
|---|---|---|---|---|
| Room | `server.hpp`, `class Group` | `participants_`, `recentMessages_` (at most 100), `mutex_` | `Join`, `Leave`, `Deliver` (three), `Flush`, `GetActiveList`, `DataUpdate` | `Group` |
| Chat sessions | `server.cc`, `Session`, `Server` | socket, `messages_` (write queue), `account_`, `name_`, `icon_` | accept, read a line, the requests, `Deliver`, completion and error of a write, error of a read | `ChatServer` |
| Icons | `server.cc:117-125` | the icon of an account in the data base, at its sessions and in the history | `SettingRequest` with an icon | `Icons` |
| Accounts | `server.cc:42-127`, `sbase.h` | SQLite tables of users and of the invite code | `RegisterRequest`, `SettingRequest`, `PermissionRequest` | `Accounts` |
| Upgrades | `fserver.cc:42-165`, `fclient.cc:186-241` | the package in `./release/`, `v_section_`, `upgrade_file_content_`, `data_consume_`, the client's stream | `VersionCheck`, `UpgradeRequest`, `UpgradeFileTransfer`, and the client's answers | `Upgrade` |
| Relay of files | `fserver.hpp:52-83`, `fserver.cc:109-132,186-272`, `fclient.cc:243-391` | the file server's `participants_`, the receiver's `container_`, the sender's remaining bytes | `SayHello`, `VersionCheck`, `FileTransfer`, `SendFile`, reassembly | `FileRelay` |
| Connection of fclient and of the old client | `fclient.cc:37-131,393-450`, `client.cc` | socket, strand, `messages_` | `doConnect`, `SendAsync`, `doWrite`, `doRead`, `doDisconnect`, signals | `Connection` |
| Lines | `server.cc:28-241`, `fserver.cc:42-245`, `fclient.cc:86-282` | `upgrade_file_size_`, `upgrade_stream_` as far as they decide | cut, parse, handle, answer, relay | `Lines` |
| JSON-RPC | `common/jsonrpcpp.hpp` | none | `do_parse`, `to_json`, `Parameter::get` | `JsonRpc` |
| JSON | `common/json.hpp` | none | `parse`, `dump`, the lexer, `get<int>` | `JsonText`, `JsonString`, `JsonNumber`, `Texts` |
| Base64 | `crypto/base64.cc` | none | `Encode`, `Decode` | `Base64`, `Texts` |
| AES, MD5 | `crypto/cryptor.h` | none | | not modelled |

### How they interact

- A **chat session** reads one line at a time. Its handler changes the room
  (`Join`, `Leave`), has the room deliver a line to the other participants (which
  puts it on their write queues), reads and writes the data base through `SBase`,
  and puts the response on its own queue. Everything here runs in the one thread
  that calls `io_context.run()`.
- An **icon change** is the exception: `SettingRequest` detaches a thread that
  runs `Group::DataUpdate`. It walks `recentMessages_` and `participants_` of the
  room without holding `mutex_`, except for the assignment of a single message.
- The **file server** has a `Group` of its own, with neither history nor mutex,
  and reads a package with four threads that it joins in the handler.
- **fclient** has one io thread, and a detached thread that reads a file and sends
  it. The two meet in the strand of `Connection`. The **old client** has the same
  class, and a detached thread that reads what is typed.
- Every message between two programs is a **line** of JSON-RPC. Whoever reads it
  cuts it behind its first `}}`, parses it, and answers, relays its parameters, or
  ends in one way or another that nobody planned.

### What is hard about it

Threads that read a deque while another one pushes and pops; indices that are
used after the deque has moved; write queues whose front is owned by a write
under way; handlers that fail half-way, after they have joined the room; several
SQL statements without a transaction; return values that are ignored; packages
replaced while they are read; percentages that end a transfer; senders that are
lost in the middle of a file; messages posted before the connection is up; lines
that are cut where they do not end, and exceptions that nobody catches.
`PROJECT.json` lists each hazard with its line and with the properties that would
catch it going wrong, or the reason why none does.

## 2. The modules

`X` is modelled in `X.tla`, instantiated for TLC in `MCX.tla` with its `.cfg`
files, and proved about in `XProofs.tla`.

```
  ChatRoom  <-- refined by --  ChatServer  -- extends -->  Group
                               Icons       -- extends -->  Group
  Pipe      <-- refined by --  Connection
  Accounts      Upgrade      FileRelay
  Lines  -- extends -->  JsonRpc  -- extends -->  JsonText
  Texts  -- instantiates -->  JsonString    JsonNumber    Base64
```

### Group

One action per member function and one per step of `DataUpdate` that another
thread can see: the check for an empty history (`UpdateStart`), the test of the
bound (`UpdateTest`), `at(idx)` with the parse (`UpdateRead`), the two exceptions
it may throw (`UpdateThrow`, `UpdateTypeError`), the lock (`UpdateLock`), the assignment and the unlock (`UpdateWrite`), and the loop
over the participants (`UpdateIcons`). `Deliver` with history is two actions,
because the threads can see the deque between the push and the trim.

A message is its number, its author and its icon. The author is the `Account` the
request names, whoever sends it; it is copied without a look at it
(`server.cc:33`), so it may be no number (`NoNumber`), and then the conversion in
`DataUpdate` (`server.hpp:121`) throws, at the next icon change of anybody.
`participants` counts how often
a session is on the list, because a session that says hello twice is on it twice.

Data races and the use of a destroyed session are undefined behaviour. Such a
step goes on, or leaves `process` at `"undefined"`, where nothing happens any
more (`MayGoWrong`); the conditions (`RacesWithDeliver`, `RacesWithRewrite`,
`RacesOnIcons`, `WalksParticipants`) say which steps these are. So the properties
speak of the behaviours in which the build happens to do what the source says
step by step: they say what is lost even then. An exception in a detached thread
ends the server: `process = "terminated"`.

### Icons

`Icons` puts the data base next to the room. `ChangeIcon` is the whole handler of
`SettingRequest` with an icon: it stores the icon and detaches a thread; every
other step is one of `Group`. Requests are stored in their order, threads end in
any, so what can be promised is `IconsSettle`: once no change of an account is
under way, the sessions and messages that were there when the last one was asked
for show the stored icon or, if changes overlapped or the data base did not take
one of them, one of those asked for meanwhile. For the handler ignores what
`UpdateByID` returns (`server.cc:119`): the thread runs and the room is told also
when the statement failed (`works`). The history variable `asked` remembers what that promise needs. One
exception is the code's own: `DataUpdate` returns before it comes to the
participants if the history is empty (`server.hpp:115`), which `skipped` records.

### ChatServer and ChatRoom

`ChatServer` extends `Group` with the sessions. A handler of the io thread is cut
into steps only where a `DataUpdate` thread could tell; `io` says which handler
is under way. `messages` is the write queue, `inflight` the buffers given to
`async_write` whose handler has not run, `wire` (history variable) what was
written. The requests that only touch the data base are one action, `Answer`.

`ChatRoom` is what users expect: whoever comes in is given the latest messages,
and from then on each message of somebody else once, in order. It has no queues,
sockets or locks. `ImplementsRoom` is the refinement; it holds while nobody is on
the list twice (`OnListOnce`) and the history has its messages in order
(`HistoryIntact`). Outside of that it is false of the code: a client that says
hello twice gets everything twice, and a late rewrite puts an old message over a
newer one. `RoomSteps` says that nothing else is wrong even then: every step of
the server is one of the room or none, but for the end of a `Deliver` over a list
with a session on it twice, and for an answer out of a damaged history.

`IgnoreLine` is the line with `Cookie: mstshash=hello` in it, for which `doRead`
returns without reading on (`server.cc:209`). Any session may send it. A member
that does stays on the list as a ghost (`phase` is `"ignored"`), because the error
of the next read is what takes sessions off: `NoGhostMember`, `TheGoneLeave` and
`OfflineAnnounced` are stated around this one ghost, which goes only if a write to
it fails.

### Accounts

One action per SQL statement. Any statement may fail without being noticed (the
handlers ignore what `SBase` returns), and the process may end between two of
them; both are a *lapse*, counted by `lapses`. `SBase` itself is a binary
(`libsbase.a`) with a header: its functions are modelled as the server uses them.
Reads are assumed to work. An account that does not exist is read with the empty
password (`NoPassword`), so that a change of its password is acknowledged, too.

An acknowledgement says nothing about the statements behind it
(`server.cc:63-66`, `109-111`), and `told` remembers what it said: the password
last acknowledged for each account, by a registration or by a change. `Misled` are
the accounts where this one does not log in.

### Upgrade

A client, its session, and an administrator who may replace or remove the package
at any moment. Bytes are known by package and place. `SumOf` makes the MD5 sum of
a file the file itself. The arguments of `write(Pop().c_str(), Size())`
(`fclient.cc:231`) are evaluated in an order the language leaves open before
C++17: `sizeFirst` is that choice, made once for a build. An empty package makes
`fserver.cc:151` divide by zero: `link = "undefined"`.

### FileRelay

Several clients, some of which send. What lies between two ends of a connection is
one sequence, and `Pipe` says why it may be. When a connection breaks, what is on
its way to the client is lost, and of what is on its way to the server a prefix
is still read. All transfers have the same checksum (`fclient.cc:352`), which is
the key of `container_`, so each client has one stream for all senders. `SendFile`
always sends to the room (`to_account = 0`); the server's other branch is reached
by `Addressees` with an account in it.

### Connection and Pipe

`program` tells the two programs that have this class apart; it is chosen in
`Init` and never changes. `main` of fclient posts its first two lines before
`io_context.run()`, and the user of the old client may type something as early,
so the first write starts on a socket that is still connecting. Boost.Asio queues
it behind the attempt to connect, and it fails when this attempt fails, while
`async_connect` goes on with the next endpoint (`localhost` has two, and the
server listens on IPv4 only; the old client has a single address). The handler of
the failed write then closes whatever socket there is (`fclient.cc:126`). `Pipe`
is the abstract view: the lines that arrive are the first ones that were sent,
until it breaks. `ImplementsPipe` says that `Connection` is one: the closed socket
is what keeps `VersionCheck`, or a block of a file, from getting through without
the lines before it.

`TypeLine` is the input thread of the old client. It looks at `isProcessing_`
(`~stopped`) before each line, so one more line is sent after `Stop`. `Stop` is
`doDisconnect`, which does nothing if a failed write has closed the socket
already: then the process stays until a signal comes, and `stopped` is all that
the reader's error leads to.
`ReadThrows` is a handler whose exception reaches `main`; which lines do that is
in `Lines`.

The actions `AttemptSucceeds`, `AttemptFails` and the predicate `Usable` stand for
the library. `AttemptSucceeds` is also allowed between the failure of a write and
its handler, which the scheduler of the library hardly does; this adds behaviours
and takes none away.

### Lines, and what they are made of

`Lines` follows one line: from a client over a server to whoever reads the answer
or the notification, who may send the next one. `at` is the program that reads it,
`leg` whether it was sent, answered or relayed, and `fate` what reading it made of
the program: `"running"`, `"deaf"` (the handler returned without reading on),
`"ended"` (an exception left `io_context.run()`) or `"undefined"` (a null pointer,
a function without its return value, a division by zero). `SessionHandles` and
`FSessionHandles` have a record per request, with the parameters that are read and
their types, the members of the answer, and the parameters of the notification;
what depends on the data base or on the package is a choice. `SendOdd` stands for
other programs: it takes one member of a line away, or gives it another value,
spells strings with escapes, puts blanks between closing braces (`Aired`), or
changes the text itself in one place.

A message for all is kept by the server. `kept` says whether one with an `Account`
that is no int is among them: then another client sends its next request
(`NextRequest`), and the one that changes an icon ends the server
(`DataUpdateThrows`). Nothing else of one line makes a difference to the next,
which is why every other server is that of `LinesInit`.

A line is the sequence of its symbols. Of the characters of a string only one
thing matters to the cut: whether they hold `}}` (`Braces`) as they stand (`raw`).
So a text that a `}}` inside a string cuts ends in a symbol that is no token.

`JsonText` is the parser of `json.hpp`, a pushdown automaton over symbols with the
DOM that `json_sax_dom_parser` builds, and the serializer; its reference is the
grammar of JSON, written as the places where a text may be split. `JsonString` is
the lexer's `scan_string`, byte by byte, and the serializer's `dump_escaped` with
the table of its UTF-8 automaton. `JsonNumber` has `scan_number` with its labels as
states, `dump_integer` as a recursive function that takes the last two digits at a
time, and the conversion to `int`; half of each range is a constant (`Wide`,
`Narrow`), so that what is proved holds for 2^63 and 2^31. `JsonRpc` decides what an
entity is and throws where the constructors throw. `Base64` is written by the place
of a character and of a byte instead of by the loop.

`Texts` puts the last three together: a string, a number or a block grows by one
piece after the other, and each of three properties is about one of them. It reaches
no recursive operator, so `TextProofs` is about its specification; `MCText` extends
it and `Lines`, so that one run checks both.

## 3. The runs

State counts and times are for two workers on a laptop.

| run | what it shows | distinct states |
|---|---|---|
| `group` | two icon changes of an account in a room with a deque of two messages, of which one is trimmed: what the unlocked scans may do to it, which writes alone may damage it, and that data base, members and history agree in the end, as far as changes do not overlap and are stored | 1.3 million, 170 s |
| `chat` | two sessions, two messages, a history of one: nobody hears of the room before the answer to its hello, queues are written in order, and the server implements the room | 2.5 million, 110 s |
| `chat_twice` | `RoomSteps` where one session may say hello twice and changes its icon while the history is trimmed | 2.2 million, 140 s |
| `chat_live` | sessions, of which one may say hello twice, leave with all their nodes and the others are told, unless a line has ended the reading; what is queued for a client that reads is written | 40 thousand, 30 s |
| `accounts` | numbers, invite codes and passwords with two lapses | 252 thousand, 20 s |
| `upgrade` | packages of up to three blocks, replaced once: nothing lost, the client stops in time, no mixture passes, the upgrade ends | 155 thousand |
| `relay` | two of three clients send: pieces stay whole, and a client that heard of one sender saves its whole file | 1.2 million, 40 s |
| `relay_live` | one client sends to the room or to an account: it arrives, and nowhere else | 449 thousand, 90 s |
| `connection` | five lines of either program, one or two endpoints: a pipe, with one write at a time; lines are written and the loss of the server is noticed | 5 thousand |
| `text` | every line of the clients and every one that differs from it in a place; and all short texts, strings, numbers and blocks | 594 thousand, 75 s |
| `cut` | a violation, see below | |

### The properties

- **Group, Icons.** `NoForgery`: although a thread writes back what it read at an
  index that may have moved, every entry is a message that was sent, with its
  author. `NothingLostBeforeLimit`: until the first trim nothing is lost, doubled
  or moved. `NeverAheadOfSlot`: past it, no entry is newer than its place admits.
  `ThrowsOnlyPastLimit`: what ends the server is the `out_of_range` of `at(idx)`,
  which needs a trim, or the `type_error` of a message whose `Account` is no
  number, and nothing else. `ScannedPrefixRewritten`: what a thread has scanned has the new
  icon. `OnlyLateWritesDamage`: the history leaves the order of its messages only
  when a thread writes back a message that a trim has moved since it was read. `UpdatesEnd`: threads end although the deque grows. `IconsSettle`: see
  above.
- **ChatServer.** `WrittenInOrder`: the client reads what was delivered to it, in
  this order. `ImplementsRoom`, `RoomSteps`: see above. `RoomAfterHello`: nothing of
  the room comes before an answer to a hello. `NoGhostMember`: no session whose
  read has failed stays on the list. `TheGoneLeave`, `OfflineAnnounced`.
  `QueuesDrain`: each message to a client that reads is written, behind whatever is
  queued before it, although the other client need not read.
- **Accounts.** `NumberNotTaken`: nobody is given the number of an account that
  was stored for somebody else. `CodeLimited`: a code admits its limit, and
  another limit's worth for every lapse. `PasswordsKept`: an
  acknowledged password that does not log in takes a lapse of its own for each
  account that is misled; registrations and changes of others never do it.
- **Upgrade.** `NothingLostOnTheWay`, `AsksForWhatThereIs` (100 percent comes with
  the last byte and not before), `UntouchedArrivesWhole`, `SuccessIsOnePackage`
  (no mixture of two packages is announced as a success), `UpgradeEnds`.
- **FileRelay.** `PiecesStayWhole`: whatever is mixed in one stream, the bytes of
  one sender in it are a piece of its file. `OneSenderWholeFile`: a receiver that
  comes late, or whose sender is lost, saves nothing rather than a part.
  `OnlyTheAddressed`, `FileArrives`.
- **Connection.** `OneWriteAtATime`, which Boost.Asio requires of `async_write`,
  `ImplementsPipe`, `LinesWritten`, `ServerLost`: whoever loses the server calls
  `Stop`, also when nothing is written or a write has closed the socket.
- **Lines.** `OwnLinesGoOn`: no line of the programs makes anybody who reads it on
  its way end or stop reading. That includes that no answer is an error, since
  fclient ends on one that the cut leaves without its end, and that every `dump`
  ends in `}}` and has it nowhere before. `ServersGoOn`: a server goes on after
  any request, whatever parameters it lacks or has in other types, but for the
  exceptions that `Harmful` lists. `RelayedAsSent`: what is relayed survives the
  cut of its reader with all its parameters, unless one of them is written with `}}`
  in it: a string that holds the characters, or an object in an object, which the
  sender may spell with a blank and so bring through the server's own cut.
- **JSON, Base64.** `TextsAreRead`: the parser accepts the texts of the grammar and
  no others, with the right value, and what is written reads the same.
  `StringsSurvive`: the lexer and the serializer, each with its own idea of UTF-8,
  agree, so that what was read can be written. `NumbersSurvive`, up to the ends of
  the ranges. `BlocksSurvive`.

The type invariants of `Accounts`, `Upgrade`, `ChatServer`, `Icons` and `Connection`,
`RecentBounded` (the deque is over its limit only inside `Deliver`) and
`OneWriteOfTheFront` (one write per session, of the front of its queue) are proved
for every instance and not checked again by the runs.

Each property of a passing run has a mutant in `PROJECT.json`: a definition of the
model changed as a bug in the code would change it, which makes TLC find the
property violated.

### The findings

`cut` checks the comment *"Remove any characters after }}"* (`server/server.cc:217`)
as `NothingElseCut`: a request without these characters stays the request it is.
The code is `substr(0, find("}}") + 2)`, and `npos + 2` is 1: all but the first
character is removed. TLC finds a request whose `params` are left out, so that it
ends with a single brace: it is valid JSON-RPC, and the server answers it with a
parse error. (In TLC's trace its strings are spelled with escapes as well, which
makes no difference.)

### Facts that are not violations of anything written

The models show some behaviours that no document rules out, and the properties
are stated around them. A file whose size is a multiple of the block (3 000 000)
is never saved by its receivers: `FileArrives` excludes it. An upgrade without a
package never ends: `UpgradeEnds` excludes it. Two senders at a time end up in one
file, and a sender that is lost leaves its stream in every `container_`.
`fclient` whose first endpoint refuses stays idle until it gets a signal. Past the
limit of the deque an icon change may bring back a message that was trimmed, or
end the server. A message from an account that is no number is kept, and the next
icon change ends the server. A member that sends the line of a foreign protocol
stays on the list for good. A connection that never said hello is heard in the
room: its messages are delivered, and its end is announced in the name of an
`account_` that nothing has assigned (`server.cc:198`). A password change is
acknowledged also for an account that does not exist. A message to an addressee that is no number, and bytes that are
not UTF-8 outside of a string, end the chat server for everybody; a response sent
to a server, or an empty line, has no defined effect; a `FileTransfer` of a file
of no bytes divides by zero in fclient (`fclient.cc:270`) if blocks follow. These
are what `Harmful` and `Divides` name.

### Bounds

- Two sessions suffice for what a session and the room owe each other, since all
  the others are alike to a session; `Group` needs one, as its operations do not
  depend on whose they are, but two threads, which race with each other.
- A deque of one or two with one or two trims shows every position of an index
  relative to a trim: at, before and after the slot that moved.
- `MaxLapses = 2` lets a failure follow a failure; the third could only repeat one
  of them, and the theorems cover every number.
- Packages of 0 to 9 bytes in blocks of three give sections of zero, one and two
  bytes with each remainder, and last blocks that are full, shorter or absent.
  Files of 0 to 3 bytes in blocks of two are empty, only a last block, only a full
  one, or both; with two senders (`relay`) the sizes are 1 and 3, and a sender that
  is lost stands for one whose file fills its blocks.
- In `chat_twice` one session behaves well and does not change its icon, and
  neither disconnects (`MCOneMisbehaves`): `chat` has the disconnections. Both
  exceptions of `RoomSteps` occur, with a history of one message and two posts:
  checked under this instance, `ImplementsRoom` and `HistoryIntact` are violated.
- In `group` the two threads are alike, so the second is created after the first;
  clients come in and write with one icon, the first change asks for the other and
  is stored, and the second one asks for either and may fail; the second message
  may have no number for an account (`Representative`). All other combinations
  rename the icons or repeat one of these. A first change that fails is left
  to the theorem `Settles`.
- In `chat_live` only one of the two clients reads (`Attentive`), one says hello
  twice, and nobody writes to the room: hellos and goodbyes fill the queues.
  `QueuesDrain` follows the first four messages to a client (`MaxTold`), one behind
  the other.
- `text` changes a line once (`MaxOdd`): each handler reads its members one after
  the other, and stops at the first that is not as it should be. Texts have up to
  nine symbols, enough for an object with a key twice, which is how members come
  to depend on their order; the symbols are all structural characters, one string
  as it stands, one with an escape, and one that is no token. Strings have up to
  four pieces (every code point fits), from the bytes at both ends of each range
  and escapes at the ends of each range of code points. Numbers have up to five
  characters, and integers of eight and four bits (`Wide` is 128, `Narrow` 8) instead
  of 64 and 32, so that
  five characters reach all of their ends. Blocks have up to four bytes: a whole
  group and a part.
- Five lines leave three for `SendFile` and the handlers after the greeting.
- Counters that only the environment drives (`MaxPosts`, `MaxHellos`, `MaxOthers`,
  `MaxJoins`, `MaxOdd`, `MaxInstalls`, `MaxUsers`) are bounded in the guards, by constants.
- Symmetry is used in runs without liveness only, for values that the modules
  compare but never order: passwords, codes, icons and threads, and sessions
  together with their users, and the two clients that send.

`CHECK_DEADLOCK FALSE` is set where the system may stop: the server has ended or
is undefined, all connections are closed, or the bounds are used up. `Accounts`
never stops, and deadlock is checked there.

### Fairness

- `Group`, `Icons`, `ChatServer`: the operating system schedules threads, and the io thread
  finishes its handlers. Errors of reads are reported, and so are the writes to
  the clients in `Attentive`, as long as they are up: these are the clients that
  read what they are sent. A client outside of it owes nothing, and no request and
  no disconnection is fair. Both are strong fairness: the io thread is busy with
  other handlers again and again, and takes the completions in the order in which
  they come.
- `Upgrade`, `FileRelay`: both programs run, and a connection that is up carries
  what is sent. Nobody is obliged to start, install or disconnect.
- `Connection`: handlers that are ready are run, an attempt to connect ends in one
  way or the other, and reads of dead sockets return. Neither the thread that
  sends, nor the user who types, nor the server's lines are fair.

## 4. The proofs

All theorems hold for every value of the constants that meets the assumptions in
the modules (sets are disjoint from their null values, limits are naturals, blocks
and limits are not zero). The argument is the same everywhere: `IInv` holds
initially, is preserved by each action, and implies the property.

- **`GroupProofs`**: `TypeCorrect`, `Bounded`, `NothingForged`, `NothingLost`,
  `NeverAhead`, `NoThrowBelowLimit`, `ScannedRewritten`, `DamagedByLateWrites`,
  `IntactUntilTrim`. The properties are not inductive, because a thread carries a
  message around. `IInv` says of it what holds of a slot (`Entries` and `Slots`,
  both by `InPlace`): its number is at most that of the slot counted from the back,
  and before the first trim equal to it. `HoldsLock` and `Counts` tie the length of
  the deque to the mutex.
- **`IconsProofs`**: `IsAGroup` (so the theorems of `Group` hold while icons are
  stored), `IconsTypeCorrect`, `Settles`. The invariant says who is responsible
  while changes are under way: a session or a message that was there when the last
  one was asked for shows one of the icons asked for since, or there is a thread of
  its account that has not come to it yet (`SessionsShow`, `MessagesShow`); and the
  threads and the data base have no icons but these (`AskedFor`, `Remembered`).
- **`ChatServerProofs`**: `ServerUsesGroup` (each step of the server is one of
  `Group` or a stutter, so that all theorems of `Group` hold of the server),
  `NoGhosts`, `OneWrite`, `ServerTypeCorrect`, `InOrder`, `AfterHello`, and the
  refinement: `StepsOfRoom`, `ImplementsWhileIntact`, `ImplementsQuietRoom`. The
  invariants are `IoShape` (what the half-done handler implies), `Members`,
  `Queues`, `HelloInv` (a session on the list has been greeted, or its answer is
  the next thing it gets) and `RoomInv` (the io thread holds the mutex exactly
  while it posts). For the refinement one has to know what a queue holds of the
  room: `PostsOf`, defined by a recursive function, of an `Append` and of a
  concatenation (`PostsOfAppend`, `PostsOfConcat`). That the history is what the
  room gives a newcomer is `HistoryIsLatest`, from `Counts`. `ImplementsQuietRoom`
  is the plain refinement, without conditions on the behaviour, for clients that
  say hello once and for either no icon changes or a history that is never full.
- **`AccountsProofs`**: `TypeCorrect`, `NumbersAreOwn`, `CodesAreLimited`,
  `PasswordsHold`. The number of an account is a count of rows: it is free because
  rows are contiguous (`Contiguous`) and because what a request remembers is still
  true when it is used (`Fresh`), which needs that requests are not interleaved.
  For the passwords, `Doubtful` counts the account whose registration was not
  stored already before it is acknowledged; each lapse adds one to it at most
  (`OneNewDoubt`), and every other step none (`NoNewDoubt`).
- **`UpgradeProofs`**: `TypeCorrect`, `Conservation`, `StopsInTime`,
  `ArrivesWhole`, `OnePackage`. Lemmas say that four sections make the file
  (`FourSections`), that a cut loses nothing (`Cut`), and that the rounded
  percentage is 100 exactly at the end (`Hundred`). `Whole` is the stream, the
  block on its way and what the server holds; its length never changes.
- **`FileRelayProofs`**: `TypeCorrect`, `PiecesWhole`, `WholeOrNothing`,
  `Confined`. The bytes of a sender have places in its file, and `IInv` follows them
  along the whole way: what is still to be sent begins where the queue to the server
  ends, what is on its way to a client ends where the server has read to, and what
  the client holds ends where that begins (`PiecesOnTheirWay`, with `Leads` for a
  queue in which the messages of others are mixed). A break may cut any of these
  short, which ends the way, never tears it. `KnownFirst` says that a client's hello
  is read before what puts it on the list, whence `Confined`.
- **`ConnectionProofs`**: `TypeCorrect`, `OneWrite`, `Implements`, for both
  programs. As long as
  nothing broke, the lines written, queued and still in the strand are all lines
  in order (`InLine`); an error is never reported without a write
  (`ErrorsHaveWrites`), so that what is broken stays broken.
- **`TextProofs`**, of `Texts` with `Base64`, `JsonString` and `JsonNumber`:
  `StringsAlwaysSurvive`, `NumbersAlwaysSurvive` and `BlocksAlwaysSurvive` state the
  three properties of `Texts` for texts of any length and any pieces. All that is
  needed of a state is that the text is a sequence of bytes (`TextsAreBytes`); the
  work is in what holds of every such sequence:
  - *Blocks.* `DecodeUndoesEncode` and `EncodeSpellsBits`, by lemmas about the four
    sextets of three bytes, bit by bit, and about the length of the part of the
    text that is in the alphabet (`Usable`).
  - *Strings.* `LexerAgreesWithAutomaton` (what the lexer reads, the serializer can
    write) and `ReadingUndoesWriting` (what it writes is read as it was). The two
    machines decide what is UTF-8 each in its own way, so the proofs say where one
    stands when the other has come to a place. `Lexed` relates the lexer, after any
    text, to the automaton after what it has read so far: the ranges the lexer
    still expects are those the state of the automaton admits (`RangesOf`). `Spelt`
    and `Faithful` relate the lexer, after what was written, to the string: inside a
    character it has read the same bytes and expects the same ranges. That needs a
    bound on the code point so far (`Least`), for no character of several bytes may
    come out as one that is escaped.
  - *Numbers.* `LexerReadsNumbers`: the lexer is at a label exactly when the text
    has a certain `Shape` - sign, whole part, fraction and exponent begin and end at
    certain places. `Grows` is the step of the lexer seen from the shape before,
    `Shrinks` the one seen from the shape after; `GrammarIsShape` takes the
    grammar, which speaks of parts, to places. `IntegersReadBack`: the digits that
    `dump_integer` writes two at a time spell the number and begin with no zero
    (`IsDecimal`), by induction over the number; so they are read as an integer of
    the same value, below zero by way of `remove_sign`, where the least integer has
    no negation (`Absolute`). `Remainder` is the arithmetic of the conversion to
    `int`, which needs nothing of `Narrow` but that it is not zero.

The library's induction theorems take a predicate as a parameter, which none of
the provers can instantiate. `ChatServerProofs` has them for sets instead:
`WFMin` of the library says that a set of naturals has a least element, whence
`SetInduction`, and from it `QueueInduction` for the set of sequences that have a
property. This is how `PostsOf` is reasoned about. `TextProofs` has the like for
sequences of any elements, which grow by one at the end (`SequenceInduction`), with one
lemma that says what each of its four machines does with one byte more (`Walks`). That
a function defined by recursion has its equations is proved there too
(`WalkExists`, `DividesExists`): TLAPS knows it as a `CHOOSE` only.

Only model-checked are: liveness (`UpdatesEnd`, `TheGoneLeave`,
`OfflineAnnounced`, `QueuesDrain`, `UpgradeEnds`, `FileArrives`, `LinesWritten`,
`ServerLost`), which is beyond TLAPS; and `Lines` with the modules below it
(`OwnLinesGoOn`, `ServersGoOn`, `RelayedAsSent`, and `TextsAreRead` of `MCText`). All
four depend on what `Dump` writes of a value being read as that value, which is an
induction over trees: `Dump` and the grammar of `JsonText` are recursive operators,
for there is no set of all values that a recursive function could have as its domain
and TLC could evaluate.

## 5. What is not modelled

- **Most of `json.hpp`.** It is a third-party header, and nine tenths of all lines
  of the repository: binary formats, JSON pointer and patch, iterators, comparison,
  the digits of floating point numbers and the macros of its compilers are never
  reached by these programs. What every line passes is modelled, without
  indentation, byte order marks and null characters. This is why the map covers
  little of the repository as a whole, and most of what the repository's authors
  wrote themselves.
- **AES and MD5** (OpenSSL): a line is the text it is decrypted to, a checksum the
  file it was computed of.
- **The chat client**: the one that speaks the protocol of the server is not in the
  repository. Its lines in `Lines` are those the server reads.
- **What the old client prints**, and `ID_`, which nothing in this repository
  reads; build and deployment.
- **The 2 GB limit** of `int` sizes in `fserver.cc:115` and `fclient.cc:355`: the
  file is in memory as a whole, several times, long before.
- **A second upgrade on one connection**: fclient asks once.

## 6. Plan

Done, in the order of importance: `Group`, `ChatServer` over it with `ChatRoom`,
`Accounts`, `Upgrade`, `FileRelay`, `Connection` with `Pipe`, `Icons`, and `Lines`
with `JsonRpc` and `JsonText`, `Texts` with `JsonString`, `JsonNumber` and `Base64`.

Next, to be modelled: several uploads of one client and the upgrade on the same
connection as a transfer, in `FileRelay`.

Next, to be proved: that the model of the connection implements `Pipe` for the file
client of `FileRelay` too, whose queues to and from the server are taken for pipes.
