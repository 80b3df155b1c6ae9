------------------------------- MODULE Upgrade -------------------------------
(***************************************************************************)
(* The upgrade of a client: fclient asks fserver for its version, then for *)
(* the package of the new release, which the server reads in four sections *)
(* by four threads, and then for one block of it after the other until the *)
(* server says that 100 percent were sent.                                 *)
(*                                                                         *)
(* One client and its FSession, over a connection that keeps the order of  *)
(* what is sent and may break.  The administrator may install another      *)
(* package, or remove it, at any moment.  A byte is known by the package   *)
(* it belongs to and its place there.  Base64, encryption and the other    *)
(* requests of the connection are left out.  The MD5 sum of a file is the  *)
(* file, and that of no file is that of no other.                          *)
(***************************************************************************)
EXTENDS Naturals, Sequences

CONSTANTS
  Release,        \* the packages an administrator has
  BlockSize,      \* M_BLOCK_SIZE
  ClientVersion,  \* the version fclient says it has
  ServerVersion,  \* WEFISH_VERSION
  MaxSize,        \* bound: bytes in a package
  MaxInstalls     \* bound: times the package changes while the server runs

ASSUME UpgradeAssumption ==
  /\ BlockSize \in Nat \ {0}
  /\ MaxSize \in Nat
  /\ MaxInstalls \in Nat

VARIABLES
  package,    \* the file in RELEASE_PKG_DIR
  installs,   \* how often it has changed
  sizeFirst,  \* does the build evaluate Size() before Pop()
  link,       \* the connection: "up", "down", or "undefined" past a fault
  handler,    \* the UpgradeRequest the server is in the middle of
  section,    \* v_section_
  content,    \* upgrade_file_content_
  checksum,   \* upgrade_file_checksum_
  size,       \* upgrade_file_size_
  consumed,   \* data_consume_
  toServer,   \* requests on their way
  toClient,   \* responses on their way
  stream,     \* contents_ of upgrade_stream_
  outcome     \* what the client printed, and the file it wrote

serverVars == <<handler, section, content, checksum, size, consumed>>
vars == <<package, installs, sizeFirst, link, serverVars, toServer, toClient,
          stream, outcome>>

-----------------------------------------------------------------------------
Byte == [of : Release, at : Nat]
Zero == [of |-> "zero", at |-> 0]
Cell == Byte \cup {Zero}
Bytes == Seq(Cell)

Bin(r, n) == [k \in 1..n |-> [of |-> r, at |-> k]]
Absent == [there |-> FALSE, bytes |-> <<>>]
Installed(r, n) == [there |-> TRUE, bytes |-> Bin(r, n)]
Package == {Absent} \cup {Installed(r, n) : r \in Release, n \in 0..MaxSize}

Thread == 0..3

Ready == [pc |-> "ready", filesize |-> 0, left |-> {}]
Handler == [pc : {"ready", "open", "sections"}, filesize : Nat,
            left : SUBSET Thread]

Sum == [there : BOOLEAN, bytes : Bytes]
SumOf(file) == [there |-> TRUE, bytes |-> file]

Request == {"version", "upgrade", "file"}
Response ==
  [type : {"version"}, expired : BOOLEAN]
    \cup [type : {"reply"}, checksum : Sum]
    \cup [type : {"block"}, bytes : Bytes, process : Nat, checksum : Sum]

NoOutcome == [said |-> "nothing", file |-> <<>>]

UpgradeTypeOK ==
  /\ package \in Package
  /\ installs \in Nat
  /\ sizeFirst \in BOOLEAN
  /\ link \in {"up", "down", "undefined"}
  /\ handler \in Handler
  /\ section \in [Thread -> Bytes]
  /\ content \in Bytes
  /\ checksum \in Sum
  /\ size \in Nat
  /\ consumed \in 0..size
  /\ toServer \in Seq(Request)
  /\ toClient \in Seq(Response)
  /\ stream \in Bytes
  /\ outcome \in [said : {"nothing", "success", "mismatch"}, file : Bytes]

(* main sends the version right after it has started to connect.           *)
Init ==
  /\ package \in Package
  /\ installs = 0
  /\ sizeFirst \in BOOLEAN
  /\ link = "up"
  /\ handler = Ready
  /\ section = [i \in Thread |-> <<>>]
  /\ content = <<>>
  /\ checksum = Absent
  /\ size = 0
  /\ consumed = 0
  /\ toServer = <<"version">>
  /\ toClient = <<>>
  /\ stream = <<>>
  /\ outcome = NoOutcome

-----------------------------------------------------------------------------
(* The server.  While a request is handled the io thread reads no other.   *)

Receive(request) ==
  /\ link = "up"
  /\ handler.pc = "ready"
  /\ toServer # <<>>
  /\ Head(toServer) = request
  /\ toServer' = Tail(toServer)

VersionCheck ==
  /\ Receive("version")
  /\ toClient' = Append(toClient,
       [type |-> "version", expired |-> ClientVersion # ServerVersion])
  /\ UNCHANGED <<package, installs, sizeFirst, link, serverVars, stream,
                 outcome>>

UpgradeRequest ==
  /\ Receive("upgrade")
  /\ checksum' = package
  /\ handler' = [handler EXCEPT !.pc = "open"]
  /\ UNCHANGED <<package, installs, sizeFirst, link, section, content, size,
                 consumed, toClient, stream, outcome>>

(* Without a package the handler returns and the client gets no answer.    *)
OpenPackage ==
  /\ link # "undefined"
  /\ handler.pc = "open"
  /\ handler' = IF package.there
                THEN [pc |-> "sections", filesize |-> Len(package.bytes),
                      left |-> Thread]
                ELSE Ready
  /\ UNCHANGED <<package, installs, sizeFirst, link, section, content,
                 checksum, size, consumed, toServer, toClient, stream, outcome>>

(* The section of thread i: where it starts and how long it is.            *)
PerBlock == handler.filesize \div 4
Start(i) == i * PerBlock
Even(i) == PerBlock
Length(i) == IF i = 3 THEN handler.filesize - 3 * PerBlock ELSE PerBlock

(* What a file has from a place on, filled up with zeros past its end.     *)
Part(bytes, start, length) ==
  [k \in 1..length |-> IF start + k <= Len(bytes) THEN bytes[start + k]
                                                  ELSE Zero]

DoFileSection(i) ==
  /\ link # "undefined"
  /\ handler.pc = "sections"
  /\ i \in handler.left
  /\ handler' = [handler EXCEPT !.left = @ \ {i}]
  /\ section' = IF package.there
                THEN [section EXCEPT
                        ![i] = Part(package.bytes, Start(i), Length(i))]
                ELSE section
  /\ UNCHANGED <<package, installs, sizeFirst, link, content, checksum, size,
                 consumed, toServer, toClient, stream, outcome>>

(* All threads are joined: the sections are put together and emptied.      *)
Respond(response) ==
  toClient' = IF link = "up" THEN Append(toClient, response) ELSE toClient

UpgradeReply ==
  /\ link # "undefined"
  /\ handler.pc = "sections"
  /\ handler.left = {}
  /\ handler' = Ready
  /\ content' = content \o section[0] \o section[1] \o section[2] \o section[3]
  /\ section' = [i \in Thread |-> <<>>]
  /\ size' = Len(content')
  /\ Respond([type |-> "reply", checksum |-> checksum])
  /\ UNCHANGED <<package, installs, sizeFirst, link, checksum, consumed,
                 toServer, stream, outcome>>

Lesser(a, b) == IF a < b THEN a ELSE b

(* The last block takes the rest, which is less than a whole block.        *)
Rest == size - consumed
Block == Lesser(Rest, BlockSize)

Kept == content
Remaining == IF Rest < BlockSize
             THEN <<>> ELSE SubSeq(content, Block + 1, Len(content))

PercentBefore == (consumed * 100) \div size
NeverAll == ((consumed + Block) * 100) \div (size + 1)
Percent == ((consumed + Block) * 100) \div size

UpgradeFileTransfer ==
  /\ Receive("file")
  /\ size > 0
  /\ consumed' = consumed + Block
  /\ content' = Remaining
  /\ toClient' = Append(toClient,
       [type |-> "block",
        bytes |-> SubSeq(content, 1, Lesser(Block, Len(content))),
        process |-> Percent, checksum |-> checksum])
  /\ UNCHANGED <<package, installs, sizeFirst, link, handler, section, checksum,
                 size, stream, outcome>>

(* An empty package: the percentage is a division by zero.                 *)
DivideByZero ==
  /\ Receive("file")
  /\ size = 0
  /\ link' = "undefined"
  /\ UNCHANGED <<package, installs, sizeFirst, serverVars, toClient, stream,
                 outcome>>

-----------------------------------------------------------------------------
(* The client.                                                             *)

Take(type) ==
  /\ link = "up"
  /\ toClient # <<>>
  /\ Head(toClient).type = type
  /\ toClient' = Tail(toClient)

VersionChecked ==
  /\ Take("version")
  /\ toServer' = IF Head(toClient).expired
                 THEN Append(toServer, "upgrade") ELSE toServer
  /\ UNCHANGED <<package, installs, sizeFirst, link, serverVars, stream,
                 outcome>>

TakeReply ==
  /\ Take("reply")
  /\ stream' = <<>>
  /\ toServer' = Append(toServer, "file")
  /\ UNCHANGED <<package, installs, sizeFirst, link, serverVars, outcome>>

Pushed == stream \o Head(toClient).bytes

UpgradeProcessing ==
  /\ Take("block")
  /\ Head(toClient).process < 100
  /\ stream' = Pushed
  /\ toServer' = Append(toServer, "file")
  /\ UNCHANGED <<package, installs, sizeFirst, link, serverVars, outcome>>

SameLength(file) == Len(file) = Len(Head(toClient).checksum.bytes)
SameSum(file) == SumOf(file) = Head(toClient).checksum

(* The stream is saved by write(Pop().c_str(), Size()).  Pop empties it,   *)
(* and which of the two arguments is evaluated first is up to the build.   *)
Save ==
  /\ Take("block")
  /\ Head(toClient).process >= 100
  /\ stream' = <<>>
  /\ LET file == IF sizeFirst THEN Pushed ELSE <<>> IN
     outcome' = [said |-> IF SameSum(file) THEN "success" ELSE "mismatch",
                 file |-> file]
  /\ UNCHANGED <<package, installs, sizeFirst, link, serverVars, toServer>>

-----------------------------------------------------------------------------
(* The environment.                                                        *)

Install ==
  /\ installs < MaxInstalls
  /\ installs' = installs + 1
  /\ package' \in Package
  /\ UNCHANGED <<sizeFirst, link, serverVars, toServer, toClient, stream,
                 outcome>>

(* The client stops when its read fails, and the session ends.             *)
Disconnect ==
  /\ link = "up"
  /\ link' = "down"
  /\ toServer' = <<>>
  /\ toClient' = <<>>
  /\ UNCHANGED <<package, installs, sizeFirst, serverVars, stream, outcome>>

ServerStep ==
  \/ VersionCheck
  \/ UpgradeRequest
  \/ OpenPackage
  \/ \E i \in Thread : DoFileSection(i)
  \/ UpgradeReply
  \/ UpgradeFileTransfer
  \/ DivideByZero

ClientStep == VersionChecked \/ TakeReply \/ UpgradeProcessing \/ Save

Next == ServerStep \/ ClientStep \/ Install \/ Disconnect

Spec == Init /\ [][Next]_vars

(* Both programs run, and what is sent over a connection that is up        *)
(* arrives.                                                                *)
FairSpec == Spec /\ WF_vars(ServerStep) /\ WF_vars(ClientStep)

-----------------------------------------------------------------------------
InFlight ==
  IF toClient # <<>> /\ Head(toClient).type = "block"
  THEN Head(toClient).bytes ELSE <<>>

Loaded == size > 0 /\ handler.pc = "ready"

(* While the package is transferred, what the client has, the block on its *)
(* way and what the server still holds are as long as the package it read. *)
NothingLostOnTheWay ==
  Loaded /\ link = "up" /\ outcome = NoOutcome =>
    Len(stream \o InFlight \o content) = size

(* The client asks for another block exactly as long as there is one: it   *)
(* is told 100 percent with the last byte and not before.                  *)
AsksForWhatThereIs ==
  /\ Loaded /\ toServer # <<>> => consumed < size
  /\ outcome # NoOutcome => consumed = size /\ content = <<>>

(* A package nobody touches arrives whole, whatever its size and whatever  *)
(* the order of the threads, if the build saves the stream at all.         *)
UntouchedArrivesWhole ==
  outcome # NoOutcome /\ installs = 0 /\ sizeFirst =>
    outcome = [said |-> "success", file |-> package.bytes]

(* A success is announced for a package that was there as a whole, not for *)
(* sections of two of them.                                                *)
SuccessIsOnePackage ==
  outcome.said = "success" =>
    \E r \in Release : outcome.file = Bin(r, Len(outcome.file))

(* An upgrade comes to an end, unless the connection breaks (also by the   *)
(* division by the size of an empty package), or the package is not there  *)
(* or is replaced before the end.                                          *)
UpgradeEnds ==
  (toServer # <<>> /\ Head(toServer) = "upgrade")
    ~> \/ outcome # NoOutcome
       \/ link # "up"
       \/ ~package.there \/ installs > 0
=============================================================================
