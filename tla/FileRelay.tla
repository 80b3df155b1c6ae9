------------------------------ MODULE FileRelay ------------------------------
(***************************************************************************)
(* The relay of files: an fclient sends a file in blocks, fserver passes   *)
(* each of them on to the other clients, and these put it together and     *)
(* save it.                                                                *)
(*                                                                         *)
(* One object Client stands for a process of fclient and its FSession.     *)
(* Everything between two ends of a connection (the strand, the queues of  *)
(* messages, the socket) keeps the order and is one sequence here.  A      *)
(* connection that breaks takes with it what was on its way to the client; *)
(* the server still reads a part of what was on its way to the server.     *)
(* There is no other connection for the same process.  One that never gets *)
(* through stays "off": what its client posts is lost.                     *)
(*                                                                         *)
(* A byte is known by the file it belongs to and its place there.  Base64, *)
(* encryption, the progress bar and the upgrade of the same client (see    *)
(* Upgrade) are left out.  The checksum is the same in all messages.       *)
(***************************************************************************)
EXTENDS Naturals, Sequences

CONSTANTS
  Client,      \* processes of fclient
  Sender,      \* those that are started to send a file
  Account,     \* account numbers
  NoAccount,   \* a value of account_ that is nobody's account number
  Room,        \* the to_account 0
  AccountOf,   \* the account each client is started with
  Addressees,  \* what to_account of SendFile may be
  BlockSize,   \* M_BLOCK_SIZE
  Sizes        \* bound: how many bytes there may be in a file

ASSUME FileRelayAssumption ==
  /\ Sender \subseteq Client
  /\ NoAccount \notin Account
  /\ Room \notin Account \cup {NoAccount}
  /\ AccountOf \in [Client -> Account]
  /\ Addressees \subseteq Account \cup {Room}
  /\ BlockSize \in Nat \ {0}
  /\ Sizes \subseteq Nat

VARIABLES
  size,       \* bytes in the file of each sender
  toAccount,  \* to_account of SendFile
  sizeFirst,  \* does the build evaluate Size() before Pop()
  link,       \* the connection of each client: "off", "up" or "down"
  joined,     \* is its session on participants_
  account,    \* account_ of its session
  head,       \* head in SendFile: is the first message still to be sent
  rest,       \* file_content in SendFile
  toServer,   \* what is on its way to the server
  toClient,   \* what is on its way to the client
  container,  \* the stream in container_, under the one checksum there is
  saved,      \* the file written last
  heard       \* history variable: the clients whose blocks came in

senderVars == <<size, toAccount, head, rest>>
serverVars == <<joined, account>>
receiverVars == <<sizeFirst, container, saved, heard>>
vars == <<senderVars, serverVars, receiverVars, link, toServer, toClient>>

-----------------------------------------------------------------------------
Byte == [of : Sender, at : Nat]
File(c) == [k \in 1..size[c] |-> [of |-> c, at |-> k]]

Nothing == [there |-> FALSE, bytes |-> <<>>]
Stream(bytes) == [there |-> TRUE, bytes |-> bytes]

Transfer == [type : {"file"}, from : Sender, status : {0, 1, 2},
             bytes : Seq(Byte)]
Request == [type : {"hello", "version"}] \cup Transfer

RelayTypeOK ==
  /\ size \in [Sender -> Nat]
  /\ toAccount \in Account \cup {Room}
  /\ sizeFirst \in BOOLEAN
  /\ link \in [Client -> {"off", "up", "down"}]
  /\ joined \in [Client -> BOOLEAN]
  /\ account \in [Client -> Account \cup {NoAccount}]
  /\ head \in [Sender -> BOOLEAN]
  /\ rest \in [Sender -> Seq(Byte)]
  /\ toServer \in [Client -> Seq(Request)]
  /\ toClient \in [Client -> Seq(Transfer)]
  /\ container \in [Client -> [there : BOOLEAN, bytes : Seq(Byte)]]
  /\ saved \in [Client -> [there : BOOLEAN, bytes : Seq(Byte)]]
  /\ heard \in [Client -> SUBSET Sender]
  /\ \A c \in Client : link[c] # "up" => toClient[c] = <<>>

Init ==
  /\ size \in [Sender -> Sizes]
  /\ toAccount \in Addressees
  /\ sizeFirst \in BOOLEAN
  /\ link = [c \in Client |-> "off"]
  /\ joined = [c \in Client |-> FALSE]
  /\ account \in [Client -> Account \cup {NoAccount}]
  /\ head = [c \in Sender |-> TRUE]
  /\ rest = [c \in Sender |-> File(c)]
  /\ toServer = [c \in Client |-> <<>>]
  /\ toClient = [c \in Client |-> <<>>]
  /\ container = [c \in Client |-> Nothing]
  /\ saved = [c \in Client |-> Nothing]
  /\ heard = [c \in Client |-> {}]

-----------------------------------------------------------------------------
(* The client that sends.                                                  *)

(* main posts two requests before it creates the thread that sends.        *)
VersionFirst == <<[type |-> "version"], [type |-> "hello"]>>
Greeting == <<[type |-> "hello"], [type |-> "version"]>>

Start(c) ==
  /\ link[c] = "off"
  /\ link' = [link EXCEPT ![c] = "up"]
  /\ toServer' = [toServer EXCEPT ![c] = Greeting]
  /\ UNCHANGED <<senderVars, serverVars, receiverVars, toClient>>

Send(c, status, bytes) ==
  toServer' = [toServer EXCEPT ![c] = Append(@,
    [type |-> "file", from |-> c, status |-> status, bytes |-> bytes])]

(* The loop of SendFile.  The file was read in four sections, as Upgrade   *)
(* has it.  An empty file sends nothing at all.                            *)
Sending(c) == link[c] = "up" /\ rest[c] # <<>>

SendHead(c) ==
  /\ Sending(c)
  /\ head[c]
  /\ head' = [head EXCEPT ![c] = FALSE]
  /\ Send(c, 1, <<>>)
  /\ UNCHANGED <<size, toAccount, rest, serverVars, receiverVars, link, toClient>>

(* Less than a block is left: that is the last one.  A file that fills its *)
(* blocks has no last one.                                                 *)
IsLast(c) == Len(rest[c]) < BlockSize

SendLast(c) ==
  /\ Sending(c)
  /\ ~head[c]
  /\ IsLast(c)
  /\ Send(c, 0, rest[c])
  /\ rest' = [rest EXCEPT ![c] = <<>>]
  /\ UNCHANGED <<size, toAccount, head, serverVars, receiverVars, link, toClient>>

Block(c) == SubSeq(rest[c], 1, BlockSize)
Overlap(c) == SubSeq(rest[c], BlockSize, Len(rest[c]))
Remaining(c) == SubSeq(rest[c], BlockSize + 1, Len(rest[c]))

SendBlock(c) ==
  /\ Sending(c)
  /\ ~head[c]
  /\ ~IsLast(c)
  /\ Send(c, 2, Block(c))
  /\ rest' = [rest EXCEPT ![c] = Remaining(c)]
  /\ UNCHANGED <<size, toAccount, head, serverVars, receiverVars, link, toClient>>

-----------------------------------------------------------------------------
(* The server.                                                             *)

Read(c, type) ==
  /\ toServer[c] # <<>>
  /\ Head(toServer[c]).type = type
  /\ toServer' = [toServer EXCEPT ![c] = Tail(@)]

SayHello(c) ==
  /\ Read(c, "hello")
  /\ account' = [account EXCEPT ![c] = AccountOf[c]]
  /\ UNCHANGED <<senderVars, receiverVars, link, joined, toClient>>

VersionCheck(c) ==
  /\ Read(c, "version")
  /\ joined' = [joined EXCEPT ![c] = TRUE]
  /\ UNCHANGED <<senderVars, receiverVars, link, account, toClient>>

Recipients(c) ==
  {r \in Client :
     joined[r] /\ IF toAccount = Room THEN r # c ELSE account[r] = toAccount}

(* What is written to a connection that is down goes nowhere.              *)
Anybody(r) == TRUE
Reaches(r) == link[r] = "up"

FileTransfer(c) ==
  /\ Read(c, "file")
  /\ toClient' = [r \in Client |->
       IF r \in Recipients(c) /\ Reaches(r)
       THEN Append(toClient[r], Head(toServer[c])) ELSE toClient[r]]
  /\ UNCHANGED <<senderVars, serverVars, receiverVars, link>>

(* The error of a write, or of the read.                                   *)
Leave(c) ==
  /\ link[c] = "down"
  /\ joined[c]
  /\ joined' = [joined EXCEPT ![c] = FALSE]
  /\ UNCHANGED <<senderVars, receiverVars, link, account, toServer, toClient>>

-----------------------------------------------------------------------------
(* The client that receives.                                               *)

Notification(c) == Head(toClient[c])

Handle(c) ==
  /\ link[c] = "up"
  /\ toClient[c] # <<>>
  /\ toClient' = [toClient EXCEPT ![c] = Tail(@)]
  /\ heard' = [heard EXCEPT ![c] = @ \cup {Notification(c).from}]
  /\ UNCHANGED <<senderVars, serverVars, sizeFirst, link, toServer>>

OpensWithAny(c) == ~container[c].there
Opens(c) == Notification(c).status = 1 /\ ~container[c].there
Pushes(c) == Notification(c).status = 2 /\ container[c].there
SavesAfterBlocks(c) ==
  Notification(c).status = 0 /\ container[c].bytes # <<>>
Saves(c) == Notification(c).status = 0 /\ container[c].there

OpenStream(c) ==
  /\ Handle(c)
  /\ Opens(c)
  /\ container' = [container EXCEPT ![c] = Stream(<<>>)]
  /\ UNCHANGED saved

PushBlock(c) ==
  /\ Handle(c)
  /\ Pushes(c)
  /\ container' = [container EXCEPT ![c].bytes = @ \o Notification(c).bytes]
  /\ UNCHANGED saved

(* write(Pop().c_str(), Size()) as in Upgrade.                             *)
SaveStream(c) ==
  /\ Handle(c)
  /\ Saves(c)
  /\ saved' = [saved EXCEPT ![c] = Stream(
       IF sizeFirst THEN container[c].bytes \o Notification(c).bytes ELSE <<>>)]
  /\ container' = [container EXCEPT ![c] = Nothing]

Ignore(c) ==
  /\ Handle(c)
  /\ ~Opens(c) /\ ~Pushes(c) /\ ~Saves(c)
  /\ UNCHANGED <<container, saved>>

-----------------------------------------------------------------------------
(* The connection breaks, or the process ends.                             *)
Disconnect(c) ==
  /\ link[c] = "up"
  /\ link' = [link EXCEPT ![c] = "down"]
  /\ toClient' = [toClient EXCEPT ![c] = <<>>]
  /\ \E n \in 0..Len(toServer[c]) :
       toServer' = [toServer EXCEPT ![c] = SubSeq(@, 1, n)]
  /\ UNCHANGED <<senderVars, serverVars, receiverVars>>

Post(c) == SendHead(c) \/ SendLast(c) \/ SendBlock(c)
Serve(c) == SayHello(c) \/ VersionCheck(c) \/ FileTransfer(c)
Receive(c) == OpenStream(c) \/ PushBlock(c) \/ SaveStream(c) \/ Ignore(c)

Next ==
  \/ \E c \in Client :
       Start(c) \/ Serve(c) \/ Leave(c) \/ Receive(c) \/ Disconnect(c)
  \/ \E c \in Sender : Post(c)

Spec == Init /\ [][Next]_vars

(* Both programs run, and what is sent over a connection that is up        *)
(* arrives.                                                                *)
FairSpec ==
  /\ Spec
  /\ \A c \in Sender : WF_vars(Post(c))
  /\ \A c \in Client : WF_vars(Serve(c)) /\ WF_vars(Receive(c))

-----------------------------------------------------------------------------
(* The bytes of one sender in a file are a piece of its file: they are in  *)
(* order, none is missing between two of them and none is there twice.     *)
InOrder(f) ==
  \A j, k \in DOMAIN f :
    j < k /\ f[j].of = f[k].of =>
      /\ f[j].at < f[k].at
      /\ \A a \in f[j].at..f[k].at :
           \E i \in j..k : f[i] = [of |-> f[j].of, at |-> a]

(* Whatever is mixed in one stream because all transfers have the same     *)
(* checksum, and wherever a client comes in or is lost, the bytes of each  *)
(* sender stay together in what is collected and in what is saved.         *)
PiecesStayWhole ==
  \A c \in Client : InOrder(container[c].bytes) /\ InOrder(saved[c].bytes)

(* A client that heard of one sender only saves its whole file or none: it *)
(* may come too late, and the sender may be lost on the way.               *)
OneSenderWholeFile ==
  \A c \in Client, s \in Sender :
    sizeFirst /\ saved[c].there /\ heard[c] = {s} => saved[c].bytes = File(s)

(* A file for one account is heard by its clients only.                    *)
OnlyTheAddressed ==
  toAccount # Room =>
    \A c \in Client : heard[c] # {} => AccountOf[c] = toAccount

(* c is there for a file of s that is not on its way yet.                  *)
Awaits(c, s) ==
  /\ toAccount \in {Room, AccountOf[c]}
  /\ joined[c]
  /\ head[s] /\ link[s] = "up"
  /\ size[s] % BlockSize # 0

Arrives(s, c) ==
  saved[c].there \/ link[c] # "up" \/ link[s] # "up"

(* The only sender's file is saved by every client it is for that was      *)
(* there before it was sent, unless it fills its last block.               *)
FileArrives ==
  \A s \in Sender : \A c \in Client \ {s} :
    Awaits(c, s) ~> Arrives(s, c)
=============================================================================
