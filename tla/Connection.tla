------------------------------ MODULE Connection ------------------------------
(***************************************************************************)
(* class Connection of fclient and of the old chat client, which have the  *)
(* same code: lines are posted to a strand by main, by the thread that     *)
(* sends a file or reads what is typed, and by the handlers of the io      *)
(* thread, and are written one after the other to a socket that tries one  *)
(* endpoint after the other to connect.                                    *)
(*                                                                         *)
(* main of fclient posts its two requests before the io thread runs, and   *)
(* the user of client may type something then, so that the first write     *)
(* starts while the socket is still connecting: it waits for this attempt, *)
(* and fails with it.  The handler of a failed write closes whatever       *)
(* socket there is then.                                                   *)
(*                                                                         *)
(* A line is known by its place in the order of the posts; encryption and  *)
(* what is in the lines are left out.  A line that was cut off by an error *)
(* never reaches its delimiter and is no line for the server.              *)
(***************************************************************************)
EXTENDS Naturals, Sequences

CONSTANTS
  Endpoints,  \* addresses "localhost" resolves to
  MaxPosts    \* bound: no more is sent of a file, typed or answered after it

ASSUME ConnectionAssumption ==
  /\ Endpoints \in Nat \ {0}
  /\ MaxPosts \in Nat

VARIABLES
  program,   \* "fclient" or "client"; never changes
  socket,    \* "connecting", "up", "refused" (open, but useless) or "closed"
  left,      \* endpoints that were not tried yet
  peer,      \* the server's end, once it is connected: "up" or "down"
  strand,    \* posted and not run yet
  messages,  \* messages_
  writes,    \* calls of async_write whose handler has not run
  failing,   \* these handlers get an error
  reading,   \* is an async_read_until outstanding
  signal,    \* is the signal set still waited for
  stopped,   \* was Stop called; the negation of client's isProcessing_
  asking,    \* is client's input thread in getline
  process,   \* "running" or "ended"
  posted,    \* lines posted so far
  wire       \* history variable: the lines that were written

vars == <<program, socket, left, peer, strand, messages, writes, failing,
          reading, signal, stopped, asking, process, posted, wire>>

ConnectionTypeOK ==
  /\ program \in {"fclient", "client"}
  /\ socket \in {"connecting", "up", "refused", "closed"}
  /\ left \in Nat
  /\ peer \in {"up", "down"}
  /\ strand \in Seq(Nat)
  /\ messages \in Seq(Nat)
  /\ writes \in {0, 1}
  /\ failing \in BOOLEAN
  /\ reading \in BOOLEAN
  /\ signal \in BOOLEAN
  /\ stopped \in BOOLEAN
  /\ asking \in BOOLEAN
  /\ process \in {"running", "ended"}
  /\ posted \in Nat
  /\ wire \in Seq(Nat)
  /\ reading => socket \in {"up", "closed"}

(* The constructor starts to connect: fclient to "localhost", client to a  *)
(* single address.  main of fclient posts SayHello and VersionCheck, main  *)
(* of client starts the thread that reads what is typed.                   *)
Addresses == IF program = "fclient" THEN Endpoints ELSE 1
Greeting == IF program = "fclient" THEN 2 ELSE 0

Init ==
  /\ program \in {"fclient", "client"}
  /\ socket = "connecting"
  /\ left = Addresses - 1
  /\ peer = "up"
  /\ strand = [k \in 1..Greeting |-> k]
  /\ messages = <<>>
  /\ writes = 0
  /\ failing = FALSE
  /\ reading = FALSE
  /\ signal = TRUE
  /\ stopped = FALSE
  /\ asking = (program = "client")
  /\ process = "running"
  /\ posted = Greeting
  /\ wire = <<>>

Running == process = "running"

-----------------------------------------------------------------------------
(* Connecting.  async_connect gives a failed socket up and opens another   *)
(* for the next endpoint.                                                  *)

Post ==
  /\ posted' = posted + 1
  /\ strand' = Append(strand, posted')

PostNothing == UNCHANGED <<posted, strand>>

(* The handler starts to read; that of client also sends SayHello.         *)
AttemptSucceeds ==
  /\ Running
  /\ socket = "connecting"
  /\ socket' = "up"
  /\ reading' = TRUE
  /\ IF program = "client" THEN Post ELSE PostNothing
  /\ UNCHANGED <<program, left, peer, messages, writes, failing, signal, stopped,
                 asking, process, wire>>

AttemptFails ==
  /\ Running
  /\ socket = "connecting"
  /\ failing' = (failing \/ writes > 0)
  /\ \/ left > 0 /\ left' = left - 1 /\ UNCHANGED socket
     \/ left = 0 /\ socket' = "refused" /\ UNCHANGED left
  /\ UNCHANGED <<program, peer, strand, messages, writes, reading, signal,
                 stopped, asking, process, posted, wire>>

-----------------------------------------------------------------------------
(* Writing.                                                                *)

(* SendAsync, called by the thread of SendFile.                            *)
SendAsync ==
  /\ Running
  /\ program = "fclient" /\ posted < MaxPosts
  /\ Post
  /\ UNCHANGED <<program, socket, left, peer, messages, writes, failing, reading,
                 signal, stopped, asking, process, wire>>

(* A line was typed, and is sent unless it is empty.  The thread asks for  *)
(* the next one until it sees that Stop was called.                        *)
TypeLine ==
  /\ Running
  /\ asking
  /\ (posted < MaxPosts /\ Post) \/ PostNothing
  /\ asking' = ~stopped
  /\ UNCHANGED <<program, socket, left, peer, messages, writes, failing, reading,
                 signal, stopped, process, wire>>

(* async_write to a socket that is not connected and does not try to be is *)
(* an error.                                                               *)
Usable == socket \in {"connecting", "up"}

UnlessTwoWait == Len(messages) <= 1
NoneUnderWay == Len(messages) = 0

(* The lambda SendAsync has posted.                                        *)
RunPosted ==
  /\ Running
  /\ strand # <<>>
  /\ strand' = Tail(strand)
  /\ messages' = Append(messages, Head(strand))
  /\ IF NoneUnderWay
     THEN writes' = writes + 1 /\ failing' = ~Usable
     ELSE UNCHANGED <<writes, failing>>
  /\ UNCHANGED <<program, socket, left, peer, reading, signal, stopped, asking,
                 process, posted, wire>>

(* One handler has run: does it start another write?                       *)
NoNextWrite == writes - 1
WritesLeft == IF Len(messages) > 1 THEN writes ELSE writes - 1

WriteDone ==
  /\ Running
  /\ writes > 0 /\ ~failing
  /\ socket = "up"
  /\ wire' = Append(wire, Head(messages))
  /\ messages' = Tail(messages)
  /\ writes' = WritesLeft
  /\ UNCHANGED <<program, socket, left, peer, strand, failing, reading, signal,
                 stopped, asking, process, posted>>

WriteBreaks ==
  /\ Running
  /\ writes > 0 /\ ~failing
  /\ socket = "up" /\ peer = "down"
  /\ failing' = TRUE
  /\ UNCHANGED <<program, socket, left, peer, strand, messages, writes, reading,
                 signal, stopped, asking, process, posted, wire>>

(* The line that failed is dropped, the socket closed, and the next line   *)
(* written to it all the same.                                             *)
LeftOpen == socket
Closed == "closed"

WriteError ==
  /\ Running
  /\ writes > 0 /\ failing
  /\ socket' = Closed
  /\ messages' = Tail(messages)
  /\ writes' = WritesLeft
  /\ failing' = (writes' > 0 /\ ~Usable')
  /\ UNCHANGED <<program, left, peer, strand, reading, signal, stopped, asking,
                 process, posted, wire>>

-----------------------------------------------------------------------------
(* Reading and the end.                                                    *)

(* A line arrives and its handler, that of fclient only, sends something   *)
(* or not; then the next one is read.                                      *)
NotAgain == FALSE
ReadAgain == TRUE

ReadLine ==
  /\ Running
  /\ reading
  /\ socket = "up"
  /\ (program = "fclient" /\ posted < MaxPosts /\ Post) \/ PostNothing
  /\ reading' = ReadAgain
  /\ UNCHANGED <<program, socket, left, peer, messages, writes, failing, signal,
                 stopped, asking, process, wire>>

(* A handler that cannot read its line lets the exception through to main. *)
ReadThrows ==
  /\ Running
  /\ reading
  /\ socket = "up"
  /\ process' = "ended"
  /\ UNCHANGED <<program, socket, left, peer, strand, messages, writes, failing,
                 reading, signal, stopped, asking, posted, wire>>

(* doDisconnect does nothing when the socket is closed already: then the   *)
(* io_context is not stopped either.                                       *)
DoDisconnect ==
  /\ socket' = "closed"
  /\ process' = IF socket = "closed" THEN process ELSE "ended"

Stop == DoDisconnect /\ stopped' = TRUE

ReadFails ==
  /\ Running
  /\ reading
  /\ socket = "closed" \/ peer = "down"
  /\ reading' = FALSE
  /\ Stop
  /\ UNCHANGED <<program, left, peer, strand, messages, writes, failing, signal,
                 asking, posted, wire>>

(* SIGPIPE is waited for once.  SIGINT and SIGTERM throw out of run.       *)
SigPipe ==
  /\ Running
  /\ signal
  /\ signal' = FALSE
  /\ Stop
  /\ UNCHANGED <<program, left, peer, strand, messages, writes, failing, reading,
                 asking, posted, wire>>

SigTerm ==
  /\ Running
  /\ signal
  /\ process' = "ended"
  /\ UNCHANGED <<program, socket, left, peer, strand, messages, writes, failing,
                 reading, signal, stopped, asking, posted, wire>>

(* run returns when there is nothing left to wait for.                     *)
RunReturns ==
  /\ Running
  /\ ~signal /\ ~reading /\ writes = 0 /\ strand = <<>>
  /\ socket # "connecting"
  /\ process' = "ended"
  /\ UNCHANGED <<program, socket, left, peer, strand, messages, writes, failing,
                 reading, signal, stopped, asking, posted, wire>>

PeerDown ==
  /\ Running
  /\ socket = "up" /\ peer = "up"
  /\ peer' = "down"
  /\ UNCHANGED <<program, socket, left, strand, messages, writes, failing,
                 reading, signal, stopped, asking, process, posted, wire>>

Connecting == AttemptSucceeds \/ AttemptFails
Writing == WriteDone \/ WriteBreaks \/ WriteError

Next ==
  \/ Connecting
  \/ SendAsync \/ TypeLine
  \/ RunPosted
  \/ Writing
  \/ ReadLine \/ ReadThrows \/ ReadFails
  \/ SigPipe \/ SigTerm \/ RunReturns
  \/ PeerDown

Spec == Init /\ [][Next]_vars

(* The io thread runs the handlers that are ready, an attempt to connect   *)
(* ends in one way or the other, and a read of a dead socket returns.      *)
Fairness ==
  /\ WF_vars(Connecting)
  /\ WF_vars(RunPosted)
  /\ WF_vars(Writing)
  /\ WF_vars(ReadFails)
  /\ WF_vars(RunReturns)

FairSpec == Spec /\ Fairness

-----------------------------------------------------------------------------
(* There is one async_write at a time and no line waits without one: each  *)
(* line that is queued is either written or dropped by an error.           *)
OneWriteAtATime == writes = IF messages = <<>> THEN 0 ELSE 1

(* No line gets through any more: the socket is of no use, or the error of *)
(* a write is on its way, which will close it.                             *)
Broken == socket \in {"refused", "closed"} \/ failing

ThePipe == INSTANCE Pipe WITH
  sent   <- posted,
  got    <- wire,
  broken <- Broken

(* The connection is a pipe: although a line may be dropped while a second *)
(* endpoint is tried, none after it gets through, so that the server never *)
(* sees a session of fclient without the SayHello and the VersionCheck     *)
(* that come first.                                                        *)
ImplementsPipe == ThePipe!Spec

(* A line that was posted is written, unless an endpoint refused, the      *)
(* connection broke or the process ended.                                  *)
Hopeless == Broken \/ process = "ended"

LinesWritten ==
  \A k \in 1..MaxPosts + 1 :
    posted >= k ~> Len(wire) >= k \/ Hopeless

(* A client whose server is gone comes to know it and calls Stop, also     *)
(* when it has nothing to write, or when a write has failed and closed the *)
(* socket before: there is always a read outstanding, and it returns.      *)
ServerLost ==
  (socket = "up" /\ peer = "down") ~> stopped \/ process = "ended"
=============================================================================
