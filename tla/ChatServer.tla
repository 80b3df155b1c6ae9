----------------------------- MODULE ChatServer -----------------------------
(***************************************************************************)
(* The chat server of server/: the sessions, their write queues and the    *)
(* handlers the io thread runs for them, over the Group they share.        *)
(*                                                                         *)
(* The io thread runs one handler at a time.  A handler is cut into steps  *)
(* only where the DataUpdate threads of Group can see the difference: at   *)
(* the mutex, and between the parts that touch the list, the queues and    *)
(* the deque.  io says which handler is under way and what is left of it.  *)
(*                                                                         *)
(* Of a message the model keeps what kind it is, whose session caused it   *)
(* and, for a room message, its number.  Names, icons inside messages,     *)
(* JSON and encryption are left out.  The accounts data base is another    *)
(* component: the requests that only read or write it are Answer here.     *)
(***************************************************************************)
EXTENDS Group

CONSTANTS
  Attentive,   \* the connections whose clients read what they are sent
  MaxHellos,   \* bound: SayHello requests of one session
  MaxOthers,   \* bound: requests that neither join nor reach the whole room
  MaxTold      \* bound: messages to one client that QueuesDrain follows

ASSUME ChatServerAssumption ==
  /\ Attentive \in SUBSET Session
  /\ MaxHellos \in Nat
  /\ MaxOthers \in Nat
  /\ MaxTold \in Nat

VARIABLES
  phase,     \* is a read outstanding, or why not: "fresh" before Start,
             \* "reading", "stopped" by an error, "ignored" after a line
  peer,      \* the other end of the connection: "up" or "down"
  messages,  \* messages_ of each session
  inflight,  \* the buffers handed to async_write whose handler has not run
  io,        \* the handler the io thread is in the middle of
  hellos,    \* SayHello requests handled, per session
  others,    \* requests counted by MaxOthers
  wire       \* history variable: what was written to each connection

sessionVars == <<phase, peer, messages, inflight, hellos, others, wire>>
vars == <<groupVars, sessionVars, io>>

RoomKinds == {"online", "offline", "setting", "post", "direct"}
Kinds == RoomKinds \cup {"hello", "error", "answer"}

Note(kind, s) == [kind |-> kind, from |-> s, seq |-> 0]
Post(s, n) == [kind |-> "post", from |-> s, seq |-> n]

Envelope == [kind : Kinds, from : Session \cup {NoSession}, seq : Nat]

Handler == [pc : {"idle", "notify", "reply", "post", "leave"},
            sess : Session \cup {NoSession}, kind : Kinds \cup {"none"}]
Idle == [pc |-> "idle", sess |-> NoSession, kind |-> "none"]

TypeOK ==
  /\ GroupTypeOK
  /\ phase \in [Session -> {"fresh", "reading", "stopped", "ignored"}]
  /\ peer \in [Session -> {"up", "down"}]
  /\ messages \in [Session -> Seq(Envelope)]
  /\ inflight \in [Session -> Seq(Envelope)]
  /\ io \in Handler
  /\ hellos \in [Session -> Nat]
  /\ others \in Nat
  /\ wire \in [Session -> Seq(Envelope)]

Init ==
  /\ GroupInit
  /\ phase = [s \in Session |-> "fresh"]
  /\ peer = [s \in Session |-> "up"]
  /\ messages = [s \in Session |-> <<>>]
  /\ inflight = [s \in Session |-> <<>>]
  /\ io = Idle
  /\ hellos = [s \in Session |-> 0]
  /\ others = 0
  /\ wire = [s \in Session |-> <<>>]

-----------------------------------------------------------------------------
(* Writing.                                                                *)

WriteInProgress(s) == messages[s] # <<>>

(* Session::Deliver, for every session at once: added[s] is what s gets.   *)
Deliver(added) ==
  /\ messages' = [s \in Session |-> messages[s] \o added[s]]
  /\ inflight' = [s \in Session |->
                    IF added[s] # <<>> /\ ~WriteInProgress(s)
                    THEN Append(inflight[s], Head(messages[s] \o added[s]))
                    ELSE inflight[s]]

To(s, seq) == [t \in Session |-> IF t = s THEN seq ELSE <<>>]

(* The loops of the Group over participants_: a session that is on the     *)
(* list twice gets the message twice.                                      *)
FanOut(recipients, m) ==
  [s \in Session |->
     IF s \in recipients THEN [k \in 1..participants[s] |-> m] ELSE <<>>]

IncludeSelf(self) == Session
ExcludeSelf(self) == Session \ {self}

Reading(s) == process = "running" /\ io = Idle /\ phase[s] = "reading"

(* The handler of async_write: on success the front is popped and the next *)
(* one is written, on an error the queue stays as it is.                   *)
NoNextWrite(s) == <<>>
SameWrite(s) == IF Len(messages[s]) > 1 THEN <<messages[s][1]>> ELSE <<>>
NextWrite(s) ==
  IF Len(messages[s]) > 1 THEN <<messages[s][2]>> ELSE <<>>

WriteDone(s) ==
  /\ process = "running" /\ io = Idle
  /\ inflight[s] # <<>>
  /\ wire' = [wire EXCEPT ![s] = Append(@, Head(inflight[s]))]
  /\ messages' = [messages EXCEPT ![s] = Tail(@)]
  /\ inflight' = [inflight EXCEPT ![s] = Tail(@) \o NextWrite(s)]
  /\ UNCHANGED <<groupVars, io, phase, peer, hellos, others>>

WriteFail(s) ==
  /\ io = Idle
  /\ peer[s] = "down"
  /\ inflight[s] # <<>>
  /\ inflight' = [inflight EXCEPT ![s] = Tail(@)]
  /\ Leave(s)
  /\ UNCHANGED <<io, phase, peer, messages, hellos, others, wire>>

-----------------------------------------------------------------------------
(* Reading: the branches of the handler of async_read_until.               *)

Accept(s) ==
  /\ process = "running" /\ io = Idle
  /\ phase[s] = "fresh"
  /\ phase' = [phase EXCEPT ![s] = "reading"]
  /\ UNCHANGED <<groupVars, io, peer, messages, inflight, hellos, others, wire>>

Continue(pc, s, kind) == io' = [pc |-> pc, sess |-> s, kind |-> kind]

SayHello(s, a, i) ==
  /\ Reading(s)
  /\ hellos[s] < MaxHellos
  /\ hellos' = [hellos EXCEPT ![s] = @ + 1]
  /\ Join(s)
  /\ Identify(s, a, i)
  /\ Continue("notify", s, "online")
  /\ UNCHANGED <<phase, peer, messages, inflight, others, wire>>

(* A parameter of the request is missing or of another type: the session   *)
(* is already on the list when the exception is caught and turned into an  *)
(* error response.                                                         *)
SayHelloFails(s) ==
  /\ Reading(s)
  /\ hellos[s] < MaxHellos
  /\ hellos' = [hellos EXCEPT ![s] = @ + 1]
  /\ Join(s)
  /\ IdentifyPartly(s)
  /\ Deliver(To(s, <<Note("error", s)>>))
  /\ UNCHANGED <<io, phase, peer, others, wire>>

(* The response with the active list, then the history.                    *)
NoHistory == <<>>
History == [k \in 1..Len(recentMessages) |->
              Post(NoSession, recentMessages[k].seq)]

HelloReply ==
  /\ io.pc = "reply"
  /\ Flush
  /\ Deliver(To(io.sess, <<Note("hello", io.sess)>> \o History))
  /\ io' = Idle
  /\ UNCHANGED <<phase, peer, hellos, others, wire>>

(* Group::Deliver without history, and what its handler does afterwards.   *)
Notify ==
  /\ io.pc = "notify"
  /\ DeliverNoHis
  /\ Deliver(FanOut(ExcludeSelf(io.sess), Note(io.kind, io.sess)))
  /\ io' = CASE io.kind = "online"  -> [io EXCEPT !.pc = "reply"]
             [] io.kind = "offline" -> [io EXCEPT !.pc = "leave"]
             [] OTHER               -> Idle
  /\ UNCHANGED <<phase, peer, hellos, others, wire>>

(* Content and PicContent for the whole room, under whatever Account the   *)
(* request names.                                                          *)
Content(s, a, i) ==
  /\ Reading(s)
  /\ PostBegin(a, i)
  /\ Continue("post", s, "post")
  /\ UNCHANGED sessionVars

ContentEnd ==
  /\ io.pc = "post"
  /\ PostEnd
  /\ Deliver(FanOut(ExcludeSelf(io.sess), Post(io.sess, Len(posted))))
  /\ io' = Idle
  /\ UNCHANGED <<phase, peer, hellos, others, wire>>

(* Content and PicContent for one account.                                 *)
Direct(s, a) ==
  /\ Reading(s)
  /\ others < MaxOthers
  /\ others' = others + 1
  /\ Deliver(FanOut({t \in Session : account[t] = a}, Note("direct", s)))
  /\ UNCHANGED <<groupVars, io, phase, peer, hellos, wire>>

SettingIcon(s, a, i, u) ==
  /\ Reading(s)
  /\ Spawn(u, s, a, i)
  /\ Continue("notify", s, "setting")
  /\ UNCHANGED sessionVars

Answer(s) ==
  /\ Reading(s)
  /\ others < MaxOthers
  /\ others' = others + 1
  /\ Deliver(To(s, <<Note("answer", s)>>))
  /\ UNCHANGED <<groupVars, io, phase, peer, hellos, wire>>

(* The line of a foreign protocol ends the reading without a goodbye, and  *)
(* leaves a session that is on the list there.                             *)
IgnoreLine(s) ==
  /\ Reading(s)
  /\ phase' = [phase EXCEPT ![s] = "ignored"]
  /\ UNCHANGED <<groupVars, io, peer, messages, inflight, hellos, others, wire>>

AsAfterWriteError == "leave"
AfterReadError == "notify"

ReadFail(s) ==
  /\ Reading(s)
  /\ peer[s] = "down"
  /\ phase' = [phase EXCEPT ![s] = "stopped"]
  /\ Continue(AfterReadError, s, "offline")
  /\ UNCHANGED <<groupVars, peer, messages, inflight, hellos, others, wire>>

ReadFailEnd ==
  /\ io.pc = "leave"
  /\ Leave(io.sess)
  /\ io' = Idle
  /\ UNCHANGED sessionVars

PeerDown(s) ==
  /\ process = "running"
  /\ phase[s] # "fresh"
  /\ peer[s] = "up"
  /\ peer' = [peer EXCEPT ![s] = "down"]
  /\ UNCHANGED <<groupVars, io, phase, messages, inflight, hellos, others, wire>>

-----------------------------------------------------------------------------
(* The handlers and the list hold the references that keep a session alive; *)
(* a DataUpdate thread holds none.                                         *)
Destroyed(s) ==
  /\ phase[s] \in {"stopped", "ignored"}
  /\ participants[s] = 0
  /\ inflight[s] = <<>>
  /\ io.sess # s

UpdaterStep(u) ==
  /\ UpdateStart(u, thread[u].owner \in Session /\ Destroyed(thread[u].owner))
     \/ Update(u)
  /\ UNCHANGED <<sessionVars, io>>

IoStep == HelloReply \/ Notify \/ ContentEnd \/ ReadFailEnd

Next ==
  \/ IoStep
  \/ \E s \in Session :
       \/ Accept(s)
       \/ WriteDone(s)
       \/ WriteFail(s)
       \/ \E a \in Account, i \in Icon : SayHello(s, a, i)
       \/ SayHelloFails(s)
       \/ \E a \in Author, i \in Icon : Content(s, a, i)
       \/ \E a \in Account : Direct(s, a)
       \/ \E a \in Account, i \in Icon, u \in Updater : SettingIcon(s, a, i, u)
       \/ Answer(s)
       \/ IgnoreLine(s)
       \/ ReadFail(s)
       \/ PeerDown(s)
  \/ \E u \in Updater : UpdaterStep(u)

Spec == Init /\ [][Next]_vars

(* What the operating system owes: threads are scheduled, a connection     *)
(* whose other end is gone fails its read, and what is written to a client *)
(* that is up and reads goes out; a client need not read, and the requests *)
(* are up to the clients.  The io thread is busy with other handlers at    *)
(* times, but takes the completions in the order they come.                *)
Fairness ==
  /\ WF_vars(IoStep)
  /\ \A s \in Session : SF_vars(ReadFail(s))
  /\ \A s \in Attentive : SF_vars(peer[s] = "up" /\ WriteDone(s))
  /\ \A u \in Updater : WF_vars(UpdaterStep(u))

FairSpec == Spec /\ Fairness

-----------------------------------------------------------------------------
Sent(s) == wire[s] \o messages[s]

(* async_write must not be called while another one is under way on the    *)
(* same socket, and the buffer it was given stays at the front of the      *)
(* queue.  A queue nobody writes belongs to a connection that failed.      *)
OneWriteOfTheFront ==
  \A s \in Session :
    /\ inflight[s] # <<>> =>
         messages[s] # <<>> /\ inflight[s] = <<Head(messages[s])>>
    /\ messages[s] # <<>> /\ inflight[s] = <<>> => peer[s] = "down"

(* What a client reads is what was queued for it, in that order, with      *)
(* nothing written twice and nothing skipped.                              *)
WrittenInOrder ==
  [][\A s \in Session :
       SubSeq(Sent(s)', 1, Len(Sent(s))) = Sent(s)]_vars

(* The list holds no session whose read has failed, however often it said  *)
(* hello: nobody would ever take it off.  The one ghost there is is a      *)
(* member whose line ended the reading (server.cc:209).                    *)
NoGhostMember ==
  \A s \in Session :
    participants[s] > 0 =>
      \/ phase[s] \in {"reading", "ignored"}
      \/ io.sess = s /\ io.kind = "offline"

(* A client that gets something from the room has had an answer to a       *)
(* SayHello before: the active list those notices change, or the error of  *)
(* a SayHello that joined and then failed, which carries no list.          *)
RoomAfterHello ==
  \A s \in Session : \A k \in DOMAIN Sent(s) :
    Sent(s)[k].kind \in RoomKinds =>
      \E j \in 1..k : Sent(s)[j].kind \in {"hello", "error"}

-----------------------------------------------------------------------------
Dead == process # "running"

(* A session whose connection is gone gets off the list and stays off,     *)
(* although a write error takes only one of the two ways out; unless its   *)
(* line ended the reading, whose error would have taken it off.            *)
TheGoneLeave ==
  \A s \in Session :
    peer[s] = "down" ~>
      [](participants[s] = 0) \/ phase[s] = "ignored" \/ Dead

(* The other members learn of it, also when a write error has taken the    *)
(* session off the list before its read fails.                             *)
Told(t, s) ==
  \E k \in DOMAIN Sent(t) :
    Sent(t)[k].kind = "offline" /\ Sent(t)[k].from = s

OfflineAnnounced ==
  \A s \in Session : \A t \in Session \ {s} :
    hellos[s] > 0 /\ peer[s] = "down" /\ phase[s] = "reading"
      ~> \/ Told(t, s) \/ participants[t] = 0
         \/ phase[s] = "ignored" \/ Dead

(* Whatever is queued for a client that stays and reads is written, be it  *)
(* behind other messages, and whether or not the other clients read.       *)
QueuesDrain ==
  \A s \in Attentive : \A n \in 1..MaxTold :
    Len(Sent(s)) >= n ~> Len(wire[s]) >= n \/ peer[s] = "down" \/ Dead

-----------------------------------------------------------------------------
(* The chat room the server implements as long as nobody says hello while  *)
(* on the list and no late rewrite damages the history.                    *)
IsPost(m) == m.kind = "post"

(* The numbers of the room messages in q.                                  *)
PostsOf(q) ==
  LET upTo[k \in 0..Len(q)] ==
        IF k = 0 THEN <<>>
        ELSE IF IsPost(q[k]) THEN Append(upTo[k - 1], q[k].seq)
        ELSE upTo[k - 1]
  IN  upTo[Len(q)]

Feed(s) == PostsOf(Sent(s))

Saying(s) == io.sess = s /\ io.kind = "online"

Room == INSTANCE ChatRoom WITH
  Person   <- Session,
  History  <- MaxRecent,
  MaxSaid  <- MaxPosts,
  said     <- Len(posted) - (IF mutex = "io" THEN 1 ELSE 0),
  present  <- {s \in Session : participants[s] > 0 /\ ~Saying(s)},
  welcomed <- {s \in Session : \E k \in DOMAIN Sent(s) : Sent(s)[k].kind = "hello"},
  feed     <- [s \in Session |-> Feed(s)]

(* The server implements the room.                                         *)
ImplementsRoom == Room!Spec

OnListOnce == \A s \in Session : participants[s] <= 1

(* Whatever clients and icon changes do, a step of the server is one of    *)
(* the room, or none, but for two: the end of a Deliver that walks a list  *)
(* with a session on it twice, and the answer to a SayHello out of a       *)
(* history that a late rewrite damaged.                                    *)
RoomSteps ==
  [][(ContentEnd => OnListOnce) /\ (HelloReply => HistoryIntact)
       => Room!Next \/ UNCHANGED Room!vars]_vars
=============================================================================
