------------------------------- MODULE Group -------------------------------
(***************************************************************************)
(* class Group of server/server.hpp: the list of the participants of one   *)
(* chat room, the deque of its recent messages, and the mutex that some of *)
(* its operations take.                                                    *)
(*                                                                         *)
(* Two kinds of threads reach a Group.  The io thread (there is one: main  *)
(* calls io_context.run() once) runs Join, Leave, Flush and Deliver from   *)
(* the handlers of the sessions.  Every icon change detaches a thread that *)
(* runs DataUpdate, which scans the deque without the mutex and takes it   *)
(* only around the assignment of one slot.  The io thread appears here as  *)
(* its most general client; ChatServer composes its operations into the    *)
(* handlers of the sessions.                                               *)
(*                                                                         *)
(* A data race between the two threads, and a use of a dead object, is     *)
(* undefined behaviour: the step then goes on or ends in "undefined".      *)
(***************************************************************************)
EXTENDS Naturals, Sequences

CONSTANTS
  Session,     \* connections (objects of class Session)
  Account,     \* account numbers: the numbers an Account parameter may be
  NoAccount,   \* another value that account_ may be found with
  NoNumber,    \* an Account parameter that is no number
  Icon,        \* icons
  NoIcon,      \* the empty string icon_ is constructed with
  NoSession,   \* the owner of a thread that has not been created
  Updater,     \* identities of the threads that run DataUpdate
  MaxRecent,   \* max_recent_msgs
  MaxPosts,    \* bound: messages sent to the whole room
  MaxJoins     \* bound: times one session may be on the list

ASSUME GroupAssumption ==
  /\ NoAccount \notin Account
  /\ NoNumber \notin Account \cup {NoAccount}
  /\ NoIcon \notin Icon
  /\ NoSession \notin Session
  /\ "free" \notin Updater
  /\ "io" \notin Updater
  /\ MaxRecent \in Nat \ {0}
  /\ MaxPosts \in Nat
  /\ MaxJoins \in Nat

VARIABLES
  participants,    \* how many times each session is on participants_
  account,         \* account_ of each session
  icon,            \* icon_ of each session
  recentMessages,  \* recentMessages_
  mutex,           \* holder of mutex_: "free", "io" or an updater
  thread,          \* the DataUpdate threads
  process,         \* "running", "terminated" or "undefined"
  posted           \* history variable: the author of every room message

groupVars == <<participants, account, icon, recentMessages, mutex, thread,
               process, posted>>

(***************************************************************************)
(* A room message as kept in the deque.  seq, its number among all the     *)
(* room messages, stands for its name and content, which DataUpdate copies *)
(* from the parsed text unchanged.  author is the Account of the message,  *)
(* which is copied from the request as it came, a number or not.           *)
(***************************************************************************)
Author == Account \cup {NoNumber}
Message == [seq : Nat, author : Author, icon : Icon]
NoMessage == [seq |-> 0, author |-> NoAccount, icon |-> NoIcon]

Pc == {"idle", "start", "test", "read", "lock", "write", "icons", "done"}

IdleThread == [pc |-> "idle", owner |-> NoSession, account |-> NoAccount,
               icon |-> NoIcon, idx |-> 0, entry |-> NoMessage]

Thread == [pc : Pc, owner : Session \cup {NoSession},
           account : Account \cup {NoAccount}, icon : Icon \cup {NoIcon},
           idx : Nat, entry : Message \cup {NoMessage}]

GroupTypeOK ==
  /\ participants \in [Session -> Nat]
  /\ account \in [Session -> Account \cup {NoAccount}]
  /\ icon \in [Session -> Icon \cup {NoIcon}]
  /\ recentMessages \in Seq(Message)
  /\ mutex \in {"free", "io"} \cup Updater
  /\ thread \in [Updater -> Thread]
  /\ process \in {"running", "terminated", "undefined"}
  /\ posted \in Seq(Author)

(* account_ is an int no constructor sets: any value may be found in it.   *)
GroupInit ==
  /\ participants = [s \in Session |-> 0]
  /\ account \in [Session -> Account \cup {NoAccount}]
  /\ icon = [s \in Session |-> NoIcon]
  /\ recentMessages = <<>>
  /\ mutex = "free"
  /\ thread = [u \in Updater |-> IdleThread]
  /\ process = "running"
  /\ posted = <<>>

-----------------------------------------------------------------------------
(* Two unsynchronised accesses of which one is a write, or the use of an   *)
(* object that was destroyed: nothing can be said of what follows.         *)
MayGoWrong(hazard) ==
  process' \in IF hazard THEN {"running", "undefined"} ELSE {"running"}

IoThread == process = "running" /\ mutex # "io"

Trimmed == Len(posted) - Len(recentMessages)

(* The loop that pops the front while the deque is over its limit.         *)
TrimNewest(h) == IF Len(h) > MaxRecent THEN SubSeq(h, 1, MaxRecent) ELSE h
TrimEarly(h) == IF Len(h) >= MaxRecent THEN Tail(h) ELSE h
Trim(h) == IF Len(h) > MaxRecent
           THEN SubSeq(h, Len(h) - MaxRecent + 1, Len(h))
           ELSE h

(* The list is linked: pushing and removing nodes races with the loop over *)
(* it at the end of DataUpdate.                                            *)
WalksParticipants == \E u \in Updater : thread[u].pc = "icons"

Join(s) ==
  /\ IoThread
  /\ participants[s] < MaxJoins
  /\ participants' = [participants EXCEPT ![s] = @ + 1]
  /\ MayGoWrong(WalksParticipants)
  /\ UNCHANGED <<recentMessages, mutex, thread, posted>>

(* list::remove takes every node of the session off the list.              *)
OneNodeFewer(s) == participants[s] - 1
NoNode(s) == participants[s]
NodesLeft(s) == 0

Leave(s) ==
  /\ IoThread
  /\ participants' = [participants EXCEPT ![s] = NodesLeft(s)]
  /\ MayGoWrong(WalksParticipants)
  /\ UNCHANGED <<account, icon, recentMessages, mutex, thread, posted>>

(* Flush copies the deque without the mutex.                               *)
Flush ==
  /\ IoThread
  /\ MayGoWrong(mutex \in Updater)
  /\ UNCHANGED <<participants, account, icon, recentMessages, mutex, thread,
                 posted>>

(* Deliver(self, msg, NOTIFICATION_TYPE_HIS), up to and including the push. *)
PostBegin(a, i) ==
  /\ IoThread
  /\ mutex = "free"
  /\ Len(posted) < MaxPosts
  /\ mutex' = "io"
  /\ posted' = Append(posted, a)
  /\ recentMessages' = Append(recentMessages,
                         [seq |-> Len(posted) + 1, author |-> a, icon |-> i])
  /\ UNCHANGED <<participants, account, icon, thread, process>>

(* The rest of it: the trim, the fan-out (in ChatServer) and the unlock.   *)
PostEnd ==
  /\ process = "running"
  /\ mutex = "io"
  /\ mutex' = "free"
  /\ recentMessages' = Trim(recentMessages)
  /\ UNCHANGED <<participants, account, icon, thread, process, posted>>

(* Deliver(self, msg, NOTIFICATION_TYPE_NO_HIS): the mutex is taken, but   *)
(* nothing is pushed.                                                      *)
DeliverNoHis ==
  /\ IoThread
  /\ mutex = "free"
  /\ recentMessages' = Trim(recentMessages)
  /\ UNCHANGED <<participants, account, icon, mutex, thread, process, posted>>

-----------------------------------------------------------------------------
(* The DataUpdate threads.                                                 *)

At(u, pc) == process = "running" /\ thread[u].pc = pc

(* The SettingRequest handler creates the thread; it captures the session  *)
(* as a bare this, and by value the account and the icon of the request,   *)
(* which may be anybody's.                                                 *)
Spawn(u, s, a, i) ==
  /\ IoThread
  /\ thread[u].pc = "idle"
  /\ thread' = [thread EXCEPT ![u] = [IdleThread EXCEPT
                  !.pc = "start", !.owner = s, !.account = a, !.icon = i]]
  /\ UNCHANGED <<participants, account, icon, recentMessages, mutex, process,
                 posted>>

(* Any look at the deque while the io thread is between its push and its   *)
(* pop is a data race, and so are the read of a slot that another thread   *)
(* rewrites and two threads that set the icons of one account.             *)
RacesWithDeliver == mutex = "io"
RacesWithRewrite(u) ==
  \E v \in Updater \ {u} : mutex = v /\ thread[v].idx = thread[u].idx
RacesOnIcons(u) ==
  \E v \in Updater \ {u} :
    thread[v].pc = "icons" /\ thread[v].account = thread[u].account

SecondIndex == 1
FirstIndex == 0

(* The thread reaches group_ through the session, which may be gone, and   *)
(* returns at once when there is no history.                               *)
UpdateStart(u, dangling) ==
  /\ At(u, "start")
  /\ thread' = [thread EXCEPT ![u] = [@ EXCEPT
       !.pc = IF Len(recentMessages) = 0 THEN "done" ELSE "test",
       !.idx = FirstIndex]]
  /\ MayGoWrong(dangling \/ RacesWithDeliver)
  /\ UNCHANGED <<participants, account, icon, recentMessages, mutex, posted>>

OneMoreSlot(u) == thread[u].idx <= Len(recentMessages)
MoreSlots(u) == thread[u].idx < Len(recentMessages)

UpdateTest(u) ==
  /\ At(u, "test")
  /\ thread' = [thread EXCEPT
       ![u].pc = IF MoreSlots(u) THEN "read" ELSE "icons"]
  /\ MayGoWrong(RacesWithDeliver)
  /\ UNCHANGED <<participants, account, icon, recentMessages, mutex, posted>>

LastSlot(u) == recentMessages[Len(recentMessages)]
Slot(u) == recentMessages[thread[u].idx + 1]
SameIdx(u) == thread[u].idx
NextIdx(u) == thread[u].idx + 1

(* at(idx), the parse, the conversion of the account to int, and its       *)
(* comparison with the account of the thread.                              *)
UpdateRead(u) ==
  /\ At(u, "read")
  /\ thread[u].idx < Len(recentMessages)
  /\ Slot(u).author # NoNumber
  /\ thread' = [thread EXCEPT ![u] =
       IF Slot(u).author = thread[u].account
       THEN [@ EXCEPT !.pc = "lock", !.entry = Slot(u)]
       ELSE [@ EXCEPT !.pc = "test", !.idx = NextIdx(u)]]
  /\ MayGoWrong(RacesWithDeliver \/ RacesWithRewrite(u))
  /\ UNCHANGED <<participants, account, icon, recentMessages, mutex, posted>>

(* at(idx) throws out_of_range once the deque is shorter; nothing in the   *)
(* detached thread catches it.                                             *)
UpdateThrow(u) ==
  /\ At(u, "read")
  /\ thread[u].idx >= Len(recentMessages)
  /\ process' \in IF RacesWithDeliver THEN {"terminated", "undefined"}
                                      ELSE {"terminated"}
  /\ UNCHANGED <<participants, account, icon, recentMessages, mutex, thread,
                 posted>>

(* The conversion throws type_error for what is no number.                 *)
UpdateTypeError(u) ==
  /\ At(u, "read")
  /\ thread[u].idx < Len(recentMessages)
  /\ Slot(u).author = NoNumber
  /\ process' \in IF RacesWithDeliver \/ RacesWithRewrite(u)
                  THEN {"terminated", "undefined"} ELSE {"terminated"}
  /\ UNCHANGED <<participants, account, icon, recentMessages, mutex, thread,
                 posted>>

UpdateLock(u) ==
  /\ At(u, "lock")
  /\ mutex = "free"
  /\ mutex' = u
  /\ thread' = [thread EXCEPT ![u].pc = "write"]
  /\ UNCHANGED <<participants, account, icon, recentMessages, process, posted>>

RewrittenInPlace(u) == [recentMessages[thread[u].idx + 1] EXCEPT
                          !.author = thread[u].account,
                          !.icon = thread[u].icon]
Rewritten(u) == [thread[u].entry EXCEPT !.icon = thread[u].icon]

(* The slot is found again by its index; operator[] does not check it.     *)
UpdateWrite(u) ==
  /\ At(u, "write")
  /\ mutex' = "free"
  /\ thread' = [thread EXCEPT ![u] =
       [@ EXCEPT !.pc = "test", !.idx = NextIdx(u), !.entry = NoMessage]]
  /\ recentMessages' = IF thread[u].idx < Len(recentMessages)
                       THEN [recentMessages EXCEPT
                               ![thread[u].idx + 1] = Rewritten(u)]
                       ELSE recentMessages
  /\ MayGoWrong(thread[u].idx >= Len(recentMessages))
  /\ UNCHANGED <<participants, account, icon, posted>>

OthersFor(u) ==
  {s \in Session : participants[s] > 0 /\ account[s] = thread[u].account
                     /\ s # thread[u].owner}
MembersFor(u) ==
  {s \in Session : participants[s] > 0 /\ account[s] = thread[u].account}

UpdateIcons(u) ==
  /\ At(u, "icons")
  /\ thread' = [thread EXCEPT ![u].pc = "done"]
  /\ icon' = [s \in Session |->
                IF s \in MembersFor(u) THEN thread[u].icon ELSE icon[s]]
  /\ MayGoWrong(RacesOnIcons(u))
  /\ UNCHANGED <<participants, account, recentMessages, mutex, posted>>

Update(u) ==
  \/ UpdateTest(u)
  \/ UpdateRead(u)
  \/ UpdateThrow(u)
  \/ UpdateTypeError(u)
  \/ UpdateLock(u)
  \/ UpdateWrite(u)
  \/ UpdateIcons(u)

-----------------------------------------------------------------------------
(* SayHello sets the fields of the session it puts on the list, to what    *)
(* the request says.  A parameter that is missing, or of another type,     *)
(* throws: account_ comes first and may have been set by then.             *)
Identify(s, a, i) ==
  /\ account' = [account EXCEPT ![s] = a]
  /\ icon' = [icon EXCEPT ![s] = i]

IdentifyPartly(s) ==
  /\ \E a \in Account \cup {account[s]} :
       account' = [account EXCEPT ![s] = a]
  /\ UNCHANGED icon

RoomStep ==
  \/ \E s \in Session, a \in Account, i \in Icon : Join(s) /\ Identify(s, a, i)
  \/ \E s \in Session : Join(s) /\ IdentifyPartly(s)
  \/ \E s \in Session : Leave(s)
  \/ Flush
  \/ \E a \in Author, i \in Icon : PostBegin(a, i)
  \/ PostEnd
  \/ DeliverNoHis
  \/ \E u \in Updater, dangling \in BOOLEAN : UpdateStart(u, dangling)
  \/ \E u \in Updater : Update(u)

GroupNext ==
  \/ RoomStep
  \/ \E u \in Updater, s \in Session, a \in Account, i \in Icon :
       Spawn(u, s, a, i)

GroupSpec == GroupInit /\ [][GroupNext]_groupVars

-----------------------------------------------------------------------------
(* The deque is over its limit only while Deliver holds the mutex, between *)
(* its push and the end of its trim.                                       *)
RecentBounded == mutex # "io" => Len(recentMessages) <= MaxRecent

(* No slot ever holds a message nobody sent or one under another author's  *)
(* account, although DataUpdate writes back what it read at an index that  *)
(* Deliver may have shifted meanwhile.                                     *)
NoForgery ==
  \A k \in DOMAIN recentMessages :
    /\ recentMessages[k].seq \in DOMAIN posted
    /\ recentMessages[k].author = posted[recentMessages[k].seq]

(* Until the deque has reached its limit once, no room message is lost,    *)
(* duplicated or moved, whatever icon changes run: a rewrite goes back to  *)
(* the slot it came from.                                                  *)
NothingLostBeforeLimit ==
  Len(posted) <= MaxRecent =>
    /\ Len(recentMessages) = Len(posted)
    /\ \A k \in DOMAIN recentMessages : recentMessages[k].seq = k

(* Past the limit a late rewrite may put an old message over a newer one,  *)
(* but never a message ahead of the place where it belongs.                *)
NeverAheadOfSlot ==
  \A k \in DOMAIN recentMessages : recentMessages[k].seq <= Trimmed + k

(* An exception of DataUpdate ends the server.  The out_of_range of        *)
(* at(idx) needs a deque that has been trimmed: below the limit the        *)
(* unlocked scan stays in bounds.  The type_error needs a message whose    *)
(* Account is no number, and there is nothing else it throws.              *)
AllNumbers == \A k \in DOMAIN posted : posted[k] # NoNumber

ThrowsOnlyPastLimit ==
  process = "terminated" => Len(posted) > MaxRecent \/ ~AllNumbers

(* Until the first trim, an icon change that is the only one of its        *)
(* account leaves no message of that account behind its scan with another  *)
(* icon, although messages are pushed while it scans.                      *)
ScannedPrefixRewritten ==
  \A u \in Updater :
    ( /\ thread[u].pc \in {"test", "read", "lock", "write", "icons"}
      /\ Trimmed = 0
      /\ \A v \in Updater \ {u} : thread[v].account # thread[u].account )
    => \A k \in 1..thread[u].idx :
         recentMessages[k].author = thread[u].account
           => recentMessages[k].icon = thread[u].icon

(* The deque holds the latest messages in their order, until a thread puts *)
(* back a message that a trim has moved since it was read: nothing else    *)
(* ever brings them out of order.                                          *)
HistoryIntact ==
  \A k \in DOMAIN recentMessages : recentMessages[k].seq = Trimmed + k

MovedSinceRead(u) == thread[u].entry.seq # Trimmed + thread[u].idx + 1

OnlyLateWritesDamage ==
  [][HistoryIntact /\ ~HistoryIntact' =>
       \E u \in Updater : UpdateWrite(u) /\ MovedSinceRead(u)]_groupVars

(* A thread that runs DataUpdate ends, unless it takes the process down.   *)
(* Threads are scheduled, and the io thread gets to the end of a Deliver.  *)
GroupFairness ==
  /\ WF_groupVars(PostEnd)
  /\ \A u \in Updater : WF_groupVars(Update(u) \/ UpdateStart(u, FALSE))

UpdatesEnd ==
  \A u \in Updater :
    thread[u].pc = "start" ~> thread[u].pc = "done" \/ process # "running"

FairGroupSpec == GroupSpec /\ GroupFairness
=============================================================================
