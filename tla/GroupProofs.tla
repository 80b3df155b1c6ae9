---------------------------- MODULE GroupProofs ----------------------------
(***************************************************************************)
(* Theorems about Group, for every number of sessions, threads, messages   *)
(* and every limit of the deque.                                           *)
(***************************************************************************)
EXTENDS Group, TLAPS, SequenceTheorems

-----------------------------------------------------------------------------
(* The inductive invariant.                                                *)

(* An updater holds the mutex exactly while it is about to write.          *)
HoldsLock == \A u \in Updater : thread[u].pc = "write" <=> mutex = u

(* Nothing is trimmed before the deque has reached its limit, and the      *)
(* deque is over it by at most one message, while Deliver runs.            *)
Counts ==
  /\ Len(recentMessages) <= Len(posted)
  /\ mutex # "io" => Len(recentMessages) <= MaxRecent
  /\ mutex = "io" => Len(recentMessages) <= MaxRecent + 1
  /\ Len(recentMessages) < Len(posted) => Len(recentMessages) >= MaxRecent

(* m may stand at slot k of the n slots of the deque, or be about to be    *)
(* written there, when the messages p have been posted.                    *)
InPlace(m, k, n, p) ==
  /\ m.seq \in 1..Len(p)
  /\ m.author = p[m.seq]
  /\ m.seq <= Len(p) - n + k
  /\ n = Len(p) => m.seq = k

Slots ==
  \A k \in 1..Len(recentMessages) :
    InPlace(recentMessages[k], k, Len(recentMessages), posted)

(* What an updater has read and not yet written back.                      *)
Entries ==
  \A u \in Updater :
    thread[u].pc \in {"lock", "write"} =>
      /\ thread[u].entry \in Message
      /\ thread[u].entry.author = thread[u].account
      /\ InPlace(thread[u].entry, thread[u].idx + 1,
                 Len(recentMessages), posted)

(* Before the first trim an index that was tested stays in bounds.         *)
InBounds ==
  \A u \in Updater :
    Len(recentMessages) = Len(posted) =>
      /\ thread[u].idx <= Len(recentMessages)
      /\ thread[u].pc \in {"read", "lock", "write"}
           => thread[u].idx < Len(recentMessages)

ThrowNeedsTrim ==
  process = "terminated" => Len(recentMessages) < Len(posted) \/ ~AllNumbers

(* A thread that runs has been given an account and an icon.               *)
Created ==
  \A u \in Updater :
    IF thread[u].pc = "idle"
    THEN thread[u].account = NoAccount
    ELSE thread[u].account \in Account /\ thread[u].icon \in Icon

IInv ==
  /\ GroupTypeOK
  /\ HoldsLock
  /\ Counts
  /\ Slots
  /\ Entries
  /\ InBounds
  /\ ThrowNeedsTrim
  /\ Created

-----------------------------------------------------------------------------
(* Type correctness.                                                       *)

(* A trimmed deque is a suffix of the deque, no longer than the limit.     *)
LEMMA TrimProperties ==
  ASSUME NEW h \in Seq(Message)
  PROVE  /\ Trim(h) \in Seq(Message)
         /\ Len(h) <= MaxRecent => Trim(h) = h
         /\ Len(h) > MaxRecent =>
              /\ Len(Trim(h)) = MaxRecent
              /\ \A k \in 1..MaxRecent : Trim(h)[k] = h[Len(h) - MaxRecent + k]
<1>. USE GroupAssumption
<1>1. CASE Len(h) <= MaxRecent
  BY <1>1 DEF Trim
<1>2. CASE Len(h) > MaxRecent
  <2>. DEFINE from == Len(h) - MaxRecent + 1
  <2>1. /\ from \in 1..Len(h)+1
        /\ Len(h) \in 0..Len(h)
    BY <1>2
  <2>2. /\ SubSeq(h, from, Len(h)) \in Seq(Message)
        /\ Len(SubSeq(h, from, Len(h))) =
             IF from <= Len(h) THEN Len(h) - from + 1 ELSE 0
        /\ \A k \in 1..Len(h) - from + 1 :
             SubSeq(h, from, Len(h))[k] = h[from + k - 1]
    <3>. HIDE DEF from
    <3>. QED  BY <2>1, SubSeqProperties
  <2>3. Trim(h) = SubSeq(h, from, Len(h))
    BY <1>2 DEF Trim
  <2>. QED  BY <1>2, <2>2, <2>3, SMTT(40)
<1>. QED  BY <1>1, <1>2

LEMMA TypeInit == GroupInit => GroupTypeOK
BY GroupAssumption
DEF GroupInit, GroupTypeOK, IdleThread, NoMessage, Thread, Message, Pc

(* The steps of the io thread.                                             *)
LEMMA TypeIo ==
  ASSUME GroupTypeOK,
         \/ \E s \in Session, a \in Account, i \in Icon :
              Join(s) /\ Identify(s, a, i)
         \/ \E s \in Session : Join(s) /\ IdentifyPartly(s)
         \/ \E s \in Session : Leave(s)
         \/ Flush
         \/ \E a \in Author, i \in Icon : PostBegin(a, i)
         \/ PostEnd
         \/ DeliverNoHis
         \/ \E u \in Updater, s \in Session, a \in Account, i \in Icon :
              Spawn(u, s, a, i)
         \/ UNCHANGED groupVars
  PROVE  GroupTypeOK'
<1>. USE GroupAssumption DEF GroupTypeOK
<1>1. ASSUME NEW s \in Session, NEW a \in Account, NEW i \in Icon,
             Join(s), Identify(s, a, i)
      PROVE  GroupTypeOK'
  BY <1>1 DEF Join, Identify, MayGoWrong
<1>2. ASSUME NEW s \in Session, Join(s), IdentifyPartly(s)
      PROVE  GroupTypeOK'
  BY <1>2 DEF Join, IdentifyPartly, MayGoWrong
<1>3. ASSUME NEW s \in Session, Leave(s) PROVE GroupTypeOK'
  BY <1>3 DEF Leave, NodesLeft, MayGoWrong
<1>4. CASE Flush
  BY <1>4 DEF Flush, MayGoWrong
<1>5. ASSUME NEW a \in Author, NEW i \in Icon, PostBegin(a, i)
      PROVE  GroupTypeOK'
  <2>. DEFINE m == [seq |-> Len(posted) + 1, author |-> a, icon |-> i]
  <2>1. m \in Message
    BY DEF Message
  <2>2. recentMessages' \in Seq(Message)
    BY <1>5, <2>1 DEF PostBegin
  <2>3. posted' \in Seq(Author)
    BY <1>5 DEF PostBegin
  <2>. QED  BY <1>5, <2>2, <2>3 DEF PostBegin
<1>6. CASE PostEnd
  BY <1>6, TrimProperties DEF PostEnd
<1>7. CASE DeliverNoHis
  BY <1>7, TrimProperties DEF DeliverNoHis
<1>8. ASSUME NEW u \in Updater, NEW s \in Session, NEW a \in Account,
             NEW i \in Icon, Spawn(u, s, a, i)
      PROVE  GroupTypeOK'
  <2>1. [IdleThread EXCEPT !.pc = "start", !.owner = s,
           !.account = a, !.icon = i] \in Thread
    BY DEF IdleThread, NoMessage, Thread, Pc
  <2>. QED  BY <1>8, <2>1 DEF Spawn
<1>9. CASE UNCHANGED groupVars
  BY <1>9 DEF groupVars
<1>. QED  BY <1>1, <1>2, <1>3, <1>4, <1>5, <1>6, <1>7, <1>8, <1>9

(* The steps of the updaters.                                              *)
LEMMA TypeUpdater ==
  ASSUME GroupTypeOK, Entries, Created, NEW u \in Updater,
         (\E dangling \in BOOLEAN : UpdateStart(u, dangling)) \/ Update(u)
  PROVE  GroupTypeOK'
<1>. USE GroupAssumption DEF GroupTypeOK
<1>. thread[u] \in Thread
  OBVIOUS
<1>. NextIdx(u) \in Nat
  BY DEF NextIdx, Thread
<1>1. ASSUME NEW dangling \in BOOLEAN, UpdateStart(u, dangling)
      PROVE  GroupTypeOK'
  BY <1>1 DEF UpdateStart, FirstIndex, MayGoWrong, Thread, Pc
<1>2. CASE UpdateTest(u)
  BY <1>2 DEF UpdateTest, MayGoWrong, Thread, Pc
<1>3. CASE UpdateRead(u)
  <2>1. Slot(u) \in Message
    BY <1>3 DEF UpdateRead, Slot, Thread
  <2>2. [thread[u] EXCEPT !.pc = "lock", !.entry = Slot(u)] \in Thread
    BY <2>1 DEF Thread, Pc
  <2>3. [thread[u] EXCEPT !.pc = "test", !.idx = NextIdx(u)] \in Thread
    BY DEF Thread, Pc
  <2>4. thread' \in [Updater -> Thread]
    BY <1>3, <2>2, <2>3 DEF UpdateRead
  <2>. QED  BY <1>3, <2>4 DEF UpdateRead, MayGoWrong
<1>4. CASE UpdateThrow(u)
  BY <1>4 DEF UpdateThrow
<1>8. CASE UpdateTypeError(u)
  BY <1>8 DEF UpdateTypeError
<1>5. CASE UpdateLock(u)
  BY <1>5 DEF UpdateLock, Thread, Pc
<1>6. CASE UpdateWrite(u)
  <2>1. [thread[u] EXCEPT !.pc = "test", !.idx = NextIdx(u),
                         !.entry = NoMessage] \in Thread
    BY DEF Thread, Pc
  <2>2. Rewritten(u) \in Message
    BY <1>6 DEF UpdateWrite, At, Rewritten, Entries, Created, Message
  <2>3. recentMessages' \in Seq(Message)
    BY <1>6, <2>2 DEF UpdateWrite, Thread
  <2>. QED  BY <1>6, <2>1, <2>3 DEF UpdateWrite, MayGoWrong
<1>7. CASE UpdateIcons(u)
  BY <1>7 DEF UpdateIcons, MayGoWrong, Thread, Pc
<1>. QED  BY <1>1, <1>2, <1>3, <1>4, <1>5, <1>6, <1>7, <1>8 DEF Update
-----------------------------------------------------------------------------
(* The other parts of the inductive invariant.                             *)

(* Join, Leave, Flush and a step of nobody touch none of its variables     *)
(* but process, which they never terminate.                                *)
LEMMA StepBeside ==
  ASSUME IInv, UNCHANGED <<recentMessages, mutex, thread, posted>>,
         process' # "terminated" \/ UNCHANGED process
  PROVE  /\ HoldsLock' /\ Counts' /\ Slots' /\ Entries'
         /\ InBounds' /\ ThrowNeedsTrim' /\ Created'
BY DEF IInv, HoldsLock, Counts, Slots, Entries, InBounds, ThrowNeedsTrim,
       AllNumbers, Created, InPlace

(* A push at the end leaves every slot where it is.                        *)
LEMMA StepPostBegin ==
  ASSUME IInv, NEW a \in Author, NEW i \in Icon, PostBegin(a, i)
  PROVE  /\ HoldsLock' /\ Counts' /\ Slots' /\ Entries'
         /\ InBounds' /\ ThrowNeedsTrim' /\ Created'
<1>. USE GroupAssumption DEF IInv, GroupTypeOK
<1>. DEFINE m == [seq |-> Len(posted) + 1, author |-> a, icon |-> i]
<1>1. m \in Message
  BY DEF Message
<1>2. /\ Len(recentMessages') = Len(recentMessages) + 1
      /\ \A k \in 1..Len(recentMessages) : recentMessages'[k] = recentMessages[k]
      /\ recentMessages'[Len(recentMessages) + 1] = m
  BY <1>1 DEF PostBegin
<1>3. /\ Len(posted') = Len(posted) + 1
      /\ \A n \in 1..Len(posted) : posted'[n] = posted[n]
      /\ posted'[Len(posted) + 1] = a
  BY DEF PostBegin
<1>4. mutex = "free" /\ mutex' = "io" /\ thread' = thread /\ process' = process
  BY DEF PostBegin
<1>5. ASSUME NEW x, NEW k, InPlace(x, k, Len(recentMessages), posted)
      PROVE  InPlace(x, k, Len(recentMessages'), posted')
  BY <1>2, <1>3, <1>5 DEF InPlace
<1>6. HoldsLock'
  BY <1>4 DEF HoldsLock
<1>7. Counts'
  BY <1>2, <1>3, <1>4 DEF Counts
<1>8. Slots'
  <2>1. ASSUME NEW k \in 1..Len(recentMessages)
        PROVE  InPlace(recentMessages[k], k, Len(recentMessages'), posted')
    BY <1>2, <1>5 DEF Slots
  <2>2. InPlace(m, Len(recentMessages) + 1, Len(recentMessages'), posted')
    BY <1>2, <1>3 DEF InPlace, Counts
  <2>3. ASSUME NEW k \in 1..Len(recentMessages) + 1
        PROVE  InPlace(recentMessages'[k], k, Len(recentMessages'), posted')
    <3>1. CASE k \in 1..Len(recentMessages)
      BY <1>2, <2>1, <3>1
    <3>2. CASE k = Len(recentMessages) + 1
      BY <1>2, <2>2, <3>2
    <3>. QED  BY <3>1, <3>2
  <2>. QED  BY <1>2, <2>3 DEF Slots
<1>9. Entries'
  BY <1>4, <1>5 DEF Entries
<1>10. InBounds'
  <2>. SUFFICES ASSUME NEW u \in Updater, Len(recentMessages) = Len(posted)
                PROVE  /\ thread[u].idx <= Len(recentMessages) + 1
                       /\ thread[u].pc \in {"read", "lock", "write"}
                            => thread[u].idx < Len(recentMessages) + 1
    BY <1>2, <1>3, <1>4 DEF InBounds
  <2>1. thread[u].idx \in Nat
    BY DEF Thread
  <2>. QED  BY <2>1 DEF InBounds
<1>11. ThrowNeedsTrim' /\ Created'
  <2>1. ~AllNumbers => ~AllNumbers'
    <3>1. /\ DOMAIN posted = 1..Len(posted)
          /\ DOMAIN posted' = 1..Len(posted) + 1
      BY <1>3 DEF PostBegin
    <3>. QED  BY <1>3, <3>1 DEF AllNumbers
  <2>. QED  BY <1>2, <1>3, <1>4, <2>1 DEF ThrowNeedsTrim, Created
<1>. QED  BY <1>6, <1>7, <1>8, <1>9, <1>10, <1>11

(* A trim moves every message one slot to the front, or does nothing.      *)
LEMMA StepTrim ==
  ASSUME IInv, PostEnd \/ DeliverNoHis
  PROVE  /\ HoldsLock' /\ Counts' /\ Slots' /\ Entries'
         /\ InBounds' /\ ThrowNeedsTrim' /\ Created'
<1>. USE GroupAssumption DEF IInv, GroupTypeOK
<1>1. /\ mutex' = "free" /\ mutex \in {"free", "io"}
      /\ UNCHANGED <<thread, process, posted>>
      /\ recentMessages' = Trim(recentMessages)
  BY DEF PostEnd, DeliverNoHis
<1>2. HoldsLock' /\ Created'
  BY <1>1 DEF HoldsLock, Created
<1>3. CASE Len(recentMessages) <= MaxRecent
  <2>1. recentMessages' = recentMessages
    BY <1>1, <1>3, TrimProperties
  <2>. QED  BY <1>1, <1>2, <1>3, <2>1
            DEF Counts, Slots, Entries, InBounds, ThrowNeedsTrim, AllNumbers, InPlace
<1>4. CASE Len(recentMessages) > MaxRecent
  <2>1. Len(recentMessages) = MaxRecent + 1
    BY <1>1, <1>4 DEF Counts
  <2>2. /\ Len(recentMessages') = MaxRecent
        /\ \A k \in 1..MaxRecent : recentMessages'[k] = recentMessages[k + 1]
    <3>1. /\ Len(recentMessages') = MaxRecent
          /\ \A k \in 1..MaxRecent : recentMessages'[k] =
               recentMessages[Len(recentMessages) - MaxRecent + k]
      BY <1>1, <1>4, TrimProperties
    <3>2. \A k \in 1..MaxRecent : Len(recentMessages) - MaxRecent + k = k + 1
      BY <2>1
    <3>. QED  BY <3>1, <3>2
  <2>3. MaxRecent < Len(posted) /\ Len(posted') = Len(posted)
    BY <1>1, <2>1 DEF Counts
  <2>4. Counts' /\ ThrowNeedsTrim' /\ InBounds'
    <3>1. Counts'
      BY <1>1, <2>2, <2>3 DEF Counts
    <3>2. Len(recentMessages') # Len(posted')
      BY <2>2, <2>3
    <3>3. InBounds'
      BY <3>2 DEF InBounds
    <3>4. ThrowNeedsTrim'
      BY <2>2, <2>3 DEF ThrowNeedsTrim
    <3>. QED  BY <3>1, <3>3, <3>4
  <2>5. Slots'
    <3>. SUFFICES ASSUME NEW k \in 1..MaxRecent
                  PROVE  InPlace(recentMessages[k + 1], k, MaxRecent, posted)
      BY <1>1, <2>2 DEF Slots
    <3>1. InPlace(recentMessages[k + 1], k + 1, MaxRecent + 1, posted)
      BY <2>1 DEF Slots
    <3>. QED  BY <1>1, <2>1, <2>2, <3>1 DEF InPlace, Counts
  <2>6. Entries'
    <3>. SUFFICES ASSUME NEW u \in Updater, thread[u].pc \in {"lock", "write"}
                  PROVE  InPlace(thread[u].entry, thread[u].idx + 1,
                                 MaxRecent, posted)
      BY <1>1, <2>2 DEF Entries
    <3>1. /\ InPlace(thread[u].entry, thread[u].idx + 1, MaxRecent + 1, posted)
          /\ thread[u].idx \in Nat
      BY <2>1 DEF Entries, Thread
    <3>. QED  BY <1>1, <2>1, <2>2, <3>1, SMTT(40) DEF InPlace, Counts
  <2>. QED  BY <1>2, <2>4, <2>5, <2>6
<1>. QED  BY <1>3, <1>4

(* The icon change of one session starts with nothing read.                *)
LEMMA StepSpawn ==
  ASSUME IInv, NEW u \in Updater, NEW s \in Session, NEW a \in Account,
             NEW i \in Icon, Spawn(u, s, a, i)
  PROVE  /\ HoldsLock' /\ Counts' /\ Slots' /\ Entries'
         /\ InBounds' /\ ThrowNeedsTrim' /\ Created'
<1>. USE GroupAssumption DEF IInv, GroupTypeOK
<1>1. /\ UNCHANGED <<recentMessages, mutex, process, posted>>
      /\ \A v \in Updater \ {u} : thread'[v] = thread[v]
  BY DEF Spawn
<1>2. /\ thread[u].pc = "idle" /\ thread'[u].pc = "start"
      /\ thread'[u].idx = 0
      /\ thread'[u].account = a /\ thread'[u].icon = i
  BY DEF Spawn, IdleThread
<1>3. HoldsLock'
  BY <1>1, <1>2 DEF HoldsLock
<1>4. Counts' /\ Slots' /\ ThrowNeedsTrim'
  BY <1>1 DEF Counts, Slots, ThrowNeedsTrim, AllNumbers
<1>5. Entries'
  BY <1>1, <1>2 DEF Entries
<1>6. InBounds'
  <2>1. Len(recentMessages) >= 0
    OBVIOUS
  <2>2. /\ Len(recentMessages') = Len(recentMessages)
        /\ Len(posted') = Len(posted)
    BY <1>1
  <2>. SUFFICES ASSUME NEW v \in Updater, Len(recentMessages) = Len(posted)
                PROVE  /\ thread'[v].idx <= Len(recentMessages)
                       /\ thread'[v].pc \in {"read", "lock", "write"}
                            => thread'[v].idx < Len(recentMessages)
    BY <2>2 DEF InBounds
  <2>. QED  BY <1>1, <1>2, <2>1 DEF InBounds
<1>7. Created'
  BY <1>1, <1>2 DEF Created
<1>. QED  BY <1>3, <1>4, <1>5, <1>6, <1>7

(* What an updater does to itself, when it touches nothing else.           *)
LEMMA StepOwn ==
  ASSUME IInv, NEW u \in Updater,
         UNCHANGED <<recentMessages, posted>>, process' # "terminated",
         \A v \in Updater \ {u} : thread'[v] = thread[v],
         thread[u].pc # "idle", thread'[u].pc # "idle",
         thread'[u].account = thread[u].account,
         thread'[u].icon = thread[u].icon,
         mutex' = "io" <=> mutex = "io",
         Len(recentMessages) = Len(posted) =>
           /\ thread'[u].idx <= Len(recentMessages)
           /\ thread'[u].pc \in {"read", "lock", "write"}
                => thread'[u].idx < Len(recentMessages),
         thread'[u].pc \in {"lock", "write"} =>
           /\ thread'[u].entry \in Message
           /\ thread'[u].entry.author = thread[u].account
           /\ InPlace(thread'[u].entry, thread'[u].idx + 1,
                      Len(recentMessages), posted)
  PROVE  /\ Counts' /\ Slots' /\ Entries'
         /\ InBounds' /\ ThrowNeedsTrim' /\ Created'
<1>. USE DEF IInv
<1>1. Counts'
  BY DEF Counts
<1>2. Slots' /\ ThrowNeedsTrim'
  BY DEF Slots, ThrowNeedsTrim
<1>3. Entries'
  BY DEF Entries
<1>4. InBounds'
  BY DEF InBounds
<1>5. Created'
  BY DEF Created
<1>. QED  BY <1>1, <1>2, <1>3, <1>4, <1>5

(* The steps of an updater before and after its writes.                    *)
LEMMA StepScan ==
  ASSUME IInv, NEW u \in Updater,
         \/ \E dangling \in BOOLEAN : UpdateStart(u, dangling)
         \/ UpdateTest(u)
         \/ UpdateRead(u)
         \/ UpdateIcons(u)
  PROVE  /\ HoldsLock' /\ Counts' /\ Slots' /\ Entries'
         /\ InBounds' /\ ThrowNeedsTrim' /\ Created'
<1>. DEFINE fits == Len(recentMessages) = Len(posted) =>
       /\ thread'[u].idx <= Len(recentMessages)
       /\ thread'[u].pc \in {"read", "lock", "write"}
            => thread'[u].idx < Len(recentMessages)
<1>. DEFINE found == thread'[u].pc \in {"lock", "write"} =>
       /\ thread'[u].entry \in Message
       /\ thread'[u].entry.author = thread[u].account
       /\ InPlace(thread'[u].entry, thread'[u].idx + 1,
                  Len(recentMessages), posted)
<1>. DEFINE own == /\ thread[u].pc \in {"start", "test", "read", "icons"}
                   /\ thread'[u].pc \in {"test", "read", "lock", "icons", "done"}
                   /\ thread'[u].account = thread[u].account
                   /\ thread'[u].icon = thread[u].icon
<1>1. /\ UNCHANGED <<recentMessages, mutex, posted>>
      /\ process' # "terminated"
      /\ \A v \in Updater \ {u} : thread'[v] = thread[v]
  BY DEF UpdateStart, UpdateTest, UpdateRead, UpdateIcons, MayGoWrong,
         IInv, GroupTypeOK
<1>2. /\ thread \in [Updater -> Thread]
      /\ thread[u] \in Thread
      /\ thread[u].idx \in Nat
      /\ recentMessages \in Seq(Message)
      /\ Len(recentMessages) \in Nat
  BY DEF IInv, GroupTypeOK, Thread
<1>3. ASSUME NEW dangling \in BOOLEAN, UpdateStart(u, dangling)
      PROVE  own /\ fits /\ found
  <2>1. /\ thread'[u].pc \in {"test", "done"}
        /\ thread'[u].idx = 0
        /\ thread'[u].account = thread[u].account
        /\ thread'[u].icon = thread[u].icon
    BY <1>2, <1>3 DEF UpdateStart, FirstIndex, Thread
  <2>2. thread[u].pc = "start"
    BY <1>3 DEF UpdateStart, At
  <2>. QED  BY <1>2, <2>1, <2>2
<1>4. ASSUME UpdateTest(u) PROVE own /\ fits /\ found
  <2>1. /\ thread'[u].pc = IF MoreSlots(u) THEN "read" ELSE "icons"
        /\ thread'[u].idx = thread[u].idx
        /\ thread'[u].account = thread[u].account
        /\ thread'[u].icon = thread[u].icon
    BY <1>2, <1>4 DEF UpdateTest, Thread
  <2>2. thread[u].pc = "test"
    BY <1>4 DEF UpdateTest, At
  <2>. QED  BY <1>2, <2>1, <2>2 DEF MoreSlots, IInv, InBounds
<1>5. ASSUME UpdateRead(u) PROVE own /\ fits /\ found
  <2>1. /\ thread[u].pc = "read"
        /\ thread[u].idx < Len(recentMessages)
    BY <1>5 DEF UpdateRead, At
  <2>2. /\ Slot(u) \in Message
        /\ InPlace(Slot(u), thread[u].idx + 1, Len(recentMessages), posted)
    BY <1>2, <2>1 DEF Slot, IInv, Slots
  <2>3. ASSUME Slot(u).author = thread[u].account
        PROVE  own /\ fits /\ found
    <3>1. thread'[u] = [thread[u] EXCEPT !.pc = "lock", !.entry = Slot(u)]
      BY <1>2, <1>5, <2>3 DEF UpdateRead
    <3>2. /\ thread'[u].pc = "lock"
          /\ thread'[u].entry = Slot(u)
          /\ thread'[u].idx = thread[u].idx
          /\ thread'[u].account = thread[u].account
          /\ thread'[u].icon = thread[u].icon
      BY <1>2, <3>1 DEF Thread
    <3>. QED  BY <1>2, <2>1, <2>2, <2>3, <3>2
  <2>4. ASSUME Slot(u).author # thread[u].account
        PROVE  own /\ fits /\ found
    <3>1. thread'[u] = [thread[u] EXCEPT !.pc = "test", !.idx = NextIdx(u)]
      BY <1>2, <1>5, <2>4 DEF UpdateRead
    <3>2. /\ thread'[u].pc = "test"
          /\ thread'[u].idx = thread[u].idx + 1
          /\ thread'[u].account = thread[u].account
          /\ thread'[u].icon = thread[u].icon
      BY <1>2, <3>1 DEF Thread, NextIdx
    <3>. QED  BY <1>2, <2>1, <3>2
  <2>. QED  BY <2>3, <2>4
<1>6. ASSUME UpdateIcons(u) PROVE own /\ fits /\ found
  <2>1. /\ thread'[u].pc = "done"
        /\ thread'[u].idx = thread[u].idx
        /\ thread'[u].account = thread[u].account
        /\ thread'[u].icon = thread[u].icon
    BY <1>2, <1>6 DEF UpdateIcons, Thread
  <2>2. thread[u].pc = "icons"
    BY <1>6 DEF UpdateIcons, At
  <2>. QED  BY <2>1, <2>2 DEF IInv, InBounds
<1>7. own /\ fits /\ found
  BY <1>3, <1>4, <1>5, <1>6
<1>8. HoldsLock'
  <2>1. thread'[u].pc # "write" /\ thread[u].pc # "write"
    BY <1>7
  <2>. QED  BY <1>1, <2>1 DEF IInv, HoldsLock
<1>9. thread[u].pc # "idle" /\ thread'[u].pc # "idle"
  BY <1>7
<1>. QED  BY <1>1, <1>7, <1>8, <1>9, StepOwn

(* at(idx) throws only when the deque has been trimmed.                    *)
LEMMA StepThrow ==
  ASSUME IInv, NEW u \in Updater, UpdateThrow(u)
  PROVE  /\ HoldsLock' /\ Counts' /\ Slots' /\ Entries'
         /\ InBounds' /\ ThrowNeedsTrim' /\ Created'
<1>. USE DEF IInv, GroupTypeOK
<1>1. UNCHANGED <<recentMessages, mutex, thread, posted>>
  BY DEF UpdateThrow
<1>2. Len(recentMessages) < Len(posted)
  BY DEF UpdateThrow, At, InBounds, Counts, Thread
<1>. QED  BY <1>1, <1>2 DEF HoldsLock, Counts, Slots, Entries, InBounds,
                            ThrowNeedsTrim, Created

(* The conversion throws only for a message that was posted as it is.      *)
LEMMA StepTypeError ==
  ASSUME IInv, NEW u \in Updater, UpdateTypeError(u)
  PROVE  /\ HoldsLock' /\ Counts' /\ Slots' /\ Entries'
         /\ InBounds' /\ ThrowNeedsTrim' /\ Created'
<1>. USE DEF IInv, GroupTypeOK
<1>1. UNCHANGED <<recentMessages, mutex, thread, posted>>
  BY DEF UpdateTypeError
<1>2. /\ thread[u].idx + 1 \in 1..Len(recentMessages)
      /\ recentMessages[thread[u].idx + 1].author = NoNumber
  BY DEF UpdateTypeError, Slot, Thread
<1>3. ~AllNumbers
  <2>1. InPlace(recentMessages[thread[u].idx + 1], thread[u].idx + 1,
                Len(recentMessages), posted)
    BY <1>2 DEF Slots
  <2>2. /\ recentMessages[thread[u].idx + 1].seq \in DOMAIN posted
        /\ posted[recentMessages[thread[u].idx + 1].seq] = NoNumber
    BY <1>2, <2>1 DEF InPlace
  <2>. QED  BY <2>2 DEF AllNumbers
<1>. QED  BY <1>1, <1>3 DEF HoldsLock, Counts, Slots, Entries, InBounds,
                            ThrowNeedsTrim, AllNumbers, Created

LEMMA StepLock ==
  ASSUME IInv, NEW u \in Updater, UpdateLock(u)
  PROVE  /\ HoldsLock' /\ Counts' /\ Slots' /\ Entries'
         /\ InBounds' /\ ThrowNeedsTrim' /\ Created'
<1>. USE GroupAssumption DEF IInv, GroupTypeOK
<1>1. /\ UNCHANGED <<recentMessages, posted, process>>
      /\ process = "running" /\ mutex = "free" /\ mutex' = u
      /\ thread[u].pc = "lock"
      /\ thread' = [thread EXCEPT ![u].pc = "write"]
  BY DEF UpdateLock, At
<1>2. /\ \A v \in Updater \ {u} : thread'[v] = thread[v]
      /\ thread'[u].pc = "write"
      /\ thread'[u].account = thread[u].account
      /\ thread'[u].icon = thread[u].icon
      /\ thread'[u].idx = thread[u].idx
      /\ thread'[u].entry = thread[u].entry
  BY <1>1 DEF Thread
<1>3. HoldsLock'
  BY <1>1, <1>2 DEF HoldsLock
<1>. QED  BY <1>1, <1>2, <1>3, StepOwn DEF InBounds, Entries

(* The write puts back at idx what was read there, under the same number.  *)
LEMMA StepWrite ==
  ASSUME IInv, NEW u \in Updater, UpdateWrite(u)
  PROVE  /\ HoldsLock' /\ Counts' /\ Slots' /\ Entries'
         /\ InBounds' /\ ThrowNeedsTrim' /\ Created'
<1>. USE GroupAssumption DEF IInv, GroupTypeOK
<1>. DEFINE k == thread[u].idx + 1
<1>1. /\ mutex = u /\ mutex' = "free" /\ posted' = posted
      /\ process' # "terminated"
      /\ thread[u].pc = "write"
      /\ thread[u].idx \in Nat
  BY DEF UpdateWrite, At, HoldsLock, MayGoWrong, Thread
<1>2. /\ \A v \in Updater \ {u} : thread'[v] = thread[v]
      /\ thread'[u].pc = "test"
      /\ thread'[u].account = thread[u].account
      /\ thread'[u].icon = thread[u].icon
      /\ thread'[u].idx = k
  BY DEF UpdateWrite, NextIdx, Thread
<1>3. /\ Rewritten(u) \in Message
      /\ InPlace(Rewritten(u), k, Len(recentMessages), posted)
  <2>1. /\ thread[u].entry \in Message
        /\ InPlace(thread[u].entry, k, Len(recentMessages), posted)
    BY <1>1 DEF Entries
  <2>2. thread[u].icon \in Icon
    BY <1>1 DEF Created
  <2>3. /\ Rewritten(u) \in Message
        /\ Rewritten(u).seq = thread[u].entry.seq
        /\ Rewritten(u).author = thread[u].entry.author
    BY <2>1, <2>2 DEF Rewritten, Message
  <2>. QED  BY <2>1, <2>3 DEF InPlace
<1>4. /\ Len(recentMessages') = Len(recentMessages)
      /\ \A j \in 1..Len(recentMessages) :
           recentMessages'[j] = IF j = k THEN Rewritten(u)
                                         ELSE recentMessages[j]
  <2>1. CASE thread[u].idx < Len(recentMessages)
    <3>1. k \in 1..Len(recentMessages)
      BY <1>1, <2>1
    <3>2. recentMessages' = [recentMessages EXCEPT ![k] = Rewritten(u)]
      BY <2>1 DEF UpdateWrite
    <3>. QED  BY <1>3, <3>1, <3>2, ExceptSeq
  <2>2. CASE ~(thread[u].idx < Len(recentMessages))
    <3>1. k \notin 1..Len(recentMessages)
      BY <1>1, <2>2
    <3>2. recentMessages' = recentMessages
      BY <2>2 DEF UpdateWrite
    <3>. QED  BY <3>1, <3>2
  <2>. QED  BY <2>1, <2>2
<1>5. HoldsLock'
  BY <1>1, <1>2 DEF HoldsLock
<1>6. Counts' /\ ThrowNeedsTrim'
  BY <1>1, <1>4 DEF Counts, ThrowNeedsTrim
<1>7. Slots'
  BY <1>1, <1>3, <1>4 DEF Slots
<1>8. Entries'
  BY <1>1, <1>2, <1>4, SMTT(40) DEF Entries
<1>9. InBounds'
  <2>1. thread[u].idx < Len(recentMessages) => k <= Len(recentMessages)
    BY <1>1
  <2>. QED  BY <1>1, <1>2, <1>4, <2>1 DEF InBounds
<1>10. Created'
  BY <1>1, <1>2 DEF Created
<1>. QED  BY <1>5, <1>6, <1>7, <1>8, <1>9, <1>10

-----------------------------------------------------------------------------
(* The inductive invariant is one.                                         *)

LEMMA IInvInit == GroupInit => IInv
<1>. SUFFICES ASSUME GroupInit PROVE IInv
  OBVIOUS
<1>. USE GroupAssumption DEF GroupInit
<1>1. GroupTypeOK
  BY TypeInit
<1>2. Len(recentMessages) = 0 /\ Len(posted) = 0
  OBVIOUS
<1>3. \A u \in Updater : /\ thread[u].pc = "idle"
                         /\ thread[u].idx = 0
                         /\ thread[u].account = NoAccount
  BY DEF IdleThread
<1>4. HoldsLock
  BY <1>3 DEF HoldsLock
<1>5. Counts /\ Slots /\ ThrowNeedsTrim
  BY <1>2 DEF Counts, Slots, ThrowNeedsTrim
<1>6. Entries /\ InBounds /\ Created
  BY <1>2, <1>3 DEF Entries, InBounds, Created
<1>. QED  BY <1>1, <1>4, <1>5, <1>6 DEF IInv

LEMMA IInvNext == IInv /\ [GroupNext]_groupVars => IInv'
<1>. SUFFICES ASSUME IInv, [GroupNext]_groupVars PROVE IInv'
  OBVIOUS
<1>0. GroupTypeOK /\ Entries /\ Created
  BY DEF IInv
<1>1. ASSUME NEW s \in Session, NEW a \in Account, NEW i \in Icon,
             Join(s), Identify(s, a, i)
      PROVE  IInv'
  <2>1. GroupTypeOK'
    BY <1>0, <1>1, TypeIo
  <2>. QED  BY <1>1, <2>1, StepBeside DEF Join, MayGoWrong, IInv
<1>2. ASSUME NEW s \in Session, Join(s), IdentifyPartly(s)
      PROVE  IInv'
  <2>1. GroupTypeOK'
    BY <1>0, <1>2, TypeIo
  <2>. QED  BY <1>2, <2>1, StepBeside DEF Join, MayGoWrong, IInv
<1>3. ASSUME NEW s \in Session, Leave(s) PROVE IInv'
  <2>1. GroupTypeOK'
    BY <1>0, <1>3, TypeIo
  <2>. QED  BY <1>3, <2>1, StepBeside DEF Leave, MayGoWrong, IInv
<1>4. CASE Flush
  <2>1. GroupTypeOK'
    BY <1>0, <1>4, TypeIo
  <2>. QED  BY <1>4, <2>1, StepBeside DEF Flush, MayGoWrong, IInv
<1>5. ASSUME NEW a \in Author, NEW i \in Icon, PostBegin(a, i) PROVE IInv'
  <2>1. GroupTypeOK'
    BY <1>0, <1>5, TypeIo
  <2>. QED  BY <1>5, <2>1, StepPostBegin DEF IInv
<1>6. CASE PostEnd \/ DeliverNoHis
  <2>1. GroupTypeOK'
    BY <1>0, <1>6, TypeIo
  <2>. QED  BY <1>6, <2>1, StepTrim DEF IInv
<1>7. ASSUME NEW u \in Updater, NEW s \in Session, NEW a \in Account,
             NEW i \in Icon, Spawn(u, s, a, i)
      PROVE  IInv'
  <2>1. GroupTypeOK'
    BY <1>0, <1>7, TypeIo
  <2>. QED  BY <1>7, <2>1, StepSpawn DEF IInv
<1>8. ASSUME NEW u \in Updater,
             (\E dangling \in BOOLEAN : UpdateStart(u, dangling)) \/ Update(u)
      PROVE  IInv'
  <2>1. GroupTypeOK'
    BY <1>0, <1>8, TypeUpdater
  <2>2. CASE \/ \E dangling \in BOOLEAN : UpdateStart(u, dangling)
             \/ UpdateTest(u)
             \/ UpdateRead(u)
             \/ UpdateIcons(u)
    BY <2>1, <2>2, StepScan DEF IInv
  <2>3. CASE UpdateThrow(u)
    BY <2>1, <2>3, StepThrow DEF IInv
  <2>6. CASE UpdateTypeError(u)
    BY <2>1, <2>6, StepTypeError DEF IInv
  <2>4. CASE UpdateLock(u)
    BY <2>1, <2>4, StepLock DEF IInv
  <2>5. CASE UpdateWrite(u)
    BY <2>1, <2>5, StepWrite DEF IInv
  <2>. QED  BY <1>8, <2>2, <2>3, <2>4, <2>5, <2>6 DEF Update
<1>9. CASE UNCHANGED groupVars
  <2>1. GroupTypeOK'
    BY <1>0, <1>9, TypeIo
  <2>. QED  BY <1>9, <2>1, StepBeside DEF groupVars, IInv
<1>. QED  BY <1>1, <1>2, <1>3, <1>4, <1>5, <1>6, <1>7, <1>8, <1>9
          DEF GroupNext, RoomStep

(* The inductive invariant holds in every reachable state of a Group.      *)
THEOREM Inductive == GroupSpec => []IInv
BY IInvInit, IInvNext, PTL DEF GroupSpec

-----------------------------------------------------------------------------
(* The variables of a Group keep their types, whatever the threads do.     *)
THEOREM TypeCorrect == GroupSpec => []GroupTypeOK
<1>1. IInv => GroupTypeOK
  BY DEF IInv
<1>. QED  BY <1>1, Inductive, PTL

(* Outside Deliver the deque never holds more than max_recent_msgs.        *)
THEOREM Bounded == GroupSpec => []RecentBounded
<1>1. IInv => RecentBounded
  BY DEF IInv, Counts, RecentBounded
<1>. QED  BY <1>1, Inductive, PTL

(* Every message in the deque was posted, by the account it names: the     *)
(* rewrites of DataUpdate forge nothing, however late they come.           *)
THEOREM NothingForged == GroupSpec => []NoForgery
<1>1. ASSUME IInv PROVE NoForgery
  <2>1. /\ DOMAIN recentMessages = 1..Len(recentMessages)
        /\ DOMAIN posted = 1..Len(posted)
    BY <1>1 DEF IInv, GroupTypeOK
  <2>. QED  BY <1>1, <2>1 DEF IInv, Slots, InPlace, NoForgery
<1>. QED  BY <1>1, Inductive, PTL

(* As long as no more than max_recent_msgs messages have been posted, the  *)
(* deque is all of them in order.                                          *)
THEOREM NothingLost == GroupSpec => []NothingLostBeforeLimit
<1>1. ASSUME IInv PROVE NothingLostBeforeLimit
  <2>. SUFFICES ASSUME Len(posted) <= MaxRecent
                PROVE  /\ Len(recentMessages) = Len(posted)
                       /\ \A k \in DOMAIN recentMessages :
                            recentMessages[k].seq = k
    BY DEF NothingLostBeforeLimit
  <2>1. /\ DOMAIN recentMessages = 1..Len(recentMessages)
        /\ Len(recentMessages) \in Nat /\ Len(posted) \in Nat
    BY <1>1 DEF IInv, GroupTypeOK
  <2>2. Len(recentMessages) = Len(posted)
    BY <1>1, <2>1, GroupAssumption DEF IInv, Counts
  <2>. QED  BY <1>1, <2>1, <2>2 DEF IInv, Slots, InPlace
<1>. QED  BY <1>1, Inductive, PTL

(* A message may fall behind its place in the deque, but is never ahead.   *)
THEOREM NeverAhead == GroupSpec => []NeverAheadOfSlot
<1>1. ASSUME IInv PROVE NeverAheadOfSlot
  <2>1. DOMAIN recentMessages = 1..Len(recentMessages)
    BY <1>1 DEF IInv, GroupTypeOK
  <2>. QED  BY <1>1, <2>1 DEF IInv, Slots, InPlace, NeverAheadOfSlot, Trimmed
<1>. QED  BY <1>1, Inductive, PTL

(* The exceptions that end the server are thrown only after more messages  *)
(* than max_recent_msgs, or one whose Account is no number, were posted.   *)
THEOREM NoThrowBelowLimit == GroupSpec => []ThrowsOnlyPastLimit
<1>1. ASSUME IInv PROVE ThrowsOnlyPastLimit
  <2>1. Len(recentMessages) \in Nat /\ Len(posted) \in Nat
    BY <1>1 DEF IInv, GroupTypeOK
  <2>. QED  BY <1>1, <2>1, GroupAssumption
            DEF IInv, Counts, ThrowNeedsTrim, ThrowsOnlyPastLimit
<1>. QED  BY <1>1, Inductive, PTL

-----------------------------------------------------------------------------
(* What an icon change has scanned before the first trim.                  *)

Active == {"test", "read", "lock", "write", "icons"}

(* The steps of the io thread leave the scanned slots alone: a push comes  *)
(* behind them, and a trim ends the claim.                                 *)
LEMMA ScannedIo ==
  ASSUME IInv, IInv', ScannedPrefixRewritten,
         \/ PostEnd \/ DeliverNoHis
         \/ \E a \in Author, i \in Icon : PostBegin(a, i)
         \/ \E v \in Updater, s \in Session, a \in Account, i \in Icon :
              Spawn(v, s, a, i)
         \/ UNCHANGED <<recentMessages, thread, posted>>
  PROVE  ScannedPrefixRewritten'
<1>. SUFFICES ASSUME NEW u \in Updater,
                     thread'[u].pc \in Active,
                     Len(posted') - Len(recentMessages') = 0,
                     \A v \in Updater \ {u} :
                       thread'[v].account # thread'[u].account,
                     NEW k \in 1..thread'[u].idx,
                     recentMessages'[k].author = thread'[u].account
              PROVE  recentMessages'[k].icon = thread'[u].icon
  BY DEF ScannedPrefixRewritten, Trimmed, Active
<1>1. /\ recentMessages \in Seq(Message) /\ posted \in Seq(Author)
      /\ Len(recentMessages) \in Nat /\ Len(posted) \in Nat
      /\ thread \in [Updater -> Thread]
      /\ thread[u].idx \in Nat
  BY DEF IInv, GroupTypeOK, Thread
<1>2. /\ thread'[u] = thread[u]
      /\ \A v \in Updater \ {u} : thread[v].account # thread[u].account
  <2>1. ASSUME NEW v \in Updater, NEW s \in Session, NEW a \in Account,
               NEW i \in Icon, Spawn(v, s, a, i)
        PROVE  /\ thread'[u] = thread[u]
               /\ \A w \in Updater \ {u} : thread[w].account # thread[u].account
    <3>1. /\ thread[v].pc = "idle" /\ thread'[v].pc = "start"
          /\ \A w \in Updater \ {v} : thread'[w] = thread[w]
      BY <1>1, <2>1 DEF Spawn, IdleThread
    <3>2. u # v
      BY <3>1 DEF Active
    <3>3. thread[u].account \in Account /\ thread[v].account = NoAccount
      BY <3>1, <3>2 DEF IInv, Created, Active
    <3>. QED  BY <3>1, <3>2, <3>3, GroupAssumption
  <2>2. CASE thread' = thread
    BY <2>2
  <2>. QED  BY <2>1, <2>2 DEF PostEnd, DeliverNoHis, PostBegin
<1>3. ASSUME Len(posted) - Len(recentMessages) = 0,
             k \in 1..Len(recentMessages),
             recentMessages'[k] = recentMessages[k]
      PROVE  recentMessages'[k].icon = thread'[u].icon
  BY <1>2, <1>3 DEF ScannedPrefixRewritten, Trimmed, Active
<1>4. CASE recentMessages' = recentMessages /\ posted' = posted
  <2>1. thread[u].idx <= Len(recentMessages)
    BY <1>1, <1>4 DEF IInv, InBounds
  <2>. QED  BY <1>1, <1>2, <1>3, <1>4, <2>1
<1>5. CASE PostEnd \/ DeliverNoHis
  <2>1. recentMessages' = Trim(recentMessages) /\ posted' = posted
    BY <1>5 DEF PostEnd, DeliverNoHis
  <2>2. CASE Len(recentMessages) <= MaxRecent
    BY <1>1, <1>4, <2>1, <2>2, TrimProperties
  <2>3. CASE Len(recentMessages) > MaxRecent
    <3>1. Len(recentMessages') = MaxRecent
      BY <1>1, <2>1, <2>3, TrimProperties
    <3>. QED  BY <1>1, <2>1, <2>3, <3>1, GroupAssumption DEF IInv, Counts
  <2>. QED  BY <1>1, <2>2, <2>3, GroupAssumption
<1>6. ASSUME NEW a \in Author, NEW i \in Icon, PostBegin(a, i)
      PROVE  recentMessages'[k].icon = thread'[u].icon
  <2>. DEFINE m == [seq |-> Len(posted) + 1, author |-> a, icon |-> i]
  <2>1. m \in Message
    BY <1>1 DEF Message
  <2>2. /\ recentMessages' = Append(recentMessages, m)
        /\ posted' = Append(posted, a)
    BY <1>6 DEF PostBegin
  <2>3. /\ Len(recentMessages') = Len(recentMessages) + 1
        /\ Len(posted') = Len(posted) + 1
        /\ \A j \in 1..Len(recentMessages) : recentMessages'[j] = recentMessages[j]
    BY <1>1, <2>1, <2>2
  <2>4. Len(recentMessages) = Len(posted)
    BY <1>1, <2>3
  <2>5. thread[u].idx <= Len(recentMessages)
    BY <2>4 DEF IInv, InBounds
  <2>6. k \in 1..Len(recentMessages)
    BY <1>1, <1>2, <2>5
  <2>. QED  BY <1>1, <1>3, <2>3, <2>4, <2>6
<1>. QED  BY <1>4, <1>5, <1>6 DEF Spawn

(* A step of the icon change itself extends what is scanned by a slot it   *)
(* has rewritten or found to be another author's; another thread's write   *)
(* is of a message of another account.                                     *)
LEMMA ScannedUpdater ==
  ASSUME IInv, ScannedPrefixRewritten, NEW v \in Updater,
         (\E dangling \in BOOLEAN : UpdateStart(v, dangling)) \/ Update(v)
  PROVE  ScannedPrefixRewritten'
<1>. SUFFICES ASSUME NEW u \in Updater,
                     thread'[u].pc \in Active,
                     Len(posted') - Len(recentMessages') = 0,
                     \A w \in Updater \ {u} :
                       thread'[w].account # thread'[u].account,
                     NEW k \in 1..thread'[u].idx,
                     recentMessages'[k].author = thread'[u].account
              PROVE  recentMessages'[k].icon = thread'[u].icon
  BY DEF ScannedPrefixRewritten, Trimmed, Active
<1>1. /\ recentMessages \in Seq(Message) /\ posted \in Seq(Author)
      /\ Len(recentMessages) \in Nat /\ Len(posted) \in Nat
      /\ thread \in [Updater -> Thread]
      /\ thread[u] \in Thread /\ thread[v] \in Thread
      /\ thread[u].idx \in Nat /\ thread[v].idx \in Nat
  BY DEF IInv, GroupTypeOK, Thread
<1>2. /\ posted' = posted
      /\ \A w \in Updater \ {v} : thread'[w] = thread[w]
  BY <1>1 DEF Update, UpdateStart, UpdateTest, UpdateRead, UpdateThrow,
    UpdateTypeError,
              UpdateLock, UpdateWrite, UpdateIcons
<1>3. /\ thread'[v].account = thread[v].account
      /\ thread'[v].icon = thread[v].icon
  <2>1. CASE UpdateTest(v) \/ UpdateThrow(v) \/ UpdateTypeError(v)
             \/ UpdateLock(v) \/ UpdateIcons(v)
    BY <1>1, <2>1
       DEF UpdateTest, UpdateThrow, UpdateTypeError, UpdateLock, UpdateIcons, Thread
  <2>2. CASE UpdateRead(v)
    BY <1>1, <2>2 DEF UpdateRead, Thread
  <2>3. CASE UpdateWrite(v)
    BY <1>1, <2>3 DEF UpdateWrite, Thread
  <2>4. CASE \E dangling \in BOOLEAN : UpdateStart(v, dangling)
    BY <1>1, <2>4 DEF UpdateStart, Thread
  <2>. QED  BY <2>1, <2>2, <2>3, <2>4 DEF Update
<1>4. \A w \in Updater \ {u} : thread[w].account # thread[u].account
  BY <1>2, <1>3
<1>5. ASSUME Len(posted) - Len(recentMessages) = 0,
             thread[u].pc \in Active,
             k \in 1..thread[u].idx,
             recentMessages'[k] = recentMessages[k]
      PROVE  recentMessages'[k].icon = thread'[u].icon
  <2>1. thread[u].idx <= Len(recentMessages)
    BY <1>1, <1>5 DEF IInv, InBounds
  <2>. QED  BY <1>1, <1>2, <1>3, <1>4, <1>5, <2>1, SMTT(40)
            DEF ScannedPrefixRewritten, Trimmed, Active
<1>6. CASE UpdateWrite(v)
  <2>1. /\ thread[v].pc = "write"
        /\ thread[v].entry.author = thread[v].account
        /\ thread[v].entry \in Message
    BY <1>6 DEF UpdateWrite, At, IInv, Entries
  <2>2. /\ Rewritten(v).author = thread[v].account
        /\ Rewritten(v).icon = thread[v].icon
        /\ Rewritten(v) \in Message
    <3>1. thread[v].icon \in Icon
      BY <2>1 DEF IInv, Created
    <3>. QED  BY <2>1, <3>1 DEF Rewritten, Message
  <2>3. /\ Len(recentMessages') = Len(recentMessages)
        /\ \A j \in 1..Len(recentMessages) :
             recentMessages'[j] = IF j = thread[v].idx + 1
                                  THEN Rewritten(v) ELSE recentMessages[j]
    <3>1. CASE thread[v].idx < Len(recentMessages)
      <4>. DEFINE p == thread[v].idx + 1
      <4>1. p \in 1..Len(recentMessages)
        BY <1>1, <3>1
      <4>2. recentMessages' = [recentMessages EXCEPT ![p] = Rewritten(v)]
        BY <1>6, <3>1 DEF UpdateWrite
      <4>. QED  BY <1>1, <2>2, <4>1, <4>2, ExceptSeq
    <3>2. CASE ~(thread[v].idx < Len(recentMessages))
      <4>1. thread[v].idx + 1 \notin 1..Len(recentMessages)
        BY <1>1, <3>2
      <4>2. recentMessages' = recentMessages
        BY <1>6, <3>2 DEF UpdateWrite
      <4>. QED  BY <4>1, <4>2
    <3>. QED  BY <3>1, <3>2
  <2>4. thread'[v].pc = "test" /\ thread'[v].idx = thread[v].idx + 1
    BY <1>1, <1>6 DEF UpdateWrite, NextIdx, Thread
  <2>5. Len(posted) - Len(recentMessages) = 0
    BY <1>2, <2>3
  <2>6. thread[u].pc \in Active
    BY <1>2, <2>1 DEF Active
  <2>7. k \in 1..Len(recentMessages)
    <3>1. thread[u].idx <= Len(recentMessages)
      BY <1>1, <2>5 DEF IInv, InBounds
    <3>2. thread[v].idx < Len(recentMessages)
      BY <1>1, <2>1, <2>5 DEF IInv, InBounds
    <3>3. thread'[u].idx <= Len(recentMessages)
      BY <1>1, <1>2, <2>4, <3>1, <3>2
    <3>. QED  BY <1>1, <1>2, <2>4, <3>3
  <2>8. CASE k = thread[v].idx + 1
    <3>1. recentMessages'[k] = Rewritten(v)
      BY <2>3, <2>7, <2>8
    <3>2. u = v
      BY <1>2, <1>3, <2>2, <3>1
    <3>. QED  BY <1>3, <2>2, <3>1, <3>2
  <2>9. CASE k # thread[v].idx + 1
    <3>1. recentMessages'[k] = recentMessages[k]
      BY <2>3, <2>7, <2>9
    <3>2. k \in 1..thread[u].idx
      BY <1>1, <1>2, <2>4, <2>9
    <3>. QED  BY <1>5, <2>5, <2>6, <3>1, <3>2
  <2>. QED  BY <2>8, <2>9
<1>7. ASSUME ~UpdateWrite(v)
      PROVE  recentMessages' = recentMessages
  BY <1>7 DEF Update, UpdateStart, UpdateTest, UpdateRead, UpdateThrow,
    UpdateTypeError,
              UpdateLock, UpdateIcons
<1>8. CASE UpdateRead(v) /\ u = v
  <2>1. thread[v].pc = "read" /\ thread[v].idx < Len(recentMessages)
    BY <1>8 DEF UpdateRead, At
  <2>2. ~UpdateWrite(v)
    BY <2>1 DEF UpdateWrite, At
  <2>3. CASE Slot(v).author = thread[v].account
    <3>1. thread'[v].idx = thread[v].idx
      BY <1>1, <1>8, <2>3 DEF UpdateRead, Thread
    <3>. QED  BY <1>2, <1>5, <1>7, <1>8, <2>1, <2>2, <3>1 DEF Active
  <2>4. CASE Slot(v).author # thread[v].account
    <3>1. thread'[v] = [thread[v] EXCEPT !.pc = "test", !.idx = NextIdx(v)]
      BY <1>1, <1>8, <2>4 DEF UpdateRead
    <3>2. thread'[v].idx = thread[v].idx + 1
      BY <1>1, <3>1 DEF Thread, NextIdx
    <3>3. k # thread[v].idx + 1
      BY <1>3, <1>7, <1>8, <2>2, <2>4 DEF Slot
    <3>4. k \in 1..thread[u].idx
      BY <1>1, <1>8, <3>2, <3>3
    <3>. QED  BY <1>2, <1>5, <1>7, <1>8, <2>1, <2>2, <3>4 DEF Active
  <2>. QED  BY <2>3, <2>4
<1>9. CASE ~UpdateWrite(v) /\ ~(UpdateRead(v) /\ u = v)
  <2>1. k \in 1..thread[u].idx /\ thread[u].pc \in Active
    <3>1. CASE u # v
      BY <1>2, <3>1
    <3>2. ASSUME u = v, NEW dangling \in BOOLEAN, UpdateStart(v, dangling)
          PROVE  FALSE
      <4>1. thread'[v].idx = 0
        BY <1>1, <3>2 DEF UpdateStart, FirstIndex, Thread
      <4>. QED  BY <3>2, <4>1
    <3>3. CASE u = v /\ UpdateTest(v)
      BY <1>1, <3>3 DEF UpdateTest, At, Thread, Active
    <3>4. CASE u = v /\ UpdateThrow(v)
      BY <1>1, <3>4 DEF UpdateThrow, At, Active
    <3>7. CASE u = v /\ UpdateTypeError(v)
      BY <1>1, <3>7 DEF UpdateTypeError, At, Active
    <3>5. CASE u = v /\ UpdateLock(v)
      BY <1>1, <3>5 DEF UpdateLock, At, Thread, Active
    <3>6. CASE u = v /\ UpdateIcons(v)
      <4>1. thread'[v].pc = "done"
        BY <1>1, <3>6 DEF UpdateIcons, Thread
      <4>. QED  BY <3>6, <4>1 DEF Active
    <3>. QED  BY <1>9, <3>1, <3>2, <3>3, <3>4, <3>5, <3>6, <3>7 DEF Update
  <2>. QED  BY <1>2, <1>5, <1>7, <1>9, <2>1
<1>. QED  BY <1>6, <1>8, <1>9

(* Until the first trim an icon change leaves no message of its account    *)
(* with another icon behind its scan.                                      *)
THEOREM ScannedRewritten == GroupSpec => []ScannedPrefixRewritten
<1>1. GroupInit => ScannedPrefixRewritten
  BY DEF GroupInit, IdleThread, ScannedPrefixRewritten
<1>2. IInv /\ IInv' /\ ScannedPrefixRewritten /\ [GroupNext]_groupVars
        => ScannedPrefixRewritten'
  <2>. SUFFICES ASSUME IInv, IInv', ScannedPrefixRewritten,
                       [GroupNext]_groupVars
                PROVE  ScannedPrefixRewritten'
    OBVIOUS
  <2>1. CASE UNCHANGED <<recentMessages, thread, posted>>
    BY <2>1, ScannedIo
  <2>2. CASE \/ PostEnd \/ DeliverNoHis
             \/ \E a \in Author, i \in Icon : PostBegin(a, i)
             \/ \E v \in Updater, s \in Session, a \in Account, i \in Icon :
              Spawn(v, s, a, i)
    BY <2>2, ScannedIo
  <2>3. ASSUME NEW v \in Updater,
               (\E dangling \in BOOLEAN : UpdateStart(v, dangling)) \/ Update(v)
        PROVE  ScannedPrefixRewritten'
    BY <2>3, ScannedUpdater
  <2>. QED  BY <2>1, <2>2, <2>3
            DEF GroupNext, RoomStep, Join, Leave, Flush, groupVars
<1>. QED  BY <1>1, <1>2, Inductive, PTL DEF GroupSpec

-----------------------------------------------------------------------------
(* The order of the history.                                               *)

LEMMA IntactStep ==
  ASSUME IInv, HistoryIntact, [GroupNext]_groupVars,
         \A u \in Updater : UpdateWrite(u) => ~MovedSinceRead(u)
  PROVE  HistoryIntact'
<1>. DEFINE h == recentMessages
            n == Len(posted)
            t == n - Len(h)
<1>0. /\ h \in Seq(Message) /\ posted \in Seq(Author)
      /\ Len(h) \in Nat /\ n \in Nat /\ t \in Int
      /\ MaxRecent \in Nat \ {0}
  BY GroupAssumption, LenProperties DEF IInv, GroupTypeOK
<1>1. \A k \in 1..Len(h) : h[k].seq = t + k
  BY <1>0, LenProperties DEF HistoryIntact, Trimmed
<1>2. ASSUME NEW g \in Seq(Message), recentMessages' = g,
             \A k \in 1..Len(g) : g[k].seq = (Len(posted') - Len(g)) + k
      PROVE  HistoryIntact'
  BY <1>2, LenProperties DEF HistoryIntact, Trimmed
<1>3. CASE UNCHANGED <<recentMessages, posted>>
  BY <1>0, <1>1, <1>2, <1>3
<1>4. ASSUME NEW a \in Author, NEW i \in Icon, PostBegin(a, i)
      PROVE  HistoryIntact'
  <2>. DEFINE m == [seq |-> Len(posted) + 1, author |-> a, icon |-> i]
              g == Append(h, m)
  <2>1. m \in Message /\ m.seq = n + 1
    BY <1>0 DEF Message
  <2>2. recentMessages' = g /\ posted' = Append(posted, a)
    BY <1>4 DEF PostBegin
  <2>. HIDE DEF m
  <2>3. /\ g \in Seq(Message) /\ Len(g) = Len(h) + 1
        /\ \A k \in 1..Len(h) : g[k] = h[k]
        /\ g[Len(h) + 1] = m
        /\ Len(posted') = n + 1
    BY <1>0, <2>1, <2>2, AppendProperties
  <2>. HIDE DEF g
  <2>4. ASSUME NEW k \in 1..Len(g)
        PROVE  g[k].seq = (Len(posted') - Len(g)) + k
    <3>1. Len(posted') - Len(g) = t
      BY <1>0, <2>3
    <3>2. CASE k \in 1..Len(h)
      BY <1>1, <2>3, <3>1, <3>2
    <3>3. CASE k = Len(h) + 1
      <4>1. g[k].seq = n + 1
        BY <2>1, <2>3, <3>3
      <4>2. t + k = n + 1
        BY <1>0, <3>3
      <4>. QED  BY <3>1, <4>1, <4>2
    <3>4. k \in 1..Len(h) \/ k = Len(h) + 1
      BY <1>0, <2>3
    <3>. QED  BY <3>2, <3>3, <3>4
  <2>. QED  BY <1>2, <2>2, <2>3, <2>4
<1>5. ASSUME recentMessages' = Trim(h), posted' = posted
      PROVE  HistoryIntact'
  <2>1. CASE Len(h) <= MaxRecent
    <3>1. Trim(h) = h
      BY <1>0, <2>1, TrimProperties
    <3>. QED  BY <1>3, <1>5, <3>1
  <2>2. CASE Len(h) > MaxRecent
    <3>. DEFINE g == Trim(h)
                d == Len(h) - MaxRecent
    <3>1. /\ g \in Seq(Message) /\ Len(g) = MaxRecent
          /\ \A k \in 1..MaxRecent : g[k] = h[d + k]
      BY <1>0, <2>2, TrimProperties
    <3>2. d \in Nat /\ d + MaxRecent = Len(h)
      BY <1>0, <2>2
    <3>. HIDE DEF g, d
    <3>3. ASSUME NEW k \in 1..Len(g)
          PROVE  g[k].seq = (Len(posted') - Len(g)) + k
      <4>1. k \in 1..MaxRecent /\ d + k \in 1..Len(h)
        BY <1>0, <3>1, <3>2
      <4>2. g[k].seq = t + (d + k)
        BY <1>1, <3>1, <4>1
      <4>3. t + (d + k) = (n - MaxRecent) + k
        BY <1>0, <3>2, <4>1
      <4>. QED  BY <1>5, <3>1, <4>2, <4>3
    <3>. QED  BY <1>2, <1>5, <3>1, <3>3 DEF g
  <2>. QED  BY <1>0, <2>1, <2>2
<1>6. ASSUME NEW u \in Updater, UpdateWrite(u)
      PROVE  HistoryIntact'
  <2>. DEFINE j == thread[u].idx + 1
              m == Rewritten(u)
  <2>1. /\ thread[u].pc = "write" /\ thread[u] \in Thread /\ posted' = posted
    BY <1>6 DEF UpdateWrite, At, IInv, GroupTypeOK
  <2>2. thread[u].idx \in Nat /\ thread[u].entry.seq = t + thread[u].idx + 1
    BY <1>6, <2>1 DEF Thread, MovedSinceRead, Trimmed
  <2>3. m \in Message /\ m.seq = t + j
    <3>1. thread[u].entry \in Message /\ thread[u].icon \in Icon
      BY <2>1 DEF IInv, Entries, Created
    <3>2. m \in Message /\ m.seq = thread[u].entry.seq
      BY <3>1 DEF Rewritten, Message
    <3>3. t + thread[u].idx + 1 = t + j
      BY <1>0, <2>2
    <3>. QED  BY <2>2, <3>2, <3>3
  <2>. HIDE DEF m
  <2>4. CASE thread[u].idx < Len(h)
    <3>. DEFINE g == [h EXCEPT ![j] = m]
    <3>1. recentMessages' = g
      BY <1>6, <2>4 DEF UpdateWrite, m
    <3>2. j \in 1..Len(h)
      BY <1>0, <2>2, <2>4
    <3>3. /\ g \in Seq(Message) /\ Len(g) = Len(h)
          /\ \A k \in 1..Len(h) : g[k] = IF k = j THEN m ELSE h[k]
      BY <1>0, <2>3, <3>2, ExceptSeq
    <3>. HIDE DEF g
    <3>4. ASSUME NEW k \in 1..Len(g)
          PROVE  g[k].seq = (Len(posted') - Len(g)) + k
      BY <1>1, <2>1, <2>3, <3>3
    <3>. QED  BY <1>2, <3>1, <3>3, <3>4
  <2>5. CASE ~(thread[u].idx < Len(h))
    BY <1>3, <1>6, <2>1, <2>5 DEF UpdateWrite
  <2>. QED  BY <2>4, <2>5
<1>7. ASSUME \/ \E s \in Session, a \in Account, i \in Icon :
              Join(s) /\ Identify(s, a, i)
             \/ \E s \in Session : Join(s) /\ IdentifyPartly(s)
             \/ \E s \in Session : Leave(s)
             \/ Flush
             \/ \E u \in Updater, s \in Session, a \in Account, i \in Icon :
              Spawn(u, s, a, i)
             \/ \E u \in Updater, dangling \in BOOLEAN : UpdateStart(u, dangling)
             \/ \E u \in Updater : UpdateTest(u) \/ UpdateRead(u) \/ UpdateThrow(u)
                                     \/ UpdateTypeError(u)
                                     \/ UpdateLock(u) \/ UpdateIcons(u)
             \/ UNCHANGED groupVars
      PROVE  UNCHANGED <<recentMessages, posted>>
  BY <1>7 DEF Join, Leave, Flush, Spawn, UpdateStart, UpdateTest, UpdateRead,
    UpdateThrow, UpdateTypeError, UpdateLock, UpdateIcons, groupVars
<1>8. CASE PostEnd \/ DeliverNoHis
  BY <1>5, <1>8 DEF PostEnd, DeliverNoHis
<1>. QED  BY <1>3, <1>4, <1>6, <1>7, <1>8 DEF GroupNext, RoomStep, Update

(* The deque holds the latest messages in order until a thread writes back *)
(* a message that a trim has moved since; no other step disturbs it.       *)
THEOREM DamagedByLateWrites == GroupSpec => OnlyLateWritesDamage
<1>1. IInv /\ [GroupNext]_groupVars =>
        [HistoryIntact /\ ~HistoryIntact' =>
           \E u \in Updater : UpdateWrite(u) /\ MovedSinceRead(u)]_groupVars
  BY IntactStep
<1>. QED  BY <1>1, Inductive, PTL DEF GroupSpec, OnlyLateWritesDamage

(* Until the first trim no write is late.                                  *)
THEOREM IntactUntilTrim == GroupSpec => [](Trimmed = 0 => HistoryIntact)
<1>1. ASSUME IInv, Trimmed = 0 PROVE HistoryIntact
  <2>1. Len(recentMessages) \in Nat /\ Len(posted) \in Nat
    BY <1>1, LenProperties DEF IInv, GroupTypeOK
  <2>2. Len(recentMessages) = Len(posted)
    BY <1>1, <2>1 DEF Trimmed
  <2>3. \A k \in 1..Len(recentMessages) : recentMessages[k].seq = k
    BY <1>1, <2>2 DEF IInv, Slots, InPlace
  <2>4. DOMAIN recentMessages = 1..Len(recentMessages)
    BY <1>1, LenProperties DEF IInv, GroupTypeOK
  <2>. QED  BY <1>1, <2>3, <2>4 DEF HistoryIntact
<1>. QED  BY <1>1, Inductive, PTL
=============================================================================
