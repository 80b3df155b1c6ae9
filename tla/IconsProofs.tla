----------------------------- MODULE IconsProofs -----------------------------
(***************************************************************************)
(* Theorems about Icons: it is a Group, so that all that is proved of the  *)
(* room holds of it; its variables keep their types; and the three places  *)
(* of an icon agree where no change is under way.                          *)
(***************************************************************************)
EXTENDS Icons, GroupProofs, FiniteSetTheorems

-----------------------------------------------------------------------------
(* The inductive invariant.                                                *)

Underway(u) == thread[u].pc \notin {"idle", "done"}

(* A thread that runs was asked for since its account was settled.         *)
AskedFor ==
  \A u \in Updater :
    Underway(u) => thread[u].icon \in asked[thread[u].account].icons

Remembered ==
  \A a \in Account :
    /\ asked[a].upTo <= Len(posted)
    /\ IsFiniteSet(asked[a].icons)
    /\ asked[a].icons # {} /\ ~asked[a].lost => stored[a] \in asked[a].icons
    /\ \A s \in asked[a].members : participants[s] > 0 /\ account[s] = a

(* The thread u comes to the sessions of a, and to the slot k.             *)
ComesToSessions(u, a) == thread[u].account = a /\ Underway(u)

ComesTo(u, a, k) ==
  /\ thread[u].account = a
  /\ \/ thread[u].pc = "start"
     \/ thread[u].pc \in {"test", "read", "lock", "write"} /\ thread[u].idx < k

(* What shows none of the icons asked for has a thread that comes to it.   *)
SessionsShow ==
  process = "running" =>
    \A a \in Account : ~asked[a].skipped =>
      \A s \in asked[a].members :
        icon[s] \in asked[a].icons \/ \E u \in Updater : ComesToSessions(u, a)

MessagesShow ==
  process = "running" /\ Len(recentMessages) = Len(posted) =>
    \A a \in Account : ~asked[a].skipped =>
      \A k \in 1..Len(recentMessages) :
        recentMessages[k].author = a /\ recentMessages[k].seq <= asked[a].upTo =>
          \/ recentMessages[k].icon \in asked[a].icons
          \/ \E u \in Updater : ComesTo(u, a, k)

IconsInv ==
  /\ IconsTypeOK
  /\ AskedFor
  /\ Remembered
  /\ SessionsShow
  /\ MessagesShow

-----------------------------------------------------------------------------
(* Icons is a Group.                                                       *)

LEMMA StepOfGroup == [IconsNext]_iconsVars => [GroupNext]_groupVars
BY DEF IconsNext, iconsVars, OtherStep, ChangeIcon, GroupNext

(* The icon changes of SettingRequest with its data base are a use of the  *)
(* room as Group has it: what holds of the one holds of the other.         *)
THEOREM IsAGroup == IconsSpec => GroupSpec
<1>1. IconsInit => GroupInit
  BY DEF IconsInit
<1>. QED  BY <1>1, StepOfGroup, PTL DEF IconsSpec, GroupSpec

-----------------------------------------------------------------------------
(* The steps of the room.                                                  *)

(* What becomes of the sessions.                                           *)
LEMMA SessionsStep ==
  ASSUME GroupTypeOK, RoomStep
  PROVE  /\ process = "running"
         /\ \A s \in Session : participants'[s] = participants[s] =>
              /\ account'[s] = account[s]
              /\ \/ icon'[s] = icon[s]
                 \/ \E u \in Updater : /\ thread[u].pc = "icons"
                                       /\ thread[u].account = account[s]
                                       /\ icon'[s] = thread[u].icon
<1>. USE GroupAssumption DEF GroupTypeOK
<1>1. ASSUME NEW s \in Session, NEW a \in Account, NEW i \in Icon,
             Join(s), Identify(s, a, i)
      PROVE  /\ process = "running" /\ participants'[s] # participants[s]
             /\ \A r \in Session \ {s} : account'[r] = account[r] /\ icon'[r] = icon[r]
  BY <1>1 DEF Join, IoThread, Identify
<1>2. ASSUME UNCHANGED <<account, icon>>, process = "running"
      PROVE  /\ process = "running"
             /\ \A s \in Session : account'[s] = account[s] /\ icon'[s] = icon[s]
  BY <1>2
<1>3. ASSUME NEW u \in Updater, UpdateIcons(u)
      PROVE  /\ process = "running"
             /\ thread[u].pc = "icons"
             /\ \A s \in Session :
                  /\ account'[s] = account[s]
                  /\ \/ icon'[s] = icon[s]
                     \/ /\ thread[u].account = account[s]
                        /\ icon'[s] = thread[u].icon
  BY <1>3 DEF UpdateIcons, At, MembersFor
<1>5. ASSUME NEW s \in Session, Join(s), IdentifyPartly(s)
      PROVE  /\ process = "running" /\ participants'[s] # participants[s]
             /\ \A r \in Session \ {s} : account'[r] = account[r] /\ icon'[r] = icon[r]
  BY <1>5 DEF Join, IoThread, IdentifyPartly
<1>4. ASSUME \/ \E s \in Session : Leave(s)
             \/ Flush
             \/ \E a \in Author, i \in Icon : PostBegin(a, i)
             \/ PostEnd
             \/ DeliverNoHis
             \/ \E u \in Updater, dangling \in BOOLEAN : UpdateStart(u, dangling)
             \/ \E u \in Updater : UpdateTest(u) \/ UpdateRead(u) \/ UpdateThrow(u)
                                     \/ UpdateTypeError(u)
                                     \/ UpdateLock(u) \/ UpdateWrite(u)
      PROVE  UNCHANGED <<account, icon>> /\ process = "running"
  BY <1>4 DEF Join, Leave, Flush, PostBegin, PostEnd, DeliverNoHis, IoThread,
    UpdateStart, UpdateTest, UpdateRead, UpdateThrow,
    UpdateTypeError, UpdateLock, UpdateWrite, At
<1>. QED  BY <1>1, <1>2, <1>3, <1>4, <1>5 DEF RoomStep, Update

(* What becomes of the threads.                                            *)
LEMMA ThreadsStep ==
  ASSUME GroupTypeOK, RoomStep, NEW v \in Updater
  PROVE  /\ thread'[v].account = thread[v].account
         /\ thread'[v].icon = thread[v].icon
         /\ Underway(v)' => Underway(v)
         /\ Underway(v) /\ ~Underway(v)' => Skips(v) \/ UpdateIcons(v)
<1>. DEFINE P == /\ thread'[v].account = thread[v].account
                 /\ thread'[v].icon = thread[v].icon
                 /\ Underway(v)' => Underway(v)
                 /\ Underway(v) /\ ~Underway(v)' => Skips(v) \/ UpdateIcons(v)
<1>. USE DEF GroupTypeOK, Underway, Thread
<1>1. ASSUME thread'[v] = thread[v] PROVE P
  BY <1>1
<1>2. ASSUME NEW u \in Updater, NEW dangling \in BOOLEAN, UpdateStart(u, dangling)
      PROVE  P
  BY <1>1, <1>2 DEF UpdateStart, At, Skips
<1>3. ASSUME NEW u \in Updater, UpdateTest(u) PROVE P
  BY <1>1, <1>3 DEF UpdateTest, At
<1>4. ASSUME NEW u \in Updater, UpdateRead(u) PROVE P
  BY <1>1, <1>4 DEF UpdateRead, At
<1>5. ASSUME NEW u \in Updater, UpdateLock(u) PROVE P
  BY <1>1, <1>5 DEF UpdateLock, At
<1>6. ASSUME NEW u \in Updater, UpdateWrite(u) PROVE P
  BY <1>1, <1>6 DEF UpdateWrite, At
<1>7. ASSUME NEW u \in Updater, UpdateIcons(u) PROVE P
  <2>1. CASE u = v
    BY <1>7, <2>1 DEF UpdateIcons, At
  <2>2. CASE u # v
    BY <1>1, <1>7, <2>2 DEF UpdateIcons, At
  <2>. QED  BY <2>1, <2>2
<1>8. ASSUME \/ \E s \in Session, a \in Account, i \in Icon :
                  Join(s) /\ Identify(s, a, i)
             \/ \E s \in Session : Join(s) /\ IdentifyPartly(s)
             \/ \E s \in Session : Leave(s)
             \/ Flush
             \/ \E a \in Author, i \in Icon : PostBegin(a, i)
             \/ PostEnd
             \/ DeliverNoHis
             \/ \E u \in Updater : UpdateThrow(u) \/ UpdateTypeError(u)
      PROVE  P
  <2>1. thread' = thread
    BY <1>8 DEF Join, Leave, Flush, PostBegin, PostEnd, DeliverNoHis, UpdateThrow,
       UpdateTypeError
  <2>. QED  BY <1>1, <2>1
<1>. QED  BY <1>2, <1>3, <1>4, <1>5, <1>6, <1>7, <1>8 DEF RoomStep, Update

LEMMA OtherAsked ==
  ASSUME IconsTypeOK, OtherStep, NEW a \in Account
  PROVE  /\ asked' \in [Account -> Asked]
         /\ asked'[a].icons = asked[a].icons
         /\ asked'[a].upTo = asked[a].upTo
         /\ asked'[a].lost = asked[a].lost
         /\ asked'[a].members =
              {s \in asked[a].members : participants'[s] = participants[s]}
         /\ asked'[a].skipped <=>
              \/ asked[a].skipped
              \/ \E u \in Updater : Skips(u) /\ thread[u].account = a
<1>. DEFINE Some(b) == \E u \in Updater : Skips(u) /\ thread[u].account = b
            Stay(b) == {s \in asked[b].members : participants'[s] = participants[s]}
<1>1. asked' = [b \in Account |-> [asked[b] EXCEPT
       !.members = Stay(b), !.skipped = asked[b].skipped \/ Some(b)]]
  BY DEF OtherStep
<1>2. ASSUME NEW b \in Account
      PROVE  /\ asked[b] \in Asked /\ Stay(b) \in SUBSET Session
             /\ (asked[b].skipped \/ Some(b)) \in BOOLEAN
  BY DEF IconsTypeOK, Asked
<1>. HIDE DEF Some, Stay
<1>3. ASSUME NEW b \in Account
      PROVE  /\ asked'[b] = [asked[b] EXCEPT !.members = Stay(b),
                               !.skipped = asked[b].skipped \/ Some(b)]
             /\ asked'[b] \in Asked
  BY <1>1, <1>2 DEF Asked
<1>4. asked' \in [Account -> Asked]
  BY <1>1, <1>3
<1>5. /\ asked'[a].icons = asked[a].icons
      /\ asked'[a].upTo = asked[a].upTo
      /\ asked'[a].lost = asked[a].lost
      /\ asked'[a].members = Stay(a)
      /\ asked'[a].skipped = (asked[a].skipped \/ Some(a))
  BY <1>2, <1>3 DEF Asked
<1>. QED  BY <1>4, <1>5 DEF Some, Stay

LEMMA ChangeAsked ==
  ASSUME IconsTypeOK, NEW u \in Updater, NEW s \in Session, NEW b \in Account,
         NEW i \in Icon, NEW works \in BOOLEAN, ChangeIcon(u, s, b, i, works)
  PROVE  /\ asked' \in [Account -> Asked]
         /\ stored' \in [Account -> Icon \cup {NoIcon}]
         /\ stored'[b] = IF works THEN i ELSE stored[b]
         /\ asked'[b] = AskAgain(b, i, works)
         /\ \A a \in Account \ {b} :
              asked'[a] = asked[a] /\ stored'[a] = stored[a]
         /\ thread[u].pc = "idle"
         /\ thread'[u].pc = "start" /\ thread'[u].icon = i
         /\ thread'[u].account = b
         /\ \A v \in Updater \ {u} : thread'[v] = thread[v]
         /\ process = "running" /\ process' = process
         /\ UNCHANGED <<participants, account, icon, recentMessages, posted>>
<1>. USE GroupAssumption DEF IconsTypeOK, GroupTypeOK
<1>1. Len(posted) \in Nat
  BY LenProperties
<1>2. AskAgain(b, i, works) \in Asked
  <2>1. /\ (IF Settled(b) THEN {i} ELSE asked[b].icons \cup {i}) \in SUBSET Icon
        /\ MembersOf(b) \in SUBSET Session
        /\ (~Settled(b) /\ asked[b].skipped) \in BOOLEAN
        /\ (~works \/ (~Settled(b) /\ asked[b].lost)) \in BOOLEAN
    BY <1>1 DEF Asked, MembersOf
  <2>. QED  BY <1>1, <2>1 DEF AskAgain, Asked
<1>3. /\ thread[u].pc = "idle"
      /\ thread'[u].pc = "start" /\ thread'[u].icon = i /\ thread'[u].account = b
      /\ \A v \in Updater \ {u} : thread'[v] = thread[v]
      /\ process = "running" /\ process' = process
      /\ UNCHANGED <<participants, account, icon, recentMessages, posted>>
  BY DEF ChangeIcon, Spawn, IdleThread, IoThread
<1>4. /\ asked' = [asked EXCEPT ![b] = AskAgain(b, i, works)]
      /\ stored' = IF works THEN [stored EXCEPT ![b] = i] ELSE stored
  BY DEF ChangeIcon
<1>. QED  BY <1>1, <1>2, <1>3, <1>4

LEMMA ChangeIconInv ==
  ASSUME IInv, IconsInv, NEW u \in Updater, NEW s \in Session, NEW b \in Account,
         NEW i \in Icon, NEW works \in BOOLEAN, ChangeIcon(u, s, b, i, works), GroupTypeOK'
  PROVE  IconsInv'
<1>. DEFINE n == Len(posted)
<1>1. /\ asked' \in [Account -> Asked]
      /\ stored' \in [Account -> Icon \cup {NoIcon}]
      /\ stored'[b] = IF works THEN i ELSE stored[b]
      /\ asked'[b] = AskAgain(b, i, works)
      /\ \A a \in Account \ {b} : asked'[a] = asked[a] /\ stored'[a] = stored[a]
      /\ thread[u].pc = "idle"
      /\ thread'[u].pc = "start" /\ thread'[u].icon = i /\ thread'[u].account = b
      /\ \A v \in Updater \ {u} : thread'[v] = thread[v]
      /\ process = "running" /\ process' = process
      /\ UNCHANGED <<participants, account, icon, recentMessages, posted>>
  BY ChangeAsked DEF IconsInv
<1>2. /\ asked'[b].icons = IF Settled(b) THEN {i} ELSE asked[b].icons \cup {i}
      /\ asked'[b].members = MembersOf(b)
      /\ asked'[b].upTo = n
      /\ asked'[b].lost = (~works \/ (~Settled(b) /\ asked[b].lost))
      /\ n \in Nat
  BY <1>1, LenProperties DEF AskAgain, IconsInv, IconsTypeOK, GroupTypeOK
<1>3. IconsTypeOK'
  BY <1>1 DEF IconsTypeOK
<1>4. AskedFor'
  <2>. SUFFICES ASSUME NEW v \in Updater, Underway(v)'
                PROVE  thread'[v].icon \in asked'[thread'[v].account].icons
    BY DEF AskedFor
  <2>1. CASE v = u
    BY <1>1, <1>2, <2>1
  <2>2. CASE v # u
    <3>1. thread'[v] = thread[v] /\ Underway(v)
      BY <1>1, <2>2 DEF Underway
    <3>2. /\ thread[v].icon \in asked[thread[v].account].icons
          /\ thread[v].account \in Account
      BY <3>1 DEF IconsInv, AskedFor, IInv, Created, Underway
    <3>3. thread[v].account = b => ~Settled(b)
      BY <3>1 DEF Underway, Settled
    <3>. QED  BY <1>1, <1>2, <3>1, <3>2, <3>3
  <2>. QED  BY <2>1, <2>2
<1>5. Remembered'
  <2>. SUFFICES ASSUME NEW a \in Account
                PROVE  /\ asked'[a].upTo <= Len(posted')
                       /\ IsFiniteSet(asked'[a].icons)
                       /\ asked'[a].icons # {} /\ ~asked'[a].lost
                            => stored'[a] \in asked'[a].icons
                       /\ \A r \in asked'[a].members :
                            participants'[r] > 0 /\ account'[r] = a
    BY DEF Remembered
  <2>1. CASE a = b
    <3>1. IsFiniteSet(asked[b].icons)
      BY <1>1 DEF IconsInv, Remembered
    <3>2. IsFiniteSet(asked'[b].icons)
      <4>1. IsFiniteSet({i})
        BY FS_Singleton
      <4>2. IsFiniteSet(asked[b].icons \cup {i})
        BY <3>1, FS_AddElement
      <4>. QED  BY <1>2, <4>1, <4>2
    <3>3. ~asked'[b].lost => stored'[b] \in asked'[b].icons
      BY <1>1, <1>2
    <3>4. \A r \in MembersOf(b) : participants[r] > 0 /\ account[r] = b
      BY DEF MembersOf
    <3>. QED  BY <1>1, <1>2, <2>1, <3>2, <3>3, <3>4
  <2>2. CASE a # b
    BY <1>1, <2>2 DEF IconsInv, Remembered
  <2>. QED  BY <2>1, <2>2
<1>6. SessionsShow'
  <2>. SUFFICES ASSUME NEW a \in Account, ~asked'[a].skipped,
                       NEW r \in asked'[a].members
                PROVE  \/ icon'[r] \in asked'[a].icons
                       \/ \E v \in Updater : ComesToSessions(v, a)'
    BY DEF SessionsShow
  <2>1. CASE a = b
    BY <1>1, <2>1 DEF ComesToSessions, Underway
  <2>2. CASE a # b
    <3>1. asked'[a] = asked[a] /\ icon' = icon /\ process = "running"
      BY <1>1, <2>2
    <3>2. icon[r] \in asked[a].icons \/ \E v \in Updater : ComesToSessions(v, a)
      BY <3>1 DEF IconsInv, SessionsShow
    <3>3. \A v \in Updater : ComesToSessions(v, a) => ComesToSessions(v, a)'
      BY <1>1 DEF ComesToSessions, Underway
    <3>. QED  BY <3>1, <3>2, <3>3
  <2>. QED  BY <2>1, <2>2
<1>7. MessagesShow'
  <2>. SUFFICES ASSUME Len(recentMessages') = Len(posted'),
                       NEW a \in Account, ~asked'[a].skipped,
                       NEW k \in 1..Len(recentMessages'),
                       recentMessages'[k].author = a,
                       recentMessages'[k].seq <= asked'[a].upTo
                PROVE  \/ recentMessages'[k].icon \in asked'[a].icons
                       \/ \E v \in Updater : ComesTo(v, a, k)'
    BY DEF MessagesShow
  <2>1. CASE a = b
    BY <1>1, <2>1 DEF ComesTo
  <2>2. CASE a # b
    <3>1. /\ asked'[a] = asked[a] /\ process = "running"
          /\ recentMessages' = recentMessages /\ posted' = posted
      BY <1>1, <2>2
    <3>2. \/ recentMessages[k].icon \in asked[a].icons
          \/ \E v \in Updater : ComesTo(v, a, k)
      BY <3>1 DEF IconsInv, MessagesShow
    <3>3. \A v \in Updater : ComesTo(v, a, k) => ComesTo(v, a, k)'
      BY <1>1 DEF ComesTo
    <3>. QED  BY <3>1, <3>2, <3>3
  <2>. QED  BY <2>1, <2>2
<1>. QED  BY <1>3, <1>4, <1>5, <1>6, <1>7 DEF IconsInv

-----------------------------------------------------------------------------
(* The other steps.                                                        *)

(* posted only grows, and below the limit a slot keeps its message or is   *)
(* written by a thread of its author.                                      *)
LEMMA SlotsStep ==
  ASSUME IInv, RoomStep, process' = "running",
         Len(recentMessages') = Len(posted')
  PROVE  /\ Len(recentMessages) = Len(posted)
         /\ \A k \in 1..Len(recentMessages') :
              \/ /\ k \in 1..Len(recentMessages)
                 /\ recentMessages'[k] = recentMessages[k]
              \/ recentMessages'[k].seq = Len(posted) + 1
              \/ /\ k \in 1..Len(recentMessages)
                 /\ \E u \in Updater :
                      /\ thread[u].pc = "write"
                      /\ recentMessages'[k].author = thread[u].account
                      /\ recentMessages'[k].icon = thread[u].icon
<1>. DEFINE h == recentMessages
<1>. USE GroupAssumption
<1>0. /\ h \in Seq(Message) /\ posted \in Seq(Author)
      /\ Len(h) \in Nat /\ Len(posted) \in Nat /\ Len(h) <= Len(posted)
  BY LenProperties DEF IInv, GroupTypeOK, Counts
<1>1. CASE UNCHANGED <<recentMessages, posted>>
  BY <1>1
<1>2. ASSUME NEW a \in Author, NEW i \in Icon, PostBegin(a, i)
      PROVE  /\ Len(h) = Len(posted)
             /\ \A k \in 1..Len(recentMessages') :
                  \/ k \in 1..Len(h) /\ recentMessages'[k] = h[k]
                  \/ recentMessages'[k].seq = Len(posted) + 1
  <2>. DEFINE m == [seq |-> Len(posted) + 1, author |-> a, icon |-> i]
  <2>1. m \in Message /\ recentMessages' = Append(h, m) /\ posted' = Append(posted, a)
    BY <1>0, <1>2 DEF PostBegin, Message
  <2>2. m.seq = Len(posted) + 1
    OBVIOUS
  <2>. HIDE DEF m
  <2>3. /\ Len(recentMessages') = Len(h) + 1 /\ Len(posted') = Len(posted) + 1
        /\ \A k \in 1..Len(h) : recentMessages'[k] = h[k]
        /\ recentMessages'[Len(h) + 1] = m
    BY <1>0, <2>1, AppendProperties
  <2>4. Len(h) = Len(posted)
    <3>1. Len(h) + 1 = Len(posted) + 1
      BY <2>3
    <3>2. Len(h) \in Nat /\ Len(posted) \in Nat
      BY <1>0
    <3>. HIDE DEF h
    <3>. QED  BY <3>1, <3>2
  <2>5. ASSUME NEW k \in 1..Len(recentMessages')
        PROVE  \/ k \in 1..Len(h) /\ recentMessages'[k] = h[k]
               \/ recentMessages'[k].seq = Len(posted) + 1
    <3>1. k \in 1..Len(h) \/ k = Len(h) + 1
      BY <1>0, <2>3
    <3>. QED  BY <2>2, <2>3, <3>1
  <2>. QED  BY <2>4, <2>5
<1>3. ASSUME recentMessages' = Trim(h), posted' = posted
      PROVE  Len(h) = Len(posted) /\ recentMessages' = h
  <2>1. CASE Len(h) <= MaxRecent
    BY <1>0, <1>3, <2>1, TrimProperties
  <2>2. CASE Len(h) > MaxRecent
    <3>1. Len(recentMessages') = MaxRecent
      BY <1>0, <1>3, <2>2, TrimProperties
    <3>. QED  BY <1>0, <1>3, <2>2, <3>1
  <2>. QED  BY <1>0, <2>1, <2>2
<1>4. ASSUME NEW u \in Updater, UpdateWrite(u)
      PROVE  /\ Len(h) = Len(posted)
             /\ \A k \in 1..Len(recentMessages') :
                  /\ k \in 1..Len(h)
                  /\ \/ recentMessages'[k] = h[k]
                     \/ /\ thread[u].pc = "write"
                        /\ recentMessages'[k].author = thread[u].account
                        /\ recentMessages'[k].icon = thread[u].icon
  <2>1. /\ thread[u].pc = "write" /\ posted' = posted
        /\ thread[u] \in Thread /\ thread[u].icon \in Icon
        /\ thread[u].entry \in Message
        /\ thread[u].entry.author = thread[u].account
        /\ thread[u].idx \in Nat
    BY <1>4 DEF UpdateWrite, At, IInv, Entries, Created, GroupTypeOK, Thread
  <2>2. CASE thread[u].idx < Len(h)
    <3>. DEFINE m == Rewritten(u)
    <3>1. /\ m \in Message /\ m.author = thread[u].account
          /\ m.icon = thread[u].icon
      BY <2>1 DEF Rewritten, Message
    <3>. HIDE DEF m
    <3>2. recentMessages' = [h EXCEPT ![thread[u].idx + 1] = m]
      BY <1>4, <2>2 DEF UpdateWrite, m
    <3>3. thread[u].idx + 1 \in 1..Len(h)
      BY <1>0, <2>1, <2>2
    <3>4. /\ Len(recentMessages') = Len(h)
          /\ \A k \in 1..Len(h) : recentMessages'[k] =
               IF k = thread[u].idx + 1 THEN m ELSE h[k]
      BY <1>0, <3>1, <3>2, <3>3, ExceptSeq
    <3>. QED  BY <2>1, <3>1, <3>4
  <2>3. CASE ~(thread[u].idx < Len(h))
    BY <1>4, <2>1, <2>3 DEF UpdateWrite
  <2>. QED  BY <2>2, <2>3
<1>5. ASSUME \/ \E s \in Session, a \in Account, i \in Icon :
                  Join(s) /\ Identify(s, a, i)
             \/ \E s \in Session : Join(s) /\ IdentifyPartly(s)
             \/ \E s \in Session : Leave(s)
             \/ Flush
             \/ \E u \in Updater, dangling \in BOOLEAN : UpdateStart(u, dangling)
             \/ \E u \in Updater : UpdateTest(u) \/ UpdateRead(u) \/ UpdateThrow(u)
                                     \/ UpdateTypeError(u)
                                     \/ UpdateLock(u) \/ UpdateIcons(u)
      PROVE  UNCHANGED <<recentMessages, posted>>
  BY <1>5 DEF Join, Leave, Flush, UpdateStart, UpdateTest, UpdateRead, UpdateThrow,
    UpdateTypeError,
    UpdateLock, UpdateIcons
<1>6. CASE PostEnd \/ DeliverNoHis
  BY <1>3, <1>6 DEF PostEnd, DeliverNoHis
<1>7. CASE \E a \in Author, i \in Icon : PostBegin(a, i)
  BY <1>2, <1>7
<1>8. CASE \E u \in Updater : UpdateWrite(u)
  BY <1>4, <1>8
<1>. QED  BY <1>1, <1>5, <1>6, <1>7, <1>8 DEF RoomStep, Update

(* Below the limit a thread of a that is to come to a slot still is, or    *)
(* has written it, or found no history.                                    *)
LEMMA ComesStep ==
  ASSUME IInv, RoomStep, process' = "running", NEW v \in Updater,
         NEW a, NEW k \in 1..Len(recentMessages), ComesTo(v, a, k),
         Len(recentMessages) = Len(posted),
         recentMessages[k].author = a
  PROVE  \/ ComesTo(v, a, k)'
         \/ Skips(v)
         \/ thread[v].account = a /\ recentMessages'[k].icon = thread[v].icon
<1>. DEFINE P == \/ ComesTo(v, a, k)'
                 \/ Skips(v)
                 \/ /\ thread[v].account = a
                    /\ recentMessages'[k].icon = thread[v].icon
<1>0. /\ thread \in [Updater -> Thread] /\ thread[v].idx \in Nat
      /\ thread[v].account = a
      /\ recentMessages \in Seq(Message) /\ Len(recentMessages) \in Nat
  BY LenProperties DEF IInv, GroupTypeOK, Thread, ComesTo
<1>1. ASSUME thread'[v] = thread[v] PROVE P
  BY <1>1 DEF ComesTo
<1>2. ASSUME NEW u \in Updater, NEW dangling \in BOOLEAN, UpdateStart(u, dangling)
      PROVE  P
  <2>1. CASE u = v
    BY <1>0, <1>2, <2>1 DEF UpdateStart, At, Skips, ComesTo, FirstIndex, Thread
  <2>2. CASE u # v
    BY <1>0, <1>1, <1>2, <2>2 DEF UpdateStart
  <2>. QED  BY <2>1, <2>2
<1>3. ASSUME NEW u \in Updater, UpdateTest(u) PROVE P
  <2>1. CASE u = v
    <3>1. thread[v].idx < k
      BY <1>3, <2>1 DEF UpdateTest, At, ComesTo
    <3>2. MoreSlots(v)
      BY <1>0, <3>1 DEF MoreSlots
    <3>3. thread'[v] = [thread[v] EXCEPT !.pc = "read"]
      BY <1>0, <1>3, <2>1, <3>2 DEF UpdateTest
    <3>. QED  BY <1>0, <3>1, <3>3 DEF ComesTo, Thread
  <2>2. CASE u # v
    BY <1>0, <1>1, <1>3, <2>2 DEF UpdateTest
  <2>. QED  BY <2>1, <2>2
<1>4. ASSUME NEW u \in Updater, UpdateRead(u) PROVE P
  <2>1. CASE u = v
    <3>1. thread[v].pc = "read" /\ thread[v].idx < k
      BY <1>4, <2>1 DEF UpdateRead, At, ComesTo
    <3>2. CASE Slot(v).author = thread[v].account
      <4>1. thread'[v] = [thread[v] EXCEPT !.pc = "lock", !.entry = Slot(v)]
        BY <1>0, <1>4, <2>1, <3>2 DEF UpdateRead
      <4>. QED  BY <1>0, <3>1, <4>1 DEF ComesTo, Thread
    <3>3. CASE Slot(v).author # thread[v].account
      <4>1. thread'[v] = [thread[v] EXCEPT !.pc = "test", !.idx = NextIdx(v)]
        BY <1>0, <1>4, <2>1, <3>3 DEF UpdateRead
      <4>2. thread[v].idx + 1 # k
        BY <1>0, <3>3 DEF Slot
      <4>3. thread[v].idx + 1 < k
        BY <1>0, <3>1, <4>2
      <4>. QED  BY <1>0, <4>1, <4>3 DEF ComesTo, Thread, NextIdx
    <3>. QED  BY <3>2, <3>3
  <2>2. CASE u # v
    BY <1>0, <1>1, <1>4, <2>2 DEF UpdateRead
  <2>. QED  BY <2>1, <2>2
<1>5. ASSUME NEW u \in Updater, UpdateLock(u) PROVE P
  <2>1. CASE u = v
    <3>1. thread[v].idx < k
      BY <1>5, <2>1 DEF UpdateLock, At, ComesTo
    <3>2. thread'[v] = [thread[v] EXCEPT !.pc = "write"]
      BY <1>0, <1>5, <2>1 DEF UpdateLock
    <3>. QED  BY <1>0, <3>1, <3>2 DEF ComesTo, Thread
  <2>2. CASE u # v
    BY <1>0, <1>1, <1>5, <2>2 DEF UpdateLock
  <2>. QED  BY <2>1, <2>2
<1>6. ASSUME NEW u \in Updater, UpdateWrite(u) PROVE P
  <2>1. CASE u = v
    <3>1. thread[v].pc = "write" /\ thread[v].idx < k
      BY <1>6, <2>1 DEF UpdateWrite, At, ComesTo
    <3>2. CASE thread[v].idx + 1 < k
      <4>1. thread'[v] = [thread[v] EXCEPT !.pc = "test", !.idx = NextIdx(v),
                                           !.entry = NoMessage]
        BY <1>0, <1>6, <2>1 DEF UpdateWrite
      <4>. QED  BY <1>0, <3>2, <4>1 DEF ComesTo, Thread, NextIdx
    <3>3. CASE thread[v].idx + 1 = k
      <4>0. /\ thread[v].idx < Len(recentMessages)
            /\ recentMessages' = [recentMessages EXCEPT
                                    ![thread[v].idx + 1] = Rewritten(v)]
        BY <1>0, <1>6, <2>1, <3>1 DEF UpdateWrite
      <4>1. recentMessages' = [recentMessages EXCEPT ![k] = Rewritten(v)]
        BY <3>3, <4>0
      <4>2. thread[v].entry \in Message
        BY <3>1 DEF IInv, Entries
      <4>3. Rewritten(v).icon = thread[v].icon
        BY <4>2 DEF Rewritten, Message
      <4>4. recentMessages'[k] = Rewritten(v)
        <5>1. k \in DOMAIN recentMessages
          BY <1>0, LenProperties
        <5>. QED  BY <4>1, <5>1
      <4>. QED  BY <1>0, <4>3, <4>4
    <3>. QED  BY <1>0, <3>1, <3>2, <3>3
  <2>2. CASE u # v
    BY <1>0, <1>1, <1>6, <2>2 DEF UpdateWrite
  <2>. QED  BY <2>1, <2>2
<1>7. ASSUME NEW u \in Updater, UpdateIcons(u) PROVE P
  <2>1. u # v
    BY <1>7 DEF UpdateIcons, At, ComesTo
  <2>. QED  BY <1>0, <1>1, <1>7, <2>1 DEF UpdateIcons
<1>8. ASSUME \/ \E s \in Session, b \in Account, i \in Icon :
                  Join(s) /\ Identify(s, b, i)
             \/ \E s \in Session : Join(s) /\ IdentifyPartly(s)
             \/ \E s \in Session : Leave(s)
             \/ Flush
             \/ \E b \in Author, i \in Icon : PostBegin(b, i)
             \/ PostEnd
             \/ DeliverNoHis
             \/ \E u \in Updater : UpdateThrow(u) \/ UpdateTypeError(u)
      PROVE  P
  <2>1. thread' = thread
    BY <1>8 DEF Join, Leave, Flush, PostBegin, PostEnd, DeliverNoHis, UpdateThrow,
       UpdateTypeError
  <2>. QED  BY <1>1, <2>1
<1>. QED  BY <1>2, <1>3, <1>4, <1>5, <1>6, <1>7, <1>8 DEF RoomStep, Update

LEMMA PostedGrows ==
  ASSUME GroupTypeOK, RoomStep
  PROVE  Len(posted) \in Nat /\ Len(posted) <= Len(posted')
<1>1. posted \in Seq(Author) /\ Len(posted) \in Nat
  BY LenProperties DEF GroupTypeOK
<1>2. CASE posted' = posted
  BY <1>1, <1>2
<1>3. ASSUME NEW a \in Author, NEW i \in Icon, PostBegin(a, i)
      PROVE  Len(posted') = Len(posted) + 1
  BY <1>1, <1>3, AppendProperties DEF PostBegin
<1>4. ASSUME \/ \E s \in Session, a \in Account, i \in Icon :
                  Join(s) /\ Identify(s, a, i)
             \/ \E s \in Session : Join(s) /\ IdentifyPartly(s)
             \/ \E s \in Session : Leave(s)
             \/ Flush
             \/ PostEnd
             \/ DeliverNoHis
             \/ \E u \in Updater, dangling \in BOOLEAN : UpdateStart(u, dangling)
             \/ \E u \in Updater : Update(u)
      PROVE  posted' = posted
  BY <1>4 DEF Join, Leave, Flush, PostEnd, DeliverNoHis, UpdateStart, Update,
    UpdateTest, UpdateRead, UpdateThrow,
    UpdateTypeError, UpdateLock, UpdateWrite, UpdateIcons
<1>. QED  BY <1>1, <1>2, <1>3, <1>4 DEF RoomStep

LEMMA OtherSessionsShow ==
  ASSUME IInv, IconsInv, OtherStep
  PROVE  SessionsShow'
<1>. SUFFICES ASSUME process' = "running", NEW a \in Account, ~asked'[a].skipped,
                     NEW s \in asked'[a].members
              PROVE  \/ icon'[s] \in asked'[a].icons
                     \/ \E u \in Updater : ComesToSessions(u, a)'
  BY DEF SessionsShow
<1>0. GroupTypeOK /\ IconsTypeOK /\ RoomStep /\ process = "running"
  BY SessionsStep DEF IInv, IconsInv, OtherStep
<1>1. /\ asked'[a].icons = asked[a].icons
      /\ s \in asked[a].members /\ s \in Session
      /\ participants'[s] = participants[s]
      /\ ~asked[a].skipped
      /\ \A u \in Updater : Skips(u) => thread[u].account # a
  BY <1>0, OtherAsked DEF IconsTypeOK, Asked
<1>2. participants[s] > 0 /\ account[s] = a
  BY <1>1 DEF IconsInv, Remembered
<1>3. ASSUME NEW u \in Updater, Underway(u), thread[u].account = a
      PROVE  thread[u].icon \in asked[a].icons
  BY <1>3 DEF IconsInv, AskedFor
<1>4. ASSUME NEW u \in Updater, thread[u].pc = "icons",
             thread[u].account = a, icon'[s] = thread[u].icon
      PROVE  icon'[s] \in asked[a].icons
  BY <1>3, <1>4 DEF Underway
<1>5. icon'[s] = icon[s] \/ icon'[s] \in asked[a].icons
  BY <1>0, <1>1, <1>2, <1>4, SessionsStep
<1>6. ASSUME NEW u \in Updater, ComesToSessions(u, a), ~ComesToSessions(u, a)'
      PROVE  icon'[s] \in asked[a].icons
  <2>1. Underway(u) /\ thread[u].account = a
    BY <1>6 DEF ComesToSessions
  <2>2. Skips(u) \/ UpdateIcons(u)
    BY <1>0, <1>6, <2>1, ThreadsStep DEF ComesToSessions
  <2>3. UpdateIcons(u)
    BY <1>1, <2>1, <2>2
  <2>4. icon'[s] = thread[u].icon
    BY <1>1, <1>2, <2>1, <2>3 DEF UpdateIcons, MembersFor
  <2>. QED  BY <1>3, <2>1, <2>4
<1>7. icon[s] \in asked[a].icons \/ \E u \in Updater : ComesToSessions(u, a)
  BY <1>0, <1>1 DEF IconsInv, SessionsShow
<1>. QED  BY <1>1, <1>5, <1>6, <1>7

LEMMA OtherMessagesShow ==
  ASSUME IInv, IconsInv, OtherStep
  PROVE  MessagesShow'
<1>. SUFFICES ASSUME process' = "running",
                     Len(recentMessages') = Len(posted'),
                     NEW a \in Account, ~asked'[a].skipped,
                     NEW k \in 1..Len(recentMessages'),
                     recentMessages'[k].author = a,
                     recentMessages'[k].seq <= asked'[a].upTo
              PROVE  \/ recentMessages'[k].icon \in asked'[a].icons
                     \/ \E v \in Updater : ComesTo(v, a, k)'
  BY DEF MessagesShow
<1>0. GroupTypeOK /\ IconsTypeOK /\ RoomStep /\ process = "running"
  BY SessionsStep DEF IInv, IconsInv, OtherStep
<1>1. /\ asked'[a].icons = asked[a].icons
      /\ asked'[a].upTo = asked[a].upTo
      /\ ~asked[a].skipped
      /\ \A u \in Updater : Skips(u) => thread[u].account # a
  BY <1>0, OtherAsked
<1>2. /\ asked[a].upTo <= Len(posted) /\ asked[a].upTo \in Nat
      /\ Len(posted) \in Nat
  BY <1>0, LenProperties DEF IconsInv, Remembered, IconsTypeOK, Asked, GroupTypeOK
<1>3. ASSUME NEW u \in Updater, Underway(u), thread[u].account = a
      PROVE  thread[u].icon \in asked[a].icons
  BY <1>3 DEF IconsInv, AskedFor
<1>4. recentMessages'[k].seq # Len(posted) + 1
  BY <1>1, <1>2
<1>5. Len(recentMessages) = Len(posted)
  BY <1>0, SlotsStep
<1>6. \/ k \in 1..Len(recentMessages) /\ recentMessages'[k] = recentMessages[k]
      \/ \E u \in Updater : /\ thread[u].pc = "write"
                            /\ recentMessages'[k].author = thread[u].account
                            /\ recentMessages'[k].icon = thread[u].icon
  BY <1>0, <1>4, SlotsStep
<1>7. CASE k \in 1..Len(recentMessages) /\ recentMessages'[k] = recentMessages[k]
  <2>1. \/ recentMessages[k].icon \in asked[a].icons
        \/ \E v \in Updater : ComesTo(v, a, k)
    BY <1>0, <1>1, <1>5, <1>7 DEF IconsInv, MessagesShow
  <2>2. ASSUME NEW v \in Updater, ComesTo(v, a, k)
        PROVE  ComesTo(v, a, k)' \/ recentMessages'[k].icon \in asked[a].icons
    <3>1. Underway(v) /\ thread[v].account = a
      BY <2>2 DEF ComesTo, Underway
    <3>2. \/ ComesTo(v, a, k)'
          \/ Skips(v)
          \/ recentMessages'[k].icon = thread[v].icon
      BY <1>0, <1>5, <1>7, <2>2, ComesStep
    <3>. QED  BY <1>1, <1>3, <3>1, <3>2
  <2>. QED  BY <1>1, <1>7, <2>1, <2>2
<1>8. ASSUME NEW u \in Updater, thread[u].pc = "write",
             recentMessages'[k].author = thread[u].account,
             recentMessages'[k].icon = thread[u].icon
      PROVE  recentMessages'[k].icon \in asked[a].icons
  BY <1>3, <1>8 DEF Underway
<1>. QED  BY <1>1, <1>6, <1>7, <1>8

LEMMA OtherStepInv ==
  ASSUME IInv, IconsInv, OtherStep, GroupTypeOK'
  PROVE  IconsInv'
<1>0. GroupTypeOK /\ IconsTypeOK /\ RoomStep
  BY DEF IInv, IconsInv, OtherStep
<1>1. IconsTypeOK'
  <2>1. stored' = stored /\ stored \in [Account -> Icon \cup {NoIcon}]
    BY <1>0 DEF OtherStep, IconsTypeOK
  <2>2. ASSUME NEW a \in Account PROVE asked' \in [Account -> Asked]
    BY <1>0, OtherAsked
  <2>3. asked' \in [Account -> Asked]
    BY <2>2 DEF OtherStep
  <2>. QED  BY <2>1, <2>3 DEF IconsTypeOK
<1>2. AskedFor'
  <2>. SUFFICES ASSUME NEW v \in Updater, Underway(v)'
                PROVE  thread'[v].icon \in asked'[thread'[v].account].icons
    BY DEF AskedFor
  <2>1. /\ thread'[v].account = thread[v].account
        /\ thread'[v].icon = thread[v].icon
        /\ Underway(v)
    BY <1>0, ThreadsStep
  <2>2. /\ thread[v].account \in Account
        /\ thread[v].icon \in asked[thread[v].account].icons
    BY <2>1 DEF IInv, Created, Underway, IconsInv, AskedFor
  <2>3. asked'[thread[v].account].icons = asked[thread[v].account].icons
    BY <1>0, <2>2, OtherAsked
  <2>. QED  BY <2>1, <2>2, <2>3
<1>3. Remembered'
  <2>. SUFFICES ASSUME NEW a \in Account
                PROVE  /\ asked'[a].upTo <= Len(posted')
                       /\ IsFiniteSet(asked'[a].icons)
                       /\ asked'[a].icons # {} /\ ~asked'[a].lost
                            => stored'[a] \in asked'[a].icons
                       /\ \A s \in asked'[a].members :
                            participants'[s] > 0 /\ account'[s] = a
    BY DEF Remembered
  <2>1. /\ asked'[a].icons = asked[a].icons
        /\ asked'[a].upTo = asked[a].upTo
        /\ asked'[a].lost = asked[a].lost
        /\ asked'[a].members =
             {s \in asked[a].members : participants'[s] = participants[s]}
    BY <1>0, OtherAsked
  <2>2. /\ asked[a].upTo <= Len(posted)
        /\ IsFiniteSet(asked[a].icons)
        /\ asked[a].icons # {} /\ ~asked[a].lost => stored[a] \in asked[a].icons
        /\ \A s \in asked[a].members : participants[s] > 0 /\ account[s] = a
        /\ stored' = stored
    BY DEF IconsInv, Remembered, OtherStep
  <2>3. asked'[a].upTo <= Len(posted')
    <3>1. asked[a].upTo \in Nat
      BY <1>0 DEF IconsTypeOK, Asked
    <3>2. Len(posted) \in Nat /\ Len(posted) <= Len(posted')
      BY <1>0, PostedGrows
    <3>3. Len(posted') \in Nat
      BY LenProperties DEF GroupTypeOK
    <3>. QED  BY <2>1, <2>2, <3>1, <3>2, <3>3
  <2>4. ASSUME NEW s \in asked'[a].members
        PROVE  participants'[s] > 0 /\ account'[s] = a
    <3>1. /\ s \in asked[a].members /\ s \in Session
          /\ participants'[s] = participants[s]
      BY <1>0, <2>1 DEF IconsTypeOK, Asked
    <3>2. account'[s] = account[s]
      BY <1>0, <3>1, SessionsStep
    <3>. QED  BY <2>2, <3>1, <3>2
  <2>. QED  BY <2>1, <2>2, <2>3, <2>4
<1>. QED  BY <1>1, <1>2, <1>3, OtherSessionsShow, OtherMessagesShow DEF IconsInv

-----------------------------------------------------------------------------
(* The invariant holds.                                                    *)

LEMMA IconsInvInit == IconsInit => IconsInv
<1>. SUFFICES ASSUME IconsInit PROVE IconsInv
  OBVIOUS
<1>0. GroupInit /\ GroupTypeOK
  BY TypeInit DEF IconsInit
<1>1. ASSUME NEW a \in Account
      PROVE  asked[a] = [icons |-> {}, members |-> {}, upTo |-> 0, skipped |-> FALSE,
                          lost |-> FALSE]
  BY DEF IconsInit
<1>2. IconsTypeOK
  BY <1>0 DEF IconsInit, IconsTypeOK, Asked
<1>3. AskedFor
  BY <1>0 DEF AskedFor, Underway, GroupInit, IdleThread
<1>4. Remembered
  <2>1. Len(posted) = 0
    BY <1>0 DEF GroupInit
  <2>2. IsFiniteSet({})
    BY FS_EmptySet
  <2>3. ASSUME NEW a \in Account
        PROVE  asked[a].icons = {} /\ asked[a].members = {} /\ asked[a].upTo = 0
    BY <1>1
  <2>4. ASSUME NEW a \in Account
        PROVE  IsFiniteSet(asked[a].icons) /\ asked[a].upTo <= Len(posted)
    <3>1. IsFiniteSet(asked[a].icons)
      BY <2>2, <2>3, Zenon
    <3>2. asked[a].upTo <= Len(posted)
      BY <2>1, <2>3
    <3>. QED  BY <3>1, <3>2
  <2>. QED  BY <2>3, <2>4 DEF Remembered
<1>5. SessionsShow
  BY <1>1 DEF SessionsShow
<1>6. MessagesShow
  <2>1. recentMessages = <<>> /\ Len(recentMessages) = 0
    BY <1>0 DEF GroupInit
  <2>. QED  BY <2>1 DEF MessagesShow
<1>. QED  BY <1>2, <1>3, <1>4, <1>5, <1>6 DEF IconsInv

LEMMA IconsInvNext ==
  IInv /\ IconsInv /\ GroupTypeOK' /\ [IconsNext]_iconsVars => IconsInv'
<1>. SUFFICES ASSUME IInv, IconsInv, GroupTypeOK', [IconsNext]_iconsVars
              PROVE  IconsInv'
  OBVIOUS
<1>1. CASE UNCHANGED iconsVars
  BY <1>1 DEF iconsVars, groupVars, IconsInv, IconsTypeOK, GroupTypeOK, AskedFor,
    Remembered, SessionsShow, MessagesShow, Underway, ComesToSessions, ComesTo
<1>2. ASSUME NEW u \in Updater, NEW s \in Session, NEW b \in Account,
             NEW i \in Icon, NEW works \in BOOLEAN,
             ChangeIcon(u, s, b, i, works)
      PROVE  IconsInv'
  BY <1>2, ChangeIconInv
<1>3. CASE OtherStep
  BY <1>3, OtherStepInv
<1>. QED  BY <1>1, <1>2, <1>3 DEF IconsNext

LEMMA IconsInductive == IconsSpec => []IconsInv
<1>1. IInv => GroupTypeOK
  BY DEF IInv
<1>. QED  BY <1>1, IsAGroup, Inductive, IconsInvInit, IconsInvNext, PTL
          DEF IconsSpec

(* What was asked for and what is stored keep their types.                 *)
THEOREM IconsTypeCorrect == IconsSpec => []IconsTypeOK
<1>1. IconsInv => IconsTypeOK
  BY DEF IconsInv
<1>. QED  BY <1>1, IconsInductive, PTL

(* Where no change of an account is under way, its sessions and messages   *)
(* show an icon that was asked for, and the stored one unless changes      *)
(* overlapped or one did not get into the data base, however the threads   *)
(* of SettingRequest interleave.                                           *)
THEOREM Settles == IconsSpec => []IconsSettle
<1>1. ASSUME IInv, IconsInv PROVE IconsSettle
  <2>. SUFFICES ASSUME NEW a \in Account, process = "running",
                       asked[a].icons # {}, Settled(a), ~asked[a].skipped
                PROVE  /\ \A s \in asked[a].members : icon[s] \in MayShow(a)
                       /\ Trimmed = 0 =>
                            \A k \in DOMAIN recentMessages :
                              recentMessages[k].author = a
                                /\ recentMessages[k].seq <= asked[a].upTo
                                => recentMessages[k].icon \in MayShow(a)
    BY DEF IconsSettle
  <2>1. MayShow(a) = asked[a].icons
    <3>1. CASE Cardinality(asked[a].icons) = 1 /\ ~asked[a].lost
      <4>1. IsFiniteSet(asked[a].icons) /\ stored[a] \in asked[a].icons
        BY <1>1, <3>1 DEF IconsInv, Remembered
      <4>2. PICK i : asked[a].icons = {i}
        BY <3>1, <4>1, FS_Singleton
      <4>. QED  BY <3>1, <4>1, <4>2 DEF MayShow
    <3>2. CASE ~(Cardinality(asked[a].icons) = 1 /\ ~asked[a].lost)
      BY <3>2 DEF MayShow
    <3>. QED  BY <3>1, <3>2
  <2>2. \A u \in Updater : thread[u].account = a => ~Underway(u)
    BY DEF Settled, Underway
  <2>3. \A s \in asked[a].members : icon[s] \in asked[a].icons
    BY <1>1, <2>2 DEF IconsInv, SessionsShow, ComesToSessions
  <2>4. ASSUME Trimmed = 0, NEW k \in DOMAIN recentMessages,
               recentMessages[k].author = a,
               recentMessages[k].seq <= asked[a].upTo
        PROVE  recentMessages[k].icon \in asked[a].icons
    <3>1. /\ Len(recentMessages) \in Nat /\ Len(posted) \in Nat
          /\ k \in 1..Len(recentMessages)
      BY <1>1, LenProperties DEF IInv, GroupTypeOK
    <3>2. Len(recentMessages) = Len(posted)
      BY <2>4, <3>1 DEF Trimmed
    <3>3. \A v \in Updater : ~ComesTo(v, a, k)
      BY <2>2 DEF ComesTo, Underway
    <3>. QED  BY <1>1, <2>4, <3>1, <3>2, <3>3 DEF IconsInv, MessagesShow
  <2>. QED  BY <2>1, <2>3, <2>4
<1>. QED  BY <1>1, IsAGroup, Inductive, IconsInductive, PTL
=============================================================================
