-------------------------- MODULE ChatServerProofs --------------------------
(***************************************************************************)
(* Theorems about ChatServer, for every number of connections, requests    *)
(* and icon changes: the server uses its Group as Group says, and so       *)
(* inherits what is proved of it; its queues are written one message at a  *)
(* time; and nobody stays on the list who will never be taken off it.      *)
(***************************************************************************)
EXTENDS ChatServer, GroupProofs, WellFoundedInduction

-----------------------------------------------------------------------------
(* What io may say: which session a handler is for, and what is left of it. *)
IoShape ==
  /\ io \in Handler
  /\ io.pc = "idle" => io = Idle
  /\ io.pc # "idle" => io.sess \in Session
  /\ io.pc = "reply" => io.kind = "online"
  /\ io.pc = "post" => io.kind = "post"
  /\ io.pc = "leave" => io.kind = "offline"
  /\ io.pc = "notify" => io.kind \in {"online", "offline", "setting"}

(* The steps that neither begin nor go on with a handler of several steps. *)
LEMMA IoShapeNext == IoShape /\ [Next]_vars => IoShape'
<1>. SUFFICES ASSUME IoShape, [Next]_vars PROVE IoShape'
  OBVIOUS
<1>. USE DEF IoShape
<1>1. CASE UNCHANGED io
  BY <1>1
<1>2. ASSUME NEW s \in Session,
             \/ \E a \in Account, i \in Icon : SayHello(s, a, i)
             \/ \E a \in Author, i \in Icon : Content(s, a, i)
             \/ \E a \in Account, i \in Icon, u \in Updater :
                  SettingIcon(s, a, i, u)
             \/ ReadFail(s)
      PROVE  IoShape'
  <2>1. io' \in {[pc |-> "notify", sess |-> s, kind |-> "online"],
                 [pc |-> "post", sess |-> s, kind |-> "post"],
                 [pc |-> "notify", sess |-> s, kind |-> "setting"],
                 [pc |-> "notify", sess |-> s, kind |-> "offline"]}
    BY <1>2 DEF SayHello, Content, SettingIcon, ReadFail, Continue,
                AfterReadError
  <2>. QED  BY <2>1 DEF Handler, Kinds, RoomKinds
<1>3. CASE HelloReply \/ ContentEnd \/ ReadFailEnd
  BY <1>3 DEF HelloReply, ContentEnd, ReadFailEnd, Idle, Handler
<1>4. CASE Notify
  <2>1. CASE io.kind = "online"
    BY <1>4, <2>1 DEF Notify, Handler
  <2>2. CASE io.kind = "offline"
    BY <1>4, <2>2 DEF Notify, Handler
  <2>3. CASE io.kind # "online" /\ io.kind # "offline"
    BY <1>4, <2>3 DEF Notify, Idle, Handler
  <2>. QED  BY <2>1, <2>2, <2>3
<1>. QED
  BY <1>1, <1>2, <1>3, <1>4
  DEF Next, vars, IoStep, Accept, WriteDone, WriteFail, SayHelloFails, Direct,
      Answer, IgnoreLine, PeerDown, UpdaterStep

LEMMA IoShapeInit == Init => IoShape
BY DEF Init, IoShape, Idle, Handler, Kinds

-----------------------------------------------------------------------------
(* The server is one way of using a Group.                                 *)

LEMMA StepOfGroup == IoShape /\ [Next]_vars => [GroupNext]_groupVars
<1>. SUFFICES ASSUME IoShape, [Next]_vars PROVE [GroupNext]_groupVars
  OBVIOUS
<1>. USE GroupAssumption
<1>1. CASE UNCHANGED vars
  BY <1>1 DEF vars
<1>2. CASE HelloReply
  BY <1>2 DEF HelloReply, GroupNext, RoomStep
<1>3. CASE Notify
  BY <1>3 DEF Notify, GroupNext, RoomStep
<1>4. CASE ContentEnd
  BY <1>4 DEF ContentEnd, GroupNext, RoomStep
<1>5. CASE ReadFailEnd
  <2>1. io.sess \in Session
    BY <1>5 DEF ReadFailEnd, IoShape
  <2>. QED  BY <1>5, <2>1 DEF ReadFailEnd, GroupNext, RoomStep
<1>6. ASSUME NEW s \in Session, WriteFail(s) PROVE [GroupNext]_groupVars
  BY <1>6 DEF WriteFail, GroupNext, RoomStep
<1>7. ASSUME NEW s \in Session, NEW a \in Account, NEW i \in Icon,
             SayHello(s, a, i)
      PROVE  [GroupNext]_groupVars
  BY <1>7 DEF SayHello, GroupNext, RoomStep
<1>8. ASSUME NEW s \in Session, SayHelloFails(s) PROVE [GroupNext]_groupVars
  BY <1>8 DEF SayHelloFails, GroupNext, RoomStep
<1>9. ASSUME NEW s \in Session, NEW a \in Author, NEW i \in Icon,
             Content(s, a, i)
      PROVE  [GroupNext]_groupVars
  BY <1>9 DEF Content, GroupNext, RoomStep
<1>10. ASSUME NEW s \in Session, NEW a \in Account, NEW i \in Icon,
              NEW u \in Updater, SettingIcon(s, a, i, u)
       PROVE  [GroupNext]_groupVars
  BY <1>10 DEF SettingIcon, GroupNext, RoomStep
<1>11. ASSUME NEW u \in Updater, UpdaterStep(u) PROVE [GroupNext]_groupVars
  <2>. DEFINE dangling == thread[u].owner \in Session
                            /\ Destroyed(thread[u].owner)
  <2>1. dangling \in BOOLEAN
    BY DEF Destroyed
  <2>2. UpdateStart(u, dangling) \/ Update(u)
    BY <1>11 DEF UpdaterStep
  <2>. HIDE DEF dangling
  <2>. QED  BY <2>1, <2>2 DEF GroupNext, RoomStep
<1>12. ASSUME NEW s \in Session,
              \/ Accept(s) \/ WriteDone(s) \/ Answer(s) \/ IgnoreLine(s)
              \/ ReadFail(s) \/ PeerDown(s)
              \/ \E a \in Account : Direct(s, a)
       PROVE  [GroupNext]_groupVars
  BY <1>12 DEF Accept, WriteDone, Answer, IgnoreLine, ReadFail, PeerDown, Direct
<1>. QED  BY <1>1, <1>2, <1>3, <1>4, <1>5, <1>6, <1>7, <1>8, <1>9, <1>10,
             <1>11, <1>12 DEF Next, IoStep

(* Every behaviour of the server is a behaviour of its Group, so that what *)
(* is proved of Group holds of the server.                                 *)
THEOREM ServerUsesGroup == Spec => GroupSpec
<1>1. Init => GroupInit
  BY DEF Init
<1>. QED  BY <1>1, IoShapeInit, IoShapeNext, StepOfGroup, PTL
          DEF Spec, GroupSpec

-----------------------------------------------------------------------------
(* Who is on the list reads, is being taken off it, or was ignored.        *)

Members ==
  /\ NoGhostMember
  /\ phase \in [Session -> {"fresh", "reading", "stopped", "ignored"}]
  /\ participants \in [Session -> Nat]

LEMMA MembersNext == IoShape /\ Members /\ [Next]_vars => Members'
<1>. SUFFICES ASSUME IoShape, Members, [Next]_vars PROVE Members'
  OBVIOUS
<1>. USE DEF Members, NoGhostMember
<1>1. CASE UNCHANGED <<participants, phase, io>>
  BY <1>1
<1>2. ASSUME NEW s \in Session, Accept(s) PROVE Members'
  BY <1>2 DEF Accept, groupVars
<1>3. ASSUME NEW s \in Session, WriteFail(s) PROVE Members'
  BY <1>3 DEF WriteFail, Leave, NodesLeft
<1>4. ASSUME NEW s \in Session, NEW a \in Account, NEW i \in Icon,
             SayHello(s, a, i) PROVE Members'
  BY <1>4 DEF SayHello, Join, Reading, Idle, Continue
<1>5. ASSUME NEW s \in Session, SayHelloFails(s) PROVE Members'
  BY <1>5 DEF SayHelloFails, Join, Reading, Idle
<1>6. ASSUME NEW s \in Session, IgnoreLine(s) PROVE Members'
  BY <1>6 DEF IgnoreLine, groupVars
<1>7. ASSUME NEW s \in Session, ReadFail(s) PROVE Members'
  BY <1>7 DEF ReadFail, groupVars, Reading, Idle, Continue
<1>8. CASE ReadFailEnd
  BY <1>8 DEF ReadFailEnd, Leave, NodesLeft, sessionVars, IoShape, Idle
<1>9. CASE Notify
  <2>1. io.kind # "offline" \/ (io'.kind = "offline" /\ io'.sess = io.sess)
    BY <1>9 DEF Notify, IoShape, Handler
  <2>. QED  BY <1>9, <2>1 DEF Notify, DeliverNoHis
<1>10. CASE HelloReply
  BY <1>10 DEF HelloReply, Flush, IoShape
<1>11. CASE ContentEnd
  BY <1>11 DEF ContentEnd, PostEnd, IoShape
<1>12. ASSUME NEW s \in Session, NEW a \in Author, NEW i \in Icon,
             Content(s, a, i) PROVE Members'
  BY <1>12 DEF Content, PostBegin, sessionVars, Reading, Idle
<1>13. ASSUME NEW s \in Session, NEW a \in Account, NEW i \in Icon,
              NEW u \in Updater, SettingIcon(s, a, i, u)
       PROVE  Members'
  BY <1>13 DEF SettingIcon, Spawn, sessionVars, Reading, Idle
<1>14. ASSUME NEW s \in Session,
              \/ WriteDone(s) \/ Answer(s) \/ PeerDown(s)
              \/ \E a \in Account : Direct(s, a)
       PROVE  UNCHANGED <<participants, phase, io>>
  BY <1>14 DEF WriteDone, Answer, PeerDown, Direct, groupVars
<1>15. ASSUME NEW u \in Updater, UpdaterStep(u)
       PROVE  UNCHANGED <<participants, phase, io>>
  BY <1>15 DEF UpdaterStep, sessionVars, Update, UpdateStart, UpdateTest,
               UpdateRead, UpdateThrow, UpdateTypeError, UpdateLock, UpdateWrite, UpdateIcons
<1>. QED
  BY <1>1, <1>2, <1>3, <1>4, <1>5, <1>6, <1>7, <1>8, <1>9, <1>10, <1>11,
     <1>12, <1>13, <1>14, <1>15 DEF Next, IoStep, vars, groupVars, sessionVars

(* The list of participants never holds a session that an error has        *)
(* stopped, whatever ends its reads and writes, in whatever order: the one *)
(* that stays there unread is a member whose line was the foreign one.     *)
THEOREM NoGhosts == Spec => []NoGhostMember
<1>1. Init => Members
  BY DEF Init, GroupInit, Members, NoGhostMember
<1>2. Members => NoGhostMember
  BY DEF Members
<1>. QED  BY <1>1, <1>2, IoShapeInit, IoShapeNext, MembersNext, PTL DEF Spec

-----------------------------------------------------------------------------
(* Type correctness of the queues and the counters.                        *)

QueueTypes ==
  /\ messages \in [Session -> Seq(Envelope)]
  /\ inflight \in [Session -> Seq(Envelope)]

(* What a handler delivers is well typed.                                  *)
LEMMA DeliveredTypes ==
  ASSUME GroupTypeOK, IoShape
  PROVE  /\ \A s \in Session, k \in Kinds, n \in Nat :
              /\ Note(k, s) \in Envelope
              /\ Post(s, n) \in Envelope
              /\ Post(NoSession, n) \in Envelope
         /\ \A s \in Session, q \in Seq(Envelope) :
              To(s, q) \in [Session -> Seq(Envelope)]
         /\ \A r \in SUBSET Session, m \in Envelope :
              FanOut(r, m) \in [Session -> Seq(Envelope)]
         /\ History \in Seq(Envelope)
<1>1. \A s \in Session, k \in Kinds, n \in Nat :
        /\ Note(k, s) \in Envelope
        /\ Post(s, n) \in Envelope
        /\ Post(NoSession, n) \in Envelope
  BY DEF Note, Post, Envelope, Kinds, RoomKinds
<1>2. <<>> \in Seq(Envelope)
  OBVIOUS
<1>3. \A s \in Session, q \in Seq(Envelope) :
        To(s, q) \in [Session -> Seq(Envelope)]
  BY <1>2 DEF To
<1>4. ASSUME NEW r \in SUBSET Session, NEW m \in Envelope
      PROVE  FanOut(r, m) \in [Session -> Seq(Envelope)]
  <2>1. \A s \in Session : participants[s] \in Nat
    BY DEF GroupTypeOK
  <2>2. \A n \in Nat : [k \in 1..n |-> m] \in Seq(Envelope)
    BY IsASeq
  <2>. QED  BY <1>2, <2>1, <2>2 DEF FanOut
<1>5. History \in Seq(Envelope)
  <2>0. recentMessages \in Seq(Message)
    BY DEF GroupTypeOK
  <2>1. /\ Len(recentMessages) \in Nat
        /\ \A k \in 1..Len(recentMessages) : recentMessages[k].seq \in Nat
    <3>1. \A k \in 1..Len(recentMessages) : recentMessages[k] \in Message
      BY <2>0, ElementOfSeq
    <3>2. \A m \in Message : m.seq \in Nat
      BY DEF Message
    <3>. QED  BY <2>0, <3>1, <3>2
  <2>2. \A k \in 1..Len(recentMessages) :
          Post(NoSession, recentMessages[k].seq) \in Envelope
    BY <2>1 DEF Post, Envelope, Kinds, RoomKinds
  <2>. QED  BY <2>1, <2>2, IsASeq DEF History
<1>. QED  BY <1>1, <1>3, <1>4, <1>5

LEMMA DeliverTypes ==
  ASSUME QueueTypes, NEW added \in [Session -> Seq(Envelope)], Deliver(added)
  PROVE  QueueTypes'
<1>. USE DEF QueueTypes
<1>1. \A s \in Session : messages[s] \o added[s] \in Seq(Envelope)
  OBVIOUS
<1>2. messages' \in [Session -> Seq(Envelope)]
  BY <1>1 DEF Deliver
<1>3. ASSUME NEW s \in Session, added[s] # <<>>
      PROVE  Append(inflight[s], Head(messages[s] \o added[s])) \in Seq(Envelope)
  <2>1. messages[s] \o added[s] # <<>>
    <3>1. Len(messages[s] \o added[s]) = Len(messages[s]) + Len(added[s])
      OBVIOUS
    <3>2. Len(added[s]) > 0 /\ Len(messages[s]) >= 0
      BY <1>3, EmptySeq
    <3>3. Len(messages[s] \o added[s]) # 0
      BY <3>1, <3>2
    <3>4. Len(<<>>) = 0
      OBVIOUS
    <3>. HIDE DEF QueueTypes
    <3>. QED  BY <3>3, <3>4
  <2>2. Head(messages[s] \o added[s]) \in Envelope
    BY <1>1, <2>1, HeadTailProperties
  <2>3. inflight[s] \in Seq(Envelope)
    OBVIOUS
  <2>. QED  BY <2>2, <2>3, AppendProperties
<1>4. inflight' \in [Session -> Seq(Envelope)]
  BY <1>3 DEF Deliver
<1>. QED  BY <1>2, <1>4

LEMMA WriteDoneTypes ==
  ASSUME QueueTypes, NEW s \in Session, WriteDone(s), messages[s] # <<>>
  PROVE  QueueTypes'
<1>. USE DEF QueueTypes
<1>1. /\ messages[s] \in Seq(Envelope) /\ inflight[s] \in Seq(Envelope)
      /\ inflight[s] # <<>>
  BY DEF WriteDone
<1>2. Tail(messages[s]) \in Seq(Envelope) /\ Tail(inflight[s]) \in Seq(Envelope)
  BY <1>1, HeadTailProperties
<1>3. NextWrite(s) \in Seq(Envelope)
  <2>1. CASE Len(messages[s]) > 1
    <3>1. messages[s][2] \in Envelope
      BY <1>1, <2>1, ElementOfSeq
    <3>. QED  BY <2>1, <3>1 DEF NextWrite
  <2>2. CASE ~(Len(messages[s]) > 1)
    BY <2>2 DEF NextWrite
  <2>. QED  BY <2>1, <2>2
<1>4. Tail(inflight[s]) \o NextWrite(s) \in Seq(Envelope)
  BY <1>2, <1>3, ConcatProperties
<1>. QED  BY <1>2, <1>4 DEF WriteDone

LEMMA WriteFailTypes ==
  ASSUME QueueTypes, NEW s \in Session, WriteFail(s)
  PROVE  QueueTypes'
<1>1. Tail(inflight[s]) \in Seq(Envelope)
  BY HeadTailProperties DEF QueueTypes, WriteFail
<1>. QED  BY <1>1 DEF QueueTypes, WriteFail

(* The steps that deliver, with what they deliver.                         *)
LEMMA DeliveringStep ==
  ASSUME GroupTypeOK, IoShape,
         \/ HelloReply \/ Notify \/ ContentEnd
         \/ \E s \in Session : \/ SayHelloFails(s)
                               \/ Answer(s)
                               \/ \E a \in Account : Direct(s, a)
  PROVE  /\ \E added \in [Session -> Seq(Envelope)] : Deliver(added)
         /\ UNCHANGED peer
<1>. USE DeliveredTypes
<1>1. CASE HelloReply
  <2>1. io.sess \in Session
    BY <1>1 DEF HelloReply, IoShape
  <2>2. <<Note("hello", io.sess)>> \o History \in Seq(Envelope)
    <3>1. Note("hello", io.sess) \in Envelope
      BY <2>1 DEF Kinds
    <3>2. <<Note("hello", io.sess)>> \in Seq(Envelope)
      BY <3>1
    <3>. QED  BY <3>2, ConcatProperties
  <2>3. To(io.sess, <<Note("hello", io.sess)>> \o History)
          \in [Session -> Seq(Envelope)]
    BY <2>1, <2>2
  <2>. QED  BY <1>1, <2>3 DEF HelloReply
<1>2. CASE Notify
  <2>1. io.sess \in Session /\ io.kind \in Kinds
    BY <1>2 DEF Notify, IoShape, Kinds, RoomKinds
  <2>2. Note(io.kind, io.sess) \in Envelope
    BY <2>1, 0 \in Nat
  <2>3. FanOut(ExcludeSelf(io.sess), Note(io.kind, io.sess))
          \in [Session -> Seq(Envelope)]
    BY <2>2 DEF ExcludeSelf
  <2>. QED  BY <1>2, <2>3 DEF Notify
<1>3. CASE ContentEnd
  <2>1. io.sess \in Session /\ Len(posted) \in Nat
    BY <1>3 DEF ContentEnd, IoShape, GroupTypeOK
  <2>2. Post(io.sess, Len(posted)) \in Envelope
    BY <2>1 DEF Kinds
  <2>3. FanOut(ExcludeSelf(io.sess), Post(io.sess, Len(posted)))
          \in [Session -> Seq(Envelope)]
    BY <2>2 DEF ExcludeSelf
  <2>. QED  BY <1>3, <2>3 DEF ContentEnd
<1>4. ASSUME NEW s \in Session, NEW k \in {"error", "answer"},
             Deliver(To(s, <<Note(k, s)>>)), UNCHANGED peer
      PROVE  \E added \in [Session -> Seq(Envelope)] : Deliver(added)
  <2>1. Note(k, s) \in Envelope
    BY 0 \in Nat DEF Kinds
  <2>2. <<Note(k, s)>> \in Seq(Envelope)
    BY <2>1
  <2>3. To(s, <<Note(k, s)>>) \in [Session -> Seq(Envelope)]
    BY <2>2
  <2>. QED  BY <1>4, <2>3
<1>5. ASSUME NEW s \in Session, NEW a \in Account, Direct(s, a)
      PROVE  \E added \in [Session -> Seq(Envelope)] : Deliver(added)
  <2>1. Note("direct", s) \in Envelope
    BY 0 \in Nat DEF Kinds, RoomKinds
  <2>2. FanOut({t \in Session : account[t] = a}, Note("direct", s))
          \in [Session -> Seq(Envelope)]
    BY <2>1
  <2>. QED  BY <1>5, <2>2 DEF Direct
<1>6. UNCHANGED peer
  BY DEF HelloReply, Notify, ContentEnd, SayHelloFails, Answer, Direct
<1>. QED  BY <1>1, <1>2, <1>3, <1>4, <1>5, <1>6 DEF SayHelloFails, Answer

-----------------------------------------------------------------------------
(* One write at a time, of the front of the queue.                         *)

LEMMA HeadIsFirst ==
  ASSUME NEW S, NEW seq \in Seq(S), seq # <<>>
  PROVE  Head(seq) = seq[1]
OBVIOUS

LEMMA OneWriteDeliver ==
  ASSUME QueueTypes, OneWriteOfTheFront,
         NEW added \in [Session -> Seq(Envelope)], Deliver(added),
         UNCHANGED peer
  PROVE  OneWriteOfTheFront'
<1>. SUFFICES ASSUME NEW s \in Session
              PROVE  /\ inflight'[s] # <<>> =>
                          /\ messages'[s] # <<>>
                          /\ inflight'[s] = <<Head(messages'[s])>>
                     /\ messages'[s] # <<>> /\ inflight'[s] = <<>>
                          => peer[s] = "down"
  BY DEF OneWriteOfTheFront
<1>. DEFINE q == messages[s]
            a == added[s]
<1>1. /\ q \in Seq(Envelope) /\ a \in Seq(Envelope)
      /\ inflight[s] \in Seq(Envelope)
      /\ messages'[s] = q \o a
      /\ inflight'[s] = IF a # <<>> /\ q = <<>>
                        THEN Append(inflight[s], Head(q \o a))
                        ELSE inflight[s]
  BY DEF QueueTypes, Deliver, WriteInProgress
<1>2. /\ inflight[s] # <<>> => q # <<>> /\ inflight[s] = <<Head(q)>>
      /\ q # <<>> /\ inflight[s] = <<>> => peer[s] = "down"
  BY DEF OneWriteOfTheFront
<1>. HIDE DEF q, a
<1>3. CASE q = <<>>
  <2>1. inflight[s] = <<>> /\ q \o a = a
    BY <1>1, <1>2, <1>3, ConcatEmptySeq
  <2>2. CASE a = <<>>
    BY <1>1, <2>1, <2>2
  <2>3. CASE a # <<>>
    <3>1. inflight'[s] = Append(<<>>, Head(a)) /\ messages'[s] = a
      BY <1>1, <1>3, <2>1, <2>3
    <3>2. Append(<<>>, Head(a)) = <<Head(a)>> /\ <<Head(a)>> # <<>>
      OBVIOUS
    <3>. QED  BY <2>3, <3>1, <3>2
  <2>. QED  BY <2>2, <2>3
<1>4. CASE q # <<>>
  <2>1. inflight'[s] = inflight[s]
    BY <1>1, <1>4
  <2>2. q \o a # <<>> /\ Head(q \o a) = Head(q)
    <3>1. Len(q) > 0 /\ Len(a) >= 0
      BY <1>1, <1>4, EmptySeq
    <3>2. /\ Len(q \o a) = Len(q) + Len(a)
          /\ \A i \in 1..Len(q) + Len(a) :
               (q \o a)[i] = IF i <= Len(q) THEN q[i] ELSE a[i - Len(q)]
      BY <1>1, ConcatProperties
    <3>3. (q \o a)[1] = q[1]
      BY <1>1, <3>1, <3>2
    <3>4. Len(q \o a) # 0 /\ Len(<<>>) = 0
      BY <1>1, <3>1, <3>2
    <3>5. q \o a # <<>> /\ q \o a \in Seq(Envelope)
      BY <1>1, <3>4, ConcatProperties
    <3>6. Head(q \o a) = (q \o a)[1] /\ Head(q) = q[1]
      BY <1>1, <1>4, <3>5, HeadIsFirst
    <3>. QED  BY <3>3, <3>5, <3>6
  <2>. QED  BY <1>1, <1>2, <1>4, <2>1, <2>2
<1>. QED  BY <1>3, <1>4

LEMMA OneWriteDone ==
  ASSUME QueueTypes, OneWriteOfTheFront, NEW s \in Session, WriteDone(s)
  PROVE  OneWriteOfTheFront'
<1>. DEFINE q == messages[s]
<1>1. /\ q \in Seq(Envelope) /\ q # <<>>
      /\ inflight[s] = <<Head(q)>>
  BY DEF QueueTypes, OneWriteOfTheFront, WriteDone
<1>2. /\ messages'[s] = Tail(q)
      /\ inflight'[s] = Tail(inflight[s]) \o NextWrite(s)
      /\ \A t \in Session \ {s} : /\ messages'[t] = messages[t]
                                  /\ inflight'[t] = inflight[t]
      /\ UNCHANGED peer
  BY DEF QueueTypes, WriteDone
<1>3. Tail(inflight[s]) = <<>>
  BY <1>1
<1>4. NextWrite(s) = IF Len(q) > 1 THEN <<q[2]>> ELSE <<>>
  BY DEF NextWrite
<1>5. inflight'[s] = NextWrite(s)
  <2>1. CASE Len(q) > 1
    <3>1. <<>> \o <<q[2]>> = <<q[2]>>
      OBVIOUS
    <3>. QED  BY <1>2, <1>3, <1>4, <2>1, <3>1
  <2>2. CASE ~(Len(q) > 1)
    <3>1. <<>> \o <<>> = <<>>
      OBVIOUS
    <3>. QED  BY <1>2, <1>3, <1>4, <2>2, <3>1
  <2>. QED  BY <2>1, <2>2
<1>6. /\ Len(Tail(q)) = Len(q) - 1
      /\ Tail(q) \in Seq(Envelope)
      /\ \A i \in 1..Len(Tail(q)) : Tail(q)[i] = q[i + 1]
      /\ Len(q) \in Nat
  BY <1>1, HeadTailProperties
<1>. HIDE DEF q
<1>7. CASE Len(q) > 1
  <2>1. Len(Tail(q)) # 0 /\ Len(<<>>) = 0
    BY <1>6, <1>7, SMTT(40)
  <2>2. Head(Tail(q)) = Tail(q)[1]
    <3>1. Tail(q) # <<>>
      BY <2>1
    <3>. QED  BY <1>6, <3>1, HeadIsFirst
  <2>3. Tail(q)[1] = q[2]
    BY <1>6, <1>7
  <2>4. messages'[s] # <<>> /\ inflight'[s] = <<Head(messages'[s])>>
    BY <1>2, <1>4, <1>5, <1>7, <2>1, <2>2, <2>3
  <2>5. inflight'[s] # <<>>
    BY <2>4
  <2>. QED  BY <1>2, <2>4, <2>5 DEF OneWriteOfTheFront
<1>8. CASE ~(Len(q) > 1)
  <2>1. Len(Tail(q)) = 0
    <3>1. Len(Tail(q)) \in Nat
      BY <1>6
    <3>. QED  BY <1>6, <1>8, <3>1
  <2>2. messages'[s] = <<>>
    BY <1>2, <1>6, <2>1, EmptySeq
  <2>3. inflight'[s] = <<>>
    BY <1>4, <1>5, <1>8
  <2>. QED  BY <1>2, <2>2, <2>3 DEF OneWriteOfTheFront
<1>. QED  BY <1>7, <1>8

Queues == QueueTypes /\ OneWriteOfTheFront

LEMMA QueuesNext ==
  GroupTypeOK /\ IoShape /\ Queues /\ [Next]_vars => Queues'
<1>. SUFFICES ASSUME GroupTypeOK, IoShape, Queues, [Next]_vars PROVE Queues'
  OBVIOUS
<1>0. QueueTypes /\ OneWriteOfTheFront
  BY DEF Queues
<1>1. CASE UNCHANGED <<messages, inflight>> /\ UNCHANGED peer
  BY <1>0, <1>1 DEF Queues, QueueTypes, OneWriteOfTheFront
<1>2. CASE \/ HelloReply \/ Notify \/ ContentEnd
           \/ \E s \in Session : \/ SayHelloFails(s)
                                 \/ Answer(s)
                                 \/ \E a \in Account : Direct(s, a)
  BY <1>0, <1>2, DeliveringStep, DeliverTypes, OneWriteDeliver DEF Queues
<1>3. ASSUME NEW s \in Session, WriteDone(s) PROVE Queues'
  <2>1. messages[s] # <<>>
    BY <1>0, <1>3 DEF OneWriteOfTheFront, WriteDone
  <2>. QED  BY <1>0, <1>3, <2>1, WriteDoneTypes, OneWriteDone DEF Queues
<1>4. ASSUME NEW s \in Session, WriteFail(s) PROVE Queues'
  <2>1. QueueTypes'
    BY <1>0, <1>4, WriteFailTypes
  <2>2. inflight[s] = <<Head(messages[s])>> /\ peer[s] = "down"
    BY <1>0, <1>4 DEF OneWriteOfTheFront, WriteFail
  <2>3. Tail(inflight[s]) = <<>>
    BY <2>2
  <2>4. OneWriteOfTheFront'
    BY <1>0, <1>4, <2>2, <2>3 DEF OneWriteOfTheFront, WriteFail, QueueTypes
  <2>. QED  BY <2>1, <2>4 DEF Queues
<1>5. ASSUME NEW s \in Session, PeerDown(s) PROVE Queues'
  <2>1. UNCHANGED <<messages, inflight>>
    BY <1>5 DEF PeerDown
  <2>2. \A t \in Session : peer[t] = "down" => peer'[t] = "down"
    BY <1>5 DEF PeerDown
  <2>. QED  BY <1>0, <2>1, <2>2 DEF Queues, QueueTypes, OneWriteOfTheFront
<1>6. ASSUME NEW s \in Session,
             \/ Accept(s) \/ IgnoreLine(s) \/ ReadFail(s)
             \/ \E a \in Account, i \in Icon : SayHello(s, a, i)
             \/ \E a \in Author, i \in Icon : Content(s, a, i)
             \/ \E a \in Account, i \in Icon, u \in Updater :
                  SettingIcon(s, a, i, u)
      PROVE  UNCHANGED <<messages, inflight>> /\ UNCHANGED peer
  BY <1>6 DEF Accept, IgnoreLine, ReadFail, SayHello, Content, SettingIcon,
              sessionVars
<1>7. CASE ReadFailEnd \/ (\E u \in Updater : UpdaterStep(u)) \/ UNCHANGED vars
  BY <1>1, <1>7 DEF ReadFailEnd, UpdaterStep, vars, sessionVars
<1>. QED  BY <1>1, <1>2, <1>3, <1>4, <1>5, <1>6, <1>7 DEF Next, IoStep

LEMMA QueuesInit == Init => Queues
BY DEF Init, Queues, QueueTypes, OneWriteOfTheFront

LEMMA QueuesInvariant == Spec => [](GroupTypeOK /\ IoShape /\ Queues)
<1>1. Spec => []GroupTypeOK
  BY ServerUsesGroup, TypeCorrect, PTL
<1>. QED  BY <1>1, IoShapeInit, IoShapeNext, QueuesInit, QueuesNext, PTL
          DEF Spec

(* No session ever has two writes under way, the one it has is of the      *)
(* front of its queue, and no queue of a live connection stands still.     *)
THEOREM OneWrite == Spec => []OneWriteOfTheFront
<1>1. Queues => OneWriteOfTheFront
  BY DEF Queues
<1>. QED  BY <1>1, QueuesInvariant, PTL

(* The rest of the type invariant.                                         *)
Counters ==
  /\ phase \in [Session -> {"fresh", "reading", "stopped", "ignored"}]
  /\ peer \in [Session -> {"up", "down"}]
  /\ hellos \in [Session -> Nat]
  /\ others \in Nat
  /\ wire \in [Session -> Seq(Envelope)]

LEMMA CountersNext == Queues /\ Counters /\ [Next]_vars => Counters'
<1>. SUFFICES ASSUME Queues, Counters, [Next]_vars PROVE Counters'
  OBVIOUS
<1>. USE DEF Counters
<1>1. ASSUME NEW s \in Session, WriteDone(s) PROVE Counters'
  <2>1. inflight[s] \in Seq(Envelope) /\ inflight[s] # <<>>
    BY <1>1 DEF Queues, QueueTypes, WriteDone
  <2>2. Head(inflight[s]) \in Envelope
    BY <2>1, HeadTailProperties
  <2>3. wire[s] \in Seq(Envelope)
    OBVIOUS
  <2>4. Append(wire[s], Head(inflight[s])) \in Seq(Envelope)
    BY <2>2, <2>3, AppendProperties
  <2>. QED  BY <1>1, <2>4 DEF WriteDone
<1>2. ASSUME NEW s \in Session,
             \/ WriteFail(s)
             \/ \E a \in Author, i \in Icon : Content(s, a, i)
             \/ \E a \in Account, i \in Icon, u \in Updater :
                  SettingIcon(s, a, i, u)
      PROVE  Counters'
  BY <1>2 DEF WriteFail, Content, SettingIcon, sessionVars
<1>4. ASSUME NEW s \in Session, Accept(s) \/ IgnoreLine(s) \/ ReadFail(s)
      PROVE  Counters'
  <2>1. UNCHANGED <<peer, hellos, others, wire>>
    BY <1>4 DEF Accept, IgnoreLine, ReadFail
  <2>2. phase' = [phase EXCEPT ![s] = "reading"]
          \/ phase' = [phase EXCEPT ![s] = "stopped"]
          \/ phase' = [phase EXCEPT ![s] = "ignored"]
    BY <1>4 DEF Accept, IgnoreLine, ReadFail
  <2>. QED  BY <2>1, <2>2
<1>5. ASSUME NEW s \in Session,
             SayHelloFails(s) \/ (\E a \in Account, i \in Icon : SayHello(s, a, i))
      PROVE  Counters'
  <2>1. UNCHANGED <<phase, peer, others, wire>>
    BY <1>5 DEF SayHelloFails, SayHello
  <2>2. hellos' = [hellos EXCEPT ![s] = @ + 1]
    BY <1>5 DEF SayHelloFails, SayHello
  <2>3. hellos' \in [Session -> Nat]
    BY <2>2
  <2>. QED  BY <2>1, <2>3
<1>6. ASSUME NEW s \in Session, Answer(s) \/ (\E a \in Account : Direct(s, a))
      PROVE  Counters'
  <2>1. UNCHANGED <<phase, peer, hellos, wire>>
    BY <1>6 DEF Answer, Direct
  <2>2. others' = others + 1
    BY <1>6 DEF Answer, Direct
  <2>. QED  BY <2>1, <2>2
<1>7. ASSUME NEW s \in Session, PeerDown(s) PROVE Counters'
  BY <1>7 DEF PeerDown
<1>3. CASE \/ IoStep \/ (\E u \in Updater : UpdaterStep(u)) \/ UNCHANGED vars
  BY <1>3 DEF IoStep, HelloReply, Notify, ContentEnd, ReadFailEnd, UpdaterStep,
              vars, sessionVars
<1>. QED  BY <1>1, <1>2, <1>3, <1>4, <1>5, <1>6, <1>7 DEF Next

(* The variables of the server keep their types.                           *)
THEOREM ServerTypeCorrect == Spec => []TypeOK
<1>1. Init => Counters
  BY DEF Init, Counters
<1>2. GroupTypeOK /\ IoShape /\ Queues /\ Counters => TypeOK
  BY DEF IoShape, Queues, QueueTypes, Counters, TypeOK
<1>. QED  BY <1>1, <1>2, CountersNext, QueuesInvariant, PTL DEF Spec

-----------------------------------------------------------------------------
(* What is read is what was queued.                                        *)

LEMMA PrefixOfConcat ==
  ASSUME NEW S, NEW x \in Seq(S), NEW y \in Seq(S)
  PROVE  SubSeq(x \o y, 1, Len(x)) = x
<1>. DEFINE z == x \o y
<1>1. /\ z \in Seq(S) /\ Len(z) = Len(x) + Len(y)
      /\ \A i \in 1..Len(x) : z[i] = x[i]
      /\ Len(x) \in Nat /\ Len(y) \in Nat
  BY ConcatProperties
<1>. HIDE DEF z
<1>2. 1 \in 1..Len(z)+1 /\ Len(x) \in 0..Len(z)
  BY <1>1
<1>3. /\ SubSeq(z, 1, Len(x)) \in Seq(S)
      /\ Len(SubSeq(z, 1, Len(x))) = IF 1 <= Len(x) THEN Len(x) - 1 + 1 ELSE 0
      /\ \A i \in 1..Len(x) - 1 + 1 : SubSeq(z, 1, Len(x))[i] = z[1 + i - 1]
  BY <1>1, <1>2, SubSeqProperties
<1>4. Len(SubSeq(z, 1, Len(x))) = Len(x)
  BY <1>1, <1>3
<1>5. \A i \in 1..Len(x) : SubSeq(z, 1, Len(x))[i] = x[i]
  BY <1>1, <1>3
<1>6. SubSeq(z, 1, Len(x)) = x
  BY <1>3, <1>4, <1>5, SeqEqual
<1>. QED  BY <1>6 DEF z

LEMMA HeadMoves ==
  ASSUME NEW S, NEW w \in Seq(S), NEW q \in Seq(S), q # <<>>
  PROVE  Append(w, Head(q)) \o Tail(q) = w \o q
<1>1. /\ Head(q) \in S /\ Tail(q) \in Seq(S) /\ Len(Tail(q)) = Len(q) - 1
      /\ \A i \in 1..Len(Tail(q)) : Tail(q)[i] = q[i + 1]
  BY HeadTailProperties
<1>2. Head(q) = q[1]
  BY HeadIsFirst
<1>. DEFINE a == Append(w, Head(q))
            t == Tail(q)
<1>3. /\ a \in Seq(S) /\ Len(a) = Len(w) + 1
      /\ \A i \in 1..Len(w) : a[i] = w[i]
      /\ a[Len(w) + 1] = q[1]
  BY <1>1, <1>2, AppendProperties
<1>4. /\ Len(w) \in Nat /\ Len(q) \in Nat
      /\ t \in Seq(S) /\ Len(t) = Len(q) - 1
      /\ \A i \in 1..Len(q) - 1 : t[i] = q[i + 1]
  BY <1>1
<1>. HIDE DEF a, t
<1>5. /\ a \o t \in Seq(S) /\ Len(a \o t) = Len(a) + Len(t)
      /\ \A i \in 1..Len(a) + Len(t) :
           (a \o t)[i] = IF i <= Len(a) THEN a[i] ELSE t[i - Len(a)]
  BY <1>3, <1>4, ConcatProperties
<1>6. /\ w \o q \in Seq(S) /\ Len(w \o q) = Len(w) + Len(q)
      /\ \A i \in 1..Len(w) + Len(q) :
           (w \o q)[i] = IF i <= Len(w) THEN w[i] ELSE q[i - Len(w)]
  BY ConcatProperties
<1>7. Len(a \o t) = Len(w \o q)
  BY <1>3, <1>4, <1>5, <1>6
<1>8. ASSUME NEW i \in 1..Len(w) + Len(q)
      PROVE  (a \o t)[i] = (w \o q)[i]
  <2>1. CASE i <= Len(w)
    BY <1>3, <1>4, <1>5, <1>6, <2>1
  <2>2. CASE i = Len(w) + 1
    BY <1>3, <1>4, <1>5, <1>6, <2>2
  <2>3. CASE i > Len(w) + 1
    <3>. DEFINE j == i - Len(a)
    <3>1. /\ j \in 1..Len(q) - 1 /\ j + 1 = i - Len(w)
          /\ ~(i <= Len(a)) /\ ~(i <= Len(w))
          /\ i \in 1..Len(a) + Len(t)
      BY <1>3, <1>4, <2>3
    <3>2. (a \o t)[i] = t[j]
      BY <1>5, <3>1
    <3>. HIDE DEF j
    <3>3. t[j] = q[j + 1]
      BY <1>4, <3>1
    <3>4. (w \o q)[i] = q[i - Len(w)]
      BY <1>6, <3>1
    <3>. QED  BY <3>1, <3>2, <3>3, <3>4
  <2>4. i <= Len(w) \/ i = Len(w) + 1 \/ i > Len(w) + 1
    BY <1>4
  <2>. QED  BY <2>1, <2>2, <2>3, <2>4
<1>9. a \o t = w \o q
  BY <1>5, <1>6, <1>7, <1>8, SeqEqual
<1>. QED  BY <1>9 DEF a, t

(* The steps that deliver.                                                 *)
Delivers ==
  \/ HelloReply \/ Notify \/ ContentEnd
  \/ \E s \in Session : \/ SayHelloFails(s)
                        \/ Answer(s)
                        \/ \E a \in Account : Direct(s, a)

LEMMA SentDeliver ==
  ASSUME Queues, Counters, Delivers, NEW s \in Session,
         NEW added \in [Session -> Seq(Envelope)], Deliver(added)
  PROVE  Sent(s)' = Sent(s) \o added[s]
<1>1. /\ wire[s] \in Seq(Envelope)
      /\ messages[s] \in Seq(Envelope)
      /\ added[s] \in Seq(Envelope)
  BY DEF Queues, QueueTypes, Counters
<1>2. messages'[s] = messages[s] \o added[s]
  BY DEF Deliver
<1>3. wire' = wire
  BY DEF Delivers, HelloReply, Notify, ContentEnd, SayHelloFails, Answer, Direct
<1>4. (wire[s] \o messages[s]) \o added[s]
        = wire[s] \o (messages[s] \o added[s])
  <2>1. \A x, y, z \in Seq(Envelope) : (x \o y) \o z = x \o (y \o z)
    BY ConcatAssociative
  <2>. QED  BY <1>1, <2>1
<1>. QED  BY <1>2, <1>3, <1>4 DEF Sent

LEMMA SentStays ==
  ASSUME Queues, Counters, [Next]_vars, ~Delivers, NEW s \in Session
  PROVE  Sent(s)' = Sent(s)
<1>1. /\ wire[s] \in Seq(Envelope) /\ messages[s] \in Seq(Envelope)
      /\ inflight[s] # <<>> =>
           messages[s] # <<>> /\ inflight[s] = <<Head(messages[s])>>
  BY DEF Queues, QueueTypes, Counters, OneWriteOfTheFront
<1>2. ASSUME NEW t \in Session, WriteDone(t) PROVE Sent(s)' = Sent(s)
  <2>1. CASE t = s
    <3>1. /\ wire'[s] = Append(wire[s], Head(inflight[s]))
          /\ messages'[s] = Tail(messages[s])
          /\ inflight[s] # <<>>
      BY <1>2, <2>1 DEF WriteDone, Queues, QueueTypes, Counters
    <3>2. Head(inflight[s]) = Head(messages[s]) /\ messages[s] # <<>>
      BY <1>1, <3>1
    <3>. QED  BY <1>1, <3>1, <3>2, HeadMoves, ZenonT(60) DEF Sent
  <2>2. CASE t # s
    <3>1. wire'[s] = wire[s] /\ messages'[s] = messages[s]
      BY <1>2, <2>2 DEF WriteDone, Queues, QueueTypes, Counters
    <3>. QED  BY <3>1 DEF Sent
  <2>. QED  BY <2>1, <2>2
<1>3. CASE UNCHANGED <<wire, messages>>
  BY <1>3 DEF Sent
<1>4. ASSUME NEW t \in Session,
             \/ Accept(t) \/ WriteFail(t) \/ IgnoreLine(t) \/ ReadFail(t)
             \/ PeerDown(t)
             \/ \E a \in Account, i \in Icon : SayHello(t, a, i)
             \/ \E a \in Author, i \in Icon : Content(t, a, i)
             \/ \E a \in Account, i \in Icon, u \in Updater :
                  SettingIcon(t, a, i, u)
      PROVE  UNCHANGED <<wire, messages>>
  BY <1>4 DEF Accept, WriteFail, IgnoreLine, ReadFail, PeerDown, SayHello,
              Content, SettingIcon, sessionVars
<1>5. CASE ReadFailEnd \/ (\E u \in Updater : UpdaterStep(u)) \/ UNCHANGED vars
  BY <1>3, <1>5 DEF ReadFailEnd, UpdaterStep, sessionVars, vars
<1>. QED  BY <1>2, <1>3, <1>4, <1>5 DEF Next, IoStep, Delivers

LEMMA SentGrows ==
  ASSUME GroupTypeOK, IoShape, Queues, Counters, [Next]_vars
  PROVE  [\A s \in Session :
            SubSeq(Sent(s)', 1, Len(Sent(s))) = Sent(s)]_vars
<1>. DEFINE Grows(s) == SubSeq(Sent(s)', 1, Len(Sent(s))) = Sent(s)
<1>. SUFFICES ASSUME NEW s \in Session PROVE Grows(s)
  OBVIOUS
<1>1. wire[s] \in Seq(Envelope) /\ messages[s] \in Seq(Envelope)
  BY DEF Queues, QueueTypes, Counters
<1>2. /\ Sent(s) \in Seq(Envelope)
      /\ Sent(s) \o <<>> = Sent(s)
      /\ <<>> \in Seq(Envelope)
  BY <1>1, ConcatProperties, ConcatEmptySeq DEF Sent
<1>3. CASE Delivers
  <2>1. PICK added \in [Session -> Seq(Envelope)] : Deliver(added)
    BY <1>3, DeliveringStep DEF Delivers
  <2>2. Sent(s)' = Sent(s) \o added[s] /\ added[s] \in Seq(Envelope)
    BY <1>3, <2>1, SentDeliver
  <2>. QED  BY <1>2, <2>2, PrefixOfConcat
<1>4. CASE ~Delivers
  <2>1. Sent(s)' = Sent(s)
    BY <1>4, SentStays
  <2>2. SubSeq(Sent(s) \o <<>>, 1, Len(Sent(s))) = Sent(s)
    BY <1>2, PrefixOfConcat
  <2>. QED  BY <1>2, <2>1, <2>2
<1>. QED  BY <1>3, <1>4

(* What a client reads is what was queued for it, in that order: a step    *)
(* only ever adds to the end of what was written and what is queued.       *)
THEOREM InOrder == Spec => WrittenInOrder
<1>1. Init => Counters
  BY DEF Init, Counters
<1>2. Spec => []Counters
  BY <1>1, CountersNext, QueuesInvariant, PTL DEF Spec
<1>. QED  BY <1>2, QueuesInvariant, SentGrows, PTL DEF Spec, WrittenInOrder

-----------------------------------------------------------------------------
(* Nothing comes from the room before the answer to a SayHello.            *)

Welcome == {"hello", "error"}

Greeted(q) == \E j \in 1..Len(q) : q[j].kind \in Welcome

Ordered(q) ==
  \A k \in 1..Len(q) :
    q[k].kind \in RoomKinds => \E j \in 1..k : q[j].kind \in Welcome

(* Whoever is on the list has had that answer, or is the session whose     *)
(* SayHello is being handled, which gets nothing else meanwhile.           *)
HelloInv ==
  \A s \in Session :
    /\ Ordered(Sent(s))
    /\ participants[s] > 0 => Greeted(Sent(s)) \/ Saying(s)

LEMMA Appended ==
  ASSUME NEW x \in Seq(Envelope), NEW y \in Seq(Envelope),
         Ordered(x), Greeted(x) \/ Ordered(y)
  PROVE  /\ Ordered(x \o y)
         /\ Greeted(x) \/ Greeted(y) => Greeted(x \o y)
<1>. DEFINE z == x \o y
<1>1. /\ Len(x) \in Nat /\ Len(y) \in Nat /\ Len(z) = Len(x) + Len(y)
      /\ \A k \in 1..Len(x) : z[k] = x[k]
      /\ \A k \in Len(x) + 1..Len(z) : z[k] = y[k - Len(x)]
  BY ConcatProperties
<1>. HIDE DEF z
<1>2. ASSUME NEW j \in 1..Len(y)
      PROVE  Len(x) + j \in 1..Len(z) /\ z[Len(x) + j] = y[j]
  <2>1. Len(x) + j \in Len(x) + 1..Len(z) /\ (Len(x) + j) - Len(x) = j
    BY <1>1
  <2>2. z[Len(x) + j] = y[(Len(x) + j) - Len(x)]
    BY <1>1, <2>1
  <2>. QED  BY <1>1, <2>1, <2>2
<1>3. Greeted(x) \/ Greeted(y) => Greeted(z)
  <2>1. ASSUME NEW j \in 1..Len(x), x[j].kind \in Welcome PROVE Greeted(z)
    <3>1. j \in 1..Len(z) /\ z[j] = x[j]
      BY <1>1
    <3>. QED  BY <2>1, <3>1 DEF Greeted
  <2>2. ASSUME NEW j \in 1..Len(y), y[j].kind \in Welcome PROVE Greeted(z)
    <3>1. Len(x) + j \in 1..Len(z) /\ z[Len(x) + j] = y[j]
      BY <1>2
    <3>. QED  BY <2>2, <3>1 DEF Greeted
  <2>. QED  BY <2>1, <2>2 DEF Greeted
<1>4. ASSUME NEW k \in 1..Len(z), z[k].kind \in RoomKinds
      PROVE  \E j \in 1..k : z[j].kind \in Welcome
  <2>1. CASE k \in 1..Len(x)
    <3>1. PICK j \in 1..k : x[j].kind \in Welcome
      BY <1>1, <1>4, <2>1 DEF Ordered
    <3>2. z[j] = x[j]
      BY <1>1, <2>1
    <3>. QED  BY <3>1, <3>2
  <2>2. CASE k \notin 1..Len(x)
    <3>0. k > Len(x) /\ k \in Nat
      BY <1>1, <2>2
    <3>1. CASE Greeted(x)
      <4>1. PICK j \in 1..Len(x) : x[j].kind \in Welcome
        BY <3>1 DEF Greeted
      <4>2. z[j] = x[j] /\ j \in 1..k
        BY <1>1, <3>0
      <4>. QED  BY <4>1, <4>2
    <3>2. CASE Ordered(y)
      <4>. DEFINE i == k - Len(x)
      <4>1. i \in 1..Len(y) /\ Len(x) + i = k
        BY <1>1, <3>0
      <4>2. z[k] = y[i]
        BY <1>2, <4>1
      <4>. HIDE DEF i
      <4>3. PICK j \in 1..i : y[j].kind \in Welcome
        BY <1>4, <3>2, <4>1, <4>2 DEF Ordered
      <4>4. j \in 1..Len(y) /\ Len(x) + j \in 1..k
        BY <1>1, <4>1
      <4>5. z[Len(x) + j] = y[j]
        BY <1>2, <4>4
      <4>. QED  BY <4>3, <4>4, <4>5
    <3>. QED  BY <3>1, <3>2
  <2>. QED  BY <2>1, <2>2
<1>5. Ordered(z)
  BY <1>4 DEF Ordered
<1>. QED  BY <1>3, <1>5 DEF z

(* What a session gets that is not on the list, and what greets it.        *)
LEMMA OrderedParts ==
  ASSUME NEW y \in Seq(Envelope)
  PROVE  /\ y = <<>> => Ordered(y)
         /\ Len(y) = 1 /\ y[1].kind \notin RoomKinds => Ordered(y)
         /\ Len(y) > 0 /\ y[1].kind \in Welcome => Ordered(y) /\ Greeted(y)
<1>1. CASE y = <<>>
  <2>1. Len(y) = 0
    BY <1>1
  <2>. QED  BY <1>1, <2>1 DEF Ordered
<1>2. CASE Len(y) = 1 /\ y[1].kind \notin RoomKinds
  <2>1. \A k \in 1..Len(y) : k = 1
    BY <1>2
  <2>2. Ordered(y)
    BY <1>2, <2>1 DEF Ordered
  <2>3. y # <<>>
    BY <1>2
  <2>4. y[1].kind \notin Welcome \/ Greeted(y)
    BY <1>2 DEF Greeted
  <2>. QED  BY <2>2, <2>3, <2>4
<1>3. CASE Len(y) > 0 /\ y[1].kind \in Welcome
  <2>1. \A k \in 1..Len(y) : 1 \in 1..k
    OBVIOUS
  <2>2. Ordered(y)
    BY <1>3, <2>1 DEF Ordered
  <2>3. 1 \in 1..Len(y)
    BY <1>3
  <2>. QED  BY <1>3, <2>2, <2>3 DEF Greeted
<1>. QED  BY <1>1, <1>2, <1>3

(* A step that delivers, for one session.                                  *)
LEMMA DeliveredInOrder ==
  ASSUME GroupTypeOK, IoShape, Queues, Counters, HelloInv, Delivers,
         NEW s \in Session
  PROVE  \E added \in [Session -> Seq(Envelope)] :
           /\ Deliver(added)
           /\ Greeted(Sent(s)) \/ Ordered(added[s])
           /\ participants'[s] > 0 =>
                Greeted(Sent(s)) \/ Greeted(added[s]) \/ Saying(s)'
<1>. DEFINE None == <<>>
            Fine(added) ==
              /\ Deliver(added)
              /\ Greeted(Sent(s)) \/ Ordered(added[s])
              /\ participants'[s] > 0 =>
                   Greeted(Sent(s)) \/ Greeted(added[s]) \/ Saying(s)'
<1>. USE DeliveredTypes
<1>0. participants[s] > 0 => Greeted(Sent(s)) \/ Saying(s)
  BY DEF HelloInv
<1>1. CASE HelloReply
  <2>. DEFINE y == <<Note("hello", io.sess)>> \o History
              added == To(io.sess, y)
  <2>1. io.sess \in Session /\ io.kind = "online"
    BY <1>1 DEF HelloReply, IoShape
  <2>2. y \in Seq(Envelope) /\ Len(y) > 0 /\ y[1].kind = "hello"
    <3>1. Note("hello", io.sess) \in Envelope
      BY <2>1 DEF Kinds
    <3>. DEFINE m == Note("hello", io.sess)
    <3>2. m.kind = "hello"
      BY DEF Note
    <3>. HIDE DEF m
    <3>3. <<m>> \in Seq(Envelope) /\ Len(<<m>>) = 1 /\ <<m>>[1] = m
      BY <3>1 DEF m
    <3>4. History \in Seq(Envelope) /\ Len(History) \in Nat
      BY LenProperties
    <3>5. /\ <<m>> \o History \in Seq(Envelope)
          /\ Len(<<m>> \o History) = 1 + Len(History)
          /\ (<<m>> \o History)[1] = <<m>>[1]
      BY <3>3, <3>4, ConcatProperties
    <3>. QED  BY <3>2, <3>3, <3>4, <3>5 DEF m
  <2>3. Ordered(y) /\ Greeted(y)
    <3>1. y[1].kind \in Welcome
      BY <2>2 DEF Welcome
    <3>. HIDE DEF y
    <3>. QED  BY <2>2, <3>1, OrderedParts
  <2>4. Deliver(added) /\ participants' = participants
    BY <1>1 DEF HelloReply, Flush
  <2>. HIDE DEF y
  <2>5. added \in [Session -> Seq(Envelope)]
    BY <2>1, <2>2
  <2>6. CASE s = io.sess
    <3>1. added[s] = y
      BY <2>6 DEF To
    <3>2. Fine(added)
      BY <2>3, <2>4, <3>1
    <3>. QED  BY <2>5, <3>2
  <2>7. CASE s # io.sess
    <3>1. added[s] = None
      BY <2>7 DEF To
    <3>2. Ordered(added[s])
      BY <2>5, <3>1, OrderedParts
    <3>3. participants'[s] > 0 => Greeted(Sent(s))
      BY <1>0, <2>4, <2>7 DEF Saying
    <3>4. Fine(added)
      BY <2>4, <3>2, <3>3
    <3>. QED  BY <2>5, <3>4
  <2>. QED  BY <2>6, <2>7
<1>2. ASSUME NEW m \in Envelope, NEW r \in SUBSET Session, Deliver(FanOut(r, m)),
             participants' = participants,
             Saying(s) => Saying(s)' /\ s \notin r
      PROVE  \E added \in [Session -> Seq(Envelope)] : Fine(added)
  <2>. DEFINE added == FanOut(r, m)
  <2>1. added \in [Session -> Seq(Envelope)] /\ Deliver(added)
    BY <1>2
  <2>2. Greeted(Sent(s)) \/ Ordered(added[s])
    <3>1. CASE s \notin r
      <4>1. added[s] = None
        BY <3>1 DEF FanOut
      <4>. QED  BY <2>1, <4>1, OrderedParts
    <3>2. CASE s \in r /\ ~Greeted(Sent(s))
      <4>1. participants[s] = 0
        BY <1>0, <1>2, <3>2 DEF GroupTypeOK
      <4>2. added[s] = [k \in 1..participants[s] |-> m]
        BY <3>2 DEF FanOut
      <4>3. Len(added[s]) = 0
        BY <4>1, <4>2
      <4>. QED  BY <4>3 DEF Ordered
    <3>. QED  BY <3>1, <3>2
  <2>3. participants'[s] > 0 => Greeted(Sent(s)) \/ Saying(s)'
    BY <1>0, <1>2
  <2>4. Fine(added)
    BY <2>1, <2>2, <2>3
  <2>. QED  BY <2>1, <2>4
<1>3. CASE Notify
  <2>1. io.sess \in Session /\ io.kind \in Kinds
    BY <1>3 DEF Notify, IoShape, Kinds, RoomKinds
  <2>2. Note(io.kind, io.sess) \in Envelope
    BY <2>1, 0 \in Nat
  <2>3. Saying(s) => Saying(s)' /\ s \notin ExcludeSelf(io.sess)
    BY <1>3, <2>1 DEF Notify, Saying, ExcludeSelf, IoShape, Handler
  <2>4. /\ Deliver(FanOut(ExcludeSelf(io.sess), Note(io.kind, io.sess)))
        /\ participants' = participants
        /\ ExcludeSelf(io.sess) \in SUBSET Session
    BY <1>3 DEF Notify, DeliverNoHis, ExcludeSelf
  <2>. QED  BY <1>2, <2>2, <2>3, <2>4
<1>4. CASE ContentEnd
  <2>1. io.sess \in Session /\ Len(posted) \in Nat /\ io.kind = "post"
    BY <1>4 DEF ContentEnd, IoShape, GroupTypeOK
  <2>2. Post(io.sess, Len(posted)) \in Envelope
    BY <2>1 DEF Kinds
  <2>3. ~Saying(s)
    BY <2>1 DEF Saying
  <2>4. /\ Deliver(FanOut(ExcludeSelf(io.sess), Post(io.sess, Len(posted))))
        /\ participants' = participants
        /\ ExcludeSelf(io.sess) \in SUBSET Session
    BY <1>4 DEF ContentEnd, PostEnd, ExcludeSelf
  <2>. QED  BY <1>2, <2>2, <2>3, <2>4
<1>5. ASSUME NEW t \in Session, NEW a \in Account, Direct(t, a)
      PROVE  \E added \in [Session -> Seq(Envelope)] : Fine(added)
  <2>1. Note("direct", t) \in Envelope
    BY 0 \in Nat DEF Kinds, RoomKinds
  <2>2. ~Saying(s)
    BY <1>5 DEF Direct, Reading, Idle, Saying
  <2>3. /\ Deliver(FanOut({p \in Session : account[p] = a}, Note("direct", t)))
        /\ participants' = participants
        /\ {p \in Session : account[p] = a} \in SUBSET Session
    BY <1>5 DEF Direct, groupVars
  <2>. QED  BY <1>2, <2>1, <2>2, <2>3
<1>6. ASSUME NEW t \in Session, NEW kind \in {"error", "answer"},
             Deliver(To(t, <<Note(kind, t)>>)), ~Saying(s),
             s # t \/ kind = "answer" => participants'[s] = participants[s]
      PROVE  \E added \in [Session -> Seq(Envelope)] : Fine(added)
  <2>. DEFINE m == Note(kind, t)
              y == <<m>>
              added == To(t, y)
  <2>1. m \in Envelope /\ m.kind = kind /\ kind \notin RoomKinds
    BY 0 \in Nat DEF Kinds, RoomKinds, Note
  <2>. HIDE DEF m
  <2>2. y \in Seq(Envelope) /\ Len(y) = 1 /\ y[1] = m
    BY <2>1
  <2>. HIDE DEF y
  <2>3. Ordered(y) /\ (kind = "error" => Greeted(y))
    <3>1. Len(y) = 1 /\ y[1].kind \notin RoomKinds => Ordered(y)
      BY <2>2, OrderedParts
    <3>2. Len(y) > 0 /\ y[1].kind \in Welcome => Greeted(y)
      BY <2>2, OrderedParts
    <3>3. kind = "error" => y[1].kind \in Welcome
      BY <2>1, <2>2 DEF Welcome
    <3>4. Len(y) = 1 /\ Len(y) > 0
      BY <2>2
    <3>5. y[1].kind \notin RoomKinds
      BY <2>1, <2>2, Zenon
    <3>. QED  BY <3>1, <3>2, <3>3, <3>4, <3>5
  <2>4. added \in [Session -> Seq(Envelope)] /\ Deliver(added)
    BY <1>6, <2>2 DEF m, y
  <2>5. CASE s = t
    <3>1. added[s] = y
      BY <2>5 DEF To
    <3>2. participants'[s] > 0 => Greeted(Sent(s)) \/ Greeted(added[s])
      BY <1>0, <1>6, <2>3, <3>1
    <3>. QED  BY <2>3, <2>4, <3>1, <3>2
  <2>6. CASE s # t
    <3>1. added[s] = None
      BY <2>6 DEF To
    <3>2. Ordered(added[s])
      BY <2>4, <3>1, OrderedParts
    <3>3. participants'[s] > 0 => Greeted(Sent(s))
      BY <1>0, <1>6, <2>6
    <3>. QED  BY <2>4, <3>2, <3>3
  <2>. QED  BY <2>5, <2>6
<1>7. ASSUME NEW t \in Session, SayHelloFails(t)
      PROVE  \E added \in [Session -> Seq(Envelope)] : Fine(added)
  <2>1. ~Saying(s)
    BY <1>7 DEF SayHelloFails, Reading, Idle, Saying
  <2>2. s # t => participants'[s] = participants[s]
    BY <1>7 DEF SayHelloFails, Join, GroupTypeOK
  <2>3. Deliver(To(t, <<Note("error", t)>>))
    BY <1>7 DEF SayHelloFails
  <2>. QED  BY <1>6, <2>1, <2>2, <2>3
<1>8. ASSUME NEW t \in Session, Answer(t)
      PROVE  \E added \in [Session -> Seq(Envelope)] : Fine(added)
  <2>1. ~Saying(s)
    BY <1>8 DEF Answer, Reading, Idle, Saying
  <2>2. participants' = participants
    BY <1>8 DEF Answer, groupVars
  <2>3. Deliver(To(t, <<Note("answer", t)>>))
    BY <1>8 DEF Answer
  <2>. QED  BY <1>6, <2>1, <2>2, <2>3
<1>. QED  BY <1>1, <1>3, <1>4, <1>5, <1>7, <1>8 DEF Delivers

LEMMA HelloNext ==
  ASSUME GroupTypeOK, IoShape, Queues, Counters, HelloInv, [Next]_vars
  PROVE  HelloInv'
<1>. SUFFICES ASSUME NEW s \in Session
              PROVE  /\ Ordered(Sent(s)')
                     /\ participants'[s] > 0 =>
                          Greeted(Sent(s)') \/ Saying(s)'
  BY DEF HelloInv
<1>1. /\ Ordered(Sent(s))
      /\ participants[s] > 0 => Greeted(Sent(s)) \/ Saying(s)
      /\ Sent(s) \in Seq(Envelope)
  BY ConcatProperties DEF HelloInv, Sent, Queues, QueueTypes, Counters
<1>2. CASE Delivers
  <2>1. PICK added \in [Session -> Seq(Envelope)] :
          /\ Deliver(added)
          /\ Greeted(Sent(s)) \/ Ordered(added[s])
          /\ participants'[s] > 0 =>
               Greeted(Sent(s)) \/ Greeted(added[s]) \/ Saying(s)'
    BY <1>2, DeliveredInOrder
  <2>2. Sent(s)' = Sent(s) \o added[s] /\ added[s] \in Seq(Envelope)
    BY <1>2, <2>1, SentDeliver
  <2>. QED  BY <1>1, <2>1, <2>2, Appended
<1>3. CASE ~Delivers
  <2>1. Sent(s)' = Sent(s)
    BY <1>3, SentStays
  <2>2. participants'[s] > 0 => Greeted(Sent(s)) \/ Saying(s)'
    <3>1. CASE participants'[s] = participants[s] /\ (Saying(s) => Saying(s)')
      BY <1>1, <3>1
    <3>2. ASSUME NEW t \in Session, NEW a \in Account, NEW i \in Icon,
             SayHello(t, a, i)
          PROVE  participants'[s] > 0 => Greeted(Sent(s)) \/ Saying(s)'
      <4>1. ~Saying(s)
        BY <3>2 DEF SayHello, Reading, Idle, Saying
      <4>2. CASE s = t
        BY <3>2, <4>2 DEF SayHello, Continue, Saying
      <4>3. CASE s # t
        BY <1>1, <3>2, <4>1, <4>3 DEF SayHello, Join, GroupTypeOK
      <4>. QED  BY <4>2, <4>3
    <3>3. ASSUME NEW t \in Session, WriteFail(t) \/ (ReadFailEnd /\ t = io.sess)
          PROVE  participants'[s] > 0 => Greeted(Sent(s)) \/ Saying(s)'
      <4>1. ~Saying(s)
        BY <3>3 DEF WriteFail, ReadFailEnd, IoShape, Idle, Saying
      <4>2. participants' = [participants EXCEPT ![t] = 0]
        BY <3>3 DEF WriteFail, ReadFailEnd, Leave, NodesLeft
      <4>. QED  BY <1>1, <4>1, <4>2 DEF GroupTypeOK
    <3>4. ASSUME NEW t \in Session,
                 \/ Accept(t) \/ WriteDone(t) \/ IgnoreLine(t) \/ PeerDown(t)
          PROVE  UNCHANGED <<participants, io>>
      BY <3>4 DEF Accept, WriteDone, IgnoreLine, PeerDown, groupVars
    <3>5. ASSUME NEW t \in Session,
                 \/ ReadFail(t)
                 \/ \E a \in Author, i \in Icon : Content(t, a, i)
                 \/ \E a \in Account, i \in Icon, u \in Updater :
                  SettingIcon(t, a, i, u)
          PROVE  participants' = participants /\ ~Saying(s)
      <4>1. participants' = participants
        BY <3>5 DEF ReadFail, Content, SettingIcon, PostBegin, Spawn, groupVars
      <4>2. io = Idle
        BY <3>5 DEF ReadFail, Content, SettingIcon, Reading
      <4>. QED  BY <4>1, <4>2 DEF Idle, Saying
    <3>6. ASSUME NEW u \in Updater, UpdaterStep(u)
          PROVE  UNCHANGED <<participants, io>>
      BY <3>6 DEF UpdaterStep, Update, UpdateStart, UpdateTest, UpdateRead,
        UpdateThrow, UpdateTypeError, UpdateLock, UpdateWrite, UpdateIcons
    <3>7. CASE UNCHANGED vars
      BY <3>1, <3>7 DEF vars, groupVars, Saying
    <3>8. CASE ReadFailEnd
      <4>1. io.sess \in Session
        BY <3>8 DEF ReadFailEnd, IoShape
      <4>. QED  BY <3>3, <3>8, <4>1
    <3>9. CASE UNCHANGED <<participants, io>>
      BY <3>1, <3>9 DEF Saying
    <3>. QED  BY <1>3, <3>1, <3>2, <3>3, <3>4, <3>5, <3>6, <3>7, <3>8, <3>9
              DEF Next, IoStep, Delivers
  <2>. QED  BY <1>1, <2>1, <2>2
<1>. QED  BY <1>2, <1>3

(* Whatever sessions join, leave and fail meanwhile, a client hears of the *)
(* room only after the answer to a SayHello of its own.                    *)
THEOREM AfterHello == Spec => []RoomAfterHello
<1>1. Init => Counters /\ HelloInv
  <2>. SUFFICES ASSUME Init PROVE Counters /\ HelloInv
    OBVIOUS
  <2>1. Counters
    BY DEF Init, Counters
  <2>2. ASSUME NEW s \in Session
        PROVE  Ordered(Sent(s)) /\ participants[s] = 0
    <3>1. Sent(s) = <<>> \o <<>> /\ <<>> \o <<>> = <<>> /\ participants[s] = 0
      BY DEF Init, GroupInit, Sent
    <3>2. Len(Sent(s)) = 0
      BY <3>1
    <3>. QED  BY <3>1, <3>2 DEF Ordered
  <2>. QED  BY <2>1, <2>2 DEF HelloInv
<1>2. Queues /\ Counters /\ HelloInv => RoomAfterHello
  <2>. SUFFICES ASSUME Queues, Counters, HelloInv, NEW s \in Session,
                       NEW k \in DOMAIN Sent(s), Sent(s)[k].kind \in RoomKinds
                PROVE  \E j \in 1..k : Sent(s)[j].kind \in {"hello", "error"}
    BY DEF RoomAfterHello
  <2>1. Sent(s) \in Seq(Envelope)
    BY ConcatProperties DEF Sent, Queues, QueueTypes, Counters
  <2>2. k \in 1..Len(Sent(s))
    BY <2>1, LenProperties
  <2>. QED  BY <2>2 DEF HelloInv, Ordered, Welcome
<1>. QED  BY <1>1, <1>2, CountersNext, HelloNext, QueuesInvariant, PTL DEF Spec

-----------------------------------------------------------------------------
(* Induction.  NatInduction takes a predicate, which no installed prover   *)
(* can instantiate; a set it can.                                          *)

LEMMA LeastNumber ==
  ASSUME NEW T \in SUBSET Nat, T # {}
  PROVE  \E m \in T : \A k \in T : m <= k
<1>. DEFINE R == OpToRel(<, Nat)
<1>1. IsWellFoundedOn(R, Nat)
  BY NatLessThanWellFounded
<1>2. R = {ss \in Nat \X Nat : ss[1] < ss[2]}
  BY DEF OpToRel
<1>. HIDE DEF R
<1>3. PICK m \in T : \A k \in T : <<k, m>> \notin R
  BY <1>1, WFMin
<1>4. \A k \in T : ~(k < m)
  BY <1>2, <1>3
<1>. QED  BY <1>4

LEMMA SetInduction ==
  ASSUME NEW S \in SUBSET Nat, 0 \in S, \A n \in S : n + 1 \in S
  PROVE  \A n \in Nat : n \in S
<1>. SUFFICES ASSUME NEW n \in Nat, n \notin S PROVE FALSE
  OBVIOUS
<1>1. n \in Nat \ S /\ (Nat \ S) \in SUBSET Nat
  OBVIOUS
<1>2. PICK m \in Nat \ S : \A k \in Nat \ S : m <= k
  BY <1>1, LeastNumber
<1>3. m # 0 /\ m - 1 \in Nat
  OBVIOUS
<1>4. m - 1 \in S
  BY <1>2, <1>3
<1>. QED  BY <1>3, <1>4

LEMMA QueueInduction ==
  ASSUME NEW E, NEW T \in SUBSET Seq(E), <<>> \in T,
         \A q \in T, e \in E : Append(q, e) \in T
  PROVE  \A q \in Seq(E) : q \in T
<1>. DEFINE S == {n \in Nat : \A q \in Seq(E) : Len(q) = n => q \in T}
<1>1. 0 \in S
  BY EmptySeq
<1>2. ASSUME NEW n \in S PROVE n + 1 \in S
  <2>. SUFFICES ASSUME NEW q \in Seq(E), Len(q) = n + 1 PROVE q \in T
    OBVIOUS
  <2>1. n \in Nat /\ \A p \in Seq(E) : Len(p) = n => p \in T
    OBVIOUS
  <2>. HIDE DEF S
  <2>2. q # <<>>
    BY <2>1
  <2>3. PICK p \in Seq(E), e \in E : q = Append(p, e)
    BY <2>2, SequenceEmptyOrAppend
  <2>4. Len(q) = Len(p) + 1 /\ Len(p) \in Nat
    BY <2>3, AppendProperties, LenProperties
  <2>5. Len(p) = n
    BY <2>1, <2>4
  <2>. QED  BY <2>1, <2>3, <2>5
<1>3. S \in SUBSET Nat
  OBVIOUS
<1>. HIDE DEF S
<1>4. \A n \in Nat : n \in S
  BY <1>1, <1>2, <1>3, SetInduction
<1>5. ASSUME NEW q \in Seq(E) PROVE q \in T
  <2>1. Len(q) \in S
    BY <1>4, LenProperties
  <2>. QED  BY <2>1 DEF S
<1>. QED  BY <1>5

-----------------------------------------------------------------------------
(* The room messages of a queue.                                           *)

Extended(q, f, k) ==
  IF k = 0 THEN <<>>
  ELSE IF IsPost(q[k]) THEN Append(f[k - 1], q[k].seq)
  ELSE f[k - 1]

(* f is the function by which PostsOf walks q.                             *)
Walks(f, q) == f = [k \in 0..Len(q) |-> Extended(q, f, k)]

LEMMA PostsByWalk == \A q : PostsOf(q) = (CHOOSE f : Walks(f, q))[Len(q)]
BY DEF PostsOf, Walks, Extended

LEMMA WalkSteps ==
  ASSUME NEW q, NEW f, Walks(f, q)
  PROVE  \A k \in 0..Len(q) : f[k] = Extended(q, f, k)
BY DEF Walks

LEMMA WalkExists == \A q \in Seq(Envelope) : \E f : Walks(f, q)
<1>. DEFINE none == <<>>
            T == {q \in Seq(Envelope) : \E f : Walks(f, q)}
<1>1. none \in T
  <2>. DEFINE f == [k \in 0..Len(none) |-> none]
  <2>1. \A k \in 0..Len(none) : Extended(none, f, k) = none
    BY DEF Extended
  <2>2. none \in Seq(Envelope)
    OBVIOUS
  <2>. HIDE DEF f, none
  <2>3. [k \in 0..Len(none) |-> Extended(none, f, k)]
          = [k \in 0..Len(none) |-> none]
    BY <2>1
  <2>4. Walks(f, none)
    BY <2>3 DEF Walks, f
  <2>. QED  BY <2>2, <2>4
<1>2. ASSUME NEW p \in T, NEW e \in Envelope PROVE Append(p, e) \in T
  <2>. DEFINE q == Append(p, e)
              n == Len(p)
  <2>1. /\ p \in Seq(Envelope) /\ q \in Seq(Envelope)
        /\ n \in Nat /\ Len(q) = n + 1
        /\ \A k \in 1..n : q[k] = p[k]
    BY AppendProperties, LenProperties
  <2>2. PICK f : Walks(f, p)
    OBVIOUS
  <2>3. \A k \in 0..n : f[k] = Extended(p, f, k)
    BY <2>2, WalkSteps
  <2>. DEFINE g == [k \in 0..n + 1 |->
                      IF k = n + 1 THEN Extended(q, f, k) ELSE f[k]]
  <2>. HIDE DEF T, q, n
  <2>4. \A k \in 0..n : g[k] = f[k]
    BY <2>1
  <2>5. g[n + 1] = Extended(q, f, n + 1)
    BY <2>1
  <2>6. g = [k \in 0..n + 1 |-> g[k]]
    OBVIOUS
  <2>. HIDE DEF g
  <2>7. ASSUME NEW k \in 0..n + 1 PROVE g[k] = Extended(q, g, k)
    <3>1. CASE k = 0
      BY <2>1, <2>3, <2>4, <3>1 DEF Extended
    <3>2. CASE k \in 1..n
      <4>1. k - 1 \in 0..n /\ k # 0 /\ k \in 0..n
        BY <2>1, <3>2
      <4>2. f[k - 1] = g[k - 1] /\ g[k] = f[k] /\ q[k] = p[k]
        BY <2>1, <2>4, <3>2, <4>1
      <4>3. f[k] = Extended(p, f, k)
        BY <2>3, <4>1
      <4>. QED  BY <4>1, <4>2, <4>3 DEF Extended
    <3>3. CASE k = n + 1
      <4>1. k - 1 \in 0..n /\ k # 0
        BY <2>1, <3>3
      <4>2. f[k - 1] = g[k - 1]
        BY <2>4, <4>1
      <4>. QED  BY <2>5, <3>3, <4>1, <4>2 DEF Extended
    <3>4. k = 0 \/ k \in 1..n \/ k = n + 1
      BY <2>1
    <3>. QED  BY <3>1, <3>2, <3>3, <3>4
  <2>8. Walks(g, q)
    <3>1. [k \in 0..n + 1 |-> g[k]] = [k \in 0..n + 1 |-> Extended(q, g, k)]
      BY <2>7
    <3>. QED  BY <2>1, <2>6, <3>1 DEF Walks
  <2>. QED  BY <2>1, <2>8 DEF T, q
<1>3. T \in SUBSET Seq(Envelope)
  OBVIOUS
<1>. HIDE DEF T
<1>4. \A q \in Seq(Envelope) : q \in T
  BY <1>1, <1>2, <1>3, QueueInduction DEF none
<1>. QED  BY <1>4 DEF T

(* What PostsOf gives, without the walk.                                   *)
LEMMA PostsOfAppend ==
  ASSUME NEW q \in Seq(Envelope), NEW e \in Envelope
  PROVE  /\ PostsOf(<<>>) = <<>>
         /\ PostsOf(Append(q, e)) = IF IsPost(e)
                                    THEN Append(PostsOf(q), e.seq)
                                    ELSE PostsOf(q)
<1>. DEFINE f == CHOOSE f : Walks(f, q)
            none == <<>>
            z == CHOOSE z : Walks(z, none)
            r == Append(q, e)
            g == CHOOSE g : Walks(g, r)
<1>1. /\ r \in Seq(Envelope) /\ Len(r) = Len(q) + 1
      /\ Len(q) \in Nat
      /\ \A k \in 1..Len(q) : r[k] = q[k]
      /\ r[Len(q) + 1] = e
  BY AppendProperties, LenProperties
<1>2. none \in Seq(Envelope) /\ Len(none) = 0
  OBVIOUS
<1>. HIDE DEF r, none
<1>3. Walks(f, q) /\ Walks(g, r) /\ Walks(z, none)
  BY <1>1, <1>2, WalkExists
<1>4. /\ PostsOf(q) = f[Len(q)]
      /\ PostsOf(r) = g[Len(r)]
      /\ PostsOf(none) = z[Len(none)]
  BY PostsByWalk
<1>. HIDE DEF f, g, z
<1>5. PostsOf(none) = <<>>
  <2>1. z[0] = Extended(none, z, 0)
    BY <1>2, <1>3, WalkSteps
  <2>. QED  BY <1>2, <1>4, <2>1 DEF Extended
<1>6. /\ \A k \in 0..Len(q) : f[k] = Extended(q, f, k)
      /\ \A k \in 0..Len(r) : g[k] = Extended(r, g, k)
  BY <1>3, WalkSteps
<1>7. \A k \in Nat : k <= Len(q) => f[k] = g[k]
  <2>. DEFINE S == {k \in Nat : k <= Len(q) => f[k] = g[k]}
  <2>1. 0 \in S
    <3>1. f[0] = Extended(q, f, 0) /\ g[0] = Extended(r, g, 0)
      BY <1>1, <1>6
    <3>. QED  BY <3>1 DEF Extended
  <2>2. ASSUME NEW k \in S PROVE k + 1 \in S
    <3>. SUFFICES ASSUME k + 1 <= Len(q) PROVE f[k + 1] = g[k + 1]
      OBVIOUS
    <3>1. /\ k \in Nat /\ k + 1 \in 0..Len(q) /\ k + 1 \in 0..Len(r)
          /\ k + 1 \in 1..Len(q) /\ k + 1 # 0 /\ (k + 1) - 1 = k
          /\ f[k] = g[k]
      BY <1>1
    <3>2. f[k + 1] = Extended(q, f, k + 1) /\ g[k + 1] = Extended(r, g, k + 1)
      BY <1>6, <3>1
    <3>3. r[k + 1] = q[k + 1]
      BY <1>1, <3>1
    <3>. QED  BY <3>1, <3>2, <3>3 DEF Extended
  <2>3. S \in SUBSET Nat
    OBVIOUS
  <2>. HIDE DEF S
  <2>4. \A k \in Nat : k \in S
    BY <2>1, <2>2, <2>3, SetInduction
  <2>. QED  BY <2>4 DEF S
<1>8. PostsOf(r) = IF IsPost(e) THEN Append(PostsOf(q), e.seq) ELSE PostsOf(q)
  <2>. DEFINE n == Len(q)
  <2>1. g[n + 1] = Extended(r, g, n + 1)
    BY <1>1, <1>6
  <2>2. n + 1 # 0 /\ (n + 1) - 1 = n /\ f[n] = g[n]
    BY <1>1, <1>7
  <2>. QED  BY <1>1, <1>4, <2>1, <2>2 DEF Extended
<1>. QED  BY <1>5, <1>8 DEF r, none

LEMMA PostsOfEmpty == PostsOf(<<>>) = <<>>
<1>. DEFINE none == <<>>
            e == Note("hello", NoSession)
<1>1. none \in Seq(Envelope)
  OBVIOUS
<1>2. e \in Envelope
  BY 0 \in Nat DEF Note, Envelope, Kinds
<1>. HIDE DEF none, e
<1>3. PostsOf(<<>>) = <<>>
  BY <1>1, <1>2, PostsOfAppend
<1>. QED  BY <1>3

LEMMA AppendOfConcat ==
  ASSUME NEW E, NEW x \in Seq(E), NEW y \in Seq(E), NEW e \in E
  PROVE  x \o Append(y, e) = Append(x \o y, e)
<1>. DEFINE one == <<e>>
<1>1. one \in Seq(E)
  OBVIOUS
<1>2. Append(y, e) = y \o one /\ Append(x \o y, e) = (x \o y) \o one
  BY ConcatProperties, AppendIsConcat
<1>. HIDE DEF one
<1>3. (x \o y) \o one = x \o (y \o one)
  BY <1>1, ConcatAssociative
<1>. QED  BY <1>2, <1>3

LEMMA PostsAreNumbers == \A q \in Seq(Envelope) : PostsOf(q) \in Seq(Nat)
<1>. DEFINE T == {q \in Seq(Envelope) : PostsOf(q) \in Seq(Nat)}
<1>1. <<>> \in T
  <2>1. PostsOf(<<>>) = <<>> /\ <<>> \in Seq(Envelope) /\ <<>> \in Seq(Nat)
    BY PostsOfEmpty
  <2>. QED  BY <2>1
<1>2. ASSUME NEW q \in T, NEW e \in Envelope PROVE Append(q, e) \in T
  <2>1. q \in Seq(Envelope) /\ Append(q, e) \in Seq(Envelope) /\ e.seq \in Nat
    BY AppendProperties DEF Envelope
  <2>2. PostsOf(Append(q, e)) \in Seq(Nat)
    <3>1. PostsOf(q) \in Seq(Nat) /\ Append(PostsOf(q), e.seq) \in Seq(Nat)
      BY <2>1, AppendProperties
    <3>. QED  BY <2>1, <3>1, PostsOfAppend
  <2>. QED  BY <2>1, <2>2
<1>3. T \in SUBSET Seq(Envelope)
  OBVIOUS
<1>. HIDE DEF T
<1>4. \A q \in Seq(Envelope) : q \in T
  BY <1>1, <1>2, <1>3, QueueInduction
<1>. QED  BY <1>4 DEF T

LEMMA PostsOfConcat ==
  ASSUME NEW q \in Seq(Envelope)
  PROVE  \A r \in Seq(Envelope) : PostsOf(q \o r) = PostsOf(q) \o PostsOf(r)
<1>. DEFINE none == <<>>
            T == {r \in Seq(Envelope) :
                    PostsOf(q \o r) = PostsOf(q) \o PostsOf(r)}
<1>0. PostsOf(q) \in Seq(Nat)
  BY PostsAreNumbers
<1>1. none \in T
  <2>1. none \in Seq(Envelope)
    OBVIOUS
  <2>2. PostsOf(none) = none
    BY PostsOfEmpty
  <2>3. q \o none = q /\ PostsOf(q) \o none = PostsOf(q)
    BY <1>0, ConcatEmptySeq
  <2>. HIDE DEF none
  <2>. QED  BY <2>1, <2>2, <2>3
<1>2. ASSUME NEW r \in T, NEW e \in Envelope PROVE Append(r, e) \in T
  <2>1. /\ r \in Seq(Envelope) /\ Append(r, e) \in Seq(Envelope)
        /\ q \o r \in Seq(Envelope)
        /\ e.seq \in Nat
        /\ PostsOf(q \o r) = PostsOf(q) \o PostsOf(r)
        /\ PostsOf(r) \in Seq(Nat)
    BY AppendProperties, ConcatProperties, PostsAreNumbers DEF Envelope
  <2>2. q \o Append(r, e) = Append(q \o r, e)
    BY <2>1, AppendOfConcat
  <2>3. PostsOf(q) \o Append(PostsOf(r), e.seq)
          = Append(PostsOf(q) \o PostsOf(r), e.seq)
    BY <1>0, <2>1, AppendOfConcat
  <2>4. PostsOf(q \o Append(r, e)) = PostsOf(q) \o PostsOf(Append(r, e))
    <3>1. CASE IsPost(e)
      <4>1. PostsOf(Append(q \o r, e)) = Append(PostsOf(q \o r), e.seq)
        BY <2>1, <3>1, PostsOfAppend
      <4>2. PostsOf(Append(r, e)) = Append(PostsOf(r), e.seq)
        BY <2>1, <3>1, PostsOfAppend
      <4>. QED  BY <2>1, <2>2, <2>3, <4>1, <4>2
    <3>2. CASE ~IsPost(e)
      <4>1. PostsOf(Append(q \o r, e)) = PostsOf(q \o r)
        BY <2>1, <3>2, PostsOfAppend
      <4>2. PostsOf(Append(r, e)) = PostsOf(r)
        BY <2>1, <3>2, PostsOfAppend
      <4>. QED  BY <2>1, <2>2, <4>1, <4>2
    <3>. QED  BY <3>1, <3>2
  <2>. QED  BY <2>1, <2>4
<1>3. T \in SUBSET Seq(Envelope)
  OBVIOUS
<1>. HIDE DEF T
<1>4. \A r \in Seq(Envelope) : r \in T
  BY <1>1, <1>2, <1>3, QueueInduction DEF none
<1>. QED  BY <1>4 DEF T

(* Messages of which all are room messages, or none.                       *)
LEMMA PostsOfAll ==
  \A q \in Seq(Envelope) :
    (\A k \in 1..Len(q) : IsPost(q[k]))
      => PostsOf(q) = [k \in 1..Len(q) |-> q[k].seq]
<1>. DEFINE none == <<>>
            Numbers(q) == [k \in 1..Len(q) |-> q[k].seq]
            All(q) == \A k \in 1..Len(q) : IsPost(q[k])
            T == {q \in Seq(Envelope) : All(q) => PostsOf(q) = Numbers(q)}
<1>1. none \in T
  <2>1. none \in Seq(Envelope)
    OBVIOUS
  <2>2. PostsOf(none) = none
    BY PostsOfEmpty
  <2>3. Numbers(none) = none
    OBVIOUS
  <2>. HIDE DEF none
  <2>. QED  BY <2>1, <2>2, <2>3
<1>2. ASSUME NEW q \in T, NEW e \in Envelope PROVE Append(q, e) \in T
  <2>. DEFINE r == Append(q, e)
              n == Len(q)
  <2>1. /\ q \in Seq(Envelope) /\ r \in Seq(Envelope)
        /\ n \in Nat /\ Len(r) = n + 1
        /\ \A k \in 1..n : r[k] = q[k]
        /\ r[n + 1] = e
        /\ e.seq \in Nat
        /\ All(q) => PostsOf(q) = Numbers(q)
    BY AppendProperties, LenProperties DEF Envelope
  <2>2. ASSUME All(r) PROVE PostsOf(r) = Numbers(r)
    <3>1. All(q) /\ IsPost(e)
      <4>1. \A k \in 1..n : k \in 1..n + 1
        BY <2>1
      <4>2. n + 1 \in 1..n + 1
        BY <2>1
      <4>. HIDE DEF T, r, n
      <4>. QED  BY <2>1, <2>2, <4>1, <4>2 DEF n
    <3>2. PostsOf(r) = Append(Numbers(q), e.seq)
      BY <2>1, <3>1, PostsOfAppend
    <3>. DEFINE a == Numbers(q)
                b == Append(a, e.seq)
    <3>3. \A k \in 1..n : q[k].seq \in Nat
      <4>1. q \in Seq(Envelope) /\ e.seq \in Nat
        BY <2>1
      <4>. HIDE DEF T
      <4>2. \A k \in 1..n : q[k] \in Envelope
        BY <4>1, ElementOfSeq
      <4>. QED  BY <4>2 DEF Envelope
    <3>4. a \in Seq(Nat) /\ Len(a) = n /\ \A k \in 1..n : a[k] = q[k].seq
      BY <2>1, <3>3, IsASeq
    <3>. HIDE DEF a, T, r, n
    <3>5. /\ b \in Seq(Nat) /\ Len(b) = n + 1
          /\ \A k \in 1..n : b[k] = q[k].seq
          /\ b[n + 1] = e.seq
      <4>1. a \in Seq(Nat) /\ e.seq \in Nat
        BY <2>1, <3>4
      <4>2. /\ b \in Seq(Nat) /\ Len(b) = Len(a) + 1
            /\ \A k \in 1..Len(a) : b[k] = a[k]
            /\ b[Len(a) + 1] = e.seq
        BY <4>1, AppendProperties
      <4>. HIDE DEF b
      <4>. QED  BY <3>4, <4>2
    <3>. HIDE DEF b
    <3>6. \A k \in 1..n + 1 : b[k] = r[k].seq
      <4>1. \A k \in 1..n + 1 : k \in 1..n \/ k = n + 1
        BY <2>1
      <4>. QED  BY <2>1, <3>5, <4>1
    <3>7. b = [k \in 1..n + 1 |-> b[k]]
      BY <3>5, LenProperties
    <3>8. b = Numbers(r)
      BY <2>1, <3>6, <3>7
    <3>. QED  BY <3>2, <3>8 DEF a, b
  <2>. QED  BY <2>1, <2>2
<1>3. T \in SUBSET Seq(Envelope)
  OBVIOUS
<1>. HIDE DEF T
<1>4. \A q \in Seq(Envelope) : q \in T
  BY <1>1, <1>2, <1>3, QueueInduction DEF none
<1>. QED  BY <1>4 DEF T

LEMMA PostsOfNone ==
  \A q \in Seq(Envelope) :
    (\A k \in 1..Len(q) : ~IsPost(q[k])) => PostsOf(q) = <<>>
<1>. DEFINE None(q) == \A k \in 1..Len(q) : ~IsPost(q[k])
            T == {q \in Seq(Envelope) : None(q) => PostsOf(q) = <<>>}
<1>1. <<>> \in T
  <2>1. PostsOf(<<>>) = <<>> /\ <<>> \in Seq(Envelope) /\ <<>> \in Seq(Nat)
    BY PostsOfEmpty
  <2>. QED  BY <2>1
<1>2. ASSUME NEW q \in T, NEW e \in Envelope PROVE Append(q, e) \in T
  <2>. DEFINE r == Append(q, e)
              n == Len(q)
  <2>1. /\ q \in Seq(Envelope) /\ r \in Seq(Envelope)
        /\ n \in Nat /\ Len(r) = n + 1
        /\ \A k \in 1..n : r[k] = q[k]
        /\ r[n + 1] = e
        /\ None(q) => PostsOf(q) = <<>>
    BY AppendProperties, LenProperties
  <2>2. ASSUME None(r) PROVE PostsOf(r) = <<>>
    <3>1. None(q) /\ ~IsPost(e)
      <4>1. \A k \in 1..n : k \in 1..n + 1
        BY <2>1
      <4>2. n + 1 \in 1..n + 1
        BY <2>1
      <4>. HIDE DEF T, r, n
      <4>. QED  BY <2>1, <2>2, <4>1, <4>2 DEF n
    <3>. QED  BY <2>1, <3>1, PostsOfAppend
  <2>. QED  BY <2>1, <2>2
<1>3. T \in SUBSET Seq(Envelope)
  OBVIOUS
<1>. HIDE DEF T
<1>4. \A q \in Seq(Envelope) : q \in T
  BY <1>1, <1>2, <1>3, QueueInduction
<1>. QED  BY <1>4 DEF T

-----------------------------------------------------------------------------
(* The server as a ChatRoom: what its state is there.                      *)

RoomSaid == Len(posted) - (IF mutex = "io" THEN 1 ELSE 0)
RoomPresent == {s \in Session : participants[s] > 0 /\ ~Saying(s)}
RoomWelcomed ==
  {s \in Session : \E k \in DOMAIN Sent(s) : Sent(s)[k].kind = "hello"}
RoomFeed == [s \in Session |-> Feed(s)]

RoomMoves(p) ==
  \/ /\ p \notin RoomPresent
     /\ RoomPresent' = RoomPresent \cup {p}
     /\ RoomWelcomed' = RoomWelcomed \cup {p}
     /\ RoomFeed' = [RoomFeed EXCEPT ![p] = @ \o Room!Latest]
     /\ RoomSaid' = RoomSaid
  \/ /\ p \notin RoomPresent
     /\ RoomPresent' = RoomPresent \cup {p}
     /\ UNCHANGED <<RoomSaid, RoomWelcomed, RoomFeed>>
  \/ /\ RoomSaid < MaxPosts
     /\ RoomSaid' = RoomSaid + 1
     /\ RoomFeed' = [q \in Session |->
          IF q \in RoomPresent \ {p} THEN Append(RoomFeed[q], RoomSaid')
                                     ELSE RoomFeed[q]]
     /\ UNCHANGED <<RoomPresent, RoomWelcomed>>
  \/ /\ RoomPresent' = RoomPresent \ {p}
     /\ UNCHANGED <<RoomSaid, RoomWelcomed, RoomFeed>>

LEMMA MovesAreSteps == ASSUME NEW p \in Session, RoomMoves(p) PROVE Room!Next
BY DEF RoomMoves, RoomSaid, RoomPresent, RoomWelcomed, RoomFeed, Room!Next,
       Room!Enter, Room!SlipIn, Room!Say, Room!Exit

LEMMA StutterInRoom ==
  UNCHANGED <<RoomSaid, RoomPresent, RoomWelcomed, RoomFeed>>
    => UNCHANGED Room!vars
BY DEF RoomSaid, RoomPresent, RoomWelcomed, RoomFeed, Room!vars

(* The mutex is the io thread's while a message is being posted.           *)
RoomInv ==
  /\ mutex = "io" <=> io.pc = "post"
  /\ Len(posted) <= MaxPosts
  /\ io.pc = "post" => Len(posted) > 0
  /\ \A s \in Session : Saying(s) => participants[s] > 0

LEMMA RoomInvNext ==
  ASSUME IInv, IoShape, RoomInv, [Next]_vars
  PROVE  RoomInv'
<1>. USE GroupAssumption
<1>0. /\ GroupTypeOK /\ HoldsLock
      /\ posted \in Seq(Author) /\ Len(posted) \in Nat
  BY LenProperties DEF IInv, GroupTypeOK
<1>1. CASE UNCHANGED <<mutex, io, posted, participants>>
  BY <1>1 DEF RoomInv, Saying
<1>2. CASE HelloReply
  <2>1. /\ mutex' = mutex /\ posted' = posted /\ io' = Idle /\ io.pc = "reply"
    BY <1>2 DEF HelloReply, Flush
  <2>. QED  BY <2>1 DEF RoomInv, Idle, Saying
<1>3. CASE Notify
  <2>1. /\ mutex' = mutex /\ posted' = posted /\ participants' = participants
        /\ mutex = "free"
    BY <1>3 DEF Notify, DeliverNoHis
  <2>2. io'.pc # "post" /\ \A s \in Session : Saying(s)' => Saying(s)
    BY <1>3 DEF Notify, IoShape, Handler, Idle, Saying
  <2>. QED  BY <2>1, <2>2 DEF RoomInv
<1>4. CASE ContentEnd
  <2>1. mutex' = "free" /\ posted' = posted /\ io' = Idle
    BY <1>4 DEF ContentEnd, PostEnd
  <2>. QED  BY <2>1 DEF RoomInv, Idle, Saying
<1>5. CASE ReadFailEnd
  <2>1. /\ mutex' = mutex /\ posted' = posted /\ io' = Idle /\ io.pc = "leave"
    BY <1>5 DEF ReadFailEnd, Leave
  <2>. QED  BY <2>1 DEF RoomInv, Idle, Saying
<1>6. ASSUME NEW s \in Session, WriteFail(s) PROVE RoomInv'
  <2>1. /\ mutex' = mutex /\ posted' = posted /\ io' = Idle /\ io = Idle
    BY <1>6 DEF WriteFail, Leave
  <2>. QED  BY <2>1 DEF RoomInv, Idle, Saying
<1>7. ASSUME NEW s \in Session, NEW a \in Account, NEW i \in Icon,
             SayHello(s, a, i) PROVE RoomInv'
  <2>1. /\ mutex' = mutex /\ posted' = posted /\ io = Idle
        /\ participants'[s] = participants[s] + 1 /\ participants[s] \in Nat
        /\ io' = [pc |-> "notify", sess |-> s, kind |-> "online"]
    BY <1>0, <1>7 DEF SayHello, Join, Reading, Continue, GroupTypeOK
  <2>. QED  BY <2>1 DEF RoomInv, Idle, Saying
<1>8. ASSUME NEW s \in Session, SayHelloFails(s) PROVE RoomInv'
  <2>1. /\ mutex' = mutex /\ posted' = posted /\ io = Idle /\ io' = Idle
    BY <1>8 DEF SayHelloFails, Join, Reading
  <2>. QED  BY <2>1 DEF RoomInv, Idle, Saying
<1>9. ASSUME NEW s \in Session, NEW a \in Author, NEW i \in Icon,
             Content(s, a, i) PROVE RoomInv'
  <2>1. /\ mutex' = "io" /\ posted' = Append(posted, a)
        /\ Len(posted) < MaxPosts
        /\ io' = [pc |-> "post", sess |-> s, kind |-> "post"]
    BY <1>9 DEF Content, PostBegin, Continue
  <2>3. Len(posted') = Len(posted) + 1
    BY <1>0, <2>1, AppendProperties
  <2>4. Len(posted') <= MaxPosts /\ Len(posted') > 0
    BY <1>0, <2>1, <2>3
  <2>. QED  BY <2>1, <2>4 DEF RoomInv, Saying
<1>10. ASSUME NEW s \in Session,
              \/ ReadFail(s)
              \/ \E a \in Account, i \in Icon, u \in Updater :
                  SettingIcon(s, a, i, u)
       PROVE  RoomInv'
  <2>1. UNCHANGED <<mutex, posted, participants>> /\ io = Idle
    BY <1>10 DEF ReadFail, SettingIcon, Reading, Spawn, groupVars
  <2>2. io'.pc = "notify" /\ io'.kind \in {"setting", "offline"}
    BY <1>10 DEF ReadFail, SettingIcon, Continue, AfterReadError
  <2>. QED  BY <2>1, <2>2 DEF RoomInv, Idle, Saying
<1>11. ASSUME NEW s \in Session,
              \/ Accept(s) \/ WriteDone(s) \/ Answer(s) \/ IgnoreLine(s)
              \/ PeerDown(s)
              \/ \E a \in Account : Direct(s, a)
       PROVE  UNCHANGED <<mutex, io, posted, participants>>
  BY <1>11 DEF Accept, WriteDone, Answer, IgnoreLine, PeerDown, Direct, groupVars
<1>12. ASSUME NEW u \in Updater, UpdaterStep(u) PROVE RoomInv'
  <2>1. /\ UNCHANGED <<io, posted, participants>>
        /\ \/ mutex' = mutex
           \/ mutex = "free" /\ mutex' = u
           \/ thread[u].pc = "write" /\ mutex' = "free"
    BY <1>12 DEF UpdaterStep, Update, UpdateStart, UpdateTest, UpdateRead,
      UpdateThrow, UpdateTypeError, UpdateLock, UpdateWrite, UpdateIcons, At
  <2>2. thread[u].pc = "write" => mutex = u
    BY <1>0 DEF HoldsLock
  <2>3. mutex' = "io" <=> mutex = "io"
    BY <2>1, <2>2
  <2>. QED  BY <2>1, <2>3 DEF RoomInv, Saying
<1>13. CASE UNCHANGED vars
  BY <1>1, <1>13 DEF vars, groupVars
<1>. QED  BY <1>1, <1>2, <1>3, <1>4, <1>5, <1>6, <1>7, <1>8, <1>9, <1>10,
             <1>11, <1>12, <1>13 DEF Next, IoStep

-----------------------------------------------------------------------------
(* What a delivery is to the room.                                         *)

HasHello(q) == \E k \in 1..Len(q) : q[k].kind = "hello"

LEMMA HelloOfConcat ==
  ASSUME NEW x \in Seq(Envelope), NEW y \in Seq(Envelope)
  PROVE  HasHello(x \o y) <=> HasHello(x) \/ HasHello(y)
<1>. DEFINE z == x \o y
<1>1. /\ Len(x) \in Nat /\ Len(y) \in Nat /\ Len(z) = Len(x) + Len(y)
      /\ \A k \in 1..Len(x) : z[k] = x[k]
      /\ \A k \in Len(x) + 1..Len(z) : z[k] = y[k - Len(x)]
  BY ConcatProperties
<1>. HIDE DEF z
<1>2. ASSUME HasHello(x) PROVE HasHello(z)
  <2>1. PICK k \in 1..Len(x) : x[k].kind = "hello"
    BY <1>2 DEF HasHello
  <2>2. k \in 1..Len(z) /\ z[k] = x[k]
    BY <1>1
  <2>. QED  BY <2>1, <2>2 DEF HasHello
<1>3. ASSUME HasHello(y) PROVE HasHello(z)
  <2>1. PICK k \in 1..Len(y) : y[k].kind = "hello"
    BY <1>3 DEF HasHello
  <2>. DEFINE j == Len(x) + k
  <2>2. j \in Len(x) + 1..Len(z) /\ j \in 1..Len(z) /\ j - Len(x) = k
    BY <1>1
  <2>. HIDE DEF j
  <2>3. z[j] = y[k]
    BY <1>1, <2>2
  <2>. QED  BY <2>1, <2>2, <2>3 DEF HasHello
<1>4. ASSUME HasHello(z) PROVE HasHello(x) \/ HasHello(y)
  <2>1. PICK k \in 1..Len(z) : z[k].kind = "hello"
    BY <1>4 DEF HasHello
  <2>2. CASE k \in 1..Len(x)
    BY <1>1, <2>1, <2>2 DEF HasHello
  <2>3. CASE k \notin 1..Len(x)
    <3>. DEFINE j == k - Len(x)
    <3>1. k \in Len(x) + 1..Len(z) /\ j \in 1..Len(y)
      BY <1>1, <2>3
    <3>2. z[k] = y[j]
      BY <1>1, <3>1
    <3>. HIDE DEF j
    <3>. QED  BY <2>1, <3>1, <3>2 DEF HasHello
  <2>. QED  BY <2>2, <2>3
<1>. QED  BY <1>2, <1>3, <1>4 DEF z

LEMMA SentIsQueue ==
  ASSUME Queues, Counters
  PROVE  /\ \A s \in Session : Sent(s) \in Seq(Envelope)
         /\ RoomWelcomed = {s \in Session : HasHello(Sent(s))}
<1>1. \A s \in Session : Sent(s) \in Seq(Envelope)
  BY ConcatProperties DEF Sent, Queues, QueueTypes, Counters
<1>2. \A s \in Session : DOMAIN Sent(s) = 1..Len(Sent(s))
  BY <1>1, LenProperties
<1>. QED  BY <1>1, <1>2 DEF RoomWelcomed, HasHello

LEMMA FeedsGrow ==
  ASSUME Queues, Counters, Queues', Counters', Delivers,
         NEW added \in [Session -> Seq(Envelope)], Deliver(added)
  PROVE  /\ \A s \in Session : RoomFeed'[s] = RoomFeed[s] \o PostsOf(added[s])
         /\ RoomWelcomed' =
              RoomWelcomed \cup {s \in Session : HasHello(added[s])}
<1>1. ASSUME NEW s \in Session
      PROVE  /\ Sent(s) \in Seq(Envelope) /\ added[s] \in Seq(Envelope)
             /\ Sent(s)' = Sent(s) \o added[s]
  BY SentIsQueue, SentDeliver
<1>2. ASSUME NEW s \in Session
      PROVE  RoomFeed'[s] = RoomFeed[s] \o PostsOf(added[s])
  <2>1. RoomFeed'[s] = PostsOf(Sent(s)') /\ RoomFeed[s] = PostsOf(Sent(s))
    BY DEF RoomFeed, Feed
  <2>. QED  BY <1>1, <2>1, PostsOfConcat
<1>3. ASSUME NEW s \in Session
      PROVE  HasHello(Sent(s)') <=> HasHello(Sent(s)) \/ HasHello(added[s])
  <2>. DEFINE x == Sent(s)
              y == added[s]
  <2>1. x \in Seq(Envelope) /\ y \in Seq(Envelope)
    BY <1>1
  <2>2. Sent(s)' = x \o y
    BY <1>1
  <2>. HIDE DEF x, y
  <2>3. HasHello(x \o y) <=> HasHello(x) \/ HasHello(y)
    BY <2>1, HelloOfConcat
  <2>4. HasHello(Sent(s)') <=> HasHello(x) \/ HasHello(y)
    BY <2>2, <2>3
  <2>. QED  BY <2>4 DEF x, y
<1>4. /\ RoomWelcomed = {s \in Session : HasHello(Sent(s))}
      /\ RoomWelcomed' = {s \in Session : HasHello(Sent(s)')}
  <2>1. RoomWelcomed = {s \in Session : HasHello(Sent(s))}
    BY SentIsQueue
  <2>2. \A s \in Session : Sent(s)' \in Seq(Envelope)
    BY <1>1, ConcatProperties
  <2>3. \A s \in Session : DOMAIN Sent(s)' = 1..Len(Sent(s)')
    BY <2>2, LenProperties
  <2>4. RoomWelcomed' = {s \in Session : HasHello(Sent(s)')}
    BY <2>3 DEF RoomWelcomed, HasHello
  <2>. QED  BY <2>1, <2>4
<1>. QED  BY <1>2, <1>3, <1>4

LEMMA NothingSent ==
  ASSUME Queues, Counters, [Next]_vars, ~Delivers
  PROVE  UNCHANGED <<RoomWelcomed, RoomFeed>>
<1>1. \A s \in Session : Sent(s)' = Sent(s)
  BY SentStays
<1>. QED  BY <1>1 DEF RoomWelcomed, RoomFeed, Feed

(* Notices are neither room messages nor answers to SayHello.              *)
Quiet(q) == \A k \in 1..Len(q) : q[k].kind \notin {"hello", "post"}

LEMMA QuietDelivery ==
  ASSUME Queues, Counters, Queues', Counters', Delivers,
         NEW added \in [Session -> Seq(Envelope)], Deliver(added),
         \A s \in Session : Quiet(added[s])
  PROVE  UNCHANGED <<RoomWelcomed, RoomFeed>>
<1>1. ASSUME NEW s \in Session PROVE RoomFeed'[s] = RoomFeed[s]
  <2>1. PostsOf(added[s]) = <<>>
    BY PostsOfNone DEF Quiet, IsPost
  <2>2. RoomFeed[s] \in Seq(Nat)
    BY SentIsQueue, PostsAreNumbers DEF RoomFeed, Feed
  <2>3. RoomFeed[s] \o <<>> = RoomFeed[s]
    BY <2>2, ConcatEmptySeq
  <2>4. RoomFeed'[s] = RoomFeed[s] \o PostsOf(added[s])
    BY FeedsGrow
  <2>. QED  BY <2>1, <2>3, <2>4
<1>2. \A s \in Session : ~HasHello(added[s])
  BY DEF Quiet, HasHello
<1>3. RoomWelcomed' = RoomWelcomed \cup {s \in Session : HasHello(added[s])}
  BY FeedsGrow
<1>4. RoomFeed' = RoomFeed
  BY <1>1 DEF RoomFeed
<1>. QED  BY <1>2, <1>3, <1>4

LEMMA QuietFanOut ==
  ASSUME GroupTypeOK, NEW m \in Envelope, m.kind \notin {"hello", "post"},
         NEW r \in SUBSET Session, NEW s \in Session
  PROVE  Quiet(FanOut(r, m)[s])
<1>1. participants[s] \in Nat
  BY DEF GroupTypeOK
<1>2. CASE s \in r
  <2>1. FanOut(r, m)[s] = [k \in 1..participants[s] |-> m]
    BY <1>2 DEF FanOut
  <2>2. Len([k \in 1..participants[s] |-> m]) = participants[s]
    BY <1>1
  <2>. QED  BY <2>1, <2>2 DEF Quiet
<1>3. CASE s \notin r
  <2>1. FanOut(r, m)[s] = <<>>
    BY <1>3 DEF FanOut
  <2>. QED  BY <2>1 DEF Quiet
<1>. QED  BY <1>2, <1>3

LEMMA QuietTo ==
  ASSUME NEW m \in Envelope, m.kind \notin {"hello", "post"},
         NEW t \in Session, NEW s \in Session
  PROVE  Quiet(To(t, <<m>>)[s])
<1>. DEFINE one == <<m>>
            none == <<>>
<1>1. /\ Len(one) = 1 /\ one[1] = m
      /\ Len(none) = 0
  OBVIOUS
<1>2. \A k \in 1..1 : k = 1
  OBVIOUS
<1>. HIDE DEF one, none
<1>3. Quiet(one) /\ Quiet(none)
  BY <1>1, <1>2 DEF Quiet
<1>4. To(t, one)[s] = one \/ To(t, one)[s] = none
  BY DEF To, none
<1>5. Quiet(To(t, one)[s])
  BY <1>3, <1>4
<1>. QED  BY <1>5 DEF one

(* What SayHello is answered is what the room gives a newcomer.            *)
LEMMA HistoryIsLatest ==
  ASSUME IInv, IoShape, HistoryIntact, mutex # "io"
  PROVE  /\ History \in Seq(Envelope)
         /\ PostsOf(History) = Room!Latest
<1>. USE GroupAssumption
<1>. DEFINE n == Len(recentMessages)
            t == Len(posted)
<1>1. /\ GroupTypeOK /\ Counts
      /\ n \in Nat /\ t \in Nat /\ MaxRecent \in Nat \ {0}
      /\ n <= t /\ n <= MaxRecent /\ (n < t => n >= MaxRecent)
  BY LenProperties DEF IInv, GroupTypeOK, Counts
<1>2. History \in Seq(Envelope)
  BY <1>1, DeliveredTypes
<1>3. \A k \in 1..n : recentMessages[k].seq = (t - n) + k
  <2>1. DOMAIN recentMessages = 1..n
    BY <1>1, LenProperties DEF GroupTypeOK
  <2>. QED  BY <2>1 DEF HistoryIntact, Trimmed
<1>4. History = [k \in 1..n |-> Post(NoSession, recentMessages[k].seq)]
  BY DEF History
<1>. HIDE DEF n, t
<1>5. /\ Len(History) = n
      /\ \A k \in 1..n : /\ IsPost(History[k])
                         /\ History[k].seq = (t - n) + k
  BY <1>1, <1>3, <1>4 DEF Post, IsPost
<1>6. PostsOf(History) = [k \in 1..n |-> History[k].seq]
  BY <1>2, <1>5, PostsOfAll
<1>7. PostsOf(History) = [k \in 1..n |-> (t - n) + k]
  BY <1>5, <1>6
<1>8. RoomSaid = t
  BY DEF RoomSaid, t
<1>. DEFINE old == IF t > MaxRecent THEN t - MaxRecent + 1 ELSE 1
<1>9. Room!Latest = [k \in 1..(t - old + 1) |-> old + k - 1]
  BY <1>8 DEF Room!Latest, Room!OldestKept, RoomSaid
<1>10. old = t - n + 1
  BY <1>1
<1>. HIDE DEF old
<1>11. t - old + 1 = n /\ \A k \in 1..n : old + k - 1 = (t - n) + k
  BY <1>1, <1>10
<1>. QED  BY <1>2, <1>7, <1>9, <1>11

-----------------------------------------------------------------------------
(* Every step of the server is a step of the room.                         *)

(* The answer to SayHello lets its sender in.                              *)
LEMMA ReplyEnters ==
  ASSUME IInv, IoShape, Queues, Counters, Queues', Counters', RoomInv,
         HelloReply, HistoryIntact
  PROVE  io.sess \in Session /\ RoomMoves(io.sess)
<1>. DEFINE p == io.sess
            hello == Note("hello", p)
            one == <<hello>>
            none == <<>>
            answer == one \o History
            added == To(p, answer)
<1>1. /\ p \in Session /\ Saying(p) /\ io.pc = "reply"
      /\ participants' = participants /\ posted' = posted /\ mutex' = mutex
      /\ mutex # "io" /\ io' = Idle
      /\ Deliver(added)
      /\ GroupTypeOK
  BY DEF HelloReply, Flush, IoThread, IoShape, Saying, IInv
<1>2. /\ History \in Seq(Envelope)
      /\ PostsOf(History) = Room!Latest
  BY <1>1, HistoryIsLatest
<1>3. /\ hello \in Envelope /\ ~IsPost(hello) /\ hello.kind = "hello"
      /\ one \in Seq(Envelope) /\ Len(one) = 1 /\ one[1] = hello
  <2>1. hello \in Envelope
    BY <1>1, DeliveredTypes DEF Kinds
  <2>2. ~IsPost(hello) /\ hello.kind = "hello"
    BY DEF Note, IsPost
  <2>. HIDE DEF hello, p
  <2>. QED  BY <2>1, <2>2
<1>. HIDE DEF one, hello
<1>4. answer \in Seq(Envelope) /\ HasHello(answer)
  <2>1. HasHello(one)
    BY <1>3 DEF HasHello
  <2>. QED  BY <1>2, <1>3, <2>1, ConcatProperties, HelloOfConcat
<1>5. PostsOf(answer) = Room!Latest
  <2>1. PostsOf(one) = none
    <3>1. \A k \in 1..Len(one) : ~IsPost(one[k])
      BY <1>3
    <3>. QED  BY <1>3, <3>1, PostsOfNone
  <2>2. PostsOf(answer) = PostsOf(one) \o PostsOf(History)
    BY <1>2, <1>3, PostsOfConcat
  <2>3. PostsOf(History) \in Seq(Nat)
    BY <1>2, PostsAreNumbers
  <2>4. \A x \in Seq(Nat) : none \o x = x
    BY ConcatEmptySeq
  <2>. HIDE DEF answer, none
  <2>. QED  BY <1>2, <2>1, <2>2, <2>3, <2>4
<1>. HIDE DEF answer
<1>6. /\ added \in [Session -> Seq(Envelope)]
      /\ added[p] = answer
      /\ \A s \in Session \ {p} : added[s] = none
  BY <1>1, <1>4, DeliveredTypes DEF To
<1>. HIDE DEF added, p
<1>7. Delivers
  BY DEF Delivers
<1>8. /\ \A s \in Session : RoomFeed'[s] = RoomFeed[s] \o PostsOf(added[s])
      /\ RoomWelcomed' = RoomWelcomed \cup {s \in Session : HasHello(added[s])}
  BY <1>1, <1>6, <1>7, FeedsGrow
<1>9. RoomWelcomed' = RoomWelcomed \cup {p}
  <2>1. ~HasHello(none)
    BY DEF HasHello
  <2>. HIDE DEF none
  <2>. QED  BY <1>1, <1>4, <1>6, <1>8, <2>1
<1>10. RoomFeed' = [RoomFeed EXCEPT ![p] = @ \o Room!Latest]
  <2>1. PostsOf(none) = none
    BY PostsOfEmpty
  <2>2. \A s \in Session : RoomFeed[s] \in Seq(Nat)
    BY SentIsQueue, PostsAreNumbers DEF RoomFeed, Feed
  <2>3. \A x \in Seq(Nat) : x \o none = x
    BY ConcatEmptySeq
  <2>. HIDE DEF none
  <2>4. \A s \in Session \ {p} : RoomFeed'[s] = RoomFeed[s]
    BY <1>6, <1>8, <2>1, <2>2, <2>3
  <2>5. RoomFeed'[p] = RoomFeed[p] \o Room!Latest
    BY <1>1, <1>5, <1>6, <1>8
  <2>6. /\ RoomFeed = [s \in Session |-> RoomFeed[s]]
        /\ RoomFeed' = [s \in Session |-> RoomFeed'[s]]
    BY DEF RoomFeed
  <2>. QED  BY <1>1, <2>4, <2>5, <2>6, Zenon
<1>11. RoomSaid' = RoomSaid
  BY <1>1 DEF RoomSaid
<1>12. p \notin RoomPresent /\ RoomPresent' = RoomPresent \cup {p}
  <2>1. \A s \in Session : Saying(s) <=> s = p
    BY <1>1 DEF Saying, p
  <2>2. \A s \in Session : ~Saying(s)'
    BY <1>1 DEF Saying, Idle
  <2>3. participants[p] > 0
    BY <1>1, <2>1 DEF RoomInv
  <2>. QED  BY <1>1, <2>1, <2>2, <2>3 DEF RoomPresent
<1>. QED  BY <1>1, <1>9, <1>10, <1>11, <1>12 DEF RoomMoves, p

(* The end of a Deliver gives its message to everybody else, once each.    *)
LEMMA PostIsSaid ==
  ASSUME IInv, IoShape, Queues, Counters, Queues', Counters', RoomInv,
         ContentEnd, OnListOnce
  PROVE  io.sess \in Session /\ RoomMoves(io.sess)
<1>. USE GroupAssumption
<1>. DEFINE p == io.sess
            n == Len(posted)
            m == Post(p, n)
            others_ == Session \ {p}
            none == <<>>
            one == <<n>>
            added == FanOut(others_, m)
<1>1. /\ p \in Session /\ io.pc = "post" /\ io.kind = "post"
      /\ participants' = participants /\ posted' = posted
      /\ mutex = "io" /\ mutex' = "free" /\ io' = Idle
      /\ Deliver(added)
      /\ GroupTypeOK
  BY DEF ContentEnd, PostEnd, IoShape, IInv, ExcludeSelf
<1>2. n \in Nat /\ n > 0 /\ n <= MaxPosts /\ MaxPosts \in Nat
  BY <1>1, LenProperties DEF RoomInv, GroupTypeOK
<1>3. m \in Envelope /\ IsPost(m) /\ m.kind # "hello" /\ m.seq = n
  <2>1. m \in Envelope
    BY <1>1, <1>2, DeliveredTypes DEF Kinds, RoomKinds
  <2>2. IsPost(m) /\ m.kind # "hello" /\ m.seq = n
    BY DEF Post, IsPost
  <2>. QED  BY <2>1, <2>2
<1>. HIDE DEF m, n, p
<1>4. added \in [Session -> Seq(Envelope)]
  BY <1>1, <1>3, DeliveredTypes
<1>5. ASSUME NEW s \in Session
      PROVE  /\ \A k \in 1..Len(added[s]) : added[s][k] = m
             /\ Len(added[s]) = IF s \in RoomPresent \ {p} THEN 1 ELSE 0
  <2>1. participants[s] \in {0, 1}
    BY <1>1 DEF GroupTypeOK, OnListOnce
  <2>2. s \in RoomPresent <=> participants[s] = 1
    BY <1>1, <2>1 DEF RoomPresent, Saying
  <2>3. CASE s = p
    <3>1. added[s] = none
      BY <2>3 DEF FanOut
    <3>. QED  BY <2>3, <3>1
  <2>4. CASE s # p
    <3>. DEFINE a == [k \in 1..participants[s] |-> m]
    <3>1. added[s] = a
      BY <2>4 DEF FanOut
    <3>2. Len(a) = participants[s] /\ \A k \in 1..Len(a) : a[k] = m
      BY <2>1
    <3>. HIDE DEF a, added
    <3>. QED  BY <2>1, <2>2, <2>4, <3>1, <3>2
  <2>. QED  BY <2>3, <2>4
<1>. HIDE DEF added
<1>6. ASSUME NEW s \in Session
      PROVE  PostsOf(added[s]) = IF s \in RoomPresent \ {p} THEN one ELSE none
  <2>. DEFINE a == added[s]
  <2>1. /\ a \in Seq(Envelope)
        /\ \A k \in 1..Len(a) : IsPost(a[k]) /\ a[k].seq = n
        /\ Len(a) = IF s \in RoomPresent \ {p} THEN 1 ELSE 0
    BY <1>3, <1>4, <1>5
  <2>. HIDE DEF a
  <2>2. PostsOf(a) = [k \in 1..Len(a) |-> a[k].seq]
    BY <2>1, PostsOfAll
  <2>3. PostsOf(a) = [k \in 1..Len(a) |-> n]
    BY <2>1, <2>2
  <2>4. [k \in 1..1 |-> n] = one /\ [k \in 1..0 |-> n] = none
    OBVIOUS
  <2>. HIDE DEF one, none
  <2>5. CASE s \in RoomPresent \ {p}
    <3>1. Len(a) = 1
      BY <2>1, <2>5
    <3>2. PostsOf(a) = [k \in 1..1 |-> n]
      BY <2>3, <3>1, Zenon
    <3>3. PostsOf(a) = one
      BY <2>4, <3>2, Zenon
    <3>. QED  BY <2>5, <3>3 DEF a
  <2>6. CASE s \notin RoomPresent \ {p}
    <3>1. Len(a) = 0
      BY <2>1, <2>6
    <3>2. PostsOf(a) = [k \in 1..0 |-> n]
      BY <2>3, <3>1, Zenon
    <3>3. PostsOf(a) = none
      BY <2>4, <3>2, Zenon
    <3>. QED  BY <2>6, <3>3 DEF a
  <2>. QED  BY <2>5, <2>6 DEF a
<1>7. Delivers
  BY DEF Delivers
<1>8. /\ \A s \in Session : RoomFeed'[s] = RoomFeed[s] \o PostsOf(added[s])
      /\ RoomWelcomed' = RoomWelcomed \cup {s \in Session : HasHello(added[s])}
  BY <1>1, <1>4, <1>7, FeedsGrow DEF p, n, m
<1>9. RoomWelcomed' = RoomWelcomed
  <2>1. \A s \in Session : ~HasHello(added[s])
    BY <1>3, <1>5 DEF HasHello
  <2>. QED  BY <1>8, <2>1
<1>10. RoomSaid < MaxPosts /\ RoomSaid' = RoomSaid + 1 /\ RoomSaid' = n
  BY <1>1, <1>2 DEF RoomSaid, n
<1>11. RoomFeed' = [q \in Session |->
         IF q \in RoomPresent \ {p} THEN Append(RoomFeed[q], n)
                                    ELSE RoomFeed[q]]
  <2>1. \A s \in Session : RoomFeed[s] \in Seq(Nat)
    BY SentIsQueue, PostsAreNumbers DEF RoomFeed, Feed
  <2>2. \A x \in Seq(Nat) : x \o none = x /\ x \o one = Append(x, n)
    BY <1>2, ConcatEmptySeq, AppendIsConcat
  <2>. HIDE DEF none, one
  <2>3. \A s \in Session :
          RoomFeed'[s] = IF s \in RoomPresent \ {p} THEN Append(RoomFeed[s], n)
                                                    ELSE RoomFeed[s]
    BY <1>6, <1>8, <2>1, <2>2
  <2>4. RoomFeed' = [s \in Session |-> RoomFeed'[s]]
    BY DEF RoomFeed
  <2>. QED  BY <2>3, <2>4, Zenon
<1>12. RoomPresent' = RoomPresent
  <2>1. \A s \in Session : ~Saying(s) /\ ~Saying(s)'
    BY <1>1 DEF Saying, Idle
  <2>. QED  BY <1>1, <2>1 DEF RoomPresent
<1>. QED  BY <1>1, <1>9, <1>10, <1>11, <1>12 DEF RoomMoves, p

(* A notice, a message for one account or an answer is nothing to the room. *)
LEMMA NoticesAreQuiet ==
  ASSUME IInv, IoShape, Queues, Counters, Queues', Counters',
         \/ Notify
         \/ \E s \in Session : \/ SayHelloFails(s)
                               \/ Answer(s)
                               \/ \E a \in Account : Direct(s, a)
  PROVE  UNCHANGED <<RoomWelcomed, RoomFeed, RoomSaid>>
<1>0. GroupTypeOK /\ Delivers
  BY DEF IInv, Delivers
<1>1. CASE Notify
  <2>. DEFINE m == Note(io.kind, io.sess)
              others_ == ExcludeSelf(io.sess)
              added == FanOut(others_, m)
  <2>1. /\ io.sess \in Session /\ io.kind \in {"online", "offline", "setting"}
        /\ posted' = posted /\ mutex' = mutex
        /\ Deliver(added)
    BY <1>1 DEF Notify, IoShape, DeliverNoHis
  <2>2. m \in Envelope /\ m.kind \notin {"hello", "post"}
    <3>1. m \in Envelope
      BY <1>0, <2>1, DeliveredTypes DEF Kinds, RoomKinds
    <3>2. m.kind = io.kind
      BY DEF Note
    <3>. QED  BY <2>1, <3>1, <3>2
  <2>3. others_ \in SUBSET Session
    BY DEF ExcludeSelf
  <2>. HIDE DEF m, others_
  <2>4. /\ added \in [Session -> Seq(Envelope)]
        /\ \A s \in Session : Quiet(added[s])
    BY <1>0, <2>2, <2>3, DeliveredTypes, QuietFanOut
  <2>. HIDE DEF added
  <2>. QED  BY <1>0, <2>1, <2>4, QuietDelivery DEF RoomSaid, added, m, others_
<1>2. ASSUME NEW s \in Session, SayHelloFails(s) \/ Answer(s)
      PROVE  UNCHANGED <<RoomWelcomed, RoomFeed, RoomSaid>>
  <2>1. PICK kind \in {"error", "answer"} : Deliver(To(s, <<Note(kind, s)>>))
    BY <1>2 DEF SayHelloFails, Answer
  <2>2. posted' = posted /\ mutex' = mutex
    BY <1>2 DEF SayHelloFails, Answer, Join, groupVars
  <2>. DEFINE m == Note(kind, s)
              added == To(s, <<m>>)
  <2>3. m \in Envelope /\ m.kind \notin {"hello", "post"}
    <3>1. m \in Envelope
      BY <1>0, DeliveredTypes DEF Kinds
    <3>2. m.kind = kind
      BY DEF Note
    <3>. QED  BY <3>1, <3>2
  <2>. HIDE DEF m
  <2>4. <<m>> \in Seq(Envelope)
    BY <2>3
  <2>5. /\ added \in [Session -> Seq(Envelope)]
        /\ \A t \in Session : Quiet(added[t])
    BY <1>0, <2>3, <2>4, DeliveredTypes, QuietTo
  <2>6. Deliver(added)
    BY <2>1 DEF m
  <2>. HIDE DEF added
  <2>. QED  BY <1>0, <2>2, <2>5, <2>6, QuietDelivery DEF RoomSaid
<1>3. ASSUME NEW s \in Session, NEW a \in Account, Direct(s, a)
      PROVE  UNCHANGED <<RoomWelcomed, RoomFeed, RoomSaid>>
  <2>. DEFINE m == Note("direct", s)
              r == {t \in Session : account[t] = a}
              added == FanOut(r, m)
  <2>1. posted' = posted /\ mutex' = mutex /\ Deliver(added)
    BY <1>3 DEF Direct, groupVars
  <2>2. m \in Envelope /\ m.kind \notin {"hello", "post"} /\ r \in SUBSET Session
    <3>1. m \in Envelope
      BY <1>0, DeliveredTypes DEF Kinds, RoomKinds
    <3>2. m.kind = "direct"
      BY DEF Note
    <3>. QED  BY <3>1, <3>2
  <2>. HIDE DEF m, r
  <2>3. /\ added \in [Session -> Seq(Envelope)]
        /\ \A t \in Session : Quiet(added[t])
    BY <1>0, <2>2, DeliveredTypes, QuietFanOut
  <2>. HIDE DEF added
  <2>. QED  BY <1>0, <2>1, <2>3, QuietDelivery DEF RoomSaid
<1>. QED  BY <1>1, <1>2, <1>3

LEMMA StepOfRoom ==
  ASSUME IInv, IoShape, Queues, Counters, Queues', Counters', RoomInv,
         [Next]_vars, ContentEnd => OnListOnce, HelloReply => HistoryIntact
  PROVE  Room!Next \/ UNCHANGED Room!vars
<1>. USE GroupAssumption
<1>0. /\ GroupTypeOK /\ HoldsLock
      /\ posted \in Seq(Author) /\ Len(posted) \in Nat
      /\ participants \in [Session -> Nat]
  BY LenProperties DEF IInv, GroupTypeOK
<1>1. CASE HelloReply
  BY <1>1, ReplyEnters, MovesAreSteps
<1>2. CASE ContentEnd
  BY <1>2, PostIsSaid, MovesAreSteps
<1>3. CASE Notify
  <2>1. UNCHANGED <<RoomWelcomed, RoomFeed, RoomSaid>>
    BY <1>3, NoticesAreQuiet
  <2>2. participants' = participants /\ \A s \in Session : Saying(s)' <=> Saying(s)
    BY <1>3 DEF Notify, DeliverNoHis, IoShape, Handler, Idle, Saying
  <2>3. RoomPresent' = RoomPresent
    BY <2>2 DEF RoomPresent
  <2>. QED  BY <2>1, <2>3, StutterInRoom
<1>4. ASSUME NEW s \in Session, SayHelloFails(s)
      PROVE  Room!Next \/ UNCHANGED Room!vars
  <2>1. UNCHANGED <<RoomWelcomed, RoomFeed, RoomSaid>>
    BY <1>4, NoticesAreQuiet
  <2>2. /\ \A t \in Session : ~Saying(t) /\ ~Saying(t)'
        /\ participants' = [participants EXCEPT ![s] = @ + 1]
    BY <1>4 DEF SayHelloFails, Join, Reading, Saying, Idle
  <2>3. RoomPresent' = RoomPresent \cup {s}
    BY <1>0, <2>2 DEF RoomPresent
  <2>4. CASE s \in RoomPresent
    <3>1. RoomPresent' = RoomPresent
      BY <2>3, <2>4
    <3>. QED  BY <2>1, <3>1, StutterInRoom
  <2>5. CASE s \notin RoomPresent
    <3>1. RoomMoves(s)
      BY <2>1, <2>3, <2>5 DEF RoomMoves
    <3>. QED  BY <3>1, MovesAreSteps
  <2>. QED  BY <2>4, <2>5
<1>5. ASSUME NEW s \in Session,
             Answer(s) \/ \E a \in Account : Direct(s, a)
      PROVE  UNCHANGED Room!vars
  <2>1. UNCHANGED <<RoomWelcomed, RoomFeed, RoomSaid>>
    BY <1>5, NoticesAreQuiet
  <2>2. UNCHANGED <<participants, io>>
    BY <1>5 DEF Answer, Direct, groupVars
  <2>3. RoomPresent' = RoomPresent
    BY <2>2 DEF RoomPresent, Saying
  <2>. QED  BY <2>1, <2>3, StutterInRoom
<1>6. CASE ~Delivers
  <2>1. UNCHANGED <<RoomWelcomed, RoomFeed>>
    BY <1>6, NothingSent
  <2>2. ASSUME NEW s \in Session, RoomPresent' = RoomPresent \ {s},
               RoomSaid' = RoomSaid
        PROVE  Room!Next
    <3>1. RoomMoves(s)
      BY <2>1, <2>2 DEF RoomMoves
    <3>. QED  BY <3>1, MovesAreSteps
  <2>3. ASSUME UNCHANGED <<RoomSaid, RoomPresent>>
        PROVE  UNCHANGED Room!vars
    BY <2>1, <2>3, StutterInRoom
  <2>4. ASSUME NEW s \in Session, NEW a \in Account, NEW i \in Icon,
             SayHello(s, a, i)
        PROVE  Room!Next
    <3>1. /\ participants' = [participants EXCEPT ![s] = @ + 1]
          /\ posted' = posted /\ mutex' = mutex
          /\ \A t \in Session : ~Saying(t) /\ (Saying(t)' <=> t = s)
      BY <2>4 DEF SayHello, Join, Reading, Continue, Saying, Idle
    <3>2. RoomPresent' = RoomPresent \ {s}
      BY <1>0, <3>1 DEF RoomPresent
    <3>3. RoomSaid' = RoomSaid
      BY <3>1 DEF RoomSaid
    <3>. QED  BY <2>2, <3>2, <3>3
  <2>5. ASSUME NEW s \in Session,
               WriteFail(s) \/ (ReadFailEnd /\ s = io.sess)
        PROVE  Room!Next
    <3>1. /\ participants' = [participants EXCEPT ![s] = 0]
          /\ posted' = posted /\ mutex' = mutex
          /\ \A t \in Session : ~Saying(t) /\ ~Saying(t)'
      BY <2>5 DEF WriteFail, ReadFailEnd, Leave, NodesLeft, IoShape, Saying, Idle
    <3>2. RoomPresent' = RoomPresent \ {s}
      BY <1>0, <3>1 DEF RoomPresent
    <3>3. RoomSaid' = RoomSaid
      BY <3>1 DEF RoomSaid
    <3>. QED  BY <2>2, <3>2, <3>3
  <2>6. ASSUME NEW s \in Session, NEW a \in Author, NEW i \in Icon,
             Content(s, a, i)
        PROVE  UNCHANGED Room!vars
    <3>1. /\ participants' = participants
          /\ posted' = Append(posted, a)
          /\ mutex = "free" /\ mutex' = "io"
          /\ \A t \in Session : ~Saying(t) /\ ~Saying(t)'
      BY <2>6 DEF Content, PostBegin, Reading, Continue, Saying, Idle
    <3>3. Len(posted') = Len(posted) + 1
      BY <1>0, <3>1, AppendProperties
    <3>4. RoomSaid' = RoomSaid
      BY <1>0, <3>1, <3>3 DEF RoomSaid
    <3>5. RoomPresent' = RoomPresent
      BY <3>1 DEF RoomPresent
    <3>. QED  BY <2>3, <3>4, <3>5
  <2>7. ASSUME NEW s \in Session,
               \/ ReadFail(s)
               \/ \E a \in Account, i \in Icon, u \in Updater :
                  SettingIcon(s, a, i, u)
        PROVE  UNCHANGED Room!vars
    <3>1. UNCHANGED <<participants, posted, mutex>> /\ io = Idle
      BY <2>7 DEF ReadFail, SettingIcon, Reading, Spawn, groupVars
    <3>2. io'.kind \in {"setting", "offline"}
      BY <2>7 DEF ReadFail, SettingIcon, Continue, AfterReadError
    <3>3. \A t \in Session : ~Saying(t) /\ ~Saying(t)'
      BY <3>1, <3>2 DEF Saying, Idle
    <3>4. UNCHANGED <<RoomSaid, RoomPresent>>
      BY <3>1, <3>3 DEF RoomSaid, RoomPresent
    <3>. QED  BY <2>3, <3>4
  <2>8. ASSUME UNCHANGED <<participants, posted, io>>,
               mutex' = "io" <=> mutex = "io"
        PROVE  UNCHANGED Room!vars
    <3>1. UNCHANGED <<RoomSaid, RoomPresent>>
      BY <2>8 DEF RoomSaid, RoomPresent, Saying
    <3>. QED  BY <2>3, <3>1
  <2>9. ASSUME NEW s \in Session,
               Accept(s) \/ WriteDone(s) \/ IgnoreLine(s) \/ PeerDown(s)
        PROVE  UNCHANGED Room!vars
    <3>1. UNCHANGED <<participants, posted, io, mutex>>
      BY <2>9 DEF Accept, WriteDone, IgnoreLine, PeerDown, groupVars
    <3>. QED  BY <2>8, <3>1
  <2>10. ASSUME NEW u \in Updater, UpdaterStep(u) PROVE UNCHANGED Room!vars
    <3>1. /\ UNCHANGED <<io, posted, participants>>
          /\ \/ mutex' = mutex
             \/ mutex = "free" /\ mutex' = u
             \/ thread[u].pc = "write" /\ mutex' = "free"
      BY <2>10 DEF UpdaterStep, Update, UpdateStart, UpdateTest, UpdateRead,
        UpdateThrow, UpdateTypeError, UpdateLock, UpdateWrite, UpdateIcons, At
    <3>2. thread[u].pc = "write" => mutex = u
      BY <1>0 DEF HoldsLock
    <3>3. mutex' = "io" <=> mutex = "io"
      BY <3>1, <3>2
    <3>. QED  BY <2>8, <3>1, <3>3
  <2>11. CASE UNCHANGED vars
    BY <2>8, <2>11 DEF vars, groupVars
  <2>12. ReadFailEnd => io.sess \in Session
    BY DEF ReadFailEnd, IoShape
  <2>. QED  BY <1>1, <1>2, <1>3, <1>4, <1>5, <2>4, <2>5, <2>6, <2>7, <2>9,
               <2>10, <2>11, <2>12 DEF Next, IoStep
<1>7. CASE Delivers
  BY <1>1, <1>2, <1>3, <1>4, <1>5, <1>7 DEF Delivers
<1>. QED  BY <1>6, <1>7

-----------------------------------------------------------------------------
LEMMA RoomInit == Init => Room!Init /\ RoomInv
<1>. SUFFICES ASSUME Init PROVE Room!Init /\ RoomInv
  OBVIOUS
<1>. USE GroupAssumption
<1>. DEFINE none == <<>>
<1>1. /\ participants = [s \in Session |-> 0] /\ posted = none
      /\ mutex = "free" /\ io = Idle
      /\ wire = [s \in Session |-> none] /\ messages = [s \in Session |-> none]
  BY DEF Init, GroupInit
<1>2. Len(none) = 0 /\ none \o none = none /\ DOMAIN none = {}
  OBVIOUS
<1>3. PostsOf(none) = none
  BY PostsOfEmpty
<1>. HIDE DEF none
<1>4. \A s \in Session : Sent(s) = none
  BY <1>1, <1>2 DEF Sent
<1>5. RoomInv
  BY <1>1, <1>2 DEF RoomInv, Idle, Saying
<1>6. /\ RoomSaid = 0 /\ RoomPresent = {} /\ RoomWelcomed = {}
      /\ RoomFeed = [s \in Session |-> none]
  BY <1>1, <1>2, <1>3, <1>4
  DEF RoomSaid, RoomPresent, RoomWelcomed, RoomFeed, Feed
<1>7. Room!Init
  BY <1>6 DEF Room!Init, RoomSaid, RoomPresent, RoomWelcomed, RoomFeed, none
<1>. QED  BY <1>5, <1>7

(* What is known of the server whenever it takes a step.                   *)
LEMMA RoomInvariant ==
  Spec => [](IInv /\ IoShape /\ Queues /\ Counters /\ RoomInv)
<1>1. Init => Counters
  BY DEF Init, Counters
<1>2. IInv /\ IoShape /\ RoomInv /\ [Next]_vars => RoomInv'
  BY RoomInvNext
<1>3. Spec => []IInv
  BY ServerUsesGroup, Inductive, PTL
<1>4. Spec => []Counters
  BY <1>1, CountersNext, QueuesInvariant, PTL DEF Spec
<1>. QED  BY <1>2, <1>3, <1>4, RoomInit, QueuesInvariant, PTL DEF Spec

(* Whatever clients and icon changes do, a step of the server is a step of *)
(* the room or none, but for the end of a Deliver over a list that holds a *)
(* session twice and an answer out of a damaged history.                   *)
THEOREM StepsOfRoom == Spec => RoomSteps
<1>1. /\ IInv /\ IoShape /\ Queues /\ Counters /\ RoomInv
      /\ (IInv /\ IoShape /\ Queues /\ Counters /\ RoomInv)'
      /\ [Next]_vars
      => [(ContentEnd => OnListOnce) /\ (HelloReply => HistoryIntact)
            => Room!Next \/ UNCHANGED Room!vars]_vars
  BY StepOfRoom
<1>. QED  BY <1>1, RoomInvariant, PTL DEF Spec, RoomSteps

(* So the server implements the room as long as nobody says hello while on *)
(* the list and no late rewrite damages the history.                       *)
THEOREM ImplementsWhileIntact ==
  Spec /\ []OnListOnce /\ []HistoryIntact => ImplementsRoom
<1>1. /\ IInv /\ IoShape /\ Queues /\ Counters /\ RoomInv
      /\ (IInv /\ IoShape /\ Queues /\ Counters /\ RoomInv)'
      /\ OnListOnce /\ HistoryIntact
      /\ [Next]_vars
      => [Room!Next]_(Room!vars)
  BY StepOfRoom
<1>2. Init => Room!Init
  BY RoomInit
<1>. QED  BY <1>1, <1>2, RoomInvariant, PTL DEF Spec, ImplementsRoom, Room!Spec

(* In particular while no client says hello twice and either nobody        *)
(* changes his icon or no more is said than the history holds.             *)
THEOREM ImplementsQuietRoom ==
  ASSUME MaxJoins <= 1, Updater = {} \/ MaxPosts <= MaxRecent
  PROVE  Spec => ImplementsRoom
<1>. USE GroupAssumption
<1>1. GroupTypeOK /\ OnListOnce /\ [GroupNext]_groupVars => OnListOnce'
  <2>. SUFFICES ASSUME GroupTypeOK, OnListOnce, [GroupNext]_groupVars
                PROVE  OnListOnce'
    OBVIOUS
  <2>0. participants \in [Session -> Nat] /\ \A s \in Session : participants[s] <= 1
    BY DEF GroupTypeOK, OnListOnce
  <2>1. ASSUME NEW s \in Session, Join(s) PROVE OnListOnce'
    <3>1. /\ participants[s] < 1
          /\ participants' = [participants EXCEPT ![s] = @ + 1]
      BY <2>0, <2>1 DEF Join
    <3>2. \A t \in Session : participants'[t] <= 1
      BY <2>0, <3>1
    <3>. QED  BY <3>2 DEF OnListOnce
  <2>2. ASSUME NEW s \in Session, Leave(s) PROVE OnListOnce'
    <3>1. \A t \in Session : participants'[t] <= 1
      BY <2>0, <2>2 DEF Leave, NodesLeft
    <3>. QED  BY <3>1 DEF OnListOnce
  <2>3. CASE UNCHANGED participants
    BY <2>3 DEF OnListOnce
  <2>. QED
    BY <2>1, <2>2, <2>3
    DEF GroupNext, RoomStep, Flush, PostBegin, PostEnd, DeliverNoHis, Spawn,
        UpdateStart, Update, UpdateTest, UpdateRead, UpdateThrow, UpdateTypeError, UpdateLock,
        UpdateWrite, UpdateIcons, groupVars
<1>2. GroupInit => OnListOnce
  <2>. SUFFICES ASSUME GroupInit, NEW s \in Session PROVE participants[s] <= 1
    BY DEF OnListOnce
  <2>1. participants[s] = 0
    BY DEF GroupInit
  <2>. QED  BY <2>1
<1>3. Spec => []OnListOnce
  BY <1>1, <1>2, ServerUsesGroup, TypeCorrect, PTL DEF GroupSpec
<1>4. CASE Updater = {}
  <2>1. GroupInit => HistoryIntact
    BY DEF GroupInit, HistoryIntact
  <2>2. /\ HistoryIntact
        /\ [HistoryIntact /\ ~HistoryIntact' =>
              \E u \in Updater : UpdateWrite(u) /\ MovedSinceRead(u)]_groupVars
        => HistoryIntact'
    BY <1>4 DEF HistoryIntact, Trimmed, groupVars
  <2>3. GroupSpec => []HistoryIntact
    BY <2>1, <2>2, DamagedByLateWrites, PTL DEF GroupSpec, OnlyLateWritesDamage
  <2>. QED  BY <1>3, <2>3, ServerUsesGroup, ImplementsWhileIntact, PTL
<1>5. CASE MaxPosts <= MaxRecent
  <2>1. /\ IInv /\ RoomInv /\ NothingLostBeforeLimit => HistoryIntact
    <3>. SUFFICES ASSUME IInv, RoomInv, NothingLostBeforeLimit
                  PROVE  HistoryIntact
      OBVIOUS
    <3>1. Len(posted) \in Nat /\ Len(posted) <= MaxPosts
      BY LenProperties DEF IInv, GroupTypeOK, RoomInv
    <3>2. Len(posted) <= MaxRecent
      BY <1>5, <3>1
    <3>3. /\ Len(recentMessages) = Len(posted)
          /\ \A k \in DOMAIN recentMessages : recentMessages[k].seq = k
      BY <3>2 DEF NothingLostBeforeLimit
    <3>4. Trimmed = 0
      BY <3>1, <3>3 DEF Trimmed
    <3>5. DOMAIN recentMessages \in SUBSET Nat
      <4>1. recentMessages \in Seq(Message)
        BY DEF IInv, GroupTypeOK
      <4>. QED  BY <4>1, LenProperties
    <3>. QED  BY <3>3, <3>4, <3>5 DEF HistoryIntact
  <2>2. Spec => []HistoryIntact
    BY <2>1, RoomInvariant, ServerUsesGroup, NothingLost, PTL
  <2>. QED  BY <1>3, <2>2, ImplementsWhileIntact, PTL
<1>. QED  BY <1>4, <1>5
=============================================================================
