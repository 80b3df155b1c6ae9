--------------------------- MODULE ConnectionProofs ---------------------------
(***************************************************************************)
(* Theorems about Connection, for any number of endpoints and lines: its   *)
(* variables keep their types, one write is under way at a time, and it    *)
(* implements Pipe.                                                        *)
(***************************************************************************)
EXTENDS Connection, SequenceTheorems, TLAPS

-----------------------------------------------------------------------------
(* The inductive invariant.                                                *)

(* An error is reported to a write that is under way.                      *)
ErrorsHaveWrites == failing => writes > 0

(* As long as nothing broke, what was written, what is queued and what is  *)
(* still to be run are all the lines, one after the other.                 *)
InLine ==
  /\ Len(wire) + Len(messages) + Len(strand) = posted
  /\ \A k \in 1..Len(messages) : messages[k] = Len(wire) + k
  /\ \A k \in 1..Len(strand) : strand[k] = Len(wire) + Len(messages) + k

IInv ==
  /\ ConnectionTypeOK
  /\ OneWriteAtATime
  /\ ErrorsHaveWrites
  /\ ~Broken => InLine

-----------------------------------------------------------------------------
(* Sequences of numbers.                                                   *)

LEMMA AppendNat ==
  ASSUME NEW s \in Seq(Nat), NEW n \in Nat
  PROVE  /\ Append(s, n) \in Seq(Nat)
         /\ Append(s, n) # <<>>
         /\ Len(Append(s, n)) = Len(s) + 1
         /\ \A k \in 1..Len(s) : Append(s, n)[k] = s[k]
         /\ Append(s, n)[Len(s) + 1] = n
BY AppendProperties

LEMMA TailNat ==
  ASSUME NEW s \in Seq(Nat), s # <<>>
  PROVE  /\ Tail(s) \in Seq(Nat)
         /\ Head(s) \in Nat
         /\ Head(s) = s[1]
         /\ Len(s) >= 1
         /\ Len(Tail(s)) = Len(s) - 1
         /\ \A k \in 1..Len(s) - 1 : Tail(s)[k] = s[k + 1]
         /\ (Tail(s) = <<>>) <=> (Len(s) = 1)
<1>1. Tail(s) \in Seq(Nat) /\ Head(s) \in Nat /\ Len(Tail(s)) = Len(s) - 1
  BY HeadTailProperties
<1>2. Len(s) \in Nat /\ Len(s) # 0
  BY EmptySeq
<1>3. (Tail(s) = <<>>) <=> (Len(Tail(s)) = 0)
  BY <1>1, EmptySeq
<1>. QED  BY <1>1, <1>2, <1>3

LEMMA EmptyNat ==
  ASSUME NEW s \in Seq(Nat)
  PROVE  /\ Len(s) \in Nat
         /\ (s = <<>>) <=> (Len(s) = 0)
BY EmptySeq

-----------------------------------------------------------------------------
LEMMA InitIInv == Init => IInv
<1>. SUFFICES ASSUME Init PROVE IInv
  OBVIOUS
<1>0. Greeting \in Nat
  BY DEF Greeting
<1>1. /\ strand \in Seq(Nat)
      /\ Len(strand) = Greeting
      /\ \A k \in 1..Greeting : strand[k] = k
  <2>1. strand = [k \in 1..Greeting |-> k]
    BY DEF Init
  <2>2. \A k \in 1..Greeting : k \in Nat
    BY <1>0
  <2>3. strand \in Seq(Nat) /\ Len(strand) = Greeting
    BY <1>0, <2>1, <2>2, IsASeq
  <2>. QED  BY <2>1, <2>3
<1>2. Addresses - 1 \in Nat
  BY ConnectionAssumption DEF Addresses
<1>3. ConnectionTypeOK
  BY <1>0, <1>1, <1>2, EmptyNat, EmptySeq DEF Init, ConnectionTypeOK
<1>4. InLine
  BY <1>0, <1>1 DEF Init, InLine
<1>. QED  BY <1>3, <1>4 DEF Init, IInv, OneWriteAtATime, ErrorsHaveWrites

(* Appending to the strand.                                                *)
LEMMA PostIInv ==
  ASSUME IInv, Post, UNCHANGED <<messages, wire>>
  PROVE  /\ posted' \in Nat /\ strand' \in Seq(Nat)
         /\ InLine => InLine'
<1>1. strand \in Seq(Nat) /\ posted \in Nat /\ posted' = posted + 1
  BY DEF IInv, ConnectionTypeOK, Post
<1>2. strand' = Append(strand, posted + 1)
  BY <1>1 DEF Post
<1>3. /\ strand' \in Seq(Nat)
      /\ Len(strand') = Len(strand) + 1
      /\ \A k \in 1..Len(strand) : strand'[k] = strand[k]
      /\ strand'[Len(strand) + 1] = posted + 1
  BY <1>1, <1>2, AppendNat
<1>4. Len(strand) \in Nat /\ Len(messages) \in Nat /\ Len(wire) \in Nat
  BY EmptyNat DEF IInv, ConnectionTypeOK
<1>5. ASSUME InLine PROVE InLine'
  <2>1. Len(wire) + Len(messages) + Len(strand) = posted
    BY <1>5 DEF InLine
  <2>2. ASSUME NEW k \in 1..Len(strand) + 1
        PROVE  strand'[k] = Len(wire) + Len(messages) + k
    <3>1. CASE k \in 1..Len(strand)
      BY <1>3, <1>5, <3>1 DEF InLine
    <3>2. CASE k = Len(strand) + 1
      BY <1>1, <1>3, <1>4, <2>1, <3>2
    <3>. QED  BY <1>4, <3>1, <3>2
  <2>. QED  BY <1>1, <1>3, <1>4, <1>5, <2>1, <2>2 DEF InLine
<1>. QED  BY <1>1, <1>3, <1>5

LEMMA NextIInv == IInv /\ [Next]_vars => IInv'
<1>. SUFFICES ASSUME IInv, [Next]_vars PROVE IInv'
  OBVIOUS
<1>. USE DEF IInv
<1>0. Len(strand) \in Nat /\ Len(messages) \in Nat /\ Len(wire) \in Nat
  BY EmptyNat DEF ConnectionTypeOK
<1>1. CASE AttemptSucceeds
  <2>1. posted' \in Nat /\ strand' \in Seq(Nat) /\ (InLine => InLine')
    <3>1. CASE Post
      BY <1>1, <3>1, PostIInv DEF AttemptSucceeds
    <3>2. CASE PostNothing
      BY <1>1, <3>2 DEF AttemptSucceeds, PostNothing, ConnectionTypeOK, InLine
    <3>. QED  BY <1>1, <3>1, <3>2 DEF AttemptSucceeds
  <2>. QED  BY <1>1, <2>1 DEF AttemptSucceeds, ConnectionTypeOK,
    OneWriteAtATime, ErrorsHaveWrites, Broken
<1>2. CASE AttemptFails
  BY <1>2 DEF AttemptFails, ConnectionTypeOK, OneWriteAtATime,
    ErrorsHaveWrites, Broken, InLine
<1>3. CASE SendAsync
  <2>1. posted' \in Nat /\ strand' \in Seq(Nat) /\ (InLine => InLine')
    BY <1>3, PostIInv DEF SendAsync
  <2>. QED  BY <1>3, <2>1 DEF SendAsync, ConnectionTypeOK, OneWriteAtATime,
    ErrorsHaveWrites, Broken
<1>4. CASE RunPosted
  <2>1. /\ strand' \in Seq(Nat) /\ Len(strand') = Len(strand) - 1
        /\ Len(strand) >= 1 /\ Head(strand) = strand[1] /\ Head(strand) \in Nat
        /\ \A k \in 1..Len(strand) - 1 : strand'[k] = strand[k + 1]
    BY <1>4, TailNat DEF RunPosted, ConnectionTypeOK
  <2>2. /\ messages' \in Seq(Nat) /\ messages' # <<>>
        /\ Len(messages') = Len(messages) + 1
        /\ \A k \in 1..Len(messages) : messages'[k] = messages[k]
        /\ messages'[Len(messages) + 1] = Head(strand)
    BY <1>4, <2>1, AppendNat DEF RunPosted, ConnectionTypeOK
  <2>3. (messages = <<>>) <=> (Len(messages) = 0)
    BY EmptyNat DEF ConnectionTypeOK
  <2>4. OneWriteAtATime' /\ ErrorsHaveWrites' /\ failing' \in BOOLEAN
    <3>1. CASE messages = <<>>
      <4>1. writes' = 1 /\ failing' = ~Usable
        BY <1>4, <2>3, <3>1 DEF RunPosted, NoneUnderWay, OneWriteAtATime
      <4>. QED  BY <2>2, <4>1 DEF OneWriteAtATime, ErrorsHaveWrites, Usable
    <3>2. CASE messages # <<>>
      <4>1. writes' = 1 /\ failing' = failing
        BY <1>4, <2>3, <3>2 DEF RunPosted, NoneUnderWay, OneWriteAtATime
      <4>. QED  BY <2>2, <4>1 DEF OneWriteAtATime, ErrorsHaveWrites,
        ConnectionTypeOK
    <3>. QED  BY <3>1, <3>2
  <2>5. ConnectionTypeOK'
    BY <1>4, <2>1, <2>2, <2>4 DEF RunPosted, OneWriteAtATime, ConnectionTypeOK
  <2>6. Broken => Broken'
    BY <1>4, <2>3 DEF RunPosted, NoneUnderWay, Broken, OneWriteAtATime,
      ErrorsHaveWrites
  <2>7. ASSUME InLine PROVE InLine'
    <3>1. wire' = wire /\ posted' = posted
      BY <1>4 DEF RunPosted
    <3>2. ASSUME NEW k \in 1..Len(messages) + 1
          PROVE  messages'[k] = Len(wire) + k
      <4>1. CASE k \in 1..Len(messages)
        BY <2>2, <2>7, <4>1 DEF InLine
      <4>2. CASE k = Len(messages) + 1
        BY <1>0, <2>1, <2>2, <2>7, <4>2 DEF InLine
      <4>. QED  BY <1>0, <4>1, <4>2
    <3>3. ASSUME NEW k \in 1..Len(strand) - 1
          PROVE  strand'[k] = Len(wire) + Len(messages) + 1 + k
      BY <1>0, <2>1, <2>7 DEF InLine
    <3>. QED  BY <1>0, <2>1, <2>2, <2>7, <3>1, <3>2, <3>3 DEF InLine
  <2>. QED  BY <2>4, <2>5, <2>6, <2>7
<1>5. CASE WriteDone
  <2>1. /\ messages # <<>> /\ writes = 1
    BY <1>5 DEF WriteDone, OneWriteAtATime, ConnectionTypeOK
  <2>2. /\ messages' \in Seq(Nat) /\ Len(messages') = Len(messages) - 1
        /\ Len(messages) >= 1 /\ Head(messages) = messages[1]
        /\ Head(messages) \in Nat
        /\ \A k \in 1..Len(messages) - 1 : messages'[k] = messages[k + 1]
        /\ (messages' = <<>>) <=> (Len(messages) = 1)
    BY <1>5, <2>1, TailNat DEF WriteDone, ConnectionTypeOK
  <2>3. wire' \in Seq(Nat) /\ Len(wire') = Len(wire) + 1
    BY <1>5, <2>2, AppendNat DEF WriteDone, ConnectionTypeOK
  <2>4. OneWriteAtATime' /\ ErrorsHaveWrites'
    BY <1>0, <1>5, <2>1, <2>2 DEF WriteDone, WritesLeft, OneWriteAtATime,
      ErrorsHaveWrites
  <2>5. ConnectionTypeOK'
    BY <1>5, <2>2, <2>3, <2>4 DEF WriteDone, OneWriteAtATime, ConnectionTypeOK
  <2>6. Broken' <=> Broken
    BY <1>5 DEF WriteDone, Broken
  <2>7. ASSUME InLine PROVE InLine'
    BY <1>0, <1>5, <2>2, <2>3, <2>7 DEF InLine, WriteDone
  <2>. QED  BY <2>4, <2>5, <2>6, <2>7
<1>6. CASE WriteBreaks
  BY <1>6 DEF WriteBreaks, ConnectionTypeOK, OneWriteAtATime,
    ErrorsHaveWrites, Broken
<1>7. CASE WriteError
  <2>1. /\ messages # <<>> /\ writes = 1
    BY <1>7 DEF WriteError, OneWriteAtATime, ConnectionTypeOK
  <2>2. /\ messages' \in Seq(Nat)
        /\ Len(messages) >= 1
        /\ (messages' = <<>>) <=> (Len(messages) = 1)
    BY <1>7, <2>1, TailNat DEF WriteError, ConnectionTypeOK
  <2>3. OneWriteAtATime' /\ ErrorsHaveWrites' /\ failing' \in BOOLEAN
    <3>1. writes' = IF messages' = <<>> THEN 0 ELSE 1
      BY <1>0, <1>7, <2>1, <2>2 DEF WriteError, WritesLeft
    <3>2. failing' = (writes' > 0 /\ ~Usable')
      BY <1>7 DEF WriteError
    <3>. QED  BY <3>1, <3>2 DEF OneWriteAtATime, ErrorsHaveWrites
  <2>4. ConnectionTypeOK' /\ Broken'
    BY <1>7, <2>2, <2>3 DEF WriteError, Closed, OneWriteAtATime,
      ConnectionTypeOK, Broken
  <2>. QED  BY <2>3, <2>4
<1>8. CASE ReadLine
  <2>1. posted' \in Nat /\ strand' \in Seq(Nat) /\ (InLine => InLine')
    <3>1. CASE Post
      BY <1>8, <3>1, PostIInv DEF ReadLine
    <3>2. CASE PostNothing
      BY <1>8, <3>2 DEF ReadLine, PostNothing, ConnectionTypeOK, InLine
    <3>. QED  BY <1>8, <3>1, <3>2 DEF ReadLine
  <2>. QED  BY <1>8, <2>1 DEF ReadLine, ReadAgain, ConnectionTypeOK,
    OneWriteAtATime, ErrorsHaveWrites, Broken
<1>9. CASE ReadFails
  BY <1>9 DEF ReadFails, Stop, DoDisconnect, ConnectionTypeOK, OneWriteAtATime,
    ErrorsHaveWrites, Broken
<1>10. CASE SigPipe
  BY <1>10 DEF SigPipe, Stop, DoDisconnect, ConnectionTypeOK, OneWriteAtATime,
    ErrorsHaveWrites, Broken
<1>11. CASE SigTerm
  BY <1>11 DEF SigTerm, ConnectionTypeOK, OneWriteAtATime,
    ErrorsHaveWrites, Broken, InLine
<1>12. CASE RunReturns
  BY <1>12 DEF RunReturns, ConnectionTypeOK, OneWriteAtATime,
    ErrorsHaveWrites, Broken, InLine
<1>13. CASE PeerDown
  BY <1>13 DEF PeerDown, ConnectionTypeOK, OneWriteAtATime,
    ErrorsHaveWrites, Broken, InLine
<1>14. CASE TypeLine
  <2>1. posted' \in Nat /\ strand' \in Seq(Nat) /\ (InLine => InLine')
    <3>1. CASE Post
      BY <1>14, <3>1, PostIInv DEF TypeLine
    <3>2. CASE PostNothing
      BY <1>14, <3>2 DEF TypeLine, PostNothing, ConnectionTypeOK, InLine
    <3>. QED  BY <1>14, <3>1, <3>2 DEF TypeLine
  <2>. QED  BY <1>14, <2>1 DEF TypeLine, ConnectionTypeOK, OneWriteAtATime,
    ErrorsHaveWrites, Broken
<1>15. CASE ReadThrows
  BY <1>15 DEF ReadThrows, ConnectionTypeOK, OneWriteAtATime,
    ErrorsHaveWrites, Broken, InLine
<1>16. CASE UNCHANGED vars
  BY <1>16 DEF vars, ConnectionTypeOK, OneWriteAtATime, ErrorsHaveWrites,
    Broken, InLine
<1>. QED
  BY <1>1, <1>2, <1>3, <1>4, <1>5, <1>6, <1>7, <1>8, <1>9, <1>10, <1>11,
    <1>12, <1>13, <1>14, <1>15, <1>16 DEF Next, Connecting, Writing

-----------------------------------------------------------------------------
(* The invariant holds of every behaviour.                                 *)
THEOREM Inductive == Spec => []IInv
BY InitIInv, NextIInv, PTL DEF Spec

(* The variables of class Connection keep their types.                     *)
THEOREM TypeCorrect == Spec => []ConnectionTypeOK
<1>1. IInv => ConnectionTypeOK
  BY DEF IInv
<1>. QED  BY <1>1, Inductive, PTL

(* SendAsync and the handler of doWrite never have two writes under way    *)
(* and never leave a line without one.                                     *)
THEOREM OneWrite == Spec => []OneWriteAtATime
<1>1. IInv => OneWriteAtATime
  BY DEF IInv
<1>. QED  BY <1>1, Inductive, PTL

-----------------------------------------------------------------------------
(* Connection implements Pipe.                                             *)

LEMMA PipeInit == Init => ThePipe!Init
BY DEF Init, Greeting, ThePipe!Init, Broken

LEMMA PipeNext == IInv /\ [Next]_vars => [ThePipe!Next]_(ThePipe!vars)
<1>. SUFFICES ASSUME IInv, [Next]_vars
              PROVE  ThePipe!Next \/ UNCHANGED <<posted, wire, Broken>>
  BY DEF ThePipe!vars
<1>1. Broken \in BOOLEAN /\ Broken' \in BOOLEAN
  BY NextIInv DEF IInv, ConnectionTypeOK, Broken
<1>2. ASSUME UNCHANGED <<posted, wire>>, Broken => Broken'
      PROVE  ThePipe!Next \/ UNCHANGED <<posted, wire, Broken>>
  BY <1>1, <1>2 DEF ThePipe!Next, ThePipe!Break
<1>0. ASSUME UNCHANGED <<wire, Broken>>, Post \/ PostNothing
      PROVE  ThePipe!Next \/ UNCHANGED <<posted, wire, Broken>>
  BY <1>0 DEF Post, PostNothing, ThePipe!Next, ThePipe!Put
<1>3. CASE AttemptSucceeds
  <2>1. UNCHANGED <<wire, Broken>> /\ (Post \/ PostNothing)
    BY <1>3 DEF AttemptSucceeds, Broken
  <2>. QED  BY <1>0, <2>1
<1>4. CASE AttemptFails
  BY <1>2, <1>4 DEF AttemptFails, Broken
<1>5. CASE SendAsync
  <2>1. UNCHANGED <<wire, Broken>> /\ Post
    BY <1>5 DEF SendAsync, Broken
  <2>. QED  BY <1>0, <2>1
<1>6. CASE RunPosted
  <2>1. (messages = <<>>) <=> (Len(messages) = 0)
    BY EmptyNat DEF IInv, ConnectionTypeOK
  <2>. QED  BY <1>2, <1>6, <2>1 DEF RunPosted, NoneUnderWay, Broken, IInv,
    OneWriteAtATime, ErrorsHaveWrites
<1>7. CASE WriteDone
  <2>1. ~Broken /\ ~Broken' /\ InLine
    BY <1>7 DEF WriteDone, Broken, IInv
  <2>2. /\ messages # <<>> /\ messages \in Seq(Nat)
        /\ Len(strand) \in Nat /\ Len(wire) \in Nat
    BY <1>7, EmptyNat DEF WriteDone, IInv, OneWriteAtATime, ConnectionTypeOK
  <2>3. Head(messages) = messages[1] /\ Len(messages) \in Nat /\ Len(messages) >= 1
    BY <2>2, TailNat, EmptyNat
  <2>4. Head(messages) = Len(wire) + 1 /\ Len(wire) < posted
    BY <2>1, <2>2, <2>3 DEF InLine
  <2>5. wire' = Append(wire, Len(wire) + 1) /\ posted' = posted
    BY <1>7, <2>4 DEF WriteDone
  <2>. QED  BY <1>1, <2>1, <2>4, <2>5 DEF ThePipe!Next, ThePipe!Get
<1>8. CASE WriteBreaks
  BY <1>2, <1>8 DEF WriteBreaks, Broken
<1>9. CASE WriteError
  BY <1>2, <1>9 DEF WriteError, Closed, Broken
<1>10. CASE ReadLine
  <2>1. UNCHANGED <<wire, Broken>> /\ (Post \/ PostNothing)
    BY <1>10 DEF ReadLine, Broken
  <2>. QED  BY <1>0, <2>1
<1>11. CASE ReadFails
  BY <1>2, <1>11 DEF ReadFails, Stop, DoDisconnect, Broken
<1>12. CASE SigPipe
  BY <1>2, <1>12 DEF SigPipe, Stop, DoDisconnect, Broken
<1>13. CASE SigTerm
  BY <1>13 DEF SigTerm, Broken
<1>14. CASE RunReturns
  BY <1>14 DEF RunReturns, Broken
<1>15. CASE PeerDown
  BY <1>15 DEF PeerDown, Broken
<1>16. CASE TypeLine
  <2>1. UNCHANGED <<wire, Broken>> /\ (Post \/ PostNothing)
    BY <1>16 DEF TypeLine, Broken
  <2>. QED  BY <1>0, <2>1
<1>17. CASE ReadThrows
  BY <1>17 DEF ReadThrows, Broken
<1>18. CASE UNCHANGED vars
  BY <1>18 DEF vars, Broken
<1>. QED
  BY <1>3, <1>4, <1>5, <1>6, <1>7, <1>8, <1>9, <1>10, <1>11, <1>12, <1>13,
    <1>14, <1>15, <1>16, <1>17, <1>18 DEF Next, Connecting, Writing

(* What the server reads of a client is a prefix of what the client sent,  *)
(* whichever endpoints refuse and whatever breaks.                         *)
THEOREM Implements == Spec => ImplementsPipe
<1>1. Init => ThePipe!Init
  BY PipeInit
<1>2. IInv /\ [Next]_vars => [ThePipe!Next]_(ThePipe!vars)
  BY PipeNext
<1>. QED  BY <1>1, <1>2, Inductive, PTL DEF Spec, ImplementsPipe, ThePipe!Spec
=============================================================================
