--------------------------- MODULE FileRelayProofs ---------------------------
(***************************************************************************)
(* Theorems about FileRelay, for any number of clients and senders, files  *)
(* of any size and blocks of any size: its variables keep their types, a   *)
(* file for one account is heard by its clients only, the bytes of each    *)
(* sender stay together, and a client that hears of one sender saves the   *)
(* whole file or nothing.                                                  *)
(***************************************************************************)
EXTENDS FileRelay, SequenceTheorems, TLAPS

-----------------------------------------------------------------------------
(* The way of a file.  Every message of a sender has a place in its file,  *)
(* the number of bytes before it, and leads from there to the next place.  *)

Of(x, s) == x.type = "file" /\ x.from = s

(* The message x of s has its place p in a file of the given length.       *)
Carries(x, s, length, p) ==
  /\ p < length
  /\ p + Len(x.bytes) <= length
  /\ \A i \in 1..Len(x.bytes) : x.bytes[i] = [of |-> s, at |-> p + i]
  /\ x.status = 1 => p = 0 /\ x.bytes = <<>>
  /\ x.status = 0 => p + Len(x.bytes) = length

Moves(x, s, length, p, e) ==
  IF Of(x, s) THEN Carries(x, s, length, p) /\ e = p + Len(x.bytes) ELSE e = p

(* The messages of s in a queue, whatever is between them, lead from one   *)
(* place in the file to another.                                           *)
Leads(q, s, length, m, n) ==
  \E place \in [0..Len(q) -> Nat] :
    /\ place[0] = m
    /\ place[Len(q)] = n
    /\ \A k \in 1..Len(q) : Moves(q[k], s, length, place[k - 1], place[k])

(* Every byte of s in f is followed by all the others up to the place n.   *)
RunsTo(f, s, n) ==
  \A j \in DOMAIN f : f[j].of = s =>
    /\ f[j].at <= n
    /\ \A a \in f[j].at..n : \E i \in j..Len(f) : f[i] = [of |-> s, at |-> a]

(* The first n bytes of the file of s.                                     *)
IsStart(f, s, n) ==
  Len(f) = n /\ \A i \in 1..n : f[i] = [of |-> s, at |-> i]

-----------------------------------------------------------------------------
(* The inductive invariant.                                                *)

Sent(s) == size[s] - Len(rest[s])

RestOfFile ==
  \A s \in Sender :
    /\ Len(rest[s]) <= size[s]
    /\ \A k \in 1..Len(rest[s]) : rest[s][k] = [of |-> s, at |-> Sent(s) + k]
    /\ head[s] => Sent(s) = 0

(* Each client posts its own file, and says hello before it says what puts *)
(* it on the list.                                                         *)
InTurn(c) ==
  /\ \A k \in 1..Len(toServer[c]) :
       /\ toServer[c][k].type = "file" => toServer[c][k].from = c
       /\ toServer[c][k].type = "version" =>
            \/ account[c] = AccountOf[c]
            \/ \E j \in 1..k - 1 : toServer[c][j].type = "hello"
  /\ link[c] = "off" => toServer[c] = <<>>

Known(c) == InTurn(c) /\ (joined[c] => account[c] = AccountOf[c])

KnownFirst == \A c \in Client : Known(c)

Addressed(c) == toAccount \in {Room, AccountOf[c]}

(* What came to a client, and what it has, came while it was on the list.  *)
Untouched(c) ==
  /\ toClient[c] = <<>>
  /\ heard[c] = {}

ReachesTheAddressed ==
  \A c \in Client :
    \/ ~Addressed(c)
    \/ link[c] = "off"
    \/ link[c] = "up" /\ ~joined[c]
    => Untouched(c)

(* A client that sends to all others is not sent its own file.             *)
NotItself ==
  toAccount = Room =>
    \A c \in Client : \A k \in 1..Len(toClient[c]) : toClient[c][k].from # c

HasWhatItHeard ==
  \A c \in Client :
    /\ ~container[c].there => container[c].bytes = <<>>
    /\ heard[c] = {} => ~container[c].there /\ ~saved[c].there

(* The client c got the file of s up to the place m.                       *)
GotTo(c, s, m) ==
  /\ RunsTo(container[c].bytes, s, m)
  /\ heard[c] = {s} =>
       /\ container[c].there => IsStart(container[c].bytes, s, m)
       /\ saved[c].there => m = size[s]

(* The bytes of s before the place n are those the server read.            *)
Posted(s, n) ==
  \E e \in Nat :
    /\ Leads(toServer[s], s, size[s], n, e)
    /\ link[s] # "down" => e = Sent(s)

Relayed(s, n, c) ==
  \E m \in Nat : Leads(toClient[c], s, size[s], m, n) /\ GotTo(c, s, m)

OnItsWay(s, n) ==
  /\ Posted(s, n)
  /\ \A c \in Client :
       link[c] = "up" /\ ~(toAccount = Room /\ c = s) => Relayed(s, n, c)

PiecesOnTheirWay == \A s \in Sender : \E n \in Nat : OnItsWay(s, n)

IInv ==
  /\ RelayTypeOK
  /\ RestOfFile
  /\ KnownFirst
  /\ ReachesTheAddressed
  /\ NotItself
  /\ HasWhatItHeard
  /\ PiecesOnTheirWay
  /\ PiecesStayWhole
  /\ OneSenderWholeFile

-----------------------------------------------------------------------------
(* The ways through queues.                                                *)

LEMMA AppendRequest ==
  ASSUME NEW q \in Seq(Request), NEW x \in Request
  PROVE  /\ Append(q, x) \in Seq(Request)
         /\ Append(q, x) # <<>>
         /\ Len(q) \in Nat
         /\ Len(Append(q, x)) = Len(q) + 1
         /\ \A k \in 1..Len(q) : Append(q, x)[k] = q[k]
         /\ Append(q, x)[Len(q) + 1] = x
BY AppendProperties, LenProperties

LEMMA TailRequest ==
  ASSUME NEW q \in Seq(Request), q # <<>>
  PROVE  /\ Tail(q) \in Seq(Request)
         /\ Head(q) \in Request
         /\ Head(q) = q[1]
         /\ Len(q) \in Nat \ {0}
         /\ Len(Tail(q)) = Len(q) - 1
         /\ \A k \in 1..Len(q) - 1 : Tail(q)[k] = q[k + 1]
BY HeadTailProperties, EmptySeq

LEMMA PrefixRequest ==
  ASSUME NEW q \in Seq(Request), NEW n \in 0..Len(q)
  PROVE  /\ SubSeq(q, 1, n) \in Seq(Request)
         /\ Len(q) \in Nat
         /\ Len(SubSeq(q, 1, n)) = n
         /\ \A k \in 1..n : SubSeq(q, 1, n)[k] = q[k]
<1>1. Len(q) \in Nat /\ \A k \in 1..n : q[k] \in Request
  BY LenProperties, ElementOfSeq
<1>. QED  BY <1>1, SubSeqProperties

LEMMA LeadsNowhere ==
  ASSUME NEW s, NEW length, NEW n \in Nat
  PROVE  Leads(<<>>, s, length, n, n)
<1>. DEFINE here == [k \in 0..0 |-> n]
<1>1. Len(<<>>) = 0
  BY EmptySeq
<1>2. here \in [0..0 -> Nat] /\ here[0] = n
  OBVIOUS
<1>3. 1..0 = {}
  OBVIOUS
<1>. HIDE DEF here
<1>. QED  BY <1>1, <1>2, <1>3 DEF Leads

LEMMA LeadsOn ==
  ASSUME NEW q \in Seq(Request), NEW x \in Request, NEW s, NEW length,
         NEW m, NEW n \in Nat, NEW e \in Nat,
         Leads(q, s, length, m, n), Moves(x, s, length, n, e)
  PROVE  Leads(Append(q, x), s, length, m, e)
<1>1. PICK place \in [0..Len(q) -> Nat] :
        /\ place[0] = m
        /\ place[Len(q)] = n
        /\ \A k \in 1..Len(q) : Moves(q[k], s, length, place[k - 1], place[k])
  BY DEF Leads
<1>. DEFINE on == [k \in 0..Len(q) + 1 |-> IF k = Len(q) + 1 THEN e ELSE place[k]]
<1>2. /\ Len(q) \in Nat
      /\ Len(Append(q, x)) = Len(q) + 1
      /\ \A k \in 1..Len(q) : Append(q, x)[k] = q[k]
      /\ Append(q, x)[Len(q) + 1] = x
  BY AppendRequest
<1>3. on \in [0..Len(Append(q, x)) -> Nat] /\ on[0] = m /\ on[Len(q) + 1] = e
  BY <1>1, <1>2
<1>4. ASSUME NEW k \in 1..Len(q) + 1
      PROVE  Moves(Append(q, x)[k], s, length, on[k - 1], on[k])
  <2>1. CASE k \in 1..Len(q)
    <3>1. on[k - 1] = place[k - 1] /\ on[k] = place[k]
      BY <1>2, <2>1
    <3>. QED  BY <1>1, <1>2, <2>1, <3>1
  <2>2. CASE k = Len(q) + 1
    <3>1. on[k - 1] = n /\ on[k] = e
      BY <1>1, <1>2, <2>2
    <3>. QED  BY <1>2, <2>2, <3>1
  <2>. QED  BY <1>2, <2>1, <2>2
<1>. HIDE DEF on
<1>. QED  BY <1>2, <1>3, <1>4 DEF Leads

LEMMA LeadsFrom ==
  ASSUME NEW q \in Seq(Request), q # <<>>, NEW s, NEW length,
         NEW m \in Nat, NEW n, Leads(q, s, length, m, n)
  PROVE  \E e \in Nat : /\ Moves(Head(q), s, length, m, e)
                        /\ Leads(Tail(q), s, length, e, n)
<1>1. PICK place \in [0..Len(q) -> Nat] :
        /\ place[0] = m
        /\ place[Len(q)] = n
        /\ \A k \in 1..Len(q) : Moves(q[k], s, length, place[k - 1], place[k])
  BY DEF Leads
<1>. DEFINE from == [k \in 0..Len(q) - 1 |-> place[k + 1]]
<1>2. /\ Head(q) = q[1]
      /\ Len(q) \in Nat \ {0}
      /\ Len(Tail(q)) = Len(q) - 1
      /\ \A k \in 1..Len(q) - 1 : Tail(q)[k] = q[k + 1]
  BY TailRequest
<1>3. /\ from \in [0..Len(Tail(q)) -> Nat]
      /\ from[0] = place[1] /\ place[1] \in Nat
      /\ from[Len(Tail(q))] = n
  BY <1>1, <1>2
<1>4. ASSUME NEW k \in 1..Len(Tail(q))
      PROVE  Moves(Tail(q)[k], s, length, from[k - 1], from[k])
  <2>1. /\ k + 1 \in 1..Len(q) /\ k \in 1..Len(q) - 1
        /\ from[k - 1] = place[k] /\ from[k] = place[k + 1]
    BY <1>2
  <2>2. Moves(q[k + 1], s, length, place[(k + 1) - 1], place[k + 1])
    BY <1>1, <2>1
  <2>3. (k + 1) - 1 = k
    BY <2>1
  <2>. QED  BY <1>2, <2>1, <2>2, <2>3
<1>5. Moves(Head(q), s, length, m, place[1])
  <2>1. 1 \in 1..Len(q) /\ 1 - 1 = 0
    BY <1>2
  <2>. QED  BY <1>1, <1>2, <2>1
<1>. HIDE DEF from
<1>6. Leads(Tail(q), s, length, place[1], n)
  BY <1>3, <1>4 DEF Leads
<1>. QED  BY <1>3, <1>5, <1>6

LEMMA LeadsPartly ==
  ASSUME NEW q \in Seq(Request), NEW l \in 0..Len(q), NEW s, NEW length,
         NEW m, NEW n, Leads(q, s, length, m, n)
  PROVE  \E e \in Nat : Leads(SubSeq(q, 1, l), s, length, m, e)
<1>1. PICK place \in [0..Len(q) -> Nat] :
        /\ place[0] = m
        /\ place[Len(q)] = n
        /\ \A k \in 1..Len(q) : Moves(q[k], s, length, place[k - 1], place[k])
  BY DEF Leads
<1>. DEFINE part == [k \in 0..l |-> place[k]]
<1>2. /\ Len(q) \in Nat
      /\ Len(SubSeq(q, 1, l)) = l
      /\ \A k \in 1..l : SubSeq(q, 1, l)[k] = q[k]
  BY PrefixRequest
<1>3. /\ part \in [0..l -> Nat] /\ part[0] = m
      /\ part[l] = place[l] /\ place[l] \in Nat
  BY <1>1, <1>2
<1>4. ASSUME NEW k \in 1..l
      PROVE  Moves(SubSeq(q, 1, l)[k], s, length, part[k - 1], part[k])
  <2>1. /\ k \in 1..Len(q)
        /\ part[k - 1] = place[k - 1] /\ part[k] = place[k]
    BY <1>2
  <2>. QED  BY <1>1, <1>2, <2>1
<1>. HIDE DEF part
<1>5. Leads(SubSeq(q, 1, l), s, length, m, place[l])
  BY <1>2, <1>3, <1>4 DEF Leads
<1>. QED  BY <1>3, <1>5

-----------------------------------------------------------------------------
(* The bytes of the senders in a file.                                     *)

LEMMA JoinBytes ==
  ASSUME NEW f \in Seq(Byte), NEW b \in Seq(Byte)
  PROVE  /\ f \o b \in Seq(Byte)
         /\ Len(f) \in Nat /\ Len(b) \in Nat
         /\ Len(f \o b) = Len(f) + Len(b)
         /\ DOMAIN f = 1..Len(f) /\ DOMAIN (f \o b) = 1..Len(f) + Len(b)
         /\ \A i \in 1..Len(f) : f[i] \in Byte /\ (f \o b)[i] = f[i]
         /\ \A i \in Len(f) + 1..Len(f) + Len(b) :
              (f \o b)[i] = b[i - Len(f)] /\ i - Len(f) \in 1..Len(b)
<1>1. /\ Len(f) \in Nat /\ Len(b) \in Nat
      /\ DOMAIN f = 1..Len(f)
      /\ f \o b \in Seq(Byte)
      /\ Len(f \o b) = Len(f) + Len(b)
      /\ \A i \in 1..Len(f) + Len(b) :
           (f \o b)[i] = IF i <= Len(f) THEN f[i] ELSE b[i - Len(f)]
  BY LenProperties, ConcatProperties
<1>2. DOMAIN (f \o b) = 1..Len(f) + Len(b)
  BY <1>1, LenProperties
<1>3. \A i \in 1..Len(f) : f[i] \in Byte
  BY ElementOfSeq
<1>. QED  BY <1>1, <1>2, <1>3

LEMMA NoBytes ==
  ASSUME NEW s, NEW n
  PROVE  /\ <<>> \in Seq(Byte) /\ Len(<<>>) = 0
         /\ RunsTo(<<>>, s, n)
         /\ InOrder(<<>>)
<1>1. <<>> \in Seq(Byte) /\ Len(<<>>) = 0
  BY EmptySeq
<1>2. DOMAIN <<>> = {}
  OBVIOUS
<1>. QED  BY <1>1, <1>2 DEF RunsTo, InOrder

(* The next bytes of s.                                                    *)
Continues(b, s, n) ==
  \A i \in 1..Len(b) : b[i] = [of |-> s, at |-> n + i]

LEMMA RunsOn ==
  ASSUME NEW f \in Seq(Byte), NEW b \in Seq(Byte), NEW s, NEW n \in Nat,
         RunsTo(f, s, n), Continues(b, s, n)
  PROVE  RunsTo(f \o b, s, n + Len(b))
<1>. DEFINE g == f \o b
<1>0. /\ Len(f) \in Nat /\ Len(b) \in Nat
      /\ Len(g) = Len(f) + Len(b)
      /\ DOMAIN f = 1..Len(f) /\ DOMAIN g = 1..Len(f) + Len(b)
      /\ \A i \in 1..Len(f) : f[i] \in Byte /\ g[i] = f[i]
      /\ \A i \in Len(f) + 1..Len(f) + Len(b) :
           g[i] = b[i - Len(f)] /\ i - Len(f) \in 1..Len(b)
  BY JoinBytes
<1>. HIDE DEF g
<1>. SUFFICES ASSUME NEW j \in 1..Len(f) + Len(b), g[j].of = s
              PROVE  /\ g[j].at <= n + Len(b)
                     /\ \A a \in g[j].at..n + Len(b) :
                          \E i \in j..Len(f) + Len(b) :
                            g[i] = [of |-> s, at |-> a]
  BY <1>0 DEF RunsTo, g
<1>2. ASSUME NEW a \in n + 1..n + Len(b)
      PROVE  /\ Len(f) + (a - n) \in Len(f) + 1..Len(f) + Len(b)
             /\ g[Len(f) + (a - n)] = [of |-> s, at |-> a]
  <2>1. a - n \in 1..Len(b) /\ n + (a - n) = a
    BY <1>0
  <2>2. Len(f) + (a - n) \in Len(f) + 1..Len(f) + Len(b)
    BY <1>0, <2>1
  <2>3. g[Len(f) + (a - n)] = b[(Len(f) + (a - n)) - Len(f)]
    BY <2>2, <1>0
  <2>4. (Len(f) + (a - n)) - Len(f) = a - n
    BY <1>0
  <2>. QED  BY <2>1, <2>2, <2>3, <2>4 DEF Continues
<1>3. CASE j \in 1..Len(f)
  <2>1. f[j] \in Byte /\ g[j] = f[j]
    BY <1>3, <1>0
  <2>2. /\ f[j].at \in Nat /\ f[j].at <= n
        /\ \A a \in f[j].at..n : \E i \in j..Len(f) : f[i] = [of |-> s, at |-> a]
    BY <1>3, <2>1, <1>0 DEF RunsTo, Byte
  <2>3. ASSUME NEW a \in f[j].at..n + Len(b)
        PROVE  \E i \in j..Len(f) + Len(b) : g[i] = [of |-> s, at |-> a]
    <3>1. CASE a <= n
      <4>1. PICK i \in j..Len(f) : f[i] = [of |-> s, at |-> a]
        BY <2>2, <2>3, <3>1
      <4>2. i \in 1..Len(f) /\ i \in j..Len(f) + Len(b)
        BY <1>0, <1>3
      <4>. QED  BY <4>1, <4>2, <1>0
    <3>2. CASE a > n
      <4>1. a \in n + 1..n + Len(b)
        BY <1>0, <2>2, <2>3, <3>2
      <4>2. Len(f) + (a - n) \in j..Len(f) + Len(b)
        BY <1>0, <1>3, <4>1
      <4>. QED  BY <1>2, <4>1, <4>2
    <3>. QED  BY <2>2, <3>1, <3>2
  <2>. QED  BY <1>0, <2>1, <2>2, <2>3
<1>4. CASE j \in Len(f) + 1..Len(f) + Len(b)
  <2>1. g[j] = b[j - Len(f)] /\ j - Len(f) \in 1..Len(b)
    BY <1>4, <1>0
  <2>2. g[j].at = n + (j - Len(f))
    <3>1. b[j - Len(f)] = [of |-> s, at |-> n + (j - Len(f))]
      BY <2>1 DEF Continues
    <3>. QED  BY <2>1, <3>1
  <2>3. ASSUME NEW a \in n + (j - Len(f))..n + Len(b)
        PROVE  \E i \in j..Len(f) + Len(b) : g[i] = [of |-> s, at |-> a]
    <3>1. a \in n + 1..n + Len(b) /\ Len(f) + (a - n) \in j..Len(f) + Len(b)
      BY <1>0, <2>1
    <3>. QED  BY <1>2, <3>1
  <2>. QED  BY <1>0, <2>1, <2>2, <2>3
<1>. QED  BY <1>0, <1>3, <1>4

LEMMA RunsStill ==
  ASSUME NEW f \in Seq(Byte), NEW b \in Seq(Byte), NEW s, NEW n,
         RunsTo(f, s, n), \A i \in 1..Len(b) : b[i].of # s
  PROVE  RunsTo(f \o b, s, n)
<1>. DEFINE g == f \o b
<1>0. /\ Len(f) \in Nat /\ Len(b) \in Nat
      /\ Len(g) = Len(f) + Len(b)
      /\ DOMAIN f = 1..Len(f) /\ DOMAIN g = 1..Len(f) + Len(b)
      /\ \A i \in 1..Len(f) : f[i] \in Byte /\ g[i] = f[i]
      /\ \A i \in Len(f) + 1..Len(f) + Len(b) :
           g[i] = b[i - Len(f)] /\ i - Len(f) \in 1..Len(b)
  BY JoinBytes
<1>. HIDE DEF g
<1>. SUFFICES ASSUME NEW j \in 1..Len(f) + Len(b), g[j].of = s
              PROVE  /\ g[j].at <= n
                     /\ \A a \in g[j].at..n :
                          \E i \in j..Len(f) + Len(b) :
                            g[i] = [of |-> s, at |-> a]
  BY <1>0 DEF RunsTo, g
<1>2. j \in 1..Len(f)
  <2>1. j \notin Len(f) + 1..Len(f) + Len(b)
    BY <1>0
  <2>. QED  BY <1>0, <2>1
<1>3. /\ g[j] = f[j] /\ f[j].at <= n
      /\ \A a \in f[j].at..n : \E i \in j..Len(f) : f[i] = [of |-> s, at |-> a]
  BY <1>2, <1>0 DEF RunsTo
<1>4. ASSUME NEW i \in j..Len(f)
      PROVE  i \in j..Len(f) + Len(b) /\ g[i] = f[i]
  BY <1>0, <1>2, <1>0
<1>. QED  BY <1>3, <1>4

LEMMA OrderKept ==
  ASSUME NEW f \in Seq(Byte), NEW b \in Seq(Byte), NEW s, NEW n \in Nat,
         InOrder(f), RunsTo(f, s, n), Continues(b, s, n)
  PROVE  InOrder(f \o b)
<1>. DEFINE g == f \o b
<1>0. /\ Len(f) \in Nat /\ Len(b) \in Nat
      /\ Len(g) = Len(f) + Len(b)
      /\ DOMAIN f = 1..Len(f) /\ DOMAIN g = 1..Len(f) + Len(b)
      /\ \A i \in 1..Len(f) : f[i] \in Byte /\ g[i] = f[i]
      /\ \A i \in Len(f) + 1..Len(f) + Len(b) :
           g[i] = b[i - Len(f)] /\ i - Len(f) \in 1..Len(b)
  BY JoinBytes
<1>. HIDE DEF g
<1>. SUFFICES ASSUME NEW j \in 1..Len(f) + Len(b), NEW k \in 1..Len(f) + Len(b),
                     j < k, g[j].of = g[k].of
              PROVE  /\ g[j].at < g[k].at
                     /\ \A a \in g[j].at..g[k].at :
                          \E i \in j..k :
                            g[i] = [of |-> g[j].of, at |-> a]
  <2>1. SUFFICES InOrder(g)
    BY DEF g
  <2>2. DOMAIN g = 1..Len(f) + Len(b)
    BY <1>0
  <2>. QED  BY <2>2 DEF InOrder
<1>1. /\ j \in 1..Len(f) \/ j \in Len(f) + 1..Len(f) + Len(b)
      /\ k \in 1..Len(f) \/ k \in Len(f) + 1..Len(f) + Len(b)
  <2>1. Len(f) \in Nat /\ Len(b) \in Nat
    BY <1>0
  <2>. QED  BY <2>1
<1>2. CASE k \in 1..Len(f)
  <2>1. j \in 1..Len(f) /\ g[j] = f[j] /\ g[k] = f[k]
    BY <1>0, <1>2, <1>0
  <2>2. /\ f[j].at < f[k].at
        /\ \A a \in f[j].at..f[k].at :
             \E i \in j..k : f[i] = [of |-> f[j].of, at |-> a]
    BY <1>2, <2>1, <1>0 DEF InOrder
  <2>3. \A i \in j..k : i \in 1..Len(f) /\ g[i] = f[i]
    BY <1>0, <1>2, <2>1, <1>0
  <2>. QED  BY <2>1, <2>2, <2>3
<1>3. CASE k \in Len(f) + 1..Len(f) + Len(b)
  <2>1. /\ g[k] = b[k - Len(f)] /\ k - Len(f) \in 1..Len(b)
        /\ g[k] = [of |-> s, at |-> n + (k - Len(f))]
    BY <1>3, <1>0 DEF Continues
  <2>2. g[j].of = s /\ g[k].at = n + (k - Len(f))
    BY <2>1
  <2>3. ASSUME NEW a \in n + 1..n + (k - Len(f)), Len(f) + (a - n) >= j
        PROVE  \E i \in j..k : g[i] = [of |-> s, at |-> a]
    <3>1. /\ a - n \in 1..Len(b) /\ n + (a - n) = a
          /\ Len(f) + (a - n) \in Len(f) + 1..Len(f) + Len(b)
          /\ (Len(f) + (a - n)) - Len(f) = a - n
          /\ Len(f) + (a - n) \in j..k
      BY <1>0, <2>1, <2>3
    <3>. QED  BY <3>1, <1>0 DEF Continues
  <2>4. CASE j \in 1..Len(f)
    <3>1. f[j] \in Byte /\ g[j] = f[j]
      BY <2>4, <1>0
    <3>2. /\ f[j].at \in Nat /\ f[j].at <= n
          /\ \A a \in f[j].at..n : \E i \in j..Len(f) : f[i] = [of |-> s, at |-> a]
      BY <2>2, <2>4, <3>1, <1>0 DEF RunsTo, Byte
    <3>3. ASSUME NEW a \in f[j].at..n + (k - Len(f))
          PROVE  \E i \in j..k : g[i] = [of |-> s, at |-> a]
      <4>1. CASE a <= n
        <5>1. PICK i \in j..Len(f) : f[i] = [of |-> s, at |-> a]
          BY <3>2, <3>3, <4>1
        <5>2. i \in 1..Len(f) /\ i \in j..k
          BY <1>0, <1>3, <2>4
        <5>. QED  BY <5>1, <5>2, <1>0
      <4>2. CASE a > n
        <5>1. a \in n + 1..n + (k - Len(f)) /\ Len(f) + (a - n) >= j
          BY <1>0, <2>1, <2>4, <3>2, <3>3, <4>2
        <5>. QED  BY <2>3, <5>1
      <4>. QED  BY <3>2, <4>1, <4>2
    <3>. QED  BY <1>0, <2>1, <2>2, <3>1, <3>2, <3>3
  <2>5. CASE j \in Len(f) + 1..Len(f) + Len(b)
    <3>1. /\ g[j] = [of |-> s, at |-> n + (j - Len(f))]
          /\ j - Len(f) \in 1..Len(b)
      BY <2>5, <1>0 DEF Continues
    <3>2. g[j].at = n + (j - Len(f))
      BY <3>1
    <3>3. ASSUME NEW a \in n + (j - Len(f))..n + (k - Len(f))
          PROVE  \E i \in j..k : g[i] = [of |-> s, at |-> a]
      <4>1. a \in n + 1..n + (k - Len(f)) /\ Len(f) + (a - n) >= j
        BY <1>0, <3>1, <3>3
      <4>. QED  BY <2>3, <4>1
    <3>4. n + (j - Len(f)) < n + (k - Len(f))
      <4>1. Len(f) \in Nat
        BY <1>0
      <4>. QED  BY <4>1
    <3>. QED  BY <2>2, <3>1, <3>2, <3>3, <3>4
  <2>. QED  BY <1>1, <2>4, <2>5
<1>. QED  BY <1>1, <1>2, <1>3

-----------------------------------------------------------------------------
(* Types.                                                                  *)

LEMMA Kinds ==
  /\ Transfer \subseteq Request
  /\ \A x \in Request : x.type = "file" => x \in Transfer
  /\ \A x \in Transfer : /\ x.type = "file" /\ x.from \in Sender
                         /\ x.status \in {0, 1, 2} /\ x.bytes \in Seq(Byte)
  /\ Greeting \in Seq(Request) /\ Len(Greeting) = 2
  /\ Greeting[1].type = "hello" /\ Greeting[2].type = "version"
  /\ \A s \in Sender, status \in {0, 1, 2}, bytes \in Seq(Byte) :
       [type |-> "file", from |-> s, status |-> status, bytes |-> bytes]
         \in Transfer
<1>1. [type |-> "hello"] \in Request /\ [type |-> "version"] \in Request
  BY DEF Request
<1>2. /\ Greeting \in Seq(Request) /\ Len(Greeting) = 2
      /\ Greeting[1].type = "hello" /\ Greeting[2].type = "version"
  BY <1>1 DEF Greeting
<1>3. ASSUME NEW x \in Request, x.type = "file" PROVE x \in Transfer
  BY <1>3 DEF Request
<1>4. /\ Transfer \subseteq Request
      /\ \A x \in Transfer : /\ x.type = "file" /\ x.from \in Sender
                             /\ x.status \in {0, 1, 2} /\ x.bytes \in Seq(Byte)
      /\ \A s \in Sender, status \in {0, 1, 2}, bytes \in Seq(Byte) :
           [type |-> "file", from |-> s, status |-> status, bytes |-> bytes]
             \in Transfer
  BY DEF Request, Transfer
<1>. QED  BY <1>2, <1>3, <1>4

(* What a sender still has to send, and what it makes of it.               *)
LEMMA RestParts ==
  ASSUME RelayTypeOK, NEW s \in Sender
  PROVE  /\ rest[s] \in Seq(Byte) /\ Len(rest[s]) \in Nat
         /\ rest[s] # <<>> => Len(rest[s]) > 0
         /\ ~IsLast(s) =>
              /\ Block(s) \in Seq(Byte) /\ Len(Block(s)) = BlockSize
              /\ \A i \in 1..BlockSize : Block(s)[i] = rest[s][i]
              /\ Remaining(s) \in Seq(Byte)
              /\ Len(Remaining(s)) = Len(rest[s]) - BlockSize
              /\ \A i \in 1..Len(rest[s]) - BlockSize :
                   Remaining(s)[i] = rest[s][BlockSize + i]
<1>1. rest[s] \in Seq(Byte)
  BY DEF RelayTypeOK
<1>2. /\ Len(rest[s]) \in Nat
      /\ rest[s] # <<>> => Len(rest[s]) > 0
      /\ \A i \in 1..Len(rest[s]) : rest[s][i] \in Byte
  BY <1>1, EmptySeq, LenProperties, ElementOfSeq
<1>3. BlockSize \in Nat \ {0}
  BY FileRelayAssumption
<1>4. ASSUME ~IsLast(s)
      PROVE  /\ Block(s) \in Seq(Byte) /\ Len(Block(s)) = BlockSize
             /\ \A i \in 1..BlockSize : Block(s)[i] = rest[s][i]
  <2>1. 1 <= BlockSize /\ BlockSize <= Len(rest[s])
    BY <1>2, <1>3, <1>4 DEF IsLast
  <2>2. \A i \in 1..BlockSize : rest[s][i] \in Byte
    BY <1>2, <1>3, <2>1
  <2>. QED  BY <1>3, <2>1, <2>2, SubSeqProperties DEF Block
<1>5. ASSUME ~IsLast(s)
      PROVE  /\ Remaining(s) \in Seq(Byte)
             /\ Len(Remaining(s)) = Len(rest[s]) - BlockSize
             /\ \A i \in 1..Len(rest[s]) - BlockSize :
                  Remaining(s)[i] = rest[s][BlockSize + i]
  <2>1. BlockSize <= Len(rest[s])
    BY <1>2, <1>3, <1>5 DEF IsLast
  <2>2. \A i \in BlockSize + 1..Len(rest[s]) : rest[s][i] \in Byte
    BY <1>2, <1>3
  <2>3. /\ Remaining(s) \in Seq(Byte)
        /\ Len(Remaining(s)) = IF BlockSize + 1 <= Len(rest[s])
             THEN Len(rest[s]) - (BlockSize + 1) + 1 ELSE 0
        /\ \A i \in 1..Len(rest[s]) - (BlockSize + 1) + 1 :
             Remaining(s)[i] = rest[s][(BlockSize + 1) + i - 1]
    BY <1>2, <1>3, <2>2, SubSeqProperties DEF Remaining
  <2>. QED  BY <1>2, <1>3, <2>1, <2>3
<1>. QED  BY <1>1, <1>2, <1>4, <1>5

(* What is read from a queue, and what is left of it.                      *)
LEMMA ReadParts ==
  ASSUME RelayTypeOK, NEW c \in Client, NEW type, Read(c, type)
  PROVE  /\ toServer[c] \in Seq(Request) /\ toServer[c] # <<>>
         /\ Head(toServer[c]) \in Request /\ Head(toServer[c]).type = type
         /\ toServer' \in [Client -> Seq(Request)]
         /\ toServer'[c] = Tail(toServer[c])
         /\ \A d \in Client \ {c} : toServer'[d] = toServer[d]
<1>1. toServer[c] \in Seq(Request) /\ toServer[c] # <<>>
  BY DEF RelayTypeOK, Read
<1>2. Tail(toServer[c]) \in Seq(Request) /\ Head(toServer[c]) \in Request
  BY <1>1, TailRequest
<1>. QED  BY <1>1, <1>2 DEF RelayTypeOK, Read

LEMMA HandleParts ==
  ASSUME RelayTypeOK, NEW c \in Client, Handle(c)
  PROVE  /\ toClient[c] \in Seq(Transfer) /\ toClient[c] # <<>>
         /\ Notification(c) = Head(toClient[c]) /\ Notification(c) \in Transfer
         /\ toClient' \in [Client -> Seq(Transfer)]
         /\ toClient'[c] = Tail(toClient[c])
         /\ \A d \in Client \ {c} : toClient'[d] = toClient[d]
         /\ heard' \in [Client -> SUBSET Sender]
         /\ heard'[c] = heard[c] \cup {Notification(c).from}
         /\ \A d \in Client \ {c} : heard'[d] = heard[d]
<1>1. toClient[c] \in Seq(Transfer) /\ toClient[c] # <<>>
  BY DEF RelayTypeOK, Handle
<1>2. Tail(toClient[c]) \in Seq(Transfer) /\ Head(toClient[c]) \in Transfer
  BY <1>1, HeadTailProperties
<1>3. Notification(c).from \in Sender
  BY <1>2, Kinds DEF Notification
<1>. QED  BY <1>1, <1>2, <1>3 DEF RelayTypeOK, Handle, Notification

LEMMA TransferParts ==
  ASSUME RelayTypeOK, NEW c \in Client, FileTransfer(c)
  PROVE  /\ Head(toServer[c]) \in Transfer
         /\ toClient' \in [Client -> Seq(Transfer)]
         /\ \A r \in Client : toClient'[r] =
              IF r \in Recipients(c) /\ link[r] = "up"
              THEN Append(toClient[r], Head(toServer[c])) ELSE toClient[r]
<1>1. Head(toServer[c]) \in Transfer
  BY ReadParts, Kinds DEF FileTransfer
<1>2. \A r \in Client : Append(toClient[r], Head(toServer[c])) \in Seq(Transfer)
  BY <1>1, AppendProperties DEF RelayTypeOK
<1>. QED  BY <1>1, <1>2 DEF RelayTypeOK, FileTransfer, Reaches

LEMMA SendParts ==
  ASSUME RelayTypeOK, NEW s \in Sender, NEW status \in {0, 1, 2},
         NEW bytes \in Seq(Byte), Send(s, status, bytes)
  PROVE  /\ s \in Client
         /\ toServer' \in [Client -> Seq(Request)]
         /\ \E x \in Transfer :
              /\ x.from = s /\ x.status = status /\ x.bytes = bytes
              /\ toServer'[s] = Append(toServer[s], x)
         /\ \A d \in Client \ {s} : toServer'[d] = toServer[d]
<1>. DEFINE x == [type |-> "file", from |-> s, status |-> status, bytes |-> bytes]
<1>1. /\ s \in Client /\ x \in Transfer /\ x \in Request
      /\ x.from = s /\ x.status = status /\ x.bytes = bytes
  BY Kinds, FileRelayAssumption
<1>2. toServer' = [toServer EXCEPT ![s] = Append(toServer[s], x)]
  BY DEF Send
<1>. HIDE DEF x
<1>3. toServer[s] \in Seq(Request) /\ Append(toServer[s], x) \in Seq(Request)
  BY <1>1, AppendRequest DEF RelayTypeOK
<1>4. /\ toServer' \in [Client -> Seq(Request)]
      /\ toServer'[s] = Append(toServer[s], x)
      /\ \A d \in Client \ {s} : toServer'[d] = toServer[d]
  BY <1>1, <1>2, <1>3 DEF RelayTypeOK
<1>. QED  BY <1>1, <1>4

LEMMA InitTypes == Init => RelayTypeOK
<1>. SUFFICES ASSUME Init PROVE RelayTypeOK
  OBVIOUS
<1>1. /\ <<>> \in Seq(Byte) /\ <<>> \in Seq(Request) /\ <<>> \in Seq(Transfer)
  BY EmptySeq
<1>2. size \in [Sender -> Nat] /\ toAccount \in Account \cup {Room}
  BY FileRelayAssumption DEF Init
<1>3. ASSUME NEW s \in Sender PROVE rest[s] \in Seq(Byte)
  <2>1. rest[s] = [k \in 1..size[s] |-> [of |-> s, at |-> k]]
    BY <1>3 DEF Init, File
  <2>2. \A k \in 1..size[s] : [of |-> s, at |-> k] \in Byte
    BY <1>2 DEF Byte
  <2>. QED  BY <1>2, <2>1, <2>2, IsASeq
<1>4. rest \in [Sender -> Seq(Byte)]
  BY <1>3 DEF Init
<1>5. Nothing \in [there : BOOLEAN, bytes : Seq(Byte)]
  BY <1>1 DEF Nothing
<1>. QED  BY <1>1, <1>2, <1>4, <1>5 DEF Init, RelayTypeOK

LEMMA NextTypes == RelayTypeOK /\ [Next]_vars => RelayTypeOK'
<1>. SUFFICES ASSUME RelayTypeOK, [Next]_vars PROVE RelayTypeOK'
  OBVIOUS
<1>. USE DEF RelayTypeOK
<1>1. ASSUME NEW c \in Client, Start(c) PROVE RelayTypeOK'
  BY <1>1, Kinds DEF Start, senderVars, serverVars, receiverVars
<1>2. ASSUME NEW s \in Sender, Post(s) PROVE RelayTypeOK'
  <2>1. <<>> \in Seq(Byte)
    BY EmptySeq
  <2>2. toServer' \in [Client -> Seq(Request)] /\ rest' \in [Sender -> Seq(Byte)]
    <3>1. CASE SendHead(s)
      BY <2>1, <3>1, SendParts DEF SendHead
    <3>2. CASE SendLast(s)
      BY <2>1, <3>2, SendParts, RestParts DEF SendLast
    <3>3. CASE SendBlock(s)
      BY <3>3, SendParts, RestParts DEF SendBlock
    <3>. QED  BY <1>2, <3>1, <3>2, <3>3 DEF Post
  <2>. QED  BY <1>2, <2>2 DEF Post, SendHead, SendLast, SendBlock,
    serverVars, receiverVars
<1>3. ASSUME NEW c \in Client, SayHello(c) PROVE RelayTypeOK'
  BY <1>3, ReadParts, FileRelayAssumption DEF SayHello, senderVars, receiverVars
<1>4. ASSUME NEW c \in Client, VersionCheck(c) PROVE RelayTypeOK'
  BY <1>4, ReadParts DEF VersionCheck, senderVars, receiverVars
<1>5. ASSUME NEW c \in Client, FileTransfer(c) PROVE RelayTypeOK'
  <2>1. toServer' \in [Client -> Seq(Request)]
    BY <1>5, ReadParts DEF FileTransfer
  <2>. QED  BY <1>5, <2>1, TransferParts DEF FileTransfer, senderVars,
    serverVars, receiverVars
<1>6. ASSUME NEW c \in Client, Leave(c) PROVE RelayTypeOK'
  BY <1>6 DEF Leave, senderVars, receiverVars
<1>7. ASSUME NEW c \in Client, Receive(c) PROVE RelayTypeOK'
  <2>1. Handle(c)
    BY <1>7 DEF Receive, OpenStream, PushBlock, SaveStream, Ignore
  <2>2. /\ container[c].bytes \in Seq(Byte)
        /\ Notification(c).bytes \in Seq(Byte)
        /\ <<>> \in Seq(Byte)
    BY <2>1, HandleParts, Kinds, EmptySeq
  <2>3. container[c].bytes \o Notification(c).bytes \in Seq(Byte)
    BY <2>2, ConcatProperties
  <2>4. /\ container' \in [Client -> [there : BOOLEAN, bytes : Seq(Byte)]]
        /\ saved' \in [Client -> [there : BOOLEAN, bytes : Seq(Byte)]]
    <3>1. CASE OpenStream(c)
      BY <2>2, <3>1 DEF OpenStream, Stream
    <3>2. CASE PushBlock(c)
      BY <2>3, <3>2 DEF PushBlock
    <3>3. CASE SaveStream(c)
      BY <2>2, <2>3, <3>3 DEF SaveStream, Stream, Nothing
    <3>4. CASE Ignore(c)
      BY <3>4 DEF Ignore
    <3>. QED  BY <1>7, <3>1, <3>2, <3>3, <3>4 DEF Receive
  <2>5. \A d \in Client : link'[d] # "up" => toClient'[d] = <<>>
    BY <2>1, HandleParts DEF Handle
  <2>. QED  BY <2>1, <2>4, <2>5, HandleParts DEF Handle, senderVars, serverVars
<1>8. ASSUME NEW c \in Client, Disconnect(c) PROVE RelayTypeOK'
  <2>1. PICK n \in 0..Len(toServer[c]) :
          toServer' = [toServer EXCEPT ![c] = SubSeq(@, 1, n)]
    BY <1>8 DEF Disconnect
  <2>2. SubSeq(toServer[c], 1, n) \in Seq(Request)
    BY PrefixRequest
  <2>. QED  BY <1>8, <2>1, <2>2, EmptySeq DEF Disconnect, senderVars,
    serverVars, receiverVars
<1>9. CASE UNCHANGED vars
  BY <1>9 DEF vars, senderVars, serverVars, receiverVars
<1>. QED  BY <1>1, <1>2, <1>3, <1>4, <1>5, <1>6, <1>7, <1>8, <1>9 DEF Next, Serve

-----------------------------------------------------------------------------
(* Who is on the list, and who is spoken to.                               *)

LEMMA ReadKnown ==
  ASSUME RelayTypeOK, KnownFirst, NEW c \in Client, NEW type,
         Read(c, type), UNCHANGED link,
         IF type = "hello" THEN account'[c] = AccountOf[c]
                           ELSE account'[c] = account[c]
  PROVE  InTurn(c)'
<1>. DEFINE q == toServer[c]
<1>1. /\ q \in Seq(Request) /\ q # <<>> /\ Head(q).type = type
      /\ toServer'[c] = Tail(q)
  BY ReadParts
<1>2. /\ Head(q) = q[1] /\ Len(q) \in Nat \ {0}
      /\ Len(Tail(q)) = Len(q) - 1
      /\ \A k \in 1..Len(q) - 1 : Tail(q)[k] = q[k + 1]
  BY <1>1, TailRequest
<1>3. ASSUME NEW k \in 1..Len(q) - 1
      PROVE  /\ Tail(q)[k].type = "file" => Tail(q)[k].from = c
             /\ Tail(q)[k].type = "version" =>
                  \/ account'[c] = AccountOf[c]
                  \/ \E j \in 1..k - 1 : Tail(q)[j].type = "hello"
  <2>1. k + 1 \in 1..Len(q) /\ Tail(q)[k] = q[k + 1] /\ (k + 1) - 1 = k
    BY <1>2
  <2>2. Tail(q)[k].type = "file" => Tail(q)[k].from = c
    BY <2>1 DEF KnownFirst, Known, InTurn
  <2>3. ASSUME Tail(q)[k].type = "version", account'[c] # AccountOf[c]
        PROVE  \E j \in 1..k - 1 : Tail(q)[j].type = "hello"
    <3>1. type # "hello" /\ account[c] # AccountOf[c]
      BY <2>3
    <3>2. PICK j \in 1..(k + 1) - 1 : q[j].type = "hello"
      BY <2>1, <2>3, <3>1 DEF KnownFirst, Known, InTurn
    <3>3. j # 1
      BY <1>1, <1>2, <3>1, <3>2
    <3>4. j - 1 \in 1..k - 1 /\ j - 1 \in 1..Len(q) - 1 /\ (j - 1) + 1 = j
      BY <1>2, <2>1, <3>2, <3>3
    <3>5. Tail(q)[j - 1].type = "hello"
      BY <1>2, <3>2, <3>4
    <3>. QED  BY <3>4, <3>5
  <2>. QED  BY <2>2, <2>3
<1>4. link[c] # "off"
  BY <1>1 DEF KnownFirst, Known, InTurn
<1>. QED  BY <1>1, <1>2, <1>3, <1>4 DEF InTurn

LEMMA SendKnown ==
  ASSUME RelayTypeOK, KnownFirst, NEW s \in Sender, Post(s)
  PROVE  /\ InTurn(s)'
         /\ \A d \in Client \ {s} : toServer'[d] = toServer[d]
         /\ UNCHANGED <<link, joined, account>>
<1>. DEFINE q == toServer[s]
<1>0. /\ s \in Client /\ link[s] = "up"
      /\ UNCHANGED <<link, joined, account>>
  BY FileRelayAssumption DEF Post, SendHead, SendLast, SendBlock, Sending,
    serverVars
<1>1. /\ \E x \in Transfer : x.from = s /\ toServer'[s] = Append(q, x)
      /\ \A d \in Client \ {s} : toServer'[d] = toServer[d]
  <2>1. CASE SendHead(s)
    <3>. DEFINE none == <<>>
    <3>1. none \in Seq(Byte) /\ 1 \in {0, 1, 2} /\ Send(s, 1, none)
      BY <2>1, EmptySeq DEF SendHead
    <3>. HIDE DEF none
    <3>. QED  BY <3>1, SendParts
  <2>2. CASE SendLast(s)
    BY <2>2, SendParts, RestParts DEF SendLast
  <2>3. CASE SendBlock(s)
    BY <2>3, SendParts, RestParts DEF SendBlock
  <2>. QED  BY <2>1, <2>2, <2>3 DEF Post
<1>2. PICK x \in Transfer : x.from = s /\ toServer'[s] = Append(q, x)
  BY <1>1
<1>3. /\ Len(q) \in Nat /\ Len(Append(q, x)) = Len(q) + 1
      /\ \A k \in 1..Len(q) : Append(q, x)[k] = q[k]
      /\ Append(q, x)[Len(q) + 1] = x
  <2>1. q \in Seq(Request) /\ x \in Request
    BY <1>0, Kinds DEF RelayTypeOK
  <2>. QED  BY <2>1, AppendRequest
<1>4. x.type = "file"
  BY Kinds
<1>5. ASSUME NEW k \in 1..Len(q) + 1
      PROVE  /\ Append(q, x)[k].type = "file" => Append(q, x)[k].from = s
             /\ Append(q, x)[k].type = "version" =>
                  \/ account[s] = AccountOf[s]
                  \/ \E j \in 1..k - 1 : Append(q, x)[j].type = "hello"
  <2>1. CASE k = Len(q) + 1
    BY <1>2, <1>3, <1>4, <2>1
  <2>2. CASE k \in 1..Len(q)
    <3>1. /\ q[k].type = "file" => q[k].from = s
          /\ q[k].type = "version" =>
               \/ account[s] = AccountOf[s]
               \/ \E j \in 1..k - 1 : q[j].type = "hello"
      BY <1>0, <2>2 DEF KnownFirst, Known, InTurn
    <3>2. \A j \in 1..k : Append(q, x)[j] = q[j]
      BY <1>3, <2>2
    <3>3. 1..k - 1 \subseteq 1..k /\ k \in 1..k
      BY <2>2
    <3>. QED  BY <3>1, <3>2, <3>3
  <2>. QED  BY <1>3, <2>1, <2>2
<1>. QED  BY <1>0, <1>1, <1>2, <1>3, <1>5 DEF InTurn

LEMMA KnownStep ==
  ASSUME RelayTypeOK, KnownFirst, [Next]_vars
  PROVE  KnownFirst'
<1>. SUFFICES ASSUME NEW d \in Client
              PROVE  Known(d)'
  BY DEF KnownFirst
<1>0. InTurn(d) /\ (joined[d] => account[d] = AccountOf[d])
  BY DEF KnownFirst, Known
<1>0a. ASSUME toServer'[d] = toServer[d], link'[d] = link[d],
              joined'[d] = joined[d], account'[d] = account[d]
       PROVE  Known(d)'
  BY <1>0, <1>0a DEF Known, InTurn
<1>1. ASSUME NEW c \in Client, Start(c) PROVE Known(d)'
  <2>1. CASE d = c
    <3>1. /\ toServer'[d] = Greeting /\ link'[d] = "up"
          /\ joined' = joined /\ account' = account
      BY <1>1, <2>1 DEF Start, RelayTypeOK, serverVars
    <3>2. \A k \in 1..2 : k = 1 \/ (k = 2 /\ 1 \in 1..k - 1)
      OBVIOUS
    <3>3. InTurn(d)'
      BY <3>1, <3>2, Kinds DEF InTurn
    <3>. QED  BY <1>0, <3>1, <3>3 DEF Known
  <2>2. CASE d # c
    BY <1>0a, <1>1, <2>2 DEF Start, RelayTypeOK, serverVars
  <2>. QED  BY <2>1, <2>2
<1>2. ASSUME NEW s \in Sender, Post(s) PROVE Known(d)'
  <2>1. CASE d = s
    BY <1>0, <1>2, <2>1, SendKnown DEF Known
  <2>2. CASE d # s
    BY <1>0a, <1>2, <2>2, SendKnown
  <2>. QED  BY <2>1, <2>2
<1>3. ASSUME NEW c \in Client, SayHello(c) PROVE Known(d)'
  <2>1. Read(c, "hello") /\ UNCHANGED link /\ UNCHANGED joined
    BY <1>3 DEF SayHello
  <2>2. account'[c] = AccountOf[c]
    BY <1>3 DEF SayHello, RelayTypeOK
  <2>3. CASE d = c
    BY <1>0, <2>1, <2>2, <2>3, ReadKnown DEF Known
  <2>4. CASE d # c
    BY <1>0a, <1>3, <2>1, <2>4, ReadParts DEF SayHello, RelayTypeOK
  <2>. QED  BY <2>3, <2>4
<1>4. ASSUME NEW c \in Client, VersionCheck(c) PROVE Known(d)'
  <2>1. Read(c, "version") /\ UNCHANGED link /\ UNCHANGED account
    BY <1>4 DEF VersionCheck
  <2>2. CASE d = c
    <3>1. account[c] = AccountOf[c]
      <4>1. toServer[c] \in Seq(Request) /\ toServer[c] # <<>>
            /\ Head(toServer[c]).type = "version"
        BY <2>1, ReadParts
      <4>2. 1 \in 1..Len(toServer[c]) /\ toServer[c][1].type = "version"
        BY <4>1, TailRequest
      <4>3. 1..1 - 1 = {}
        OBVIOUS
      <4>. QED  BY <1>0, <2>2, <4>2, <4>3 DEF InTurn
    <3>2. InTurn(c)'
      BY <2>1, ReadKnown
    <3>. QED  BY <2>1, <2>2, <3>1, <3>2 DEF Known
  <2>3. CASE d # c
    BY <1>0a, <1>4, <2>1, <2>3, ReadParts DEF VersionCheck, RelayTypeOK
  <2>. QED  BY <2>2, <2>3
<1>5. ASSUME NEW c \in Client, FileTransfer(c) PROVE Known(d)'
  <2>1. /\ Read(c, "file") /\ UNCHANGED link
        /\ UNCHANGED account /\ UNCHANGED joined
    BY <1>5 DEF FileTransfer, serverVars
  <2>2. CASE d = c
    BY <1>0, <2>1, <2>2, ReadKnown DEF Known
  <2>3. CASE d # c
    BY <1>0a, <2>1, <2>3, ReadParts
  <2>. QED  BY <2>2, <2>3
<1>6. ASSUME NEW c \in Client, Leave(c) PROVE Known(d)'
  <2>1. /\ UNCHANGED <<toServer, link, account>>
        /\ joined'[d] => joined[d]
    BY <1>6 DEF Leave, RelayTypeOK
  <2>. QED  BY <1>0, <2>1 DEF Known, InTurn
<1>7. ASSUME NEW c \in Client, Receive(c) PROVE Known(d)'
  <2>1. UNCHANGED <<link, joined, account, toServer>>
    BY <1>7 DEF Receive, OpenStream, PushBlock, SaveStream, Ignore, Handle,
      serverVars
  <2>. QED  BY <1>0a, <2>1
<1>8. ASSUME NEW c \in Client, Disconnect(c) PROVE Known(d)'
  <2>1. PICK n \in 0..Len(toServer[c]) :
          toServer' = [toServer EXCEPT ![c] = SubSeq(@, 1, n)]
    BY <1>8 DEF Disconnect
  <2>2. /\ link'[c] = "down" /\ UNCHANGED <<joined, account>>
        /\ \A e \in Client \ {c} : link'[e] = link[e]
    BY <1>8 DEF Disconnect, RelayTypeOK, serverVars
  <2>3. CASE d = c
    <3>1. toServer'[c] = SubSeq(toServer[c], 1, n)
      BY <2>1 DEF RelayTypeOK
    <3>2. /\ Len(toServer'[c]) = n /\ n \in 0..Len(toServer[c])
          /\ Len(toServer[c]) \in Nat
          /\ \A k \in 1..n : toServer'[c][k] = toServer[c][k]
      BY <3>1, PrefixRequest DEF RelayTypeOK
    <3>3. ASSUME NEW k \in 1..n
          PROVE  /\ toServer'[c][k] = toServer[c][k] /\ k \in 1..Len(toServer[c])
                 /\ \A j \in 1..k - 1 : toServer'[c][j] = toServer[c][j]
      <4>1. 1..k - 1 \subseteq 1..n /\ k \in 1..Len(toServer[c])
        BY <3>2
      <4>. QED  BY <3>2, <4>1
    <3>4. InTurn(c)'
      BY <1>0, <2>2, <2>3, <3>2, <3>3 DEF InTurn
    <3>. QED  BY <1>0, <2>2, <2>3, <3>4 DEF Known
  <2>4. CASE d # c
    BY <1>0a, <2>1, <2>2, <2>4 DEF RelayTypeOK
  <2>. QED  BY <2>3, <2>4
<1>9. CASE UNCHANGED vars
  BY <1>0a, <1>9 DEF vars, serverVars
<1>. QED  BY <1>1, <1>2, <1>3, <1>4, <1>5, <1>6, <1>7, <1>8, <1>9 DEF Next, Serve

LEMMA ReachesStep ==
  ASSUME RelayTypeOK, KnownFirst, ReachesTheAddressed, [Next]_vars
  PROVE  ReachesTheAddressed'
<1>. SUFFICES ASSUME NEW d \in Client,
                     \/ ~Addressed(d)'
                     \/ link'[d] = "off"
                     \/ link'[d] = "up" /\ ~joined'[d]
              PROVE  Untouched(d)'
  BY DEF ReachesTheAddressed
<1>. USE DEF RelayTypeOK
<1>0. \/ ~Addressed(d)
      \/ link[d] = "off"
      \/ link[d] = "up" /\ ~joined[d]
      => Untouched(d)
  BY DEF ReachesTheAddressed
<1>1. ASSUME UNCHANGED <<toAccount, toClient, heard>>,
             link'[d] = link[d] \/ link[d] = "off" \/ link'[d] = "down",
             link'[d] = "up" /\ joined[d] => joined'[d]
      PROVE  Untouched(d)'
  BY <1>0, <1>1 DEF Untouched, Addressed
<1>2. ASSUME NEW c \in Client, Start(c) PROVE Untouched(d)'
  BY <1>1, <1>2 DEF Start, senderVars, serverVars, receiverVars
<1>3. ASSUME NEW s \in Sender, Post(s) PROVE Untouched(d)'
  BY <1>1, <1>3 DEF Post, SendHead, SendLast, SendBlock, serverVars, receiverVars
<1>4. ASSUME NEW c \in Client, SayHello(c) PROVE Untouched(d)'
  BY <1>1, <1>4 DEF SayHello, senderVars, receiverVars
<1>5. ASSUME NEW c \in Client, VersionCheck(c) PROVE Untouched(d)'
  BY <1>1, <1>5 DEF VersionCheck, senderVars, receiverVars
<1>6. ASSUME NEW c \in Client, FileTransfer(c) PROVE Untouched(d)'
  <2>1. UNCHANGED <<toAccount, heard, link, joined>>
    BY <1>6 DEF FileTransfer, senderVars, serverVars, receiverVars
  <2>2. ~(d \in Recipients(c) /\ link[d] = "up")
    <3>. SUFFICES ASSUME d \in Recipients(c), link[d] = "up" PROVE FALSE
      OBVIOUS
    <3>1. joined[d] /\ account[d] = AccountOf[d]
      BY DEF Recipients, KnownFirst, Known
    <3>2. Addressed(d)
      BY <3>1 DEF Recipients, Addressed
    <3>. QED  BY <2>1, <3>1, <3>2 DEF Addressed
  <2>3. toClient'[d] = toClient[d]
    BY <1>6, <2>2, TransferParts
  <2>. QED  BY <1>0, <2>1, <2>3 DEF Untouched, Addressed
<1>7. ASSUME NEW c \in Client, Leave(c) PROVE Untouched(d)'
  BY <1>1, <1>7 DEF Leave, senderVars, receiverVars
<1>8. ASSUME NEW c \in Client, Receive(c) PROVE Untouched(d)'
  <2>1. Handle(c)
    BY <1>8 DEF Receive, OpenStream, PushBlock, SaveStream, Ignore
  <2>2. UNCHANGED <<toAccount, link, joined>> /\ toClient[c] # <<>>
    BY <2>1 DEF Handle, senderVars, serverVars
  <2>3. d # c
    BY <1>0, <2>2 DEF Untouched, Addressed
  <2>4. toClient'[d] = toClient[d] /\ heard'[d] = heard[d]
    BY <2>1, <2>3, HandleParts
  <2>. QED  BY <1>0, <2>2, <2>4 DEF Untouched, Addressed
<1>9. ASSUME NEW c \in Client, Disconnect(c) PROVE Untouched(d)'
  <2>1. UNCHANGED <<toAccount, heard, joined>>
    BY <1>9 DEF Disconnect, senderVars, serverVars, receiverVars
  <2>2. /\ toClient'[d] = <<>> \/ toClient'[d] = toClient[d]
        /\ link'[d] = "down" \/ link'[d] = link[d]
    BY <1>9 DEF Disconnect
  <2>. QED  BY <1>0, <2>1, <2>2 DEF Untouched, Addressed
<1>10. CASE UNCHANGED vars
  BY <1>1, <1>10 DEF vars, senderVars, serverVars, receiverVars
<1>. QED  BY <1>2, <1>3, <1>4, <1>5, <1>6, <1>7, <1>8, <1>9, <1>10 DEF Next, Serve

(* Only a client that handles a message changes its stream and its file.   *)
LEMMA OnlyReceive ==
  ASSUME [Next]_vars, ~\E c \in Client : Receive(c)
  PROVE  UNCHANGED <<container, saved, heard, sizeFirst, size, toAccount>>
<1>. USE DEF senderVars, serverVars, receiverVars
<1>1. ASSUME NEW c \in Client, Serve(c)
      PROVE  UNCHANGED <<container, saved, heard, sizeFirst, size, toAccount>>
  BY <1>1 DEF Serve, SayHello, VersionCheck, FileTransfer
<1>2. ASSUME NEW s \in Sender, Post(s)
      PROVE  UNCHANGED <<container, saved, heard, sizeFirst, size, toAccount>>
  BY <1>2 DEF Post, SendHead, SendLast, SendBlock
<1>. QED  BY <1>1, <1>2 DEF Next, Start, Leave, Disconnect, vars

LEMMA ReceiveParts ==
  ASSUME RelayTypeOK, NEW c \in Client, Receive(c)
  PROVE  /\ Handle(c)
         /\ UNCHANGED <<size, toAccount, head, rest, joined, account, sizeFirst,
                        link, toServer>>
         /\ \A d \in Client \ {c} :
              container'[d] = container[d] /\ saved'[d] = saved[d]
<1>. USE DEF senderVars, serverVars, RelayTypeOK
<1>1. Handle(c)
  BY DEF Receive, OpenStream, PushBlock, SaveStream, Ignore
<1>. QED  BY <1>1 DEF Handle, Receive, OpenStream, PushBlock, SaveStream, Ignore

LEMMA HasStep ==
  ASSUME RelayTypeOK, HasWhatItHeard, [Next]_vars
  PROVE  HasWhatItHeard'
<1>1. CASE ~\E c \in Client : Receive(c)
  BY <1>1, OnlyReceive DEF HasWhatItHeard
<1>2. ASSUME NEW c \in Client, Receive(c) PROVE HasWhatItHeard'
  <2>. SUFFICES ASSUME NEW d \in Client
                PROVE  /\ ~container'[d].there => container'[d].bytes = <<>>
                       /\ heard'[d] = {} => ~container'[d].there /\ ~saved'[d].there
    BY DEF HasWhatItHeard
  <2>1. CASE d # c
    BY <1>2, <2>1, HandleParts, ReceiveParts DEF HasWhatItHeard
  <2>2. CASE d = c
    <3>1. heard'[c] # {}
      BY <1>2, HandleParts, ReceiveParts
    <3>2. ~container[c].there => container[c].bytes = <<>>
      BY DEF HasWhatItHeard
    <3>3. ~container'[c].there => container'[c].bytes = <<>>
      <4>1. CASE OpenStream(c)
        BY <4>1 DEF OpenStream, Stream, RelayTypeOK
      <4>2. CASE PushBlock(c)
        BY <4>2 DEF PushBlock, Pushes, RelayTypeOK
      <4>3. CASE SaveStream(c)
        BY <4>3 DEF SaveStream, Nothing, RelayTypeOK
      <4>4. CASE Ignore(c)
        BY <3>2, <4>4 DEF Ignore
      <4>. QED  BY <1>2, <4>1, <4>2, <4>3, <4>4 DEF Receive
    <3>. QED  BY <2>2, <3>1, <3>3
  <2>. QED  BY <2>1, <2>2
<1>. QED  BY <1>1, <1>2

-----------------------------------------------------------------------------
(* What is still to be sent, and the places of what is sent.               *)

LEMMA OnlyPost ==
  ASSUME [Next]_vars, ~\E s \in Sender : Post(s)
  PROVE  UNCHANGED <<size, rest, head>>
<1>. USE DEF senderVars
<1>1. ASSUME NEW c \in Client, Serve(c) PROVE UNCHANGED <<size, rest, head>>
  BY <1>1 DEF Serve, SayHello, VersionCheck, FileTransfer
<1>2. ASSUME NEW c \in Client, Receive(c) PROVE UNCHANGED <<size, rest, head>>
  BY <1>2 DEF Receive, OpenStream, PushBlock, SaveStream, Ignore, Handle
<1>. QED  BY <1>1, <1>2 DEF Next, Start, Leave, Disconnect, vars

(* A step of a sender posts the message that has the place Sent(s).        *)
LEMMA PostParts ==
  ASSUME RelayTypeOK, RestOfFile, NEW s \in Sender, Post(s)
  PROVE  /\ s \in Client /\ link[s] = "up"
         /\ UNCHANGED <<size, toAccount, joined, account, sizeFirst, container,
                        saved, heard, link, toClient>>
         /\ \A t \in Sender \ {s} : rest'[t] = rest[t] /\ head'[t] = head[t]
         /\ \A d \in Client \ {s} : toServer'[d] = toServer[d]
         /\ Sent(s) \in Nat
         /\ Len(rest'[s]) \in Nat
         /\ Len(rest'[s]) <= size[s]
         /\ \E x \in Transfer :
              /\ toServer'[s] = Append(toServer[s], x)
              /\ x.from = s
              /\ Carries(x, s, size[s], Sent(s))
              /\ size[s] - Len(rest'[s]) = Sent(s) + Len(x.bytes)
         /\ \A k \in 1..Len(rest'[s]) :
              rest'[s][k] = [of |-> s, at |-> (size[s] - Len(rest'[s])) + k]
         /\ ~head'[s]  \/ size[s] = Len(rest'[s])
<1>. DEFINE r == rest[s]
<1>0. /\ s \in Client /\ link[s] = "up" /\ rest[s] # <<>>
      /\ UNCHANGED <<size, toAccount, joined, account, sizeFirst, container,
                     saved, heard, link, toClient>>
  BY FileRelayAssumption DEF Post, SendHead, SendLast, SendBlock, Sending,
    serverVars, receiverVars
<1>1. /\ r \in Seq(Byte) /\ Len(r) \in Nat /\ Len(r) > 0
      /\ size[s] \in Nat /\ Len(r) <= size[s]
      /\ Sent(s) = size[s] - Len(r) /\ Sent(s) \in Nat
      /\ \A k \in 1..Len(r) : r[k] = [of |-> s, at |-> Sent(s) + k]
      /\ head[s] => Sent(s) = 0
  BY <1>0, RestParts DEF RestOfFile, Sent, RelayTypeOK
<1>2. CASE SendHead(s)
  <2>. DEFINE none == <<>>
  <2>1. none \in Seq(Byte) /\ 1 \in {0, 1, 2} /\ Send(s, 1, none) /\ Len(none) = 0
    BY <1>2, EmptySeq DEF SendHead
  <2>. HIDE DEF none
  <2>2. PICK x \in Transfer : /\ x.from = s /\ x.status = 1 /\ x.bytes = none
                              /\ toServer'[s] = Append(toServer[s], x)
    BY <2>1, SendParts
  <2>3. Carries(x, s, size[s], Sent(s))
    BY <1>1, <1>2, <2>1, <2>2 DEF Carries, SendHead, none
  <2>4. \A d \in Client \ {s} : toServer'[d] = toServer[d]
    BY <2>1, SendParts
  <2>5. rest' = rest /\ ~head'[s] /\ \A t \in Sender \ {s} : head'[t] = head[t]
    BY <1>2 DEF SendHead, RelayTypeOK
  <2>6. size[s] - Len(rest'[s]) = Sent(s) + Len(x.bytes)
    BY <1>1, <2>1, <2>2, <2>5
  <2>. QED  BY <1>0, <1>1, <2>2, <2>3, <2>4, <2>5, <2>6
<1>3. CASE SendLast(s)
  <2>1. r \in Seq(Byte) /\ 0 \in {0, 1, 2} /\ Send(s, 0, r)
    BY <1>1, <1>3 DEF SendLast
  <2>2. PICK x \in Transfer : /\ x.from = s /\ x.status = 0 /\ x.bytes = r
                              /\ toServer'[s] = Append(toServer[s], x)
    BY <2>1, SendParts
  <2>3. Carries(x, s, size[s], Sent(s))
    BY <1>1, <2>2 DEF Carries
  <2>4. \A d \in Client \ {s} : toServer'[d] = toServer[d]
    BY <2>1, SendParts
  <2>5. /\ rest'[s] = <<>> /\ Len(rest'[s]) = 0
        /\ head' = head /\ ~head[s]
        /\ \A t \in Sender \ {s} : rest'[t] = rest[t]
    BY <1>3, EmptySeq DEF SendLast, RelayTypeOK
  <2>6. size[s] - Len(rest'[s]) = Sent(s) + Len(x.bytes)
    BY <1>1, <2>2, <2>5
  <2>. QED  BY <1>0, <1>1, <2>2, <2>3, <2>4, <2>5, <2>6
<1>4. CASE SendBlock(s)
  <2>1. /\ ~IsLast(s) /\ Block(s) \in Seq(Byte) /\ 2 \in {0, 1, 2}
        /\ Send(s, 2, Block(s))
    BY <1>4, RestParts DEF SendBlock
  <2>2. PICK x \in Transfer : /\ x.from = s /\ x.status = 2 /\ x.bytes = Block(s)
                              /\ toServer'[s] = Append(toServer[s], x)
    BY <2>1, SendParts
  <2>3. /\ BlockSize \in Nat \ {0} /\ BlockSize <= Len(r)
        /\ Len(x.bytes) = BlockSize
        /\ \A i \in 1..BlockSize : x.bytes[i] = r[i]
    BY <1>1, <2>1, <2>2, RestParts, FileRelayAssumption DEF IsLast
  <2>4. Carries(x, s, size[s], Sent(s))
    <3>1. \A i \in 1..BlockSize : i \in 1..Len(r)
      BY <1>1, <2>3
    <3>2. \A i \in 1..Len(x.bytes) : x.bytes[i] = [of |-> s, at |-> Sent(s) + i]
      BY <1>1, <2>3, <3>1
    <3>3. Sent(s) < size[s] /\ Sent(s) + Len(x.bytes) <= size[s]
      <4>. HIDE DEF r
      <4>. QED  BY <1>1, <2>3
    <3>. QED  BY <2>2, <3>2, <3>3 DEF Carries
  <2>5. \A d \in Client \ {s} : toServer'[d] = toServer[d]
    BY <2>1, SendParts
  <2>6. /\ rest'[s] = Remaining(s) /\ Len(rest'[s]) = Len(r) - BlockSize
        /\ \A i \in 1..Len(r) - BlockSize : rest'[s][i] = r[BlockSize + i]
        /\ head' = head /\ ~head[s]
        /\ \A t \in Sender \ {s} : rest'[t] = rest[t]
    BY <1>4, <2>1, RestParts DEF SendBlock, RelayTypeOK
  <2>7. ASSUME NEW k \in 1..Len(rest'[s])
        PROVE  rest'[s][k] = [of |-> s, at |-> (size[s] - Len(rest'[s])) + k]
    <3>1. /\ BlockSize + k \in 1..Len(r)
          /\ Sent(s) + (BlockSize + k) = (size[s] - Len(rest'[s])) + k
      BY <1>1, <2>3, <2>6
    <3>2. rest'[s][k] = r[BlockSize + k]
      BY <2>6
    <3>. QED  BY <1>1, <3>1, <3>2
  <2>8. /\ Len(rest'[s]) \in Nat /\ Len(rest'[s]) <= size[s]
        /\ size[s] - Len(rest'[s]) = Sent(s) + Len(x.bytes)
    <3>. HIDE DEF r
    <3>1. /\ Len(r) \in Nat /\ size[s] \in Nat /\ Len(r) <= size[s]
          /\ Sent(s) = size[s] - Len(r)
      BY <1>1
    <3>2. /\ BlockSize \in Nat /\ BlockSize <= Len(r)
          /\ Len(x.bytes) = BlockSize /\ Len(rest'[s]) = Len(r) - BlockSize
      BY <2>3, <2>6
    <3>. QED  BY <3>1, <3>2
  <2>. QED  BY <1>0, <1>1, <2>2, <2>4, <2>5, <2>6, <2>7, <2>8
<1>. QED  BY <1>2, <1>3, <1>4 DEF Post

LEMMA RestStep ==
  ASSUME RelayTypeOK, RestOfFile, [Next]_vars
  PROVE  RestOfFile'
<1>1. CASE ~\E s \in Sender : Post(s)
  BY <1>1, OnlyPost DEF RestOfFile, Sent
<1>2. ASSUME NEW s \in Sender, Post(s) PROVE RestOfFile'
  <2>. SUFFICES ASSUME NEW t \in Sender
                PROVE  /\ Len(rest'[t]) <= size'[t]
                       /\ \A k \in 1..Len(rest'[t]) :
                            rest'[t][k] = [of |-> t,
                                           at |-> (size'[t] - Len(rest'[t])) + k]
                       /\ head'[t] => size'[t] - Len(rest'[t]) = 0
    BY DEF RestOfFile, Sent
  <2>1. size' = size /\ size[t] \in Nat
    BY <1>2, PostParts DEF RelayTypeOK
  <2>2. CASE t = s
    <3>1. /\ Len(rest'[s]) \in Nat /\ Len(rest'[s]) <= size[s]
          /\ \A k \in 1..Len(rest'[s]) :
               rest'[s][k] = [of |-> s, at |-> (size[s] - Len(rest'[s])) + k]
          /\ ~head'[s] \/ size[s] = Len(rest'[s])
      BY <1>2, PostParts
    <3>2. head'[s] => size[s] - Len(rest'[s]) = 0
      BY <2>1, <2>2, <3>1
    <3>. QED  BY <2>1, <2>2, <3>1, <3>2
  <2>3. CASE t # s
    BY <1>2, <2>1, <2>3, PostParts DEF RestOfFile, Sent
  <2>. QED  BY <2>2, <2>3
<1>. QED  BY <1>1, <1>2

LEMMA NotItselfStep ==
  ASSUME RelayTypeOK, KnownFirst, NotItself, [Next]_vars
  PROVE  NotItself'
<1>. SUFFICES ASSUME toAccount' = Room, NEW d \in Client
              PROVE  \A k \in 1..Len(toClient'[d]) : toClient'[d][k].from # d
  BY DEF NotItself
<1>0. ASSUME toAccount' = toAccount, toClient'[d] \in {<<>>, toClient[d]}
      PROVE  \A k \in 1..Len(toClient'[d]) : toClient'[d][k].from # d
  <2>1. CASE toClient'[d] = <<>>
    <3>1. Len(toClient'[d]) = 0
      BY <2>1, EmptySeq
    <3>. QED  BY <3>1
  <2>2. CASE toClient'[d] = toClient[d]
    BY <1>0, <2>2 DEF NotItself
  <2>. QED  BY <1>0, <2>1, <2>2
<1>1. CASE \E c \in Client : FileTransfer(c)
  <2>1. PICK c \in Client : FileTransfer(c)
    BY <1>1
  <2>2. toAccount = Room
    BY <2>1 DEF FileTransfer, senderVars
  <2>3. CASE d \in Recipients(c) /\ link[d] = "up"
    <3>. DEFINE x == Head(toServer[c])
    <3>1. d # c
      BY <2>2, <2>3 DEF Recipients
    <3>2. x.from = c
      <4>1. toServer[c] \in Seq(Request) /\ toServer[c] # <<>> /\ x.type = "file"
        BY <2>1, ReadParts DEF FileTransfer
      <4>2. x = toServer[c][1] /\ 1 \in 1..Len(toServer[c])
        BY <4>1, TailRequest
      <4>. QED  BY <4>1, <4>2 DEF KnownFirst, Known, InTurn
    <3>3. /\ toClient'[d] = Append(toClient[d], x) /\ x \in Transfer
          /\ toClient[d] \in Seq(Transfer)
      BY <2>1, <2>3, TransferParts DEF RelayTypeOK
    <3>. HIDE DEF x
    <3>4. /\ Len(toClient[d]) \in Nat
          /\ Len(toClient'[d]) = Len(toClient[d]) + 1
          /\ \A k \in 1..Len(toClient[d]) : toClient'[d][k] = toClient[d][k]
          /\ toClient'[d][Len(toClient[d]) + 1] = x
      BY <3>3, AppendProperties, LenProperties
    <3>. QED  BY <2>2, <3>1, <3>2, <3>4 DEF NotItself
  <2>4. CASE ~(d \in Recipients(c) /\ link[d] = "up")
    <3>1. toClient'[d] = toClient[d] /\ toAccount' = toAccount
      BY <2>1, <2>4, TransferParts DEF FileTransfer, senderVars
    <3>. QED  BY <1>0, <3>1
  <2>. QED  BY <2>3, <2>4
<1>2. CASE \E c \in Client : Receive(c)
  <2>1. PICK c \in Client : Receive(c)
    BY <1>2
  <2>2. toAccount' = toAccount /\ Handle(c)
    BY <2>1, ReceiveParts
  <2>3. CASE d = c
    <3>1. toClient[c] \in Seq(Transfer) /\ toClient[c] # <<>>
          /\ toClient'[c] = Tail(toClient[c])
      BY <2>2, HandleParts
    <3>2. /\ Len(toClient[c]) \in Nat
          /\ Len(toClient'[c]) = Len(toClient[c]) - 1
          /\ \A k \in 1..Len(toClient'[c]) : toClient'[c][k] = toClient[c][k + 1]
      BY <3>1, HeadTailProperties, LenProperties
    <3>3. \A k \in 1..Len(toClient'[c]) : k + 1 \in 1..Len(toClient[c])
      BY <3>2
    <3>. QED  BY <2>2, <2>3, <3>2, <3>3 DEF NotItself
  <2>4. CASE d # c
    BY <1>0, <2>2, <2>4, HandleParts
  <2>. QED  BY <2>3, <2>4
<1>3. CASE \E c \in Client : Disconnect(c)
  BY <1>0, <1>3 DEF Disconnect, senderVars, RelayTypeOK
<1>4. CASE \E c \in Client : Start(c) \/ SayHello(c) \/ VersionCheck(c) \/ Leave(c)
  BY <1>0, <1>4 DEF Start, SayHello, VersionCheck, Leave, senderVars
<1>5. CASE \E s \in Sender : Post(s)
  BY <1>0, <1>5 DEF Post, SendHead, SendLast, SendBlock
<1>6. CASE UNCHANGED vars
  BY <1>0, <1>6 DEF vars, senderVars
<1>. QED  BY <1>1, <1>2, <1>3, <1>4, <1>5, <1>6 DEF Next, Serve

-----------------------------------------------------------------------------
(* Each step takes a file on, or leaves it where it is.                    *)

LEMMA UntouchedRelayed ==
  ASSUME RelayTypeOK, HasWhatItHeard, NEW c \in Client, Untouched(c), NEW s,
         NEW n \in Nat
  PROVE  Relayed(s, n, c)
<1>1. toClient[c] = <<>> /\ container[c].bytes = <<>> /\ heard[c] # {s}
  BY DEF Untouched, HasWhatItHeard
<1>2. RunsTo(container[c].bytes, s, n)
  BY <1>1, NoBytes
<1>3. Leads(toClient[c], s, size[s], n, n)
  BY <1>1, LeadsNowhere
<1>. QED  BY <1>1, <1>2, <1>3 DEF Relayed, GotTo

(* What is not of s does not take the file of s on.                        *)
LEMMA OthersPass ==
  ASSUME RelayTypeOK, KnownFirst, NEW c \in Client, NEW type, Read(c, type),
         NEW s \in Sender, c # s \/ type # "file", NEW n
  PROVE  ~Of(Head(toServer[c]), s) /\ Moves(Head(toServer[c]), s, size[s], n, n)
<1>. DEFINE x == Head(toServer[c])
<1>1. toServer[c] \in Seq(Request) /\ toServer[c] # <<>> /\ x.type = type
  BY ReadParts
<1>2. x = toServer[c][1] /\ 1 \in 1..Len(toServer[c])
  BY <1>1, TailRequest
<1>3. x.type = "file" => x.from = c
  BY <1>2 DEF KnownFirst, Known, InTurn
<1>4. ~Of(x, s)
  BY <1>1, <1>3 DEF Of
<1>. HIDE DEF x
<1>5. Moves(x, s, size[s], n, n)
  BY <1>4 DEF Moves
<1>. QED  BY <1>4, <1>5 DEF x

LEMMA PostedSame ==
  ASSUME NEW s, NEW n, Posted(s, n),
         toServer'[s] = toServer[s], size'[s] = size[s], rest'[s] = rest[s],
         link'[s] # "down" => link[s] # "down"
  PROVE  Posted(s, n)'
BY DEF Posted, Sent

LEMMA RelayedSame ==
  ASSUME NEW s, NEW n, NEW c, Relayed(s, n, c),
         toClient'[c] = toClient[c], container'[c] = container[c],
         saved'[c] = saved[c], heard'[c] = heard[c], size'[s] = size[s]
  PROVE  Relayed(s, n, c)'
BY DEF Relayed, GotTo

LEMMA PostPosted ==
  ASSUME RelayTypeOK, RestOfFile, NEW s \in Sender, Post(s), NEW n,
         Posted(s, n)
  PROVE  Posted(s, n)'
<1>1. PICK x \in Transfer :
        /\ toServer'[s] = Append(toServer[s], x)
        /\ x.from = s
        /\ Carries(x, s, size[s], Sent(s))
        /\ size[s] - Len(rest'[s]) = Sent(s) + Len(x.bytes)
  BY PostParts
<1>2. /\ s \in Client /\ link[s] = "up" /\ size' = size
      /\ Sent(s) \in Nat /\ Len(rest'[s]) \in Nat /\ Len(rest'[s]) <= size[s]
  BY PostParts
<1>3. Leads(toServer[s], s, size[s], n, Sent(s))
  BY <1>2 DEF Posted
<1>4. size[s] - Len(rest'[s]) \in Nat
  <2>1. size[s] \in Nat
    BY DEF RelayTypeOK
  <2>. QED  BY <1>2, <2>1
<1>5. Moves(x, s, size[s], Sent(s), size[s] - Len(rest'[s]))
  <2>1. Of(x, s)
    BY <1>1, Kinds DEF Of
  <2>. QED  BY <1>1, <2>1 DEF Moves
<1>6. toServer[s] \in Seq(Request) /\ x \in Request
  BY <1>2, Kinds DEF RelayTypeOK
<1>7. Leads(Append(toServer[s], x), s, size[s], n, size[s] - Len(rest'[s]))
  BY <1>2, <1>3, <1>4, <1>5, <1>6, LeadsOn
<1>. QED  BY <1>1, <1>2, <1>4, <1>7 DEF Posted, Sent

LEMMA StartPosted ==
  ASSUME RelayTypeOK, KnownFirst, NEW s \in Sender, Start(s), NEW n \in Nat,
         Posted(s, n)
  PROVE  Posted(s, n)'
<1>1. /\ s \in Client /\ link[s] = "off" /\ toServer[s] = <<>>
      /\ toServer'[s] = Greeting
      /\ UNCHANGED <<size, rest>>
  BY FileRelayAssumption DEF Start, KnownFirst, Known, InTurn, RelayTypeOK,
    senderVars
<1>2. Leads(<<>>, s, size[s], n, Sent(s))
  BY <1>1 DEF Posted
<1>3. n = Sent(s)
  <2>1. Len(<<>>) = 0
    BY EmptySeq
  <2>. QED  BY <1>2, <2>1 DEF Leads
<1>4. Leads(Greeting, s, size[s], n, n)
  <2>. DEFINE place == [k \in 0..2 |-> n]
  <2>1. place \in [0..2 -> Nat] /\ place[0] = n /\ place[2] = n
    OBVIOUS
  <2>2. ASSUME NEW k \in 1..2
        PROVE  Moves(Greeting[k], s, size[s], place[k - 1], place[k])
    <3>1. Greeting[k].type # "file"
      BY Kinds
    <3>2. place[k - 1] = n /\ place[k] = n
      OBVIOUS
    <3>. QED  BY <3>1, <3>2 DEF Moves, Of
  <2>. HIDE DEF place
  <2>. QED  BY <2>1, <2>2, Kinds DEF Leads
<1>. QED  BY <1>1, <1>3, <1>4 DEF Posted, Sent

LEMMA ReadPosted ==
  ASSUME RelayTypeOK, KnownFirst, NEW s \in Sender, NEW type, Read(s, type),
         UNCHANGED <<size, rest, link>>, NEW n \in Nat, Posted(s, n)
  PROVE  \E m \in Nat : /\ Posted(s, m)'
                        /\ Moves(Head(toServer[s]), s, size[s], n, m)
                        /\ type # "file" => m = n
<1>1. PICK e \in Nat : /\ Leads(toServer[s], s, size[s], n, e)
                       /\ link[s] # "down" => e = Sent(s)
  BY DEF Posted
<1>2. /\ toServer[s] \in Seq(Request) /\ toServer[s] # <<>>
      /\ toServer'[s] = Tail(toServer[s])
  BY ReadParts, FileRelayAssumption
<1>3. PICK m \in Nat : /\ Moves(Head(toServer[s]), s, size[s], n, m)
                       /\ Leads(Tail(toServer[s]), s, size[s], m, e)
  BY <1>1, <1>2, LeadsFrom
<1>4. Posted(s, m)'
  BY <1>1, <1>2, <1>3 DEF Posted, Sent
<1>5. type # "file" => m = n
  BY <1>3, OthersPass, FileRelayAssumption DEF Moves
<1>. QED  BY <1>3, <1>4, <1>5

LEMMA LostPosted ==
  ASSUME RelayTypeOK, NEW s \in Sender, Disconnect(s), NEW n, Posted(s, n)
  PROVE  Posted(s, n)'
<1>1. PICK e \in Nat : Leads(toServer[s], s, size[s], n, e)
  BY DEF Posted
<1>2. s \in Client /\ toServer[s] \in Seq(Request)
  BY FileRelayAssumption DEF RelayTypeOK
<1>3. PICK l \in 0..Len(toServer[s]) : toServer'[s] = SubSeq(toServer[s], 1, l)
  BY <1>2 DEF Disconnect, RelayTypeOK
<1>4. link'[s] = "down" /\ size' = size
  BY <1>2 DEF Disconnect, RelayTypeOK, senderVars
<1>5. \E d \in Nat : Leads(SubSeq(toServer[s], 1, l), s, size[s], n, d)
  BY <1>1, <1>2, LeadsPartly
<1>. QED  BY <1>3, <1>4, <1>5 DEF Posted

LEMMA TransferRelayed ==
  ASSUME RelayTypeOK, KnownFirst, ReachesTheAddressed, HasWhatItHeard,
         NEW d \in Client, FileTransfer(d), NEW s \in Sender,
         NEW n \in Nat, NEW m \in Nat,
         Moves(Head(toServer[d]), s, size[s], n, m), d # s => m = n,
         NEW c \in Client, link[c] = "up", ~(toAccount = Room /\ c = s),
         Relayed(s, n, c)
  PROVE  Relayed(s, m, c)'
<1>1. UNCHANGED <<size, container, saved, heard>>
  BY DEF FileTransfer, senderVars, receiverVars
<1>2. CASE c \in Recipients(d)
  <2>. DEFINE x == Head(toServer[d])
  <2>1. x \in Transfer /\ x \in Request /\ toClient'[c] = Append(toClient[c], x)
    BY <1>2, TransferParts, Kinds
  <2>2. toClient[c] \in Seq(Request)
    BY Kinds, SeqMonotonic DEF RelayTypeOK
  <2>3. PICK l \in Nat : Leads(toClient[c], s, size[s], l, n) /\ GotTo(c, s, l)
    BY DEF Relayed
  <2>4. Leads(Append(toClient[c], x), s, size[s], l, m)
    BY <2>1, <2>2, <2>3, LeadsOn
  <2>5. GotTo(c, s, l)'
    BY <1>1, <2>3 DEF GotTo
  <2>. QED  BY <1>1, <2>1, <2>4, <2>5 DEF Relayed
<1>3. CASE c \notin Recipients(d)
  <2>1. toClient'[c] = toClient[c]
    BY <1>3, TransferParts
  <2>2. Relayed(s, m, c)
    <3>1. CASE d = s
      <4>1. \/ ~joined[c]
            \/ toAccount # Room /\ account[c] # toAccount
        BY <1>3, <3>1 DEF Recipients
      <4>2. joined[c] => account[c] = AccountOf[c]
        BY DEF KnownFirst, Known
      <4>3. Untouched(c)
        BY <4>1, <4>2 DEF ReachesTheAddressed, Addressed
      <4>. QED  BY <4>3, UntouchedRelayed
    <3>2. CASE d # s
      BY <3>2
    <3>. QED  BY <3>1, <3>2
  <2>. QED  BY <1>1, <2>1, <2>2, RelayedSame
<1>. QED  BY <1>2, <1>3

LEMMA FirstBytes ==
  ASSUME NEW f \in Seq(Byte), NEW b \in Seq(Byte), NEW s, NEW n \in Nat,
         IsStart(f, s, n), Continues(b, s, n)
  PROVE  IsStart(f \o b, s, n + Len(b))
<1>. DEFINE g == f \o b
<1>1. /\ Len(f) = n /\ Len(b) \in Nat
      /\ Len(g) = n + Len(b)
      /\ \A i \in 1..n : g[i] = f[i]
      /\ \A i \in n + 1..n + Len(b) : g[i] = b[i - n] /\ i - n \in 1..Len(b)
  BY JoinBytes DEF IsStart
<1>. HIDE DEF g
<1>2. ASSUME NEW i \in 1..n + Len(b) PROVE g[i] = [of |-> s, at |-> i]
  <2>1. CASE i \in 1..n
    BY <1>1, <2>1 DEF IsStart
  <2>2. CASE i \in n + 1..n + Len(b)
    <3>1. b[i - n] = [of |-> s, at |-> n + (i - n)] /\ n + (i - n) = i
      BY <1>1, <2>2 DEF Continues
    <3>. QED  BY <1>1, <2>2, <3>1
  <2>. QED  BY <1>1, <2>1, <2>2
<1>. QED  BY <1>1, <1>2 DEF IsStart, g

(* The client c handles a message of t that has the place p.               *)
LEMMA ReceiveCases ==
  ASSUME RelayTypeOK, HasWhatItHeard, NEW c \in Client, Receive(c)
  PROVE  LET x == Notification(c)
         IN  \/ /\ x.status = 1 /\ ~container[c].there
                /\ container'[c].there /\ container'[c].bytes = <<>>
                /\ saved'[c] = saved[c]
             \/ /\ x.status = 2 /\ container[c].there
                /\ container'[c].there
                /\ container'[c].bytes = container[c].bytes \o x.bytes
                /\ saved'[c] = saved[c]
             \/ /\ x.status = 0 /\ container[c].there
                /\ ~container'[c].there /\ container'[c].bytes = <<>>
                /\ saved'[c].there
                /\ saved'[c].bytes =
                     IF sizeFirst THEN container[c].bytes \o x.bytes ELSE <<>>
             \/ /\ \/ x.status = 1 /\ container[c].there
                   \/ container[c].bytes = <<>> /\ ~container[c].there
                /\ container'[c] = container[c]
                /\ saved'[c] = saved[c]
<1>. USE DEF RelayTypeOK
<1>1. CASE OpenStream(c)
  BY <1>1 DEF OpenStream, Opens, Stream
<1>2. CASE PushBlock(c)
  BY <1>2 DEF PushBlock, Pushes
<1>3. CASE SaveStream(c)
  BY <1>3 DEF SaveStream, Saves, Stream, Nothing
<1>4. CASE Ignore(c)
  <2>1. Notification(c).status \in {0, 1, 2}
    BY <1>4, HandleParts, Kinds DEF Ignore
  <2>2. ~container[c].there => container[c].bytes = <<>>
    BY DEF HasWhatItHeard
  <2>3. container[c].there \in BOOLEAN
    OBVIOUS
  <2>. QED  BY <1>4, <2>1, <2>2, <2>3 DEF Ignore, Opens, Pushes, Saves
<1>. QED  BY <1>1, <1>2, <1>3, <1>4 DEF Receive

(* What c has of s after it handled a message of another sender t.         *)
LEMMA GotOfAnother ==
  ASSUME RelayTypeOK, HasWhatItHeard, NEW c \in Client, Receive(c),
         NEW s \in Sender, Notification(c).from # s, NEW p \in Nat,
         Carries(Notification(c), Notification(c).from,
                 size[Notification(c).from], p),
         NEW m \in Nat, GotTo(c, s, m)
  PROVE  GotTo(c, s, m)'
<1>. DEFINE x == Notification(c)
            t == x.from
            b == x.bytes
<1>1. x \in Transfer /\ b \in Seq(Byte) /\ t \in Sender
  BY ReceiveParts, HandleParts, Kinds
<1>2. heard'[c] # {s}
  BY ReceiveParts, HandleParts
<1>3. \A i \in 1..Len(b) : b[i].of # s
  <2>. SUFFICES ASSUME NEW i \in 1..Len(b) PROVE b[i].of # s
    OBVIOUS
  <2>1. b[i] = [of |-> t, at |-> p + i]
    BY DEF Carries
  <2>2. b[i].of = t
    BY <2>1
  <2>. QED  BY <2>2
<1>4. RunsTo(container[c].bytes, s, m) /\ container[c].bytes \in Seq(Byte)
  BY DEF GotTo, RelayTypeOK
<1>5. RunsTo(container[c].bytes \o b, s, m)
  BY <1>1, <1>3, <1>4, RunsStill
<1>6. RunsTo(<<>>, s, m)
  BY NoBytes
<1>7. RunsTo(container'[c].bytes, s, m)
  BY <1>4, <1>5, <1>6, ReceiveCases
<1>. QED  BY <1>2, <1>7 DEF GotTo

(* What c has of s after it handled a message of s.                        *)
LEMMA GotOfTheSender ==
  ASSUME RelayTypeOK, HasWhatItHeard, NEW c \in Client, Receive(c),
         NEW s \in Sender, Notification(c).from = s, NEW m \in Nat,
         Carries(Notification(c), s, size[s], m), GotTo(c, s, m),
         NEW e \in Nat, e = m + Len(Notification(c).bytes)
  PROVE  GotTo(c, s, e)'
<1>. DEFINE x == Notification(c)
            b == x.bytes
<1>1. /\ x \in Transfer /\ b \in Seq(Byte) /\ Len(b) \in Nat
      /\ heard'[c] = heard[c] \cup {s} /\ size' = size
  BY ReceiveParts, HandleParts, Kinds, LenProperties
<1>2. /\ m < size[s]
      /\ Continues(b, s, m)
      /\ x.status = 1 => m = 0 /\ b = <<>>
      /\ x.status = 0 => e = size[s]
      /\ size[s] \in Nat
  BY DEF Carries, Continues, RelayTypeOK
<1>3. RunsTo(container[c].bytes, s, m) /\ container[c].bytes \in Seq(Byte)
  BY DEF GotTo, RelayTypeOK
<1>4. ASSUME heard'[c] = {s}
      PROVE  /\ ~saved[c].there
             /\ container[c].there => IsStart(container[c].bytes, s, m)
  <2>1. CASE heard[c] = {}
    BY <2>1 DEF HasWhatItHeard
  <2>2. CASE heard[c] = {s}
    BY <1>2, <2>2 DEF GotTo
  <2>. QED  BY <1>1, <1>4, <2>1, <2>2
<1>5. /\ RunsTo(container[c].bytes \o b, s, e)
      /\ IsStart(container[c].bytes, s, m) => IsStart(container[c].bytes \o b, s, e)
  BY <1>1, <1>2, <1>3, RunsOn, FirstBytes
<1>6. RunsTo(<<>>, s, e)
  BY NoBytes
<1>7. x.status = 1 => e = m /\ e = 0
  <2>1. Len(<<>>) = 0
    BY EmptySeq
  <2>. QED  BY <1>2, <2>1
<1>8. IsStart(<<>>, s, 0)
  <2>1. Len(<<>>) = 0 /\ 1..0 = {}
    BY EmptySeq
  <2>. QED  BY <2>1 DEF IsStart
<1>. HIDE DEF x, b
<1>9. CASE /\ x.status = 1 /\ ~container[c].there
           /\ container'[c].there /\ container'[c].bytes = <<>>
           /\ saved'[c] = saved[c]
  BY <1>1, <1>4, <1>6, <1>7, <1>8, <1>9 DEF GotTo
<1>10. CASE /\ x.status = 2 /\ container[c].there
            /\ container'[c].there
            /\ container'[c].bytes = container[c].bytes \o b
            /\ saved'[c] = saved[c]
  BY <1>1, <1>4, <1>5, <1>10 DEF GotTo
<1>11. CASE /\ x.status = 0 /\ container[c].there
            /\ ~container'[c].there /\ container'[c].bytes = <<>>
            /\ saved'[c].there
  BY <1>1, <1>2, <1>6, <1>11 DEF GotTo
<1>12. CASE /\ \/ x.status = 1 /\ container[c].there
               \/ container[c].bytes = <<>> /\ ~container[c].there
            /\ container'[c] = container[c]
            /\ saved'[c] = saved[c]
  BY <1>1, <1>3, <1>4, <1>6, <1>7, <1>12 DEF GotTo
<1>. QED  BY <1>9, <1>10, <1>11, <1>12, ReceiveCases DEF x, b

LEMMA ReceiveRelayed ==
  ASSUME RelayTypeOK, HasWhatItHeard, NotItself, PiecesOnTheirWay,
         NEW c \in Client, Receive(c), NEW s \in Sender, NEW n \in Nat,
         Relayed(s, n, c)
  PROVE  Relayed(s, n, c)'
<1>. DEFINE x == Notification(c)
<1>1. PICK m \in Nat : Leads(toClient[c], s, size[s], m, n) /\ GotTo(c, s, m)
  BY DEF Relayed
<1>2. /\ toClient[c] \in Seq(Request) /\ toClient[c] # <<>>
      /\ toClient'[c] = Tail(toClient[c]) /\ size' = size
      /\ x = Head(toClient[c]) /\ x \in Transfer
  BY ReceiveParts, HandleParts, Kinds, SeqMonotonic
<1>3. PICK e \in Nat : /\ Moves(x, s, size[s], m, e)
                       /\ Leads(Tail(toClient[c]), s, size[s], e, n)
  BY <1>1, <1>2, LeadsFrom
<1>4. CASE x.from = s
  <2>1. Of(x, s)
    BY <1>2, <1>4, Kinds DEF Of
  <2>2. Carries(x, s, size[s], m) /\ e = m + Len(x.bytes)
    BY <1>3, <2>1 DEF Moves
  <2>3. GotTo(c, s, e)'
    BY <1>1, <1>4, <2>2, GotOfTheSender
  <2>. QED  BY <1>2, <1>3, <2>2, <2>3 DEF Relayed
<1>5. CASE x.from # s
  <2>. DEFINE t == x.from
  <2>1. t \in Sender /\ e = m
    BY <1>2, <1>3, <1>5, Kinds DEF Moves, Of
  <2>2. PICK q \in Nat, p \in Nat : Leads(toClient[c], t, size[t], p, q)
    <3>1. ~(toAccount = Room /\ c = t)
      BY <1>2, TailRequest DEF NotItself
    <3>2. link[c] = "up"
      BY ReceiveParts DEF Handle
    <3>. QED  BY <2>1, <3>1, <3>2 DEF PiecesOnTheirWay, OnItsWay, Relayed
  <2>3. Carries(x, t, size[t], p)
    <3>1. Of(x, t)
      BY <1>2, Kinds DEF Of
    <3>2. \E d \in Nat : Moves(x, t, size[t], p, d)
      BY <1>2, <2>2, LeadsFrom
    <3>. QED  BY <3>1, <3>2 DEF Moves
  <2>4. GotTo(c, s, m)'
    BY <1>1, <1>5, <2>3, GotOfAnother
  <2>. QED  BY <1>2, <1>3, <2>1, <2>4 DEF Relayed
<1>. QED  BY <1>4, <1>5

LEMMA PiecesStep ==
  ASSUME RelayTypeOK, RestOfFile, KnownFirst, ReachesTheAddressed, NotItself,
         HasWhatItHeard, PiecesOnTheirWay, [Next]_vars
  PROVE  PiecesOnTheirWay'
<1>. USE DEF senderVars, serverVars, receiverVars
<1>. SUFFICES ASSUME NEW s \in Sender PROVE \E m \in Nat : OnItsWay(s, m)'
  BY DEF PiecesOnTheirWay
<1>0. PICK n \in Nat : OnItsWay(s, n)
  BY DEF PiecesOnTheirWay
<1>. DEFINE For(c) == ~(toAccount = Room /\ c = s)
<1>1. /\ s \in Client /\ Posted(s, n)
      /\ \A c \in Client : link[c] = "up" /\ For(c) => Relayed(s, n, c)
  BY <1>0, FileRelayAssumption DEF OnItsWay
<1>2. ASSUME NEW m \in Nat, Posted(s, m)', toAccount' = toAccount,
             \A c \in Client : link'[c] = "up" /\ For(c) => Relayed(s, m, c)'
      PROVE  \E l \in Nat : OnItsWay(s, l)'
  BY <1>2 DEF OnItsWay
<1>3. ASSUME UNCHANGED <<toClient, container, saved, heard, size, toAccount>>,
             Posted(s, n)', \A c \in Client : link'[c] = "up" => link[c] = "up"
      PROVE  \E m \in Nat : OnItsWay(s, m)'
  BY <1>1, <1>2, <1>3, RelayedSame
<1>4. ASSUME NEW c \in Client, Start(c) PROVE \E m \in Nat : OnItsWay(s, m)'
  <2>1. /\ UNCHANGED <<toClient, container, saved, heard, size, rest, toAccount>>
        /\ link[c] = "off"
        /\ \A d \in Client \ {c} : link'[d] = link[d] /\ toServer'[d] = toServer[d]
    BY <1>4 DEF Start, RelayTypeOK
  <2>2. Posted(s, n)'
    <3>1. CASE c = s
      BY <1>1, <1>4, <3>1, StartPosted
    <3>2. CASE c # s
      BY <1>1, <2>1, <3>2, PostedSame
    <3>. QED  BY <3>1, <3>2
  <2>3. Relayed(s, n, c)'
    <3>1. Untouched(c)
      BY <2>1 DEF ReachesTheAddressed
    <3>2. Relayed(s, n, c)
      BY <3>1, UntouchedRelayed
    <3>. QED  BY <2>1, <3>2, RelayedSame
  <2>4. ASSUME NEW d \in Client, link'[d] = "up", For(d) PROVE Relayed(s, n, d)'
    BY <1>1, <2>1, <2>3, <2>4, RelayedSame
  <2>. QED  BY <1>2, <2>1, <2>2, <2>4
<1>5. ASSUME NEW t \in Sender, Post(t) PROVE \E m \in Nat : OnItsWay(s, m)'
  <2>1. Posted(s, n)'
    <3>1. CASE t = s
      BY <1>1, <1>5, <3>1, PostPosted
    <3>2. CASE t # s
      <4>1. /\ toServer'[s] = toServer[s] /\ rest'[s] = rest[s]
            /\ UNCHANGED <<size, link>>
        BY <1>1, <1>5, <3>2, PostParts
      <4>. QED  BY <1>1, <4>1, PostedSame
    <3>. QED  BY <3>1, <3>2
  <2>2. UNCHANGED <<toClient, container, saved, heard, size, toAccount, link>>
    BY <1>5, PostParts
  <2>. QED  BY <1>3, <2>1, <2>2
<1>6. ASSUME NEW c \in Client, SayHello(c) \/ VersionCheck(c)
      PROVE  \E m \in Nat : OnItsWay(s, m)'
  <2>1. PICK type \in {"hello", "version"} : Read(c, type)
    BY <1>6 DEF SayHello, VersionCheck
  <2>2. UNCHANGED <<toClient, container, saved, heard, size, rest, toAccount, link>>
    BY <1>6 DEF SayHello, VersionCheck
  <2>3. Posted(s, n)'
    <3>1. CASE c = s
      BY <1>1, <2>1, <2>2, <3>1, ReadPosted
    <3>2. CASE c # s
      BY <1>1, <2>1, <2>2, <3>2, ReadParts, PostedSame
    <3>. QED  BY <3>1, <3>2
  <2>. QED  BY <1>3, <2>2, <2>3
<1>7. ASSUME NEW c \in Client, FileTransfer(c) PROVE \E m \in Nat : OnItsWay(s, m)'
  <2>1. Read(c, "file") /\ UNCHANGED <<size, rest, toAccount, link>>
    BY <1>7 DEF FileTransfer
  <2>2. PICK m \in Nat : /\ Posted(s, m)'
                         /\ Moves(Head(toServer[c]), s, size[s], n, m)
                         /\ c # s => m = n
    <3>1. CASE c = s
      BY <1>1, <2>1, <3>1, ReadPosted
    <3>2. CASE c # s
      <4>1. Posted(s, n)'
        BY <1>1, <2>1, <3>2, ReadParts, PostedSame
      <4>2. Moves(Head(toServer[c]), s, size[s], n, n)
        BY <2>1, <3>2, OthersPass
      <4>. QED  BY <4>1, <4>2
    <3>. QED  BY <3>1, <3>2
  <2>3. ASSUME NEW d \in Client, link'[d] = "up", For(d) PROVE Relayed(s, m, d)'
    BY <1>1, <1>7, <2>1, <2>2, <2>3, TransferRelayed
  <2>. QED  BY <1>2, <2>1, <2>2, <2>3
<1>8. ASSUME NEW c \in Client, Leave(c) PROVE \E m \in Nat : OnItsWay(s, m)'
  <2>1. /\ UNCHANGED <<toClient, container, saved, heard, size, rest, toAccount,
                       link, toServer>>
    BY <1>8 DEF Leave
  <2>2. Posted(s, n)'
    BY <1>1, <2>1, PostedSame
  <2>. QED  BY <1>3, <2>1, <2>2
<1>9. ASSUME NEW c \in Client, Receive(c) PROVE \E m \in Nat : OnItsWay(s, m)'
  <2>1. /\ Handle(c)
        /\ UNCHANGED <<size, toAccount, rest, link, toServer>>
        /\ \A d \in Client \ {c} :
             container'[d] = container[d] /\ saved'[d] = saved[d]
    BY <1>9, ReceiveParts
  <2>2. Posted(s, n)'
    BY <1>1, <2>1, PostedSame
  <2>3. ASSUME NEW d \in Client, link'[d] = "up", For(d) PROVE Relayed(s, n, d)'
    <3>1. Relayed(s, n, d)
      BY <1>1, <2>1, <2>3
    <3>2. CASE d = c
      BY <1>9, <3>1, <3>2, ReceiveRelayed
    <3>3. CASE d # c
      BY <2>1, <3>1, <3>3, HandleParts, RelayedSame
    <3>. QED  BY <3>2, <3>3
  <2>. QED  BY <1>2, <2>1, <2>2, <2>3
<1>10. ASSUME NEW c \in Client, Disconnect(c) PROVE \E m \in Nat : OnItsWay(s, m)'
  <2>1. /\ UNCHANGED <<container, saved, heard, size, rest, toAccount>>
        /\ link'[c] = "down"
        /\ \A d \in Client \ {c} :
             /\ link'[d] = link[d] /\ toServer'[d] = toServer[d]
             /\ toClient'[d] = toClient[d]
    BY <1>10 DEF Disconnect, RelayTypeOK
  <2>2. Posted(s, n)'
    <3>1. CASE c = s
      BY <1>1, <1>10, <3>1, LostPosted
    <3>2. CASE c # s
      BY <1>1, <2>1, <3>2, PostedSame
    <3>. QED  BY <3>1, <3>2
  <2>3. ASSUME NEW d \in Client, link'[d] = "up", For(d) PROVE Relayed(s, n, d)'
    BY <1>1, <2>1, <2>3, RelayedSame
  <2>. QED  BY <1>2, <2>1, <2>2, <2>3
<1>11. CASE UNCHANGED vars
  <2>1. Posted(s, n)'
    BY <1>1, <1>11, PostedSame DEF vars
  <2>. QED  BY <1>3, <1>11, <2>1 DEF vars
<1>. QED  BY <1>4, <1>5, <1>6, <1>7, <1>8, <1>9, <1>10, <1>11 DEF Next, Serve

-----------------------------------------------------------------------------
(* What is collected and saved.                                            *)

(* A message that a client handles has a place in its sender's file.       *)
LEMMA HandledHasPlace ==
  ASSUME RelayTypeOK, NotItself, PiecesOnTheirWay, NEW c \in Client, Handle(c)
  PROVE  LET x == Notification(c)
         IN  \E p \in Nat : /\ Carries(x, x.from, size[x.from], p)
                            /\ GotTo(c, x.from, p)
<1>. DEFINE x == Notification(c)
            t == x.from
<1>1. /\ toClient[c] \in Seq(Request) /\ toClient[c] # <<>>
      /\ x = Head(toClient[c]) /\ x \in Transfer /\ t \in Sender
  BY HandleParts, Kinds, SeqMonotonic
<1>2. ~(toAccount = Room /\ c = t) /\ link[c] = "up"
  BY <1>1, TailRequest DEF NotItself, Handle
<1>3. PICK q \in Nat, p \in Nat :
        Leads(toClient[c], t, size[t], p, q) /\ GotTo(c, t, p)
  BY <1>1, <1>2 DEF PiecesOnTheirWay, OnItsWay, Relayed
<1>4. \E e \in Nat : Moves(x, t, size[t], p, e)
  BY <1>1, <1>3, LeadsFrom
<1>5. Of(x, t)
  BY <1>1, Kinds DEF Of
<1>6. Carries(x, t, size[t], p)
  BY <1>4, <1>5 DEF Moves
<1>. QED  BY <1>3, <1>6

LEMMA PiecesWholeStep ==
  ASSUME RelayTypeOK, HasWhatItHeard, NotItself, PiecesOnTheirWay,
         PiecesStayWhole, [Next]_vars
  PROVE  PiecesStayWhole'
<1>1. CASE ~\E c \in Client : Receive(c)
  BY <1>1, OnlyReceive DEF PiecesStayWhole
<1>2. ASSUME NEW c \in Client, Receive(c) PROVE PiecesStayWhole'
  <2>. DEFINE x == Notification(c)
              f == container[c].bytes
  <2>1. Handle(c) /\ \A d \in Client \ {c} :
          container'[d] = container[d] /\ saved'[d] = saved[d]
    BY <1>2, ReceiveParts
  <2>2. PICK p \in Nat : Carries(x, x.from, size[x.from], p) /\ GotTo(c, x.from, p)
    BY <2>1, HandledHasPlace
  <2>3. x.bytes \in Seq(Byte) /\ f \in Seq(Byte)
    BY <2>1, HandleParts, Kinds DEF RelayTypeOK
  <2>4. InOrder(f) /\ InOrder(saved[c].bytes) /\ InOrder(<<>>)
    BY NoBytes DEF PiecesStayWhole
  <2>5. InOrder(f \o x.bytes)
    BY <2>2, <2>3, <2>4, OrderKept DEF Carries, Continues, GotTo
  <2>6. InOrder(container'[c].bytes) /\ InOrder(saved'[c].bytes)
    BY <1>2, <2>4, <2>5, ReceiveCases
  <2>. QED  BY <2>1, <2>6 DEF PiecesStayWhole
<1>. QED  BY <1>1, <1>2

(* The whole file is known by its bytes.                                   *)
LEMMA WholeFile ==
  ASSUME RelayTypeOK, NEW s \in Sender, NEW f \in Seq(Byte),
         IsStart(f, s, size[s])
  PROVE  f = File(s)
<1>1. size[s] \in Nat
  BY DEF RelayTypeOK
<1>2. \A k \in 1..size[s] : [of |-> s, at |-> k] \in Byte
  BY <1>1 DEF Byte
<1>3. File(s) \in Seq(Byte)
  BY <1>1, <1>2, IsASeq DEF File
<1>4. File(s) \in [1..size[s] -> Byte]
  BY <1>2 DEF File
<1>5. Len(File(s)) = size[s]
  <2>1. DOMAIN File(s) = 1..size[s] /\ DOMAIN File(s) = 1..Len(File(s))
    BY <1>3, LenProperties DEF File
  <2>2. Len(File(s)) \in Nat
    BY <1>3, LenProperties
  <2>. QED  BY <1>1, <2>1, <2>2
<1>6. \A k \in 1..size[s] : f[k] = File(s)[k]
  BY DEF IsStart, File
<1>. QED  BY <1>3, <1>5, <1>6, SeqEqual DEF IsStart

LEMMA OneSenderStep ==
  ASSUME RelayTypeOK, HasWhatItHeard, NotItself, PiecesOnTheirWay,
         OneSenderWholeFile, [Next]_vars
  PROVE  OneSenderWholeFile'
<1>1. CASE ~\E c \in Client : Receive(c)
  <2>1. UNCHANGED <<container, saved, heard, sizeFirst, size>>
    BY <1>1, OnlyReceive
  <2>2. \A s \in Sender : File(s)' = File(s)
    BY <2>1 DEF File
  <2>. QED  BY <2>1, <2>2 DEF OneSenderWholeFile
<1>2. ASSUME NEW c \in Client, Receive(c) PROVE OneSenderWholeFile'
  <2>. SUFFICES ASSUME NEW d \in Client, NEW s \in Sender,
                       sizeFirst', saved'[d].there, heard'[d] = {s}
                PROVE  saved'[d].bytes = File(s)'
    BY DEF OneSenderWholeFile
  <2>. DEFINE x == Notification(c)
              f == container[c].bytes
  <2>1. /\ Handle(c) /\ size' = size /\ sizeFirst' = sizeFirst
        /\ \A e \in Client \ {c} :
             container'[e] = container[e] /\ saved'[e] = saved[e]
    BY <1>2, ReceiveParts
  <2>2. File(s)' = File(s)
    BY <2>1 DEF File
  <2>3. CASE d # c
    BY <2>1, <2>2, <2>3, HandleParts DEF OneSenderWholeFile
  <2>4. CASE d = c
    <3>1. /\ x.from = s /\ heard[c] \subseteq {s}
          /\ x.bytes \in Seq(Byte) /\ f \in Seq(Byte)
      <4>1. heard'[c] = heard[c] \cup {x.from} /\ x \in Transfer
        BY <2>1, HandleParts
      <4>2. x.from = s /\ heard[c] \subseteq {s}
        BY <2>4, <4>1
      <4>3. x.bytes \in Seq(Byte)
        BY <4>1, Kinds
      <4>4. f \in Seq(Byte)
        BY DEF RelayTypeOK
      <4>. QED  BY <4>2, <4>3, <4>4
    <3>2. PICK p \in Nat : Carries(x, s, size[s], p) /\ GotTo(c, s, p)
      BY <2>1, <3>1, HandledHasPlace
    <3>3. container[c].there \/ saved[c].there => heard[c] = {s}
      BY <3>1 DEF HasWhatItHeard
    <3>4. ~saved[c].there
      BY <3>2, <3>3 DEF GotTo, Carries
    <3>5. /\ x.status = 0 /\ container[c].there
          /\ saved'[c].bytes = f \o x.bytes
      BY <1>2, <2>1, <2>4, <3>4, ReceiveCases
    <3>6. /\ IsStart(f, s, p) /\ p + Len(x.bytes) = size[s]
          /\ Continues(x.bytes, s, p)
      BY <3>2, <3>3, <3>5 DEF GotTo, Carries, Continues
    <3>7. IsStart(f \o x.bytes, s, size[s])
      BY <3>1, <3>6, FirstBytes
    <3>8. f \o x.bytes \in Seq(Byte)
      BY <3>1, ConcatProperties
    <3>. QED  BY <2>2, <2>4, <3>5, <3>7, <3>8, WholeFile
  <2>. QED  BY <2>3, <2>4
<1>. QED  BY <1>1, <1>2

-----------------------------------------------------------------------------
LEMMA InitIInv == Init => IInv
<1>. SUFFICES ASSUME Init PROVE IInv
  OBVIOUS
<1>. USE DEF Init
<1>1. RelayTypeOK
  BY InitTypes
<1>2. Len(<<>>) = 0 /\ 1..0 = {}
  BY EmptySeq
<1>3. ASSUME NEW s \in Sender
      PROVE  /\ Len(rest[s]) = size[s] /\ Sent(s) = 0
             /\ \A k \in 1..Len(rest[s]) : rest[s][k] = [of |-> s, at |-> k]
  <2>1. /\ rest[s] = [k \in 1..size[s] |-> [of |-> s, at |-> k]]
        /\ size[s] \in Nat /\ Len(rest[s]) \in Nat
        /\ DOMAIN rest[s] = 1..Len(rest[s])
    BY <1>1, LenProperties DEF File, RelayTypeOK
  <2>2. 1..size[s] = 1..Len(rest[s])
    BY <2>1
  <2>3. Len(rest[s]) = size[s]
    BY <2>1, <2>2
  <2>. QED  BY <2>1, <2>3 DEF Sent
<1>4. RestOfFile
  <2>. SUFFICES ASSUME NEW s \in Sender
                PROVE  /\ Len(rest[s]) <= size[s] /\ Sent(s) = 0
                       /\ \A k \in 1..Len(rest[s]) :
                            rest[s][k] = [of |-> s, at |-> Sent(s) + k]
    BY DEF RestOfFile
  <2>1. size[s] \in Nat
    BY <1>1 DEF RelayTypeOK
  <2>. QED  BY <1>3, <2>1
<1>5. KnownFirst
  BY <1>2 DEF KnownFirst, Known, InTurn
<1>6. ReachesTheAddressed /\ NotItself
  BY <1>2 DEF ReachesTheAddressed, Untouched, NotItself
<1>7. HasWhatItHeard
  BY DEF HasWhatItHeard, Nothing
<1>8. PiecesOnTheirWay
  <2>. SUFFICES ASSUME NEW s \in Sender PROVE OnItsWay(s, 0)
    BY DEF PiecesOnTheirWay
  <2>1. s \in Client /\ Sent(s) = 0 /\ toServer[s] = <<>>
    BY <1>3, FileRelayAssumption
  <2>2. Posted(s, 0)
    BY <2>1, LeadsNowhere DEF Posted
  <2>. QED  BY <2>2 DEF OnItsWay
<1>9. PiecesStayWhole /\ OneSenderWholeFile
  BY NoBytes DEF PiecesStayWhole, OneSenderWholeFile, Nothing
<1>. QED  BY <1>1, <1>4, <1>5, <1>6, <1>7, <1>8, <1>9 DEF IInv

LEMMA NextIInv == IInv /\ [Next]_vars => IInv'
BY NextTypes, RestStep, KnownStep, ReachesStep, NotItselfStep, HasStep,
   PiecesStep, PiecesWholeStep, OneSenderStep DEF IInv

LEMMA Inductive == Spec => []IInv
BY InitIInv, NextIInv, PTL DEF Spec

-----------------------------------------------------------------------------
(* The variables keep their types, and what is on its way to a client is   *)
(* lost with its connection.                                               *)
THEOREM TypeCorrect == Spec => []RelayTypeOK
<1>1. IInv => RelayTypeOK
  BY DEF IInv
<1>. QED  BY Inductive, <1>1, PTL

(* The bytes of each sender stay together in what a client collects and in *)
(* what it saves (FileStream of the receiving fclient), whoever else sends *)
(* at the same time, wherever a client comes in and whoever is lost.       *)
THEOREM PiecesWhole == Spec => []PiecesStayWhole
<1>1. IInv => PiecesStayWhole
  BY DEF IInv
<1>. QED  BY Inductive, <1>1, PTL

(* A client that hears of one sender saves its whole file or none, where   *)
(* the build evaluates Size() first.                                       *)
THEOREM WholeOrNothing == Spec => []OneSenderWholeFile
<1>1. IInv => OneSenderWholeFile
  BY DEF IInv
<1>. QED  BY Inductive, <1>1, PTL

(* A file for one account is heard by the clients of that account only,    *)
(* whatever account_ of a session is before its hello is read.             *)
THEOREM Confined == Spec => []OnlyTheAddressed
<1>1. IInv => OnlyTheAddressed
  <2>. SUFFICES ASSUME IInv, toAccount # Room,
                       NEW c \in Client, heard[c] # {}
                PROVE  AccountOf[c] = toAccount
    BY DEF OnlyTheAddressed
  <2>. QED  BY DEF IInv, ReachesTheAddressed, Untouched, Addressed
<1>. QED  BY Inductive, <1>1, PTL
=============================================================================
