---------------------------- MODULE UpgradeProofs ----------------------------
(***************************************************************************)
(* Theorems about Upgrade, for packages and blocks of every size.          *)
(***************************************************************************)
EXTENDS Upgrade, SequenceTheorems, TLAPS

-----------------------------------------------------------------------------
(* Sequences.                                                              *)

LEMMA OneMessage ==
  ASSUME NEW S, NEW x \in S
  PROVE  Append(<<>>, x) = <<x>> /\ <<x>> # <<>> /\ <<x>> \in Seq(S)
<1>1. Append(<<>>, x) = <<x>>
  BY <<>> \in Seq(S), AppendProperties
<1>. QED  BY <1>1

LEMMA PartProperties ==
  ASSUME NEW b \in Bytes, NEW start \in Nat, NEW length \in Nat
  PROVE  /\ Part(b, start, length) \in Bytes
         /\ Len(Part(b, start, length)) = length
         /\ \A k \in 1..length :
              start + k <= Len(b) => Part(b, start, length)[k] = b[start + k]
<1>1. \A k \in 1..length :
        (IF start + k <= Len(b) THEN b[start + k] ELSE Zero) \in Cell
  BY DEF Bytes, Cell
<1>2. Part(b, start, length) \in Seq(Cell)
  <2>. HIDE DEF Cell
  <2>. QED  BY <1>1, IsASeq DEF Part
<1>. QED  BY <1>2 DEF Part, Bytes

(* Two parts one after the other are a part.                               *)
LEMMA PartsJoin ==
  ASSUME NEW b \in Bytes, NEW m \in Nat, NEW n \in Nat, m + n <= Len(b)
  PROVE  Part(b, 0, m) \o Part(b, m, n) = Part(b, 0, m + n)
<1>. DEFINE p == Part(b, 0, m)
            q == Part(b, m, n)
            r == Part(b, 0, m + n)
<1>0. b \in Seq(Cell) /\ Len(b) \in Nat /\ 0 \in Nat
  BY DEF Bytes
<1>1. p \in Seq(Cell) /\ Len(p) = m /\ \A k \in 1..m : p[k] = b[k]
  <2>1. \A k \in 1..m : 0 + k <= Len(b) /\ 0 + k = k
    BY <1>0
  <2>2. /\ p \in Seq(Cell) /\ Len(p) = m
        /\ \A k \in 1..m : 0 + k <= Len(b) => p[k] = b[0 + k]
    BY <1>0, PartProperties DEF Bytes
  <2>3. ASSUME NEW k \in 1..m PROVE p[k] = b[k]
    BY <2>1, <2>2
  <2>. QED  BY <2>2, <2>3
<1>2. q \in Seq(Cell) /\ Len(q) = n /\ \A k \in 1..n : q[k] = b[m + k]
  <2>1. \A k \in 1..n : m + k <= Len(b)
    BY <1>0
  <2>2. /\ q \in Seq(Cell) /\ Len(q) = n
        /\ \A k \in 1..n : m + k <= Len(b) => q[k] = b[m + k]
    BY PartProperties DEF Bytes
  <2>. QED  BY <2>1, <2>2
<1>3. r \in Seq(Cell) /\ Len(r) = m + n /\ \A k \in 1..m + n : r[k] = b[k]
  <2>1. \A k \in 1..m + n : 0 + k <= Len(b) /\ 0 + k = k
    BY <1>0
  <2>2. m + n \in Nat
    OBVIOUS
  <2>3. /\ r \in Seq(Cell) /\ Len(r) = m + n
        /\ \A k \in 1..m + n : 0 + k <= Len(b) => r[k] = b[0 + k]
    BY <1>0, <2>2, PartProperties DEF Bytes
  <2>4. ASSUME NEW k \in 1..m + n PROVE r[k] = b[k]
    BY <2>1, <2>3
  <2>. QED  BY <2>3, <2>4
<1>. HIDE DEF p, q, r
<1>4. /\ p \o q \in Seq(Cell) /\ Len(p \o q) = m + n
      /\ \A k \in 1..m + n : (p \o q)[k] = IF k <= m THEN p[k] ELSE q[k - m]
  BY <1>1, <1>2, ConcatProperties, ZenonT(60)
<1>5. ASSUME NEW k \in 1..m + n
      PROVE  (p \o q)[k] = r[k]
  <2>1. CASE k <= m
    <3>1. k \in 1..m
      BY <2>1
    <3>. QED  BY <2>1, <3>1, <1>1, <1>3, <1>4
  <2>2. CASE ~(k <= m)
    <3>1. k - m \in 1..n /\ m + (k - m) = k
      BY <2>2
    <3>2. q[k - m] = b[m + (k - m)]
      BY <3>1, <1>2
    <3>3. q[k - m] = b[k]
      BY <3>1, <3>2
    <3>4. (p \o q)[k] = q[k - m]
      BY <2>2, <1>4
    <3>. QED  BY <3>3, <3>4, <1>3
  <2>. QED  BY <2>1, <2>2
<1>6. p \o q = r
  BY <1>3, <1>4, <1>5, SeqEqual
<1>. QED  BY <1>6 DEF p, q, r

(* The four sections of a file are the file.                               *)
LEMMA FourSections ==
  ASSUME NEW b \in Bytes, NEW q \in Nat, 4 * q <= Len(b)
  PROVE  ((Part(b, 0, q) \o Part(b, q, q)) \o Part(b, 2 * q, q))
           \o Part(b, 3 * q, Len(b) - 3 * q) = b
<1>. Len(b) \in Nat
  BY DEF Bytes
<1>0. /\ q + q = 2 * q /\ 2 * q + q = 3 * q
      /\ q + q <= Len(b) /\ 2 * q + q <= Len(b)
      /\ 2 * q \in Nat /\ 3 * q \in Nat
      /\ Len(b) - 3 * q \in Nat /\ 3 * q + (Len(b) - 3 * q) = Len(b)
      /\ 3 * q + (Len(b) - 3 * q) <= Len(b)
  OBVIOUS
<1>1. Part(b, 0, q) \o Part(b, q, q) = Part(b, 0, 2 * q)
  <2>1. Part(b, 0, q) \o Part(b, q, q) = Part(b, 0, q + q)
    BY <1>0, PartsJoin
  <2>. QED  BY <2>1, <1>0
<1>2. Part(b, 0, 2 * q) \o Part(b, 2 * q, q) = Part(b, 0, 3 * q)
  <2>1. Part(b, 0, 2 * q) \o Part(b, 2 * q, q) = Part(b, 0, 2 * q + q)
    BY <1>0, PartsJoin
  <2>. QED  BY <2>1, <1>0
<1>3. Part(b, 0, 3 * q) \o Part(b, 3 * q, Len(b) - 3 * q) = Part(b, 0, Len(b))
  <2>. DEFINE m == 3 * q
              n == Len(b) - 3 * q
  <2>1. m \in Nat /\ n \in Nat /\ m + n <= Len(b) /\ m + n = Len(b)
    BY <1>0
  <2>. HIDE DEF m, n
  <2>2. Part(b, 0, m) \o Part(b, m, n) = Part(b, 0, m + n)
    BY <2>1, PartsJoin
  <2>3. Part(b, 0, m) \o Part(b, m, n) = Part(b, 0, Len(b))
    BY <2>1, <2>2
  <2>. QED  BY <2>3 DEF m, n
<1>4. Part(b, 0, Len(b)) = b
  <2>0. 0 \in Nat /\ \A k \in 1..Len(b) : 0 + k <= Len(b) /\ 0 + k = k
    OBVIOUS
  <2>2. /\ Part(b, 0, Len(b)) \in Bytes
        /\ Len(Part(b, 0, Len(b))) = Len(b)
        /\ \A k \in 1..Len(b) :
             0 + k <= Len(b) => Part(b, 0, Len(b))[k] = b[0 + k]
    BY <2>0, PartProperties
  <2>1. ASSUME NEW k \in 1..Len(b) PROVE Part(b, 0, Len(b))[k] = b[k]
    BY <2>0, <2>2
  <2>. QED  BY <2>1, <2>2, SeqEqual DEF Bytes
<1>. QED  BY <1>1, <1>2, <1>3, <1>4

(* What is cut off in front and what is left make the whole.               *)
LEMMA Cut ==
  ASSUME NEW b \in Bytes, NEW n \in 0..Len(b)
  PROVE  /\ SubSeq(b, 1, n) \in Bytes /\ SubSeq(b, n + 1, Len(b)) \in Bytes
         /\ Len(SubSeq(b, n + 1, Len(b))) = Len(b) - n
         /\ SubSeq(b, 1, n) \o SubSeq(b, n + 1, Len(b)) = b
<1>1. b \in Seq(Cell) /\ Len(b) \in Nat /\ n \in Nat
  BY DEF Bytes
<1>2. \A k \in 1..Len(b) : b[k] \in Cell
  BY <1>1
<1>3. SubSeq(b, 1, n) \in Seq(Cell) /\ SubSeq(b, n + 1, Len(b)) \in Seq(Cell)
  BY <1>1, <1>2, SubSeqProperties
<1>4. Len(SubSeq(b, n + 1, Len(b))) = Len(b) - n
  BY <1>1, <1>2, SubSeqProperties
<1>5. SubSeq(b, 1, n) \o SubSeq(b, n + 1, Len(b)) = SubSeq(b, 1, Len(b))
  <2>1. 1 \in 1..Len(b) + 1 /\ n \in 1 - 1..Len(b) /\ Len(b) \in n..Len(b)
    BY <1>1
  <2>. QED  BY <1>1, <2>1, ConcatAdjacentSubSeq
<1>6. SubSeq(b, 1, Len(b)) = b
  BY <1>1, SubSeqFull
<1>. QED  BY <1>3, <1>4, <1>5, <1>6 DEF Bytes

(* All of it is 100 percent, and less is less.                             *)
LEMMA Hundred ==
  ASSUME NEW c \in Nat, NEW n \in Nat, n > 0, c <= n
  PROVE  /\ (c * 100) \div n \in Nat
         /\ (c * 100) \div n >= 100 <=> c = n
<1>. DEFINE q == (c * 100) \div n
<1>1. q \in Nat /\ n * q <= c * 100
  OBVIOUS
<1>2. ASSUME c < n, q >= 100 PROVE FALSE
  <2>1. n * q >= n * 100
    <3>. HIDE DEF q
    <3>. QED  BY <1>1, <1>2
  <2>. QED  BY <1>1, <1>2, <2>1
<1>3. (n * 100) \div n = 100
  OBVIOUS
<1>. QED  BY <1>1, <1>2, <1>3

-----------------------------------------------------------------------------
(* The inductive invariant.                                                *)

(* One message is on its way or one request is being handled.              *)
Queues ==
  /\ Len(toServer) <= 1 /\ Len(toClient) <= 1
  /\ toServer = <<>> \/ toClient = <<>>
  /\ handler.pc # "ready" \/ link # "up" \/ outcome # NoOutcome
       => toServer = <<>> /\ toClient = <<>>
  /\ outcome # NoOutcome => handler.pc = "ready"

(* Until the package has been read there is nothing of it anywhere.        *)
Early ==
  \/ toServer # <<>> /\ Head(toServer) # "file"
  \/ toClient # <<>> /\ Head(toClient).type = "version"
  \/ handler.pc # "ready"

Unread ==
  /\ Early => size = 0 /\ content = <<>> /\ stream = <<>> /\ outcome = NoOutcome
  /\ handler.pc # "sections" => section = [i \in Thread |-> <<>>]

Numbers ==
  /\ Len(content) = size - consumed
  /\ toServer # <<>> /\ Head(toServer) = "file" /\ size > 0 => consumed < size
  /\ outcome # NoOutcome => consumed = size

Answers ==
  toClient # <<>> =>
    /\ Head(toClient).type = "reply" => consumed = 0 /\ stream = <<>>
    /\ Head(toClient).type = "block" =>
         /\ size > 0
         /\ Head(toClient).checksum = checksum
         /\ Head(toClient).process >= 100 <=> consumed = size

(* What was read is with the client, on its way or still with the server.  *)
Whole == (stream \o InFlight) \o content
Transferring == link = "up" /\ outcome = NoOutcome
Conserved == Transferring => Len(Whole) = size

Sums ==
  /\ checksum \in Package
  /\ outcome.said = "success" => SumOf(outcome.file) \in Package

(* What is read of a package nobody touches is that package.               *)
Read ==
  handler.pc = "sections" =>
    /\ package.there
    /\ handler.filesize = Len(package.bytes)
    /\ \A i \in Thread \ handler.left :
         section[i] = Part(package.bytes, Start(i), Length(i))

Untouched ==
  installs = 0 =>
    /\ handler.pc # "ready" \/ size > 0 => checksum = package
    /\ size > 0 => package.there
    /\ Read
    /\ size > 0 /\ Transferring => Whole = package.bytes
    /\ outcome # NoOutcome /\ sizeFirst =>
         outcome = [said |-> "success", file |-> package.bytes]

IInv ==
  /\ UpgradeTypeOK
  /\ Queues
  /\ Unread
  /\ Numbers
  /\ Answers
  /\ Conserved
  /\ Sums
  /\ Untouched

-----------------------------------------------------------------------------
(* Types.                                                                  *)

LEMMA Single ==
  ASSUME NEW S, NEW q \in Seq(S), q # <<>>, Len(q) <= 1
  PROVE  Head(q) \in S /\ Tail(q) = <<>>
<1>1. Len(q) = 1
  <2>1. Len(q) \in Nat /\ Len(q) # 0
    BY EmptySeq
  <2>. QED  BY <2>1
<1>2. Head(q) \in S /\ Tail(q) \in Seq(S) /\ Len(Tail(q)) = 0
  BY <1>1, HeadTailProperties
<1>. QED  BY <1>2, EmptySeq

LEMMA Put ==
  ASSUME NEW S, NEW x \in S
  PROVE  /\ Append(<<>>, x) \in Seq(S)
         /\ Len(Append(<<>>, x)) = 1
         /\ Append(<<>>, x) # <<>>
         /\ Head(Append(<<>>, x)) = x
<1>1. <<>> \in Seq(S) /\ Len(<<>>) = 0
  BY EmptySeq
<1>2. /\ Append(<<>>, x) \in Seq(S) /\ Len(Append(<<>>, x)) = 1
      /\ Append(<<>>, x)[1] = x
  BY <1>1, AppendProperties
<1>. QED  BY <1>2

LEMMA PackageTypes ==
  ASSUME NEW p \in Package
  PROVE  p \in Sum
<1>1. Absent \in Sum
  BY DEF Absent, Sum, Bytes
<1>2. ASSUME NEW r \in Release, NEW n \in 0..MaxSize
      PROVE  Installed(r, n) \in Sum
  <2>1. n \in Nat
    BY <1>2
  <2>2. \A k \in 1..n : [of |-> r, at |-> k] \in Cell
    BY <2>1 DEF Cell, Byte
  <2>3. Bin(r, n) \in Seq(Cell)
    <3>. HIDE DEF Cell
    <3>. QED  BY <2>1, <2>2, IsASeq DEF Bin
  <2>. QED  BY <2>3 DEF Installed, Sum, Bytes
<1>. QED  BY <1>1, <1>2 DEF Package

LEMMA BlockProperties ==
  ASSUME UpgradeTypeOK, Numbers, size > 0
  PROVE  /\ Block \in 0..Len(content)
         /\ Lesser(Block, Len(content)) = Block
         /\ consumed + Block \in 0..size
         /\ Rest >= BlockSize \/ Block = Len(content)
         /\ Percent \in Nat
         /\ Percent >= 100 <=> consumed + Block = size
<1>1. /\ size \in Nat /\ consumed \in Nat /\ consumed <= size
      /\ Len(content) = size - consumed /\ BlockSize \in Nat
  BY UpgradeAssumption DEF UpgradeTypeOK, Numbers
<1>2. /\ Block \in 0..Len(content)
      /\ Lesser(Block, Len(content)) = Block
      /\ Rest >= BlockSize \/ Block = Len(content)
  BY <1>1 DEF Block, Rest, Lesser
<1>3. consumed + Block \in 0..size
  <2>. HIDE DEF Block
  <2>. QED  BY <1>1, <1>2
<1>4. /\ Percent \in Nat
      /\ Percent >= 100 <=> consumed + Block = size
  <2>1. consumed + Block \in Nat /\ consumed + Block <= size
    BY <1>1, <1>3
  <2>. QED  BY <1>1, <2>1, Hundred DEF Percent
<1>. QED  BY <1>2, <1>3, <1>4

-----------------------------------------------------------------------------
(* The steps before the package is read.                                   *)

LEMMA EmptyWhole ==
  ASSUME stream = <<>>, content = <<>>, InFlight = <<>>
  PROVE  Whole = <<>> /\ Len(Whole) = 0
BY DEF Whole

LEMMA InitInvariant ==
  Init => IInv
<1>. SUFFICES ASSUME Init PROVE IInv
  OBVIOUS
<1>1. package \in Sum /\ Absent \in Package /\ Absent \in Sum
  BY PackageTypes DEF Init, Package
<1>2. <<>> \in Bytes /\ Len(<<>>) = 0
  BY DEF Bytes
<1>3. Len(toServer) = 1 /\ Head(toServer) = "version" /\ toServer \in Seq(Request)
  BY DEF Init, Request
<1>4. UpgradeTypeOK
  BY <1>1, <1>2, <1>3
     DEF Init, UpgradeTypeOK, Ready, Handler, NoOutcome
<1>5. Queues /\ Unread
  BY <1>2, <1>3 DEF Init, Queues, Unread, Ready, NoOutcome
<1>6. Numbers /\ Answers
  BY <1>2, <1>3 DEF Init, Numbers, Answers, NoOutcome
<1>7. Conserved
  BY EmptyWhole DEF Init, Conserved, InFlight
<1>8. Sums
  BY <1>1 DEF Init, Sums, NoOutcome
<1>9. Untouched
  BY DEF Init, Untouched, Read, Ready, NoOutcome
<1>. QED  BY <1>4, <1>5, <1>6, <1>7, <1>8, <1>9 DEF IInv

(* What a request on its way, or a response, says about the rest.          *)
LEMMA Receiving ==
  ASSUME IInv, NEW r \in Request, Receive(r)
  PROVE  /\ toClient = <<>> /\ toServer' = <<>> /\ handler.pc = "ready"
         /\ outcome = NoOutcome /\ link = "up" /\ InFlight = <<>>
         /\ r # "file" =>
              size = 0 /\ content = <<>> /\ stream = <<>>
<1>1. toServer # <<>> /\ Head(toServer) = r /\ toServer' = Tail(toServer)
      /\ link = "up" /\ handler.pc = "ready"
  BY DEF Receive
<1>2. toServer \in Seq(Request) /\ Len(toServer) <= 1
  BY DEF IInv, UpgradeTypeOK, Queues
<1>3. toServer' = <<>>
  BY <1>1, <1>2, Single
<1>4. toClient = <<>> /\ outcome = NoOutcome
  BY <1>1 DEF IInv, Queues
<1>5. r # "file" => Early
  BY <1>1 DEF Early
<1>. QED  BY <1>1, <1>3, <1>4, <1>5 DEF IInv, Unread, InFlight

LEMMA Taking ==
  ASSUME IInv, NEW t, Take(t)
  PROVE  /\ toServer = <<>> /\ toClient' = <<>> /\ handler.pc = "ready"
         /\ outcome = NoOutcome /\ link = "up"
         /\ Head(toClient) \in Response /\ Head(toClient).type = t
         /\ t = "version" =>
              size = 0 /\ content = <<>> /\ stream = <<>>
         /\ toClient # <<>>
<1>1. toClient # <<>> /\ Head(toClient).type = t /\ toClient' = Tail(toClient)
      /\ link = "up"
  BY DEF Take
<1>2. toClient \in Seq(Response) /\ Len(toClient) <= 1
  BY DEF IInv, UpgradeTypeOK, Queues
<1>3. toClient' = <<>> /\ Head(toClient) \in Response
  <2>. HIDE DEF Response
  <2>. QED  BY <1>1, <1>2, Single
<1>4. toServer = <<>> /\ outcome = NoOutcome /\ handler.pc = "ready"
  BY <1>1 DEF IInv, Queues
<1>5. t = "version" => Early
  BY <1>1 DEF Early
<1>. QED  BY <1>1, <1>3, <1>4, <1>5 DEF IInv, Unread

LEMMA VersionCheckStep ==
  ASSUME IInv, VersionCheck
  PROVE  IInv'
<1>. DEFINE m == [type |-> "version", expired |-> ClientVersion # ServerVersion]
<1>1. /\ toClient = <<>> /\ toServer' = <<>> /\ handler.pc = "ready"
      /\ outcome = NoOutcome /\ link = "up"
      /\ size = 0 /\ content = <<>> /\ stream = <<>>
  BY Receiving DEF VersionCheck, Request
<1>2. /\ toClient' = Append(toClient, m)
      /\ UNCHANGED <<package, installs, sizeFirst, link, serverVars, stream,
                     outcome>>
  BY DEF VersionCheck
<1>3. /\ toClient' \in Seq(Response) /\ Len(toClient') = 1 /\ toClient' # <<>>
      /\ Head(toClient') = m
  <2>1. m \in Response
    BY DEF Response
  <2>. HIDE DEF m
  <2>. QED  BY <1>1, <1>2, <2>1, Put
<1>4. Head(toClient').type = "version"
  BY <1>3
<1>5. UpgradeTypeOK'
  BY <1>1, <1>2, <1>3, EmptySeq DEF IInv, UpgradeTypeOK, serverVars
<1>6. Queues'
  BY <1>1, <1>2, <1>3 DEF IInv, Queues, serverVars
<1>7. Unread'
  BY <1>1, <1>2 DEF IInv, Unread, serverVars
<1>8. Numbers' /\ Answers'
  BY <1>1, <1>2, <1>4 DEF IInv, Numbers, Answers, serverVars
<1>9. Conserved'
  <2>1. stream' = <<>> /\ content' = <<>> /\ InFlight' = <<>> /\ size' = 0
    BY <1>1, <1>2, <1>4 DEF serverVars, InFlight
  <2>. QED  BY <2>1 DEF Conserved, Whole
<1>10. Sums'
  BY <1>2 DEF IInv, Sums, serverVars
<1>11. Untouched'
  BY <1>1, <1>2 DEF IInv, Untouched, Read, serverVars, Ready
<1>. QED  BY <1>5, <1>6, <1>7, <1>8, <1>9, <1>10, <1>11 DEF IInv

LEMMA VersionCheckedStep ==
  ASSUME IInv, VersionChecked
  PROVE  IInv'
<1>1. /\ toServer = <<>> /\ toClient' = <<>> /\ handler.pc = "ready"
      /\ outcome = NoOutcome /\ link = "up"
      /\ size = 0 /\ content = <<>> /\ stream = <<>>
  BY Taking DEF VersionChecked
<1>2. /\ toServer' = <<>> \/ toServer' = Append(<<>>, "upgrade")
      /\ UNCHANGED <<package, installs, sizeFirst, link, serverVars, stream,
                     outcome>>
  BY <1>1 DEF VersionChecked
<1>3. /\ toServer' \in Seq(Request) /\ Len(toServer') <= 1
      /\ toServer' # <<>> => Head(toServer') = "upgrade"
  <2>1. CASE toServer' = <<>>
    BY <2>1, EmptySeq
  <2>2. CASE toServer' = Append(<<>>, "upgrade")
    <3>1. "upgrade" \in Request
      BY DEF Request
    <3>. QED  BY <2>2, <3>1, Put
  <2>. QED  BY <1>2, <2>1, <2>2
<1>5. UpgradeTypeOK'
  <2>1. toClient' \in Seq(Response)
    BY <1>1, EmptySeq
  <2>. QED  BY <1>2, <1>3, <2>1 DEF IInv, UpgradeTypeOK, serverVars
<1>6. Queues'
  BY <1>1, <1>2, <1>3 DEF IInv, Queues, serverVars
<1>7. Unread'
  BY <1>1, <1>2 DEF IInv, Unread, serverVars
<1>8. Numbers' /\ Answers'
  BY <1>1, <1>2, <1>3 DEF IInv, Numbers, Answers, serverVars
<1>9. Conserved'
  <2>1. stream' = <<>> /\ content' = <<>> /\ InFlight' = <<>> /\ size' = 0
    BY <1>1, <1>2 DEF serverVars, InFlight
  <2>. QED  BY <2>1 DEF Conserved, Whole
<1>10. Sums'
  BY <1>2 DEF IInv, Sums, serverVars
<1>11. Untouched'
  BY <1>1, <1>2 DEF IInv, Untouched, Read, serverVars
<1>. QED  BY <1>5, <1>6, <1>7, <1>8, <1>9, <1>10, <1>11 DEF IInv

LEMMA UpgradeRequestStep ==
  ASSUME IInv, UpgradeRequest
  PROVE  IInv'
<1>1. /\ toClient = <<>> /\ toServer' = <<>> /\ handler.pc = "ready"
      /\ outcome = NoOutcome /\ link = "up"
      /\ size = 0 /\ content = <<>> /\ stream = <<>>
  BY Receiving DEF UpgradeRequest, Request
<1>2. /\ checksum' = package
      /\ handler' = [handler EXCEPT !.pc = "open"]
      /\ UNCHANGED <<package, installs, sizeFirst, link, section, content, size,
                     consumed, toClient, stream, outcome>>
  BY DEF UpgradeRequest
<1>3. handler' \in Handler /\ handler'.pc = "open"
  BY <1>2 DEF IInv, UpgradeTypeOK, Handler
<1>4. package \in Package /\ package \in Sum
  BY PackageTypes DEF IInv, UpgradeTypeOK
<1>5. UpgradeTypeOK'
  <2>1. toServer' \in Seq(Request)
    BY <1>1, EmptySeq
  <2>. QED  BY <1>2, <1>3, <1>4, <2>1 DEF IInv, UpgradeTypeOK
<1>6. Queues'
  BY <1>1, <1>2 DEF IInv, Queues
<1>7. Unread'
  BY <1>1, <1>2, <1>3 DEF IInv, Unread
<1>8. Numbers' /\ Answers'
  BY <1>1, <1>2 DEF IInv, Numbers, Answers
<1>9. Conserved'
  <2>1. stream' = <<>> /\ content' = <<>> /\ InFlight' = <<>> /\ size' = 0
    BY <1>1, <1>2 DEF InFlight
  <2>. QED  BY <2>1 DEF Conserved, Whole
<1>10. Sums'
  BY <1>2, <1>4 DEF IInv, Sums
<1>11. Untouched'
  BY <1>1, <1>2, <1>3 DEF IInv, Untouched, Read
<1>. QED  BY <1>5, <1>6, <1>7, <1>8, <1>9, <1>10, <1>11 DEF IInv

(* While a request is handled no message is on its way and nothing of the  *)
(* package is anywhere.                                                    *)
LEMMA Handling ==
  ASSUME IInv, handler.pc # "ready"
  PROVE  /\ toServer = <<>> /\ toClient = <<>> /\ outcome = NoOutcome
         /\ size = 0 /\ content = <<>> /\ stream = <<>> /\ InFlight = <<>>
BY DEF IInv, Queues, Unread, Early, InFlight

LEMMA OpenPackageStep ==
  ASSUME IInv, OpenPackage
  PROVE  IInv'
<1>1. /\ toServer = <<>> /\ toClient = <<>> /\ outcome = NoOutcome
      /\ size = 0 /\ content = <<>> /\ stream = <<>>
  BY Handling DEF OpenPackage
<1>2. /\ handler.pc = "open"
      /\ UNCHANGED <<package, installs, sizeFirst, link, section, content,
                     checksum, size, consumed, toServer, toClient, stream,
                     outcome>>
  BY DEF OpenPackage
<1>3. package \in Sum
  BY PackageTypes DEF IInv, UpgradeTypeOK
<1>4. /\ handler' \in Handler
      /\ \/ handler'.pc = "ready"
         \/ /\ handler'.pc = "sections"
            /\ package.there
            /\ handler'.filesize = Len(package.bytes)
            /\ handler'.left = Thread
  <2>1. Len(package.bytes) \in Nat
    BY <1>3, LenProperties DEF Sum, Bytes
  <2>2. CASE package.there
    BY <2>1, <2>2 DEF OpenPackage, Handler
  <2>3. CASE ~package.there
    BY <2>3 DEF OpenPackage, Handler, Ready
  <2>. QED  BY <2>2, <2>3
<1>5. UpgradeTypeOK'
  BY <1>2, <1>4 DEF IInv, UpgradeTypeOK
<1>6. Queues'
  BY <1>1, <1>2 DEF IInv, Queues
<1>7. Unread'
  BY <1>1, <1>2 DEF IInv, Unread
<1>8. Numbers' /\ Answers'
  BY <1>1, <1>2 DEF IInv, Numbers, Answers
<1>9. Conserved'
  <2>1. stream' = <<>> /\ content' = <<>> /\ InFlight' = <<>> /\ size' = 0
    BY <1>1, <1>2 DEF InFlight
  <2>. QED  BY <2>1 DEF Conserved, Whole
<1>10. Sums'
  BY <1>2 DEF IInv, Sums
<1>11. Untouched'
  <2>1. Read'
    BY <1>2, <1>4 DEF Read
  <2>2. installs = 0 => checksum = package
    BY <1>2 DEF IInv, Untouched
  <2>. QED  BY <1>1, <1>2, <2>1, <2>2 DEF Untouched
<1>. QED  BY <1>5, <1>6, <1>7, <1>8, <1>9, <1>10, <1>11 DEF IInv

LEMMA DoFileSectionStep ==
  ASSUME IInv, NEW i \in Thread, DoFileSection(i)
  PROVE  IInv'
<1>. DEFINE part == Part(package.bytes, Start(i), Length(i))
<1>1. /\ handler.pc = "sections" /\ i \in handler.left
      /\ handler' = [handler EXCEPT !.left = @ \ {i}]
      /\ section' = IF package.there THEN [section EXCEPT ![i] = part]
                    ELSE section
      /\ UNCHANGED <<package, installs, sizeFirst, link, content, checksum,
                     size, consumed, toServer, toClient, stream, outcome>>
  BY DEF DoFileSection
<1>2. /\ toServer = <<>> /\ toClient = <<>> /\ outcome = NoOutcome
      /\ size = 0 /\ content = <<>> /\ stream = <<>>
  BY <1>1, Handling
<1>3. /\ handler' \in Handler /\ handler'.pc = "sections"
      /\ handler'.filesize = handler.filesize
      /\ handler'.left = handler.left \ {i}
  BY <1>1 DEF IInv, UpgradeTypeOK, Handler
<1>4. part \in Bytes
  <2>1. handler.filesize \in Nat /\ i \in Nat
    BY DEF IInv, UpgradeTypeOK, Handler, Thread
  <2>2. PerBlock \in Nat /\ 4 * PerBlock <= handler.filesize
    BY <2>1 DEF PerBlock
  <2>3. Start(i) \in Nat /\ Length(i) \in Nat
    <3>. HIDE DEF PerBlock
    <3>. QED  BY <2>1, <2>2 DEF Start, Length
  <2>4. package.bytes \in Bytes
    BY PackageTypes DEF IInv, UpgradeTypeOK, Sum
  <2>. QED  BY <2>3, <2>4, PartProperties
<1>. HIDE DEF part
<1>5. UpgradeTypeOK'
  <2>1. section' \in [Thread -> Bytes]
    BY <1>1, <1>4 DEF IInv, UpgradeTypeOK
  <2>. QED  BY <1>1, <1>3, <2>1 DEF IInv, UpgradeTypeOK
<1>6. Queues'
  BY <1>1, <1>2 DEF IInv, Queues
<1>7. Unread'
  BY <1>1, <1>2, <1>3 DEF IInv, Unread
<1>8. Numbers' /\ Answers'
  BY <1>1, <1>2 DEF IInv, Numbers, Answers
<1>9. Conserved'
  <2>1. stream' = <<>> /\ content' = <<>> /\ InFlight' = <<>> /\ size' = 0
    BY <1>1, <1>2 DEF InFlight
  <2>. QED  BY <2>1 DEF Conserved, Whole
<1>10. Sums'
  BY <1>1 DEF IInv, Sums
<1>11. Untouched'
  <2>. SUFFICES ASSUME installs' = 0
                PROVE  checksum' = package' /\ Read'
    BY <1>1, <1>2 DEF Untouched
  <2>1. checksum = package /\ Read
    BY <1>1 DEF IInv, Untouched
  <2>2. package.there /\ handler.filesize = Len(package.bytes)
        /\ \A j \in Thread \ handler.left :
             section[j] = Part(package.bytes, Start(j), Length(j))
    BY <1>1, <2>1 DEF Read
  <2>3. ASSUME NEW j \in Thread \ handler'.left
        PROVE  section'[j] = Part(package.bytes, Start(j), Length(j))
    <3>1. section' = [section EXCEPT ![i] = part] /\ section \in [Thread -> Bytes]
      BY <1>1, <2>2 DEF IInv, UpgradeTypeOK
    <3>2. CASE j = i
      BY <3>1, <3>2 DEF part
    <3>3. CASE j # i
      <4>1. j \in Thread \ handler.left
        BY <1>3, <3>3
      <4>. QED  BY <3>1, <3>3, <4>1, <2>2
    <3>. QED  BY <3>2, <3>3
  <2>4. ASSUME NEW j \in Thread
        PROVE  Start(j)' = Start(j) /\ Length(j)' = Length(j)
    BY <1>3 DEF Start, Length, PerBlock
  <2>5. Read'
    BY <1>1, <1>3, <2>2, <2>3, <2>4 DEF Read
  <2>. QED  BY <1>1, <2>1, <2>5
<1>. QED  BY <1>5, <1>6, <1>7, <1>8, <1>9, <1>10, <1>11 DEF IInv

(* The sections of a package nobody touched are put together to it.        *)
LEMMA SectionsJoin ==
  ASSUME IInv, installs = 0, handler.pc = "sections", handler.left = {}
  PROVE  (((<<>> \o section[0]) \o section[1]) \o section[2]) \o section[3]
           = package.bytes
<1>. DEFINE b == package.bytes
            q == PerBlock
<1>1. /\ handler.filesize = Len(b)
      /\ \A i \in Thread : section[i] = Part(b, Start(i), Length(i))
  BY DEF IInv, Untouched, Read
<1>2. b \in Bytes /\ Len(b) \in Nat
  <2>1. b \in Seq(Cell)
    BY PackageTypes DEF IInv, UpgradeTypeOK, Sum, Bytes
  <2>. QED  BY <2>1 DEF Bytes
<1>3. q \in Nat /\ 4 * q <= Len(b)
  <2>1. \A n \in Nat : n \div 4 \in Nat /\ 4 * (n \div 4) <= n
    OBVIOUS
  <2>2. handler.filesize \in Nat
    BY <1>1, <1>2
  <2>3. q \in Nat /\ 4 * q <= handler.filesize
    BY <2>1, <2>2, Zenon DEF PerBlock
  <2>. QED  BY <1>1, <2>3
<1>4. section[0] = Part(b, 0, q)
  <2>1. Start(0) = 0 /\ Length(0) = q
    BY <1>3 DEF Start, Length
  <2>. QED  BY <1>1, <2>1 DEF Thread
<1>5. section[1] = Part(b, q, q)
  <2>1. Start(1) = q /\ Length(1) = q
    BY <1>3 DEF Start, Length
  <2>. QED  BY <1>1, <2>1 DEF Thread
<1>6. section[2] = Part(b, 2 * q, q)
  <2>1. Start(2) = 2 * q /\ Length(2) = q
    BY <1>3 DEF Start, Length
  <2>. QED  BY <1>1, <2>1 DEF Thread
<1>7. section[3] = Part(b, 3 * q, Len(b) - 3 * q)
  <2>1. Start(3) = 3 * q /\ Length(3) = Len(b) - 3 * q
    BY <1>1 DEF Start, Length
  <2>. QED  BY <1>1, <2>1 DEF Thread
<1>. HIDE DEF b, q
<1>8. ((section[0] \o section[1]) \o section[2]) \o section[3] = b
  BY <1>2, <1>3, <1>4, <1>5, <1>6, <1>7, FourSections
<1>9. <<>> \o section[0] = section[0]
  <2>1. section[0] \in Seq(Cell)
    BY DEF IInv, UpgradeTypeOK, Thread, Bytes
  <2>. QED  BY <2>1, ConcatEmptySeq
<1>. QED  BY <1>8, <1>9 DEF b

LEMMA UpgradeReplyStep ==
  ASSUME IInv, UpgradeReply
  PROVE  IInv'
<1>. DEFINE m == [type |-> "reply", checksum |-> checksum]
<1>1. /\ link # "undefined"
      /\ handler.pc = "sections" /\ handler.left = {}
      /\ handler' = Ready
      /\ content' = (((content \o section[0]) \o section[1]) \o section[2])
                      \o section[3]
      /\ section' = [i \in Thread |-> <<>>]
      /\ size' = Len(content')
      /\ Respond(m)
      /\ UNCHANGED <<package, installs, sizeFirst, link, checksum, consumed,
                     toServer, stream, outcome>>
  BY DEF UpgradeReply
<1>2. /\ toServer = <<>> /\ toClient = <<>> /\ outcome = NoOutcome
      /\ size = 0 /\ content = <<>> /\ stream = <<>> /\ consumed = 0
  BY <1>1, Handling DEF IInv, UpgradeTypeOK
<1>3. content' \in Bytes /\ Len(content') \in Nat
  <2>1. /\ content \in Seq(Cell)
        /\ section[0] \in Seq(Cell) /\ section[1] \in Seq(Cell)
        /\ section[2] \in Seq(Cell) /\ section[3] \in Seq(Cell)
    BY DEF IInv, UpgradeTypeOK, Thread, Bytes
  <2>2. content \o section[0] \in Seq(Cell)
    BY <2>1, ConcatProperties
  <2>3. (content \o section[0]) \o section[1] \in Seq(Cell)
    BY <2>1, <2>2, ConcatProperties
  <2>4. ((content \o section[0]) \o section[1]) \o section[2] \in Seq(Cell)
    BY <2>1, <2>3, ConcatProperties
  <2>5. content' \in Seq(Cell)
    BY <1>1, <2>1, <2>4, ConcatProperties
  <2>. QED  BY <2>5, LenProperties DEF Bytes
<1>4. /\ toClient' \in Seq(Response) /\ Len(toClient') <= 1
      /\ toClient' # <<>> => Head(toClient') = m /\ link = "up"
  <2>1. CASE link = "up"
    <3>1. m \in Response
      BY DEF IInv, UpgradeTypeOK, Response
    <3>2. toClient' = Append(<<>>, m)
      BY <1>1, <1>2, <2>1 DEF Respond
    <3>. HIDE DEF m
    <3>. QED  BY <2>1, <3>1, <3>2, Put
  <2>2. CASE link # "up"
    BY <1>1, <1>2, <2>2, EmptySeq DEF Respond
  <2>. QED  BY <2>1, <2>2
<1>5. toClient' # <<>> =>
        Head(toClient').type = "reply"
  BY <1>4
<1>6. UpgradeTypeOK'
  <2>1. handler' \in Handler
    BY <1>1 DEF Ready, Handler
  <2>2. section' \in [Thread -> Bytes]
    BY <1>1 DEF Bytes
  <2>3. size' \in Nat /\ consumed' \in 0..size'
    <3>1. size' \in Nat /\ consumed' = 0
      BY <1>1, <1>2, <1>3, Zenon
    <3>. QED  BY <3>1
  <2>4. toServer' \in Seq(Request)
    BY <1>1 DEF IInv, UpgradeTypeOK
  <2>. HIDE DEF m
  <2>. QED  BY <1>1, <1>3, <1>4, <2>1, <2>2, <2>3, <2>4 DEF IInv, UpgradeTypeOK
<1>7. Queues'
  BY <1>1, <1>2, <1>4, EmptySeq DEF IInv, Queues, Ready
<1>8. Unread'
  BY <1>1, <1>2, <1>5 DEF Unread, Early, Ready
<1>9. Numbers'
  BY <1>1, <1>2, <1>3 DEF Numbers
<1>10. Answers'
  BY <1>1, <1>2, <1>5 DEF Answers
<1>11. InFlight' = <<>>
  BY <1>5 DEF InFlight
<1>12. Whole' = content'
  <2>1. stream' = <<>>
    BY <1>1, <1>2
  <2>. QED  BY <1>3, <1>11, <2>1, ConcatEmptySeq, EmptySeq DEF Whole, Bytes
<1>13. Conserved'
  BY <1>1, <1>12 DEF Conserved
<1>14. Sums'
  BY <1>1 DEF IInv, Sums
<1>15. Untouched'
  <2>. SUFFICES ASSUME installs' = 0
                PROVE  /\ checksum' = package' /\ package'.there
                       /\ content' = package'.bytes
    BY <1>1, <1>2, <1>12 DEF Untouched, Read, Ready
  <2>1. checksum = package /\ package.there
    BY <1>1 DEF IInv, Untouched, Read
  <2>2. content' = package.bytes
    BY <1>1, <1>2, SectionsJoin
  <2>. QED  BY <1>1, <2>1, <2>2
<1>. QED  BY <1>6, <1>7, <1>8, <1>9, <1>10, <1>13, <1>14, <1>15 DEF IInv

-----------------------------------------------------------------------------
(* The steps of the transfer.                                              *)

LEMMA WholeLength ==
  ASSUME NEW s \in Bytes, NEW t \in Bytes, NEW u \in Bytes
  PROVE  /\ (s \o t) \o u \in Bytes
         /\ Len((s \o t) \o u) = Len(s) + Len(t) + Len(u)
         /\ (s \o t) \o u = s \o (t \o u)
         /\ s \o t \in Bytes
         /\ (s \o t) \o <<>> = s \o t
         /\ (s \o <<>>) \o t = s \o t
<1>1. s \o t \in Seq(Cell) /\ Len(s \o t) = Len(s) + Len(t)
  BY ConcatProperties DEF Bytes
<1>2. (s \o t) \o u \in Seq(Cell)
      /\ Len((s \o t) \o u) = Len(s \o t) + Len(u)
  BY <1>1, ConcatProperties DEF Bytes
<1>3. (s \o t) \o u = s \o (t \o u)
  BY ConcatAssociative DEF Bytes
<1>4. (s \o t) \o <<>> = s \o t
  BY <1>1, ConcatEmptySeq
<1>5. (s \o <<>>) \o t = s \o t
  BY ConcatEmptySeq DEF Bytes
<1>. QED  BY <1>1, <1>2, <1>3, <1>4, <1>5 DEF Bytes

LEMMA TransferStep ==
  ASSUME IInv, UpgradeFileTransfer
  PROVE  IInv'
<1>. DEFINE a == SubSeq(content, 1, Block)
            z == SubSeq(content, Block + 1, Len(content))
            m == [type |-> "block", bytes |-> a, process |-> Percent,
                  checksum |-> checksum]
<1>1. /\ toClient = <<>> /\ toServer' = <<>> /\ handler.pc = "ready"
      /\ outcome = NoOutcome /\ link = "up" /\ InFlight = <<>>
  BY Receiving DEF UpgradeFileTransfer, Request
<1>2. /\ size > 0
      /\ consumed' = consumed + Block
      /\ content' = Remaining
      /\ UNCHANGED <<package, installs, sizeFirst, link, handler, section,
                     checksum, size, stream, outcome>>
  BY DEF UpgradeFileTransfer
<1>3. content \in Bytes /\ stream \in Bytes /\ Len(content) \in Nat
  <2>1. content \in Seq(Cell) /\ stream \in Seq(Cell)
    BY DEF IInv, UpgradeTypeOK, Bytes
  <2>. QED  BY <2>1, LenProperties DEF Bytes
<1>4. /\ Block \in 0..Len(content)
      /\ Lesser(Block, Len(content)) = Block
      /\ consumed + Block \in 0..size
      /\ Rest >= BlockSize \/ Block = Len(content)
      /\ Percent \in Nat
      /\ Percent >= 100 <=> consumed + Block = size
  BY <1>2, BlockProperties DEF IInv
<1>5. toClient' = Append(toClient, m)
  BY <1>4, Zenon DEF UpgradeFileTransfer
<1>6. /\ a \in Bytes /\ z \in Bytes /\ a \o z = content
      /\ Len(z) = Len(content) - Block
  BY <1>3, <1>4, Cut
<1>7. content' = z
  <2>1. Rest \in Int /\ BlockSize \in Int
    BY UpgradeAssumption DEF IInv, UpgradeTypeOK, Rest
  <2>2. CASE Rest < BlockSize
    <3>1. Block = Len(content)
      BY <1>4, <2>1, <2>2
    <3>2. Len(z) = 0 /\ z \in Seq(Cell)
      BY <1>3, <1>6, <3>1 DEF Bytes
    <3>3. z = <<>>
      BY <3>2, EmptySeq
    <3>. QED  BY <1>2, <2>2, <3>3 DEF Remaining
  <2>3. CASE ~(Rest < BlockSize)
    BY <1>2, <2>3 DEF Remaining
  <2>. QED  BY <2>2, <2>3
<1>8. checksum \in Sum
  BY DEF IInv, UpgradeTypeOK
<1>. HIDE DEF a, z
<1>9. /\ m \in Response /\ m.type = "block" /\ m.bytes = a
      /\ m.checksum = checksum
      /\ m.process >= 100 <=> consumed + Block = size
  BY <1>4, <1>6, <1>8 DEF Response
<1>. HIDE DEF m
<1>10. /\ toClient' \in Seq(Response) /\ Len(toClient') = 1
       /\ toClient' # <<>> /\ Head(toClient') = m
  BY <1>1, <1>5, <1>9, Put
<1>11. UpgradeTypeOK'
  <2>1. size' \in Nat /\ consumed' \in 0..size'
    <3>1. size' \in Nat /\ size' = size /\ consumed' = consumed + Block
      BY <1>2 DEF IInv, UpgradeTypeOK
    <3>. QED  BY <1>4, <3>1, Zenon
  <2>2. toServer' \in Seq(Request)
    BY <1>1, EmptySeq
  <2>3. content' \in Bytes
    BY <1>6, <1>7
  <2>. QED  BY <1>2, <1>10, <2>1, <2>2, <2>3, Zenon DEF IInv, UpgradeTypeOK
<1>12. Queues'
  BY <1>1, <1>2, <1>10, EmptySeq DEF Queues
<1>13. Unread'
  BY <1>1, <1>2, <1>9, <1>10 DEF IInv, Unread, Early
<1>14. Numbers'
  <2>1. Len(content) = size - consumed /\ size \in Nat /\ consumed \in Nat
    BY DEF IInv, Numbers, UpgradeTypeOK
  <2>2. Len(content') = Len(content) - Block
    BY <1>6, <1>7
  <2>3. Len(content') = size' - consumed'
    <3>. HIDE DEF Block
    <3>. QED  BY <1>2, <1>3, <1>4, <2>1, <2>2
  <2>. QED  BY <1>1, <1>2, <2>3 DEF Numbers
<1>15. Answers'
  <2>1. consumed + Block = consumed' /\ size' = size /\ checksum' = checksum
    BY <1>2
  <2>. QED  BY <1>2, <1>9, <1>10, <2>1 DEF Answers
<1>16. InFlight' = a
  BY <1>9, <1>10 DEF InFlight
<1>17. Whole' = Whole
  <2>1. Whole' = (stream \o a) \o z
    BY <1>2, <1>7, <1>16 DEF Whole
  <2>2. (stream \o a) \o z = stream \o content
    BY <1>3, <1>6, WholeLength, ZenonT(60)
  <2>3. Whole = stream \o content
    BY <1>1, <1>3, WholeLength DEF Whole
  <2>. QED  BY <2>1, <2>2, <2>3
<1>18. Conserved'
  BY <1>1, <1>2, <1>17 DEF IInv, Conserved, Transferring
<1>19. Sums'
  BY <1>2 DEF IInv, Sums
<1>20. Untouched'
  BY <1>1, <1>2, <1>17 DEF IInv, Untouched, Read, Transferring
<1>. QED  BY <1>11, <1>12, <1>13, <1>14, <1>15, <1>18, <1>19, <1>20 DEF IInv

LEMMA DivideByZeroStep ==
  ASSUME IInv, DivideByZero
  PROVE  IInv'
<1>1. /\ toClient = <<>> /\ toServer' = <<>> /\ handler.pc = "ready"
      /\ outcome = NoOutcome
  BY Receiving DEF DivideByZero, Request
<1>2. /\ size = 0 /\ link' = "undefined"
      /\ UNCHANGED <<package, installs, sizeFirst, handler, section, content,
                     checksum, size, consumed, toClient, stream, outcome>>
  BY DEF DivideByZero, serverVars
<1>3. UpgradeTypeOK'
  <2>1. toServer' \in Seq(Request)
    BY <1>1, EmptySeq
  <2>. QED  BY <1>2, <2>1 DEF IInv, UpgradeTypeOK
<1>4. Queues'
  BY <1>1, <1>2, EmptySeq DEF IInv, Queues
<1>5. Unread'
  BY <1>1, <1>2 DEF IInv, Unread, Early
<1>6. Numbers' /\ Answers'
  BY <1>1, <1>2 DEF IInv, Numbers, Answers
<1>7. Conserved'
  BY <1>2 DEF Conserved, Transferring
<1>8. Sums'
  BY <1>2 DEF IInv, Sums
<1>9. Untouched'
  BY <1>1, <1>2 DEF IInv, Untouched, Read, Transferring
<1>. QED  BY <1>3, <1>4, <1>5, <1>6, <1>7, <1>8, <1>9 DEF IInv

LEMMA TakeReplyStep ==
  ASSUME IInv, TakeReply
  PROVE  IInv'
<1>1. /\ toServer = <<>> /\ toClient' = <<>> /\ handler.pc = "ready"
      /\ outcome = NoOutcome /\ link = "up"
      /\ toClient # <<>> /\ Head(toClient).type = "reply"
  BY Taking DEF TakeReply
<1>2. /\ stream' = <<>> /\ toServer' = Append(toServer, "file")
      /\ UNCHANGED <<package, installs, sizeFirst, link, handler, section,
                     content, checksum, size, consumed, outcome>>
  BY DEF TakeReply, serverVars
<1>3. consumed = 0 /\ stream = <<>> /\ InFlight = <<>>
  BY <1>1 DEF IInv, Answers, InFlight
<1>4. /\ toServer' \in Seq(Request) /\ Len(toServer') = 1
      /\ Head(toServer') = "file"
  <2>1. "file" \in Request
    BY DEF Request
  <2>. QED  BY <1>1, <1>2, <2>1, Put
<1>5. UpgradeTypeOK'
  <2>1. toClient' \in Seq(Response)
    BY <1>1, EmptySeq
  <2>2. stream' \in Bytes
    BY <1>2, EmptySeq DEF Bytes
  <2>. QED  BY <1>2, <1>4, <2>1, <2>2 DEF IInv, UpgradeTypeOK
<1>6. Queues'
  BY <1>1, <1>2, <1>4, EmptySeq DEF IInv, Queues
<1>7. Unread'
  BY <1>1, <1>2, <1>4 DEF IInv, Unread, Early
<1>8. Numbers' /\ Answers'
  BY <1>1, <1>2, <1>3, <1>4 DEF IInv, Numbers, Answers
<1>9. Whole' = Whole
  <2>1. InFlight' = <<>>
    BY <1>1 DEF InFlight
  <2>. QED  BY <1>2, <1>3, <2>1 DEF Whole
<1>10. Conserved'
  BY <1>1, <1>2, <1>9 DEF IInv, Conserved, Transferring
<1>11. Sums'
  BY <1>2 DEF IInv, Sums
<1>12. Untouched'
  BY <1>1, <1>2, <1>9 DEF IInv, Untouched, Read, Transferring
<1>. QED  BY <1>5, <1>6, <1>7, <1>8, <1>10, <1>11, <1>12 DEF IInv

LEMMA Pushing ==
  ASSUME IInv, Take("block")
  PROVE  /\ Pushed \in Bytes
         /\ Whole = Pushed \o content
         /\ Head(toClient).checksum = checksum
         /\ Head(toClient).process >= 100 <=> consumed = size
         /\ size > 0
<1>1. /\ toClient # <<>> /\ Head(toClient) \in Response
      /\ Head(toClient).type = "block"
  BY Taking
<1>2. Head(toClient).bytes \in Bytes /\ stream \in Bytes
  BY <1>1 DEF IInv, UpgradeTypeOK, Response
<1>3. Pushed \in Bytes
  BY <1>2, WholeLength DEF Pushed
<1>4. Whole = Pushed \o content
  BY <1>1 DEF Whole, Pushed, InFlight
<1>. QED  BY <1>1, <1>3, <1>4 DEF IInv, Answers

LEMMA ProcessingStep ==
  ASSUME IInv, UpgradeProcessing
  PROVE  IInv'
<1>1. /\ toServer = <<>> /\ toClient' = <<>> /\ handler.pc = "ready"
      /\ outcome = NoOutcome /\ link = "up"
  BY Taking DEF UpgradeProcessing
<1>2. /\ Head(toClient).process < 100
      /\ stream' = Pushed /\ toServer' = Append(toServer, "file")
      /\ UNCHANGED <<package, installs, sizeFirst, link, handler, section,
                     content, checksum, size, consumed, outcome>>
  BY DEF UpgradeProcessing, serverVars
<1>3. /\ Pushed \in Bytes /\ Whole = Pushed \o content
      /\ Head(toClient).process >= 100 <=> consumed = size
  BY Pushing DEF UpgradeProcessing
<1>4. /\ toServer' \in Seq(Request) /\ Len(toServer') = 1
      /\ Head(toServer') = "file"
  <2>1. "file" \in Request
    BY DEF Request
  <2>. QED  BY <1>1, <1>2, <2>1, Put
<1>5. consumed < size
  <2>1. Head(toClient) \in Response /\ Head(toClient).type = "block"
    BY Taking DEF UpgradeProcessing
  <2>2. Head(toClient).process \in Nat
    BY <2>1 DEF Response
  <2>3. consumed # size
    BY <1>2, <1>3, <2>2
  <2>. QED  BY <2>3 DEF IInv, UpgradeTypeOK
<1>6. UpgradeTypeOK'
  <2>1. toClient' \in Seq(Response)
    BY <1>1, EmptySeq
  <2>. QED  BY <1>2, <1>3, <1>4, <2>1 DEF IInv, UpgradeTypeOK
<1>7. Queues'
  BY <1>1, <1>2, <1>4, EmptySeq DEF IInv, Queues
<1>8. Unread'
  BY <1>1, <1>2, <1>4 DEF IInv, Unread, Early
<1>9. Numbers' /\ Answers'
  BY <1>1, <1>2, <1>5 DEF IInv, Numbers, Answers
<1>10. Whole' = Whole
  <2>1. InFlight' = <<>>
    BY <1>1 DEF InFlight
  <2>2. content \in Bytes
    BY DEF IInv, UpgradeTypeOK
  <2>3. (Pushed \o <<>>) \o content = Pushed \o content
    BY <1>3, <2>2, WholeLength
  <2>. QED  BY <1>2, <1>3, <2>1, <2>3 DEF Whole
<1>11. Conserved'
  BY <1>1, <1>2, <1>10 DEF IInv, Conserved, Transferring
<1>12. Sums'
  BY <1>2 DEF IInv, Sums
<1>13. Untouched'
  BY <1>1, <1>2, <1>10 DEF IInv, Untouched, Read, Transferring
<1>. QED  BY <1>6, <1>7, <1>8, <1>9, <1>11, <1>12, <1>13 DEF IInv

LEMMA SaveStep ==
  ASSUME IInv, Save
  PROVE  IInv'
<1>. DEFINE file == IF sizeFirst THEN Pushed ELSE <<>>
<1>1. /\ toServer = <<>> /\ toClient' = <<>> /\ handler.pc = "ready"
      /\ outcome = NoOutcome /\ link = "up"
      /\ Head(toClient) \in Response /\ Head(toClient).type = "block"
  BY Taking DEF Save
<1>2. /\ Head(toClient).process >= 100
      /\ stream' = <<>>
      /\ outcome' = [said |-> IF SameSum(file) THEN "success" ELSE "mismatch",
                     file |-> file]
      /\ UNCHANGED <<package, installs, sizeFirst, link, handler, section,
                     content, checksum, size, consumed, toServer>>
  BY DEF Save, serverVars
<1>3. /\ Pushed \in Bytes /\ Whole = Pushed \o content
      /\ Head(toClient).checksum = checksum
      /\ consumed = size /\ size > 0
  BY <1>2, Pushing DEF Save
<1>4. content = <<>>
  <2>1. content \in Seq(Cell) /\ Len(content) = size - consumed
        /\ size \in Nat
    BY DEF IInv, UpgradeTypeOK, Numbers, Bytes
  <2>2. Len(content) = 0
    BY <1>3, <2>1
  <2>. QED  BY <2>1, <2>2, EmptySeq
<1>5. Whole = Pushed
  BY <1>3, <1>4, ConcatEmptySeq DEF Bytes
<1>6. SameSum(file) = (SumOf(file) = checksum)
  BY <1>3 DEF SameSum
<1>7. file \in Bytes
  BY <1>3, EmptySeq DEF Bytes
<1>. HIDE DEF file
<1>8. /\ outcome'.said \in {"success", "mismatch"} /\ outcome'.file = file
      /\ outcome'.said = "success" <=> SumOf(file) = checksum
      /\ outcome' # NoOutcome
  BY <1>2, <1>6 DEF NoOutcome
<1>9. UpgradeTypeOK'
  <2>1. toClient' \in Seq(Response) /\ stream' \in Bytes
    BY <1>1, <1>2, EmptySeq DEF Bytes
  <2>2. outcome' \in [said : {"nothing", "success", "mismatch"}, file : Bytes]
    BY <1>2, <1>7
  <2>. QED  BY <1>2, <2>1, <2>2 DEF IInv, UpgradeTypeOK
<1>10. Queues'
  BY <1>1, <1>2, EmptySeq DEF IInv, Queues
<1>11. Unread'
  BY <1>1, <1>2 DEF IInv, Unread, Early
<1>12. Numbers' /\ Answers'
  BY <1>1, <1>2, <1>3 DEF IInv, Numbers, Answers
<1>13. Conserved'
  BY <1>8 DEF Conserved, Transferring
<1>14. Sums'
  BY <1>2, <1>8 DEF IInv, Sums
<1>15. Untouched'
  <2>. SUFFICES ASSUME installs' = 0
                PROVE  /\ checksum' = package' /\ package'.there /\ Read'
                       /\ sizeFirst' => outcome' =
                            [said |-> "success", file |-> package'.bytes]
    BY <1>8 DEF Untouched, Transferring
  <2>1. checksum = package /\ package.there /\ Whole = package.bytes
    BY <1>1, <1>2, <1>3 DEF IInv, Untouched, Transferring
  <2>2. ASSUME sizeFirst
        PROVE  outcome' = [said |-> "success", file |-> package.bytes]
    <3>1. file = package.bytes
      BY <1>5, <2>1, <2>2 DEF file
    <3>2. package \in Sum
      BY PackageTypes DEF IInv, UpgradeTypeOK
    <3>3. SumOf(file) = package
      BY <2>1, <3>1, <3>2 DEF SumOf, Sum
    <3>. QED  BY <1>2, <1>6, <2>1, <3>1, <3>3
  <2>3. Read'
    BY <1>1, <1>2 DEF Read
  <2>. QED  BY <1>2, <2>1, <2>2, <2>3
<1>. QED  BY <1>9, <1>10, <1>11, <1>12, <1>13, <1>14, <1>15 DEF IInv

-----------------------------------------------------------------------------
(* The environment.                                                        *)

LEMMA InstallStep ==
  ASSUME IInv, Install
  PROVE  IInv'
<1>1. /\ installs' = installs + 1 /\ package' \in Package
      /\ UNCHANGED <<sizeFirst, link, handler, section, content, checksum, size,
                     consumed, toServer, toClient, stream, outcome>>
  BY DEF Install, serverVars
<1>2. installs' \in Nat /\ installs' # 0
  BY <1>1 DEF IInv, UpgradeTypeOK
<1>3. UpgradeTypeOK'
  BY <1>1, <1>2 DEF IInv, UpgradeTypeOK
<1>4. Queues' /\ Unread'
  BY <1>1 DEF IInv, Queues, Unread, Early
<1>5. Numbers' /\ Answers'
  BY <1>1 DEF IInv, Numbers, Answers
<1>6. Conserved' /\ Sums'
  BY <1>1 DEF IInv, Conserved, Transferring, Whole, InFlight, Sums
<1>7. Untouched'
  BY <1>2 DEF Untouched
<1>. QED  BY <1>3, <1>4, <1>5, <1>6, <1>7 DEF IInv

LEMMA DisconnectStep ==
  ASSUME IInv, Disconnect
  PROVE  IInv'
<1>1. /\ link' = "down" /\ toServer' = <<>> /\ toClient' = <<>>
      /\ UNCHANGED <<package, installs, sizeFirst, handler, section, content,
                     checksum, size, consumed, stream, outcome>>
  BY DEF Disconnect, serverVars
<1>2. UpgradeTypeOK'
  <2>1. toServer' \in Seq(Request) /\ toClient' \in Seq(Response)
    BY <1>1, EmptySeq
  <2>. QED  BY <1>1, <2>1 DEF IInv, UpgradeTypeOK
<1>3. Queues'
  BY <1>1, EmptySeq DEF IInv, Queues
<1>4. Unread'
  BY <1>1 DEF IInv, Unread, Early
<1>5. Numbers' /\ Answers'
  BY <1>1 DEF IInv, Numbers, Answers
<1>6. Conserved' /\ Sums'
  BY <1>1 DEF IInv, Conserved, Transferring, Sums
<1>7. Untouched'
  <2>1. Read' <=> Read
    BY <1>1 DEF Read, Start, Length, PerBlock
  <2>. QED  BY <1>1, <2>1 DEF IInv, Untouched, Transferring
<1>. QED  BY <1>2, <1>3, <1>4, <1>5, <1>6, <1>7 DEF IInv

LEMMA Stutter ==
  ASSUME IInv, UNCHANGED vars
  PROVE  IInv'
<1>1. UpgradeTypeOK' /\ Queues' /\ Unread'
  BY DEF IInv, vars, serverVars, UpgradeTypeOK, Queues, Unread, Early
<1>2. Numbers' /\ Answers' /\ Sums'
  BY DEF IInv, vars, serverVars, Numbers, Answers, Sums
<1>3. Conserved'
  BY DEF IInv, vars, serverVars, Conserved, Transferring, Whole, InFlight
<1>4. Untouched'
  BY DEF IInv, vars, serverVars, Untouched, Read, Start, Length, PerBlock,
         Transferring, Whole, InFlight
<1>. QED  BY <1>1, <1>2, <1>3, <1>4 DEF IInv

-----------------------------------------------------------------------------
(* The theorems.                                                           *)

(* The invariant holds for packages and blocks of every size: what was     *)
(* read of the package is with the client, on its way or with the server.  *)
THEOREM Inductive == Spec => []IInv
<1>1. ASSUME IInv, [Next]_vars
      PROVE  IInv'
  <2>1. CASE ServerStep
    BY <1>1, <2>1, VersionCheckStep, UpgradeRequestStep, OpenPackageStep,
       DoFileSectionStep, UpgradeReplyStep, TransferStep, DivideByZeroStep
       DEF ServerStep
  <2>2. CASE ClientStep
    BY <1>1, <2>2, VersionCheckedStep, TakeReplyStep, ProcessingStep, SaveStep
       DEF ClientStep
  <2>3. CASE Install
    BY <1>1, <2>3, InstallStep
  <2>4. CASE Disconnect
    BY <1>1, <2>4, DisconnectStep
  <2>5. CASE UNCHANGED vars
    BY <1>1, <2>5, Stutter
  <2>. QED  BY <1>1, <2>1, <2>2, <2>3, <2>4, <2>5 DEF Next
<1>. QED  BY InitInvariant, <1>1, PTL DEF Spec

(* The variables of FSession and of the client keep their types: no block  *)
(* is cut past the end of what is left.                                    *)
THEOREM TypeCorrect == Spec => []UpgradeTypeOK
<1>1. IInv => UpgradeTypeOK
  BY DEF IInv
<1>. QED  BY <1>1, Inductive, PTL

(* UpgradeFileTransfer and UpgradeProcessing lose no byte and double none. *)
THEOREM Conservation == Spec => []NothingLostOnTheWay
<1>1. IInv => NothingLostOnTheWay
  BY DEF IInv, Conserved, Transferring, Whole, NothingLostOnTheWay
<1>. QED  BY <1>1, Inductive, PTL

(* The percentage the server sends stops the client with the last byte and *)
(* not before, whatever the sizes of package and block.                    *)
THEOREM StopsInTime == Spec => []AsksForWhatThereIs
<1>1. IInv => AsksForWhatThereIs
  <2>. SUFFICES ASSUME IInv PROVE AsksForWhatThereIs
    OBVIOUS
  <2>1. Loaded /\ toServer # <<>> => consumed < size
    BY DEF Loaded, IInv, Numbers, Unread, Early, UpgradeTypeOK
  <2>2. outcome # NoOutcome => consumed = size /\ content = <<>>
    <3>. SUFFICES ASSUME outcome # NoOutcome
                  PROVE  consumed = size /\ content = <<>>
      OBVIOUS
    <3>1. consumed = size /\ size \in Nat /\ Len(content) = size - consumed
      BY DEF IInv, Numbers, UpgradeTypeOK
    <3>2. Len(content) = 0 /\ content \in Seq(Cell)
      BY <3>1 DEF IInv, UpgradeTypeOK, Bytes
    <3>. QED  BY <3>1, <3>2, EmptySeq
  <2>. QED  BY <2>1, <2>2 DEF AsksForWhatThereIs
<1>. QED  BY <1>1, Inductive, PTL

(* The four sections and the blocks put the package together again.        *)
THEOREM ArrivesWhole == Spec => []UntouchedArrivesWhole
<1>1. IInv => UntouchedArrivesWhole
  BY DEF IInv, Untouched, UntouchedArrivesWhole
<1>. QED  BY <1>1, Inductive, PTL

(* The comparison of the sums lets no mixture of two packages pass.        *)
THEOREM OnePackage == Spec => []SuccessIsOnePackage
<1>1. IInv => SuccessIsOnePackage
  <2>. SUFFICES ASSUME IInv, outcome.said = "success"
                PROVE  \E r \in Release :
                         outcome.file = Bin(r, Len(outcome.file))
    BY DEF SuccessIsOnePackage
  <2>1. SumOf(outcome.file) \in Package
    BY DEF IInv, Sums
  <2>2. SumOf(outcome.file) # Absent
    BY DEF SumOf, Absent
  <2>3. PICK r \in Release, n \in 0..MaxSize :
          SumOf(outcome.file) = Installed(r, n)
    BY <2>1, <2>2 DEF Package
  <2>4. outcome.file = Bin(r, n)
    BY <2>3 DEF SumOf, Installed
  <2>5. Len(Bin(r, n)) = n
    BY <2>3 DEF Bin
  <2>. QED  BY <2>4, <2>5
<1>. QED  BY <1>1, Inductive, PTL
=============================================================================
