----------------------------- MODULE TextProofs -----------------------------
(***************************************************************************)
(* What a text carries arrives: blocks of bytes in Base64, strings and     *)
(* numbers in JSON, of any length.                                         *)
(***************************************************************************)
EXTENDS Texts, SequenceTheorems, WellFoundedInduction, TLAPS

-----------------------------------------------------------------------------
(* Base64.                                                                 *)

(* Three bytes are made of the four characters they make.                  *)
LEMMA GroupBytes ==
  ASSUME NEW x \in Byte, NEW y \in Byte, NEW z \in Byte
  PROVE  /\ ((x \div 4) * 4 + B!Second(x, y) \div 16) % 256 = x
         /\ ((B!Second(x, y) % 16) * 16
               + ((y % 16) * 4 + z \div 64) \div 4) % 256 = y
         /\ ((((y % 16) * 4 + z \div 64) % 4) * 64 + (z % 64)) % 256 = z
  BY SMT DEF B!Second, Byte

(* Every character that is filled is one of the alphabet.                  *)
LEMMA SextetInAlphabet ==
  ASSUME NEW x \in Byte, NEW y \in Byte, NEW z \in Byte
  PROVE  /\ x \div 4 \in 0..63
         /\ B!Second(x, y) \in 0..63
         /\ (y % 16) * 4 + z \div 64 \in 0..63
         /\ z % 64 \in 0..63
  BY SMT DEF B!Second, Byte

LEMMA ByteOfType == ASSUME NEW b \in Seq(Byte), NEW i \in Nat \ {0}
                    PROVE  B!ByteOf(b, i) \in Byte
<1>1. CASE i <= Len(b)
  <2>1. i \in 1..Len(b)  BY <1>1
  <2>2. b[i] \in Byte  BY <2>1
  <2>. QED  BY <1>1, <2>2 DEF B!ByteOf
<1>2. CASE ~(i <= Len(b))  BY <1>2 DEF B!ByteOf, Byte
<1>. QED  BY <1>1, <1>2

(* As many bytes come out as went in.                                      *)
LEMMA DecodedFilled == ASSUME NEW n \in Nat PROVE B!Decoded(B!Filled(n)) = n
  BY DEF B!Decoded, B!Filled

LEMMA AlphabetIsUsable == ASSUME NEW x \in 0..63 PROVE B!isBase64(x)
  BY DEF B!isBase64, B!Pad

LEMMA SextetType ==
  ASSUME NEW b \in Seq(Byte), NEW k \in Nat \ {0}, NEW r \in 0..3
  PROVE  B!Sextet(b, k, r) \in 0..63
<1> DEFINE x == B!ByteOf(b, k)
           y == B!ByteOf(b, k + 1)
           z == B!ByteOf(b, k + 2)
<1>1. x \in Byte /\ y \in Byte /\ z \in Byte
  BY ByteOfType
<1>. HIDE DEF x, y, z
<1>2. /\ x \div 4 \in 0..63
      /\ B!Second(x, y) \in 0..63
      /\ (y % 16) * 4 + z \div 64 \in 0..63
      /\ z % 64 \in 0..63
  BY <1>1, SextetInAlphabet
<1>3. CASE r = 0  BY <1>2, <1>3 DEF B!Sextet, x
<1>4. CASE r = 1  BY <1>2, <1>4 DEF B!Sextet, x, y
<1>5. CASE r = 2  BY <1>2, <1>5 DEF B!Sextet, y, z
<1>6. CASE r = 3  BY <1>2, <1>6 DEF B!Sextet, z
<1>. QED  BY <1>3, <1>4, <1>5, <1>6

(* Decode stops exactly where the padding begins.                          *)
LEMMA UsableIsFilled ==
  ASSUME NEW b \in Seq(Byte)
  PROVE  B!Usable(B!Encode(b)) = B!Filled(Len(b))
<1> DEFINE e == B!Encode(b)
           n == Len(b)
           L == 4 * ((n + 2) \div 3)
           Good(k) == /\ \A i \in 1..k : B!isBase64(e[i])
                      /\ k < Len(e) => ~B!isBase64(e[k + 1])
<1>1. n \in Nat  OBVIOUS
<1>2. B!Filled(n) \in 0..L
  BY <1>1 DEF B!Filled
<1>3. L \in Nat /\ Len(e) = L /\ DOMAIN e = 1..L
  BY <1>1 DEF B!Encode
<1>4. ASSUME NEW i \in 1..L, i <= B!Filled(n) PROVE B!isBase64(e[i])
  <2>1. e[i] = B!Sextet(b, 3 * ((i - 1) \div 4) + 1, (i - 1) % 4)
    BY <1>3, <1>4 DEF B!Encode
  <2>2. 3 * ((i - 1) \div 4) + 1 \in Nat \ {0} /\ (i - 1) % 4 \in 0..3
    OBVIOUS
  <2>3. e[i] \in 0..63  BY <2>1, <2>2, SextetType
  <2>. QED  BY <2>3, AlphabetIsUsable
<1>5. ASSUME NEW i \in 1..L, i > B!Filled(n) PROVE ~B!isBase64(e[i])
  <2>1. e[i] = B!Pad  BY <1>1, <1>3, <1>5 DEF B!Encode, B!Filled
  <2>. QED  BY <2>1 DEF B!isBase64, B!Pad
<1>6. Good(B!Filled(n))
  BY <1>2, <1>3, <1>4, <1>5
<1>7. ASSUME NEW k \in 0..L, Good(k) PROVE k = B!Filled(n)
  <2>1. CASE k < B!Filled(n)  BY <1>2, <1>3, <1>4, <1>7, <2>1
  <2>2. CASE k > B!Filled(n)  BY <1>2, <1>3, <1>5, <1>7, <2>2
  <2>. QED  BY <1>2, <2>1, <2>2
<1>. HIDE DEF Good
<1>8. B!Usable(e) = CHOOSE k \in 0..L : Good(k)
  BY <1>3 DEF B!Usable, Good
<1>. QED  BY <1>2, <1>6, <1>7, <1>8

(* RoundTrip for every block: what fserver and fclient put in "Content" is *)
(* what the other side takes out of it (fserver.cc:153, fclient.cc:218 and *)
(* 371, 253), and no byte is added that resize would have to cut.          *)
THEOREM DecodeUndoesEncode == \A b \in Seq(Byte) : B!RoundTrip(b)
<1>. SUFFICES ASSUME NEW b \in Seq(Byte) PROVE B!Decode(B!Encode(b)) = b
  BY DEF B!RoundTrip
<1> DEFINE e == B!Encode(b)
           n == Len(b)
           L == 4 * ((n + 2) \div 3)
<1>1. n \in Nat /\ DOMAIN b = 1..n  OBVIOUS
<1>2. B!Decoded(B!Filled(n)) = n
  BY <1>1, DecodedFilled
<1>3. DOMAIN B!Decode(e) = 1..n
  BY <1>2, UsableIsFilled DEF B!Decode
<1>4. ASSUME NEW j \in 1..n PROVE B!Decode(e)[j] = b[j]
  <2> DEFINE g == (j - 1) \div 3
             k == 3 * g + 1
             c == 4 * g + 1
             r == (j - 1) % 3
             x == B!ByteOf(b, k)
             y == B!ByteOf(b, k + 1)
             z == B!ByteOf(b, k + 2)
  <2>1. /\ g \in Nat /\ k \in Nat \ {0} /\ r \in 0..2 /\ j = 3 * g + r + 1
        /\ k + r = j
    BY <1>1
  <2>2. x \in Byte /\ y \in Byte /\ z \in Byte
    BY <2>1, ByteOfType
  <2>3. B!Decode(e)[j] = B!Octet(e, c, r)
    BY <1>2, UsableIsFilled DEF B!Decode
  <2>4. B!ByteOf(b, k + r) = b[j]
    BY <1>1, <2>1 DEF B!ByteOf
  <2>5. ASSUME NEW q \in 0..3, q <= r + 1 PROVE e[c + q] = B!Sextet(b, k, q)
    <3>1. c + q \in 1..L /\ c + q <= B!Filled(n)
      BY <1>1, <2>1, <2>5 DEF B!Filled
    <3>2. (c + q - 1) \div 4 = g /\ (c + q - 1) % 4 = q
      BY <2>1
    <3>3. e[c + q] = B!Sextet(b, 3 * ((c + q - 1) \div 4) + 1, (c + q - 1) % 4)
      BY <3>1 DEF B!Encode
    <3>. QED  BY <3>2, <3>3
  <2>. HIDE DEF x, y, z, c, e
  <2>6. CASE r = 0
    <3>1. e[c] = x \div 4 /\ e[c + 1] = B!Second(x, y)
      <4>1. e[c + 0] = B!Sextet(b, k, 0) /\ e[c + 1] = B!Sextet(b, k, 1)
        BY <2>5, <2>6
      <4>2. c + 0 = c  BY <2>1 DEF c
      <4>3. B!Sextet(b, k, 0) = x \div 4 /\ B!Sextet(b, k, 1) = B!Second(x, y)
        BY DEF B!Sextet, x, y
      <4>. QED  BY <4>1, <4>2, <4>3
    <3>2. B!Octet(e, c, r) = ((x \div 4) * 4 + B!Second(x, y) \div 16) % 256
      BY <2>6, <3>1 DEF B!Octet
    <3>3. B!Octet(e, c, r) = x  BY <2>2, <3>2, GroupBytes
    <3>. QED  BY <2>1, <2>3, <2>4, <2>6, <3>3 DEF x
  <2>7. CASE r = 1
    <3>1. /\ e[c + 1] = B!Second(x, y)
          /\ e[c + 2] = (y % 16) * 4 + z \div 64
      <4>1. e[c + 1] = B!Sextet(b, k, 1) /\ e[c + 2] = B!Sextet(b, k, 2)
        BY <2>5, <2>7
      <4>. QED  BY <4>1 DEF B!Sextet, x, y, z
    <3>2. B!Octet(e, c, r) = ((B!Second(x, y) % 16) * 16
                              + ((y % 16) * 4 + z \div 64) \div 4) % 256
      BY <2>7, <3>1 DEF B!Octet
    <3>3. B!Octet(e, c, r) = y  BY <2>2, <3>2, GroupBytes
    <3>. QED  BY <2>1, <2>3, <2>4, <2>7, <3>3 DEF y
  <2>8. CASE r = 2
    <3>1. e[c + 2] = (y % 16) * 4 + z \div 64 /\ e[c + 3] = z % 64
      <4>1. e[c + 2] = B!Sextet(b, k, 2) /\ e[c + 3] = B!Sextet(b, k, 3)
        BY <2>5, <2>8
      <4>. QED  BY <4>1 DEF B!Sextet, y, z
    <3>2. B!Octet(e, c, r) = ((((y % 16) * 4 + z \div 64) % 4) * 64 + (z % 64)) % 256
      BY <2>8, <3>1 DEF B!Octet
    <3>3. B!Octet(e, c, r) = z  BY <2>2, <3>2, GroupBytes
    <3>. QED  BY <2>1, <2>3, <2>4, <2>8, <3>3 DEF z
  <2>. QED  BY <2>1, <2>6, <2>7, <2>8
<1>5. B!Decode(e) = [j \in 1..n |-> B!Decode(e)[j]]
  BY <1>2, UsableIsFilled DEF B!Decode
<1>6. b = [j \in 1..n |-> b[j]]
  BY <1>1
<1>. QED  BY <1>4, <1>5, <1>6

-----------------------------------------------------------------------------
(* Induction.  NatInduction takes a predicate, which no installed prover   *)
(* can instantiate; a set it can.                                          *)

LEMMA LeastNumber ==
  ASSUME NEW T \in SUBSET Nat, T # {}
  PROVE  \E m \in T : \A k \in T : m <= k
<1>. DEFINE R == OpToRel(<, Nat)
<1>1. IsWellFoundedOn(R, Nat)
  BY NatLessThanWellFounded
<1>2. R = {ss \in Nat \X Nat : ss[1] < ss[2]}
  BY DEF OpToRel
<1>. HIDE DEF R
<1>3. PICK m \in T : \A k \in T : <<k, m>> \notin R
  BY <1>1, WFMin
<1>4. \A k \in T : ~(k < m)
  BY <1>2, <1>3
<1>. QED  BY <1>4

LEMMA SetInduction ==
  ASSUME NEW K \in SUBSET Nat, 0 \in K, \A n \in K : n + 1 \in K
  PROVE  \A n \in Nat : n \in K
<1>. SUFFICES ASSUME NEW n \in Nat, n \notin K PROVE FALSE
  OBVIOUS
<1>1. n \in Nat \ K /\ (Nat \ K) \in SUBSET Nat
  OBVIOUS
<1>2. PICK m \in Nat \ K : \A k \in Nat \ K : m <= k
  BY <1>1, LeastNumber
<1>3. m # 0 /\ m - 1 \in Nat
  OBVIOUS
<1>4. m - 1 \in K
  BY <1>2, <1>3
<1>. QED  BY <1>3, <1>4

LEMMA SequenceInduction ==
  ASSUME NEW E, NEW T \in SUBSET Seq(E), <<>> \in T,
         \A q \in T, e \in E : Append(q, e) \in T
  PROVE  \A q \in Seq(E) : q \in T
<1>. DEFINE K == {n \in Nat : \A q \in Seq(E) : Len(q) = n => q \in T}
<1>1. 0 \in K
  BY EmptySeq
<1>2. ASSUME NEW n \in K PROVE n + 1 \in K
  <2>. SUFFICES ASSUME NEW q \in Seq(E), Len(q) = n + 1 PROVE q \in T
    OBVIOUS
  <2>1. n \in Nat /\ \A p \in Seq(E) : Len(p) = n => p \in T
    OBVIOUS
  <2>. HIDE DEF K
  <2>2. q # <<>>
    BY <2>1
  <2>3. PICK p \in Seq(E), e \in E : q = Append(p, e)
    BY <2>2, SequenceEmptyOrAppend
  <2>4. Len(q) = Len(p) + 1 /\ Len(p) \in Nat
    BY <2>3, AppendProperties, LenProperties
  <2>5. Len(p) = n
    BY <2>1, <2>4
  <2>. QED  BY <2>1, <2>3, <2>5
<1>3. K \in SUBSET Nat
  OBVIOUS
<1>. HIDE DEF K
<1>4. \A n \in Nat : n \in K
  BY <1>1, <1>2, <1>3, SetInduction
<1>5. ASSUME NEW q \in Seq(E) PROVE q \in T
  <2>1. Len(q) \in K
    BY <1>4, LenProperties
  <2>. QED  BY <2>1 DEF K
<1>. QED  BY <1>5

-----------------------------------------------------------------------------
(* The lexer and the serializer of strings, the lexer of numbers and       *)
(* strtoull walk along their bytes in the same way: m is one of the four.  *)

Begin(m) ==
  CASE m = "lexer" -> S!Start
    [] m = "serializer" -> S!Unwritten
    [] m = "label" -> "init"
    [] m = "value" -> 0

Step(m, s, b) ==
  CASE m = "lexer" -> S!Scan(s, b)
    [] m = "serializer" -> S!Write(s, b)
    [] m = "label" -> N!Scan(s, b)
    [] m = "value" -> 10 * s + b

Reached(m, q, f, k) == IF k = 0 THEN Begin(m) ELSE Step(m, f[k - 1], q[k])

(* f is the function by which the machine walks q.                         *)
Walks(m, f, q) == f = [k \in 0..Len(q) |-> Reached(m, q, f, k)]

LEMMA WalkSteps ==
  ASSUME NEW m, NEW q, NEW f, Walks(m, f, q)
  PROVE  \A k \in 0..Len(q) : f[k] = Reached(m, q, f, k)
BY DEF Walks

LEMMA WalkExists ==
  ASSUME NEW m
  PROVE  \A q \in Seq(Byte) : \E f : Walks(m, f, q)
<1>. DEFINE none == <<>>
            T == {q \in Seq(Byte) : \E f : Walks(m, f, q)}
<1>1. none \in T
  <2>. DEFINE f == [k \in 0..Len(none) |-> Begin(m)]
  <2>1. \A k \in 0..Len(none) : Reached(m, none, f, k) = Begin(m)
    BY DEF Reached
  <2>2. none \in Seq(Byte)
    OBVIOUS
  <2>. HIDE DEF f, none
  <2>3. [k \in 0..Len(none) |-> Reached(m, none, f, k)]
          = [k \in 0..Len(none) |-> Begin(m)]
    BY <2>1
  <2>4. Walks(m, f, none)
    BY <2>3 DEF Walks, f
  <2>. QED  BY <2>2, <2>4
<1>2. ASSUME NEW p \in T, NEW e \in Byte PROVE Append(p, e) \in T
  <2>. DEFINE q == Append(p, e)
              n == Len(p)
  <2>1. /\ p \in Seq(Byte) /\ q \in Seq(Byte)
        /\ n \in Nat /\ Len(q) = n + 1
        /\ \A k \in 1..n : q[k] = p[k]
    BY AppendProperties, LenProperties
  <2>2. PICK f : Walks(m, f, p)
    OBVIOUS
  <2>3. \A k \in 0..n : f[k] = Reached(m, p, f, k)
    BY <2>2, WalkSteps
  <2>. DEFINE g == [k \in 0..n + 1 |->
                      IF k = n + 1 THEN Reached(m, q, f, k) ELSE f[k]]
  <2>. HIDE DEF T, q, n
  <2>4. \A k \in 0..n : g[k] = f[k]
    BY <2>1
  <2>5. g[n + 1] = Reached(m, q, f, n + 1)
    BY <2>1
  <2>6. g = [k \in 0..n + 1 |-> g[k]]
    OBVIOUS
  <2>. HIDE DEF g
  <2>7. ASSUME NEW k \in 0..n + 1 PROVE g[k] = Reached(m, q, g, k)
    <3>1. CASE k = 0
      BY <2>1, <2>3, <2>4, <3>1 DEF Reached
    <3>2. CASE k \in 1..n
      <4>1. k - 1 \in 0..n /\ k # 0 /\ k \in 0..n
        BY <2>1, <3>2
      <4>2. f[k - 1] = g[k - 1] /\ g[k] = f[k] /\ q[k] = p[k]
        BY <2>1, <2>4, <3>2, <4>1
      <4>3. f[k] = Reached(m, p, f, k)
        BY <2>3, <4>1
      <4>. QED  BY <4>1, <4>2, <4>3 DEF Reached
    <3>3. CASE k = n + 1
      <4>1. k - 1 \in 0..n /\ k # 0
        BY <2>1, <3>3
      <4>2. f[k - 1] = g[k - 1]
        BY <2>4, <4>1
      <4>. QED  BY <2>5, <3>3, <4>1, <4>2 DEF Reached
    <3>4. k = 0 \/ k \in 1..n \/ k = n + 1
      BY <2>1
    <3>. QED  BY <3>1, <3>2, <3>3, <3>4
  <2>8. Walks(m, g, q)
    <3>1. [k \in 0..n + 1 |-> g[k]] = [k \in 0..n + 1 |-> Reached(m, q, g, k)]
      BY <2>7
    <3>. QED  BY <2>1, <2>6, <3>1 DEF Walks
  <2>. QED  BY <2>1, <2>8 DEF T, q
<1>3. T \in SUBSET Seq(Byte)
  OBVIOUS
<1>. HIDE DEF T
<1>4. \A q \in Seq(Byte) : q \in T
  BY <1>1, <1>2, <1>3, SequenceInduction DEF none
<1>. QED  BY <1>4 DEF T

(* A walk along one byte more is one step longer.                          *)
LEMMA WalkOn ==
  ASSUME NEW m, NEW q \in Seq(Byte), NEW e \in Byte, NEW f, NEW g,
         Walks(m, f, q), Walks(m, g, Append(q, e))
  PROVE  g[Len(q) + 1] = Step(m, f[Len(q)], e)
<1>. DEFINE r == Append(q, e)
<1>1. /\ r \in Seq(Byte) /\ Len(r) = Len(q) + 1
      /\ Len(q) \in Nat
      /\ \A k \in 1..Len(q) : r[k] = q[k]
      /\ r[Len(q) + 1] = e
  BY AppendProperties, LenProperties
<1>2. /\ \A k \in 0..Len(q) : f[k] = Reached(m, q, f, k)
      /\ \A k \in 0..Len(r) : g[k] = Reached(m, r, g, k)
  BY WalkSteps
<1>. HIDE DEF r
<1>3. \A k \in Nat : k <= Len(q) => f[k] = g[k]
  <2>. DEFINE K == {k \in Nat : k <= Len(q) => f[k] = g[k]}
  <2>1. 0 \in K
    <3>1. f[0] = Reached(m, q, f, 0) /\ g[0] = Reached(m, r, g, 0)
      BY <1>1, <1>2
    <3>. QED  BY <3>1 DEF Reached
  <2>2. ASSUME NEW k \in K PROVE k + 1 \in K
    <3>. SUFFICES ASSUME k + 1 <= Len(q) PROVE f[k + 1] = g[k + 1]
      OBVIOUS
    <3>1. /\ k \in Nat /\ k + 1 \in 0..Len(q) /\ k + 1 \in 0..Len(r)
          /\ k + 1 \in 1..Len(q) /\ k + 1 # 0 /\ (k + 1) - 1 = k
          /\ f[k] = g[k]
      BY <1>1
    <3>2. /\ f[k + 1] = Reached(m, q, f, k + 1)
          /\ g[k + 1] = Reached(m, r, g, k + 1)
      BY <1>2, <3>1
    <3>3. r[k + 1] = q[k + 1]
      BY <1>1, <3>1
    <3>. QED  BY <3>1, <3>2, <3>3 DEF Reached
  <2>3. K \in SUBSET Nat
    OBVIOUS
  <2>. HIDE DEF K
  <2>4. \A k \in Nat : k \in K
    BY <2>1, <2>2, <2>3, SetInduction
  <2>. QED  BY <2>4 DEF K
<1>4. g[Len(q) + 1] = Reached(m, r, g, Len(q) + 1)
  BY <1>1, <1>2
<1>5. Len(q) + 1 # 0 /\ (Len(q) + 1) - 1 = Len(q) /\ f[Len(q)] = g[Len(q)]
  BY <1>1, <1>3
<1>. QED  BY <1>1, <1>4, <1>5 DEF Reached

Scans(f, q) ==
  f = [k \in 0..Len(q) |-> IF k = 0 THEN S!Start ELSE S!Scan(f[k - 1], q[k])]

LEMMA ScannedByWalk ==
  ASSUME NEW q \in Seq(Byte)
  PROVE  \E f : Walks("lexer", f, q) /\ S!Scanned(q) = f[Len(q)]
<1>. DEFINE f == CHOOSE f : Scans(f, q)
<1>1. S!Scanned(q) = f[Len(q)]
  BY DEF S!Scanned, Scans
<1>2. \A h, k : Reached("lexer", q, h, k)
                  = IF k = 0 THEN S!Start ELSE S!Scan(h[k - 1], q[k])
  BY DEF Reached, Begin, Step
<1>3. ASSUME NEW h PROVE Scans(h, q) <=> Walks("lexer", h, q)
  <2>1. [k \in 0..Len(q) |-> Reached("lexer", q, h, k)]
          = [k \in 0..Len(q) |->
               IF k = 0 THEN S!Start ELSE S!Scan(h[k - 1], q[k])]
    BY <1>2
  <2>. QED  BY <2>1 DEF Scans, Walks
<1>4. \E h : Scans(h, q)
  BY <1>3, WalkExists
<1>5. Scans(f, q)
  BY <1>4
<1>. HIDE DEF f
<1>. QED  BY <1>1, <1>3, <1>5

Writes(f, q) ==
  f = [k \in 0..Len(q) |->
         IF k = 0 THEN S!Unwritten ELSE S!Write(f[k - 1], q[k])]

LEMMA WrittenByWalk ==
  ASSUME NEW q \in Seq(Byte)
  PROVE  \E f : Walks("serializer", f, q) /\ S!Written(q) = f[Len(q)]
<1>. DEFINE f == CHOOSE f : Writes(f, q)
<1>1. S!Written(q) = f[Len(q)]
  BY DEF S!Written, Writes
<1>2. \A h, k : Reached("serializer", q, h, k)
                  = IF k = 0 THEN S!Unwritten ELSE S!Write(h[k - 1], q[k])
  BY DEF Reached, Begin, Step
<1>3. ASSUME NEW h PROVE Writes(h, q) <=> Walks("serializer", h, q)
  <2>1. [k \in 0..Len(q) |-> Reached("serializer", q, h, k)]
          = [k \in 0..Len(q) |->
               IF k = 0 THEN S!Unwritten ELSE S!Write(h[k - 1], q[k])]
    BY <1>2
  <2>. QED  BY <2>1 DEF Writes, Walks
<1>4. \E h : Writes(h, q)
  BY <1>3, WalkExists
<1>5. Writes(f, q)
  BY <1>4
<1>. HIDE DEF f
<1>. QED  BY <1>1, <1>3, <1>5

(* What the two do with one byte more.                                     *)
LEMMA ScannedAppend ==
  ASSUME NEW q \in Seq(Byte), NEW b \in Byte
  PROVE  S!Scanned(Append(q, b)) = S!Scan(S!Scanned(q), b)
<1>. DEFINE r == Append(q, b)
<1>1. r \in Seq(Byte) /\ Len(r) = Len(q) + 1
  BY AppendProperties, LenProperties
<1>2. PICK f : Walks("lexer", f, q) /\ S!Scanned(q) = f[Len(q)]
  BY ScannedByWalk
<1>. HIDE DEF r
<1>3. PICK g : Walks("lexer", g, r) /\ S!Scanned(r) = g[Len(r)]
  BY <1>1, ScannedByWalk
<1>4. g[Len(q) + 1] = Step("lexer", f[Len(q)], b)
  BY <1>2, <1>3, WalkOn DEF r
<1>. QED  BY <1>1, <1>2, <1>3, <1>4 DEF Step, r

LEMMA WrittenAppend ==
  ASSUME NEW q \in Seq(Byte), NEW b \in Byte
  PROVE  S!Written(Append(q, b)) = S!Write(S!Written(q), b)
<1>. DEFINE r == Append(q, b)
<1>1. r \in Seq(Byte) /\ Len(r) = Len(q) + 1
  BY AppendProperties, LenProperties
<1>2. PICK f : Walks("serializer", f, q) /\ S!Written(q) = f[Len(q)]
  BY WrittenByWalk
<1>. HIDE DEF r
<1>3. PICK g : Walks("serializer", g, r) /\ S!Written(r) = g[Len(r)]
  BY <1>1, WrittenByWalk
<1>4. g[Len(q) + 1] = Step("serializer", f[Len(q)], b)
  BY <1>2, <1>3, WalkOn DEF r
<1>. QED  BY <1>1, <1>2, <1>3, <1>4 DEF Step, r

LEMMA NothingYet == S!Scanned(<<>>) = S!Start /\ S!Written(<<>>) = S!Unwritten
<1>. DEFINE none == <<>>
<1>1. none \in Seq(Byte) /\ Len(none) = 0
  OBVIOUS
<1>. HIDE DEF none
<1>2. S!Scanned(none) = S!Start
  <2>1. PICK f : Walks("lexer", f, none) /\ S!Scanned(none) = f[Len(none)]
    BY <1>1, ScannedByWalk
  <2>2. f[0] = Reached("lexer", none, f, 0)
    BY <1>1, <2>1, WalkSteps
  <2>. QED  BY <1>1, <2>1, <2>2 DEF Reached, Begin
<1>3. S!Written(none) = S!Unwritten
  <2>1. PICK f : Walks("serializer", f, none) /\ S!Written(none) = f[Len(none)]
    BY <1>1, WrittenByWalk
  <2>2. f[0] = Reached("serializer", none, f, 0)
    BY <1>1, <2>1, WalkSteps
  <2>. QED  BY <1>1, <2>1, <2>2 DEF Reached, Begin
<1>. QED  BY <1>2, <1>3 DEF none

-----------------------------------------------------------------------------
(* The two tests of UTF-8: the ranges of the lexer and the states of the   *)
(* serializer's automaton.                                                 *)

RangesOf(q) ==
  CASE q = 2 -> <<S!Inner>>
    [] q = 3 -> <<S!Inner, S!Inner>>
    [] q = 4 -> <<160..191, S!Inner>>
    [] q = 5 -> <<128..159, S!Inner>>
    [] q = 6 -> <<144..191, S!Inner, S!Inner>>
    [] q = 7 -> <<S!Inner, S!Inner, S!Inner>>
    [] q = 8 -> <<128..143, S!Inner, S!Inner>>
    [] OTHER -> <<>>

First(q) ==
  CASE q \in {2, 3, 7} -> S!Inner
    [] q = 4 -> 160..191
    [] q = 5 -> 128..159
    [] q = 6 -> 144..191
    [] q = 8 -> 128..143

After(q) ==
  CASE q = 2 -> S!Accept
    [] q \in 3..5 -> 2
    [] q \in 6..8 -> 3

LEMMA ClassOfByte ==
  ASSUME NEW b \in Byte
  PROVE  /\ S!Class(b) \in 0..11
         /\ b \in 0..127 <=> S!Class(b) = 0
         /\ b \in 128..143 <=> S!Class(b) = 1
         /\ b \in 144..159 <=> S!Class(b) = 9
         /\ b \in 160..191 <=> S!Class(b) = 7
         /\ b \in 194..223 <=> S!Class(b) = 2
         /\ b = 224 <=> S!Class(b) = 10
         /\ b \in (225..236) \cup {238, 239} <=> S!Class(b) = 3
         /\ b = 237 <=> S!Class(b) = 4
         /\ b = 240 <=> S!Class(b) = 11
         /\ b \in 241..243 <=> S!Class(b) = 6
         /\ b = 244 <=> S!Class(b) = 5
<1>1. ASSUME b \in 0..127 PROVE S!Class(b) = 0
  BY <1>1, SMTT(30) DEF S!Class
<1>2. ASSUME b \in 128..143 PROVE S!Class(b) = 1
  BY <1>2, SMTT(30) DEF S!Class
<1>3. ASSUME b \in 144..159 PROVE S!Class(b) = 9
  BY <1>3, SMTT(30) DEF S!Class
<1>4. ASSUME b \in 160..191 PROVE S!Class(b) = 7
  BY <1>4, SMTT(30) DEF S!Class
<1>5. ASSUME b \in {192, 193} \cup 245..255 PROVE S!Class(b) = 8
  BY <1>5, SMTT(30) DEF S!Class
<1>6. ASSUME b \in 194..223 PROVE S!Class(b) = 2
  BY <1>6, SMTT(30) DEF S!Class
<1>7. ASSUME b \in {224} PROVE S!Class(b) = 10
  BY <1>7, SMTT(30) DEF S!Class
<1>8. ASSUME b \in (225..236) \cup {238, 239} PROVE S!Class(b) = 3
  BY <1>8, SMTT(30) DEF S!Class
<1>9. ASSUME b \in {237} PROVE S!Class(b) = 4
  BY <1>9, SMTT(30) DEF S!Class
<1>10. ASSUME b \in {240} PROVE S!Class(b) = 11
  BY <1>10, SMTT(30) DEF S!Class
<1>11. ASSUME b \in 241..243 PROVE S!Class(b) = 6
  BY <1>11, SMTT(30) DEF S!Class
<1>12. ASSUME b \in {244} PROVE S!Class(b) = 5
  BY <1>12, SMTT(30) DEF S!Class
<1>13. \/ b \in 0..127
       \/ b \in 128..143
       \/ b \in 144..159
       \/ b \in 160..191
       \/ b \in {192, 193} \cup 245..255
       \/ b \in 194..223
       \/ b \in {224}
       \/ b \in (225..236) \cup {238, 239}
       \/ b \in {237}
       \/ b \in {240}
       \/ b \in 241..243
       \/ b \in {244}
  BY SMTT(30) DEF Byte
<1>. QED
  BY <1>1, <1>2, <1>3, <1>4, <1>5, <1>6, <1>7, <1>8, <1>9, <1>10, <1>11,
     <1>12, <1>13, SMTT(60)

LEMMA Followers ==
  ASSUME NEW b \in Byte
  PROVE  /\ b \in 194..223 => S!FollowersOf(b) = <<S!Inner>>
         /\ b = 224 => S!FollowersOf(b) = <<160..191, S!Inner>>
         /\ b \in (225..236) \cup {238, 239} => S!FollowersOf(b) = <<S!Inner, S!Inner>>
         /\ b = 237 => S!FollowersOf(b) = <<128..159, S!Inner>>
         /\ b = 240 => S!FollowersOf(b) = <<144..191, S!Inner, S!Inner>>
         /\ b \in 241..243 => S!FollowersOf(b) = <<S!Inner, S!Inner, S!Inner>>
         /\ b = 244 => S!FollowersOf(b) = <<128..143, S!Inner, S!Inner>>
         /\ b \notin 194..244 => S!FollowersOf(b) = <<>>
<1>1. ASSUME b \in 194..223 PROVE S!FollowersOf(b) = <<S!Inner>>
  <2>1. S!FollowersOf(b) \in {<<S!Inner>>}
    BY <1>1, SMT DEF S!FollowersOf
  <2>. QED  BY <2>1
<1>2. ASSUME b \in {224} PROVE S!FollowersOf(b) = <<160..191, S!Inner>>
  BY <1>2, SMTT(30) DEF S!FollowersOf
<1>3. ASSUME b \in (225..236) \cup {238, 239}
      PROVE  S!FollowersOf(b) = <<S!Inner, S!Inner>>
  BY <1>3, SMTT(30) DEF S!FollowersOf
<1>4. ASSUME b \in {237} PROVE S!FollowersOf(b) = <<128..159, S!Inner>>
  BY <1>4, SMTT(30) DEF S!FollowersOf
<1>5. ASSUME b \in {240} PROVE S!FollowersOf(b) = <<144..191, S!Inner, S!Inner>>
  BY <1>5, SMTT(30) DEF S!FollowersOf
<1>6. ASSUME b \in 241..243
      PROVE  S!FollowersOf(b) = <<S!Inner, S!Inner, S!Inner>>
  BY <1>6, SMTT(30) DEF S!FollowersOf
<1>7. ASSUME b \in {244} PROVE S!FollowersOf(b) = <<128..143, S!Inner, S!Inner>>
  BY <1>7, SMTT(30) DEF S!FollowersOf
<1>8. ASSUME b \notin 194..244 PROVE S!FollowersOf(b) = <<>>
  BY <1>8, SMTT(30) DEF S!FollowersOf, Byte
<1>. QED  BY <1>1, <1>2, <1>3, <1>4, <1>5, <1>6, <1>7, <1>8

LEMMA FirstByte ==
  ASSUME NEW b \in Byte
  PROVE  /\ S!NextState(S!Accept, b) \in 0..8
         /\ S!NextState(S!Accept, b) = S!Accept <=> b \in 0..127
         /\ S!NextState(S!Accept, b) = S!Reject <=> b \notin 0..127 \cup 194..244
         /\ S!FollowersOf(b) = RangesOf(S!NextState(S!Accept, b))
<1>1. S!NextState(S!Accept, b) = S!Leads(S!Class(b))
  BY DEF S!NextState, S!Accept
<1>2. /\ S!Leads(S!Class(b)) \in 0..8
      /\ S!Leads(S!Class(b)) = S!Accept <=> b \in 0..127
      /\ S!Leads(S!Class(b)) = S!Reject <=> b \notin 0..127 \cup 194..244
  BY ClassOfByte, SMTT(60) DEF S!Leads, S!Accept, S!Reject, Byte
<1>3. S!FollowersOf(b) = RangesOf(S!Leads(S!Class(b)))
  <2>1. CASE b \in 0..127
    <3>1. S!FollowersOf(b) = <<>>
      BY <2>1, Followers
    <3>2. S!Leads(S!Class(b)) = 0
      BY <2>1, ClassOfByte DEF S!Leads, S!Accept
    <3>. QED  BY <3>1, <3>2 DEF RangesOf
  <2>2. CASE b \in 194..223
    <3>1. S!FollowersOf(b) = <<S!Inner>>
      BY <2>2, Followers
    <3>2. S!Leads(S!Class(b)) = 2
      BY <2>2, ClassOfByte DEF S!Leads
    <3>3. RangesOf(2) = <<S!Inner>>
      BY SMT DEF RangesOf
    <3>. QED  BY <3>1, <3>2, <3>3
  <2>3. CASE b \in 224..239
    <3>1. RangesOf(3) = <<S!Inner, S!Inner>>
      BY SMT DEF RangesOf
    <3>2. RangesOf(4) = <<160..191, S!Inner>>
      BY SMT DEF RangesOf
    <3>3. RangesOf(5) = <<128..159, S!Inner>>
      BY SMT DEF RangesOf
    <3>4. CASE b = 224
      <4>1. S!FollowersOf(b) = <<160..191, S!Inner>>
        BY <3>4, Followers
      <4>2. S!Leads(S!Class(b)) = 4
        BY <3>4, ClassOfByte DEF S!Leads
      <4>. QED  BY <3>2, <4>1, <4>2
    <3>5. CASE b = 237
      <4>1. S!FollowersOf(b) = <<128..159, S!Inner>>
        BY <3>5, Followers
      <4>2. S!Leads(S!Class(b)) = 5
        BY <3>5, ClassOfByte DEF S!Leads
      <4>. QED  BY <3>3, <4>1, <4>2
    <3>6. CASE b \in (225..236) \cup {238, 239}
      <4>1. S!FollowersOf(b) = <<S!Inner, S!Inner>>
        BY <3>6, Followers
      <4>2. S!Leads(S!Class(b)) = 3
        BY <3>6, ClassOfByte DEF S!Leads
      <4>. QED  BY <3>1, <4>1, <4>2
    <3>. QED  BY <2>3, <3>4, <3>5, <3>6
  <2>4. CASE b \in 240..244
    BY <2>4, ClassOfByte, Followers, SMTT(30) DEF S!Leads, S!Accept, RangesOf
  <2>5. CASE b \notin 0..127 \cup 194..244
    <3>1. S!Leads(S!Class(b)) = S!Reject
      BY <1>2, <2>5
    <3>2. S!FollowersOf(b) = <<>>
      BY <2>5, Followers
    <3>. QED  BY <3>1, <3>2 DEF RangesOf, S!Reject
  <2>. QED  BY <2>1, <2>2, <2>3, <2>4, <2>5 DEF Byte
<1>. QED  BY <1>1, <1>2, <1>3

LEMMA NextByte ==
  ASSUME NEW q \in 2..8, NEW b \in Byte
  PROVE  S!NextState(q, b) = IF b \in First(q) THEN After(q) ELSE S!Reject
<1>1. S!Class(b) \in S!Onward(q) <=> b \in First(q)
  BY ClassOfByte, SMTT(60) DEF S!Onward, First, S!Inner, Byte
<1>. QED  BY <1>1 DEF S!NextState, After, S!Accept

LEMMA RangesTail ==
  ASSUME NEW q \in 2..8
  PROVE  /\ RangesOf(q) # <<>>
         /\ Len(RangesOf(q)) = 1 <=> After(q) = S!Accept
         /\ After(q) \in {S!Accept, 2, 3}
         /\ Head(RangesOf(q)) = First(q)
         /\ Tail(RangesOf(q)) = RangesOf(After(q))
<1>1. CASE q = 2
  BY <1>1 DEF RangesOf, After, First, S!Accept
<1>2. CASE q \in 3..5
  BY <1>2 DEF RangesOf, After, First, S!Accept
<1>3. CASE q \in 6..8
  BY <1>3 DEF RangesOf, After, First, S!Accept
<1>. QED  BY <1>1, <1>2, <1>3

LEMMA NoRanges == RangesOf(S!Accept) = <<>>
BY DEF RangesOf, S!Accept

LEMMA MoreRanges ==
  ASSUME NEW q \in 0..8
  PROVE  RangesOf(q) # <<>> <=> q \in 2..8
<1>1. CASE q \in 2..8  BY <1>1, RangesTail
<1>2. CASE q \in {0, 1}  BY <1>2 DEF RangesOf
<1>. QED  BY <1>1, <1>2

LEMMA FirstStates ==
  ASSUME NEW b \in Byte
  PROVE  /\ b \in 194..223 => S!NextState(S!Accept, b) = 2
         /\ b = 224 => S!NextState(S!Accept, b) = 4
         /\ b \in (225..236) \cup {238, 239} => S!NextState(S!Accept, b) = 3
         /\ b = 237 => S!NextState(S!Accept, b) = 5
         /\ b = 240 => S!NextState(S!Accept, b) = 6
         /\ b \in 241..243 => S!NextState(S!Accept, b) = 7
         /\ b = 244 => S!NextState(S!Accept, b) = 8
<1>1. S!NextState(S!Accept, b) = S!Leads(S!Class(b))
  BY DEF S!NextState, S!Accept
<1>2. /\ S!Leads(2) = 2 /\ S!Leads(10) = 4 /\ S!Leads(3) = 3 /\ S!Leads(4) = 5
      /\ S!Leads(11) = 6 /\ S!Leads(6) = 7 /\ S!Leads(5) = 8
  BY DEF S!Leads
<1>. QED  BY <1>1, <1>2, ClassOfByte

LEMMA InnerStates ==
  ASSUME NEW b \in S!Inner
  PROVE  /\ S!NextState(2, b) = S!Accept
         /\ S!NextState(3, b) = 2
         /\ S!NextState(7, b) = 3
         /\ b \in 160..191 => S!NextState(4, b) = 2
         /\ b \in 128..159 => S!NextState(5, b) = 2
         /\ b \in 144..191 => S!NextState(6, b) = 3
         /\ b \in 128..143 => S!NextState(8, b) = 3
<1>1. b \in Byte
  BY DEF S!Inner, Byte
<1>2. \A q \in 2..8 : b \in First(q) => S!NextState(q, b) = After(q)
  BY <1>1, NextByte
<1>3. /\ First(2) = S!Inner /\ First(3) = S!Inner /\ First(7) = S!Inner
      /\ First(4) = 160..191 /\ First(5) = 128..159
      /\ First(6) = 144..191 /\ First(8) = 128..143
  BY DEF First
<1>4. /\ After(2) = S!Accept
      /\ After(3) = 2 /\ After(4) = 2 /\ After(5) = 2
      /\ After(6) = 3 /\ After(7) = 3 /\ After(8) = 3
  BY DEF After
<1>. QED  BY <1>2, <1>3, <1>4

-----------------------------------------------------------------------------
(* The state in which the serializer is after the bytes of a string.       *)

LEMMA WriteState ==
  ASSUME NEW s, s.state \in 0..8, NEW b \in Byte
  PROVE  S!Write(s, b).state = S!NextState(s.state, b)
<1>1. CASE s.state = S!Reject
  <2>1. S!NextState(S!Reject, b) = S!Reject
    BY DEF S!NextState, S!Onward, S!Reject, S!Accept
  <2>2. S!NextState(s.state, b) # S!Accept
    BY <1>1, <2>1 DEF S!Reject, S!Accept
  <2>3. S!Write(s, b) = s
    BY <1>1, <2>2 DEF S!Write
  <2>. QED  BY <1>1, <2>1, <2>3
<1>2. CASE s.state # S!Reject /\ S!NextState(s.state, b) = S!Accept
  BY <1>2 DEF S!Write
<1>3. CASE s.state # S!Reject /\ S!NextState(s.state, b) # S!Accept
  BY <1>3 DEF S!Write
<1>. QED  BY <1>1, <1>2, <1>3

LEMMA NextStates ==
  ASSUME NEW q \in 0..8, NEW b \in Byte
  PROVE  S!NextState(q, b) \in 0..8
<1>1. CASE q = S!Accept
  BY <1>1, FirstByte
<1>2. CASE q = S!Reject
  BY <1>2 DEF S!NextState, S!Onward, S!Reject, S!Accept
<1>3. CASE q \in 2..8
  BY <1>3, NextByte, RangesTail DEF S!Reject, S!Accept
<1>. QED  BY <1>1, <1>2, <1>3 DEF S!Accept, S!Reject

LEMMA StateType == \A q \in Seq(Byte) : S!Written(q).state \in 0..8
<1>. DEFINE none == <<>>
            T == {q \in Seq(Byte) : S!Written(q).state \in 0..8}
<1>1. none \in T
  BY NothingYet DEF S!Unwritten, S!Accept
<1>2. ASSUME NEW q \in T, NEW b \in Byte PROVE Append(q, b) \in T
  BY WrittenAppend, WriteState, NextStates
<1>3. T \in SUBSET Seq(Byte)
  OBVIOUS
<1>. HIDE DEF T
<1>4. \A q \in Seq(Byte) : q \in T
  BY <1>1, <1>2, <1>3, SequenceInduction DEF none
<1>. QED  BY <1>4 DEF T

LEMMA StateAppend ==
  ASSUME NEW q \in Seq(Byte), NEW b \in Byte
  PROVE  S!Written(Append(q, b)).state = S!NextState(S!Written(q).state, b)
BY WrittenAppend, WriteState, StateType

LEMMA AppendOfConcat ==
  ASSUME NEW E, NEW x \in Seq(E), NEW y \in Seq(E), NEW e \in E
  PROVE  x \o Append(y, e) = Append(x \o y, e)
<1>. DEFINE one == <<e>>
<1>1. one \in Seq(E)
  OBVIOUS
<1>2. Append(y, e) = y \o one /\ Append(x \o y, e) = (x \o y) \o one
  BY ConcatProperties, AppendIsConcat
<1>. HIDE DEF one
<1>3. (x \o y) \o one = x \o (y \o one)
  BY <1>1, ConcatAssociative
<1>. QED  BY <1>2, <1>3

(* A few bytes at once are one byte after the other.                       *)
LEMMA OneByOne ==
  ASSUME NEW q \in Seq(Byte), NEW a \in Byte, NEW b \in Byte,
         NEW c \in Byte, NEW d \in Byte
  PROVE  /\ q \o <<a>> = Append(q, a)
         /\ q \o <<a, b>> = Append(Append(q, a), b)
         /\ q \o <<a, b, c>> = Append(Append(Append(q, a), b), c)
         /\ q \o <<a, b, c, d>> = Append(Append(Append(Append(q, a), b), c), d)
         /\ <<a>> \in Seq(Byte) /\ <<a, b>> \in Seq(Byte)
         /\ <<a, b, c>> \in Seq(Byte) /\ <<a, b, c, d>> \in Seq(Byte)
<1>. DEFINE s1 == <<a>>
            s2 == <<a, b>>
            s3 == <<a, b, c>>
            s4 == <<a, b, c, d>>
<1>1. s1 \in Seq(Byte) /\ q \o s1 = Append(q, a)
  BY AppendIsConcat
<1>2. s2 = Append(s1, b)
  OBVIOUS
<1>3. s3 = Append(s2, c)
  OBVIOUS
<1>4. s4 = Append(s3, d)
  OBVIOUS
<1>. HIDE DEF s1, s2, s3, s4
<1>5. s2 \in Seq(Byte) /\ s3 \in Seq(Byte) /\ s4 \in Seq(Byte)
  BY <1>1, <1>2, <1>3, <1>4, AppendProperties
<1>6. q \o s2 = Append(q \o s1, b)
  BY <1>1, <1>2, AppendOfConcat
<1>7. q \o s3 = Append(q \o s2, c)
  BY <1>3, <1>5, AppendOfConcat
<1>8. q \o s4 = Append(q \o s3, d)
  BY <1>4, <1>5, AppendOfConcat
<1>. QED  BY <1>1, <1>5, <1>6, <1>7, <1>8 DEF s1, s2, s3, s4

(* The code points of the lexer: 16 bits without the halves of pairs, and  *)
(* pairs.                                                                  *)
IsCodePoint(c) ==
  /\ c \in Nat
  /\ c <= 65535 => c \notin S!High \cup S!Low
  /\ c <= 1114111

LEMMA PairedIsCodePoint ==
  ASSUME NEW h \in S!High, NEW l \in S!Low
  PROVE  IsCodePoint(S!Paired(h, l))
BY SMT DEF S!Paired, S!High, S!Low, IsCodePoint

LEMMA Utf8IsAccepted ==
  ASSUME NEW q \in Seq(Byte), S!Written(q).state = S!Accept, NEW c, IsCodePoint(c)
  PROVE  S!Utf8(c) \in Seq(Byte) /\ S!Written(q \o S!Utf8(c)).state = S!Accept
<1>0. c \in Nat /\ c <= 1114111
  BY DEF IsCodePoint
<1>1. CASE c < 128
  <2>1. c \in Byte /\ c \in 0..127
    BY <1>0, <1>1 DEF Byte
  <2>3. S!Utf8(c) \in {<<c>>}
    BY <1>0, <1>1, SMT DEF S!Utf8
  <2>2. S!Written(Append(q, c)).state = S!Accept
    BY <2>1, StateAppend, FirstByte
  <2>. QED  BY <2>1, <2>2, <2>3, OneByOne
<1>. DEFINE z == S!Follow(c, 1)
            y == S!Follow(c, 64)
            x == S!Follow(c, 4096)
<1>2. /\ z \in S!Inner /\ y \in S!Inner /\ x \in S!Inner
      /\ z \in Byte /\ y \in Byte /\ x \in Byte
  BY <1>0, SMT DEF S!Follow, S!Inner, Byte
<1>3. CASE 128 <= c /\ c < 2048
  <2>. DEFINE a == 192 + c \div 64
  <2>1. S!Utf8(c) \in {<<a, z>>}
    BY <1>0, <1>3, SMT DEF S!Utf8
  <2>2. a \in 194..223 /\ a \in Byte
    BY <1>0, <1>3, SMT DEF Byte
  <2>. HIDE DEF a, z
  <2>. DEFINE p == Append(q, a)
  <2>3. p \in Seq(Byte) /\ S!Written(p).state = 2
    BY <2>2, StateAppend, FirstStates
  <2>. HIDE DEF p
  <2>4. S!Written(Append(p, z)).state = S!Accept
    BY <1>2, <2>3, StateAppend, InnerStates
  <2>5. q \o <<a, z>> = Append(p, z) /\ <<a, z>> \in Seq(Byte)
    BY <1>2, <2>2, OneByOne DEF p
  <2>6. S!Utf8(c) = <<a, z>>
    BY <2>1
  <2>. QED  BY <2>4, <2>5, <2>6
<1>4. CASE 2048 <= c /\ c < 65536
  <2>. DEFINE a == 224 + c \div 4096
  <2>1. S!Utf8(c) \in {<<a, y, z>>}
    BY <1>0, <1>4, SMT DEF S!Utf8
  <2>2. a \in Byte /\ a \in 224..239
    BY <1>0, <1>4, SMT DEF Byte
  <2>3. a = 224 => y \in 160..191
    BY <1>0, <1>4, SMT DEF S!Follow
  <2>4. a = 237 => y \in 128..159
    BY <1>0, <1>4, SMT DEF S!Follow, IsCodePoint, S!High, S!Low
  <2>. HIDE DEF a, y, z
  <2>. DEFINE p == Append(q, a)
              r == Append(p, y)
  <2>5. p \in Seq(Byte) /\ r \in Seq(Byte)
    BY <1>2, <2>2
  <2>6. /\ S!Written(p).state = S!NextState(S!Accept, a)
        /\ S!NextState(S!Accept, a) \in 3..5
    BY <2>2, StateAppend, FirstStates
  <2>. HIDE DEF p
  <2>7. S!NextState(S!NextState(S!Accept, a), y) = 2
    BY <1>2, <2>2, <2>3, <2>4, FirstStates, InnerStates
  <2>8. S!Written(r).state = 2
    BY <1>2, <2>5, <2>6, <2>7, StateAppend
  <2>. HIDE DEF r
  <2>9. S!Written(Append(r, z)).state = S!Accept
    BY <1>2, <2>5, <2>8, StateAppend, InnerStates
  <2>10. q \o <<a, y, z>> = Append(r, z) /\ <<a, y, z>> \in Seq(Byte)
    BY <1>2, <2>2, OneByOne DEF p, r
  <2>11. S!Utf8(c) = <<a, y, z>>
    BY <2>1
  <2>. QED  BY <2>9, <2>10, <2>11
<1>5. CASE 65536 <= c
  <2>. DEFINE a == 240 + c \div 262144
  <2>1. S!Utf8(c) \in {<<a, x, y, z>>}
    BY <1>0, <1>5, SMT DEF S!Utf8
  <2>2. a \in Byte /\ a \in 240..244
    BY <1>0, <1>5, SMT DEF Byte
  <2>3. a = 240 => x \in 144..191
    BY <1>0, <1>5, SMT DEF S!Follow
  <2>4. a = 244 => x \in 128..143
    BY <1>0, <1>5, SMT DEF S!Follow
  <2>. HIDE DEF a, x, y, z
  <2>. DEFINE p == Append(q, a)
              r == Append(p, x)
              t == Append(r, y)
  <2>5. p \in Seq(Byte) /\ r \in Seq(Byte) /\ t \in Seq(Byte)
    BY <1>2, <2>2
  <2>6. /\ S!Written(p).state = S!NextState(S!Accept, a)
        /\ S!NextState(S!Accept, a) \in 6..8
    BY <2>2, StateAppend, FirstStates
  <2>. HIDE DEF p
  <2>7. S!NextState(S!NextState(S!Accept, a), x) = 3
    BY <1>2, <2>2, <2>3, <2>4, FirstStates, InnerStates
  <2>8. S!Written(r).state = 3
    BY <1>2, <2>5, <2>6, <2>7, StateAppend
  <2>. HIDE DEF r
  <2>9. S!Written(t).state = 2
    BY <1>2, <2>5, <2>8, StateAppend, InnerStates
  <2>. HIDE DEF t
  <2>10. S!Written(Append(t, z)).state = S!Accept
    BY <1>2, <2>5, <2>9, StateAppend, InnerStates
  <2>11. q \o <<a, x, y, z>> = Append(t, z) /\ <<a, x, y, z>> \in Seq(Byte)
    BY <1>2, <2>2, OneByOne DEF p, r, t
  <2>12. S!Utf8(c) = <<a, x, y, z>>
    BY <2>1
  <2>. QED  BY <2>10, <2>11, <2>12
<1>. QED  BY <1>0, <1>1, <1>3, <1>4, <1>5, SMT

-----------------------------------------------------------------------------
(* Whatever the lexer has read, the serializer could write, up to a        *)
(* character of which the lexer has read a part: what the one expects to   *)
(* follow is what the state of the other admits.                           *)

Places == {"character", "follower", "escape", "hex", "pair",
           "unicode", "done", "error"}

AllRanges == {RangesOf(q) : q \in 0..8}
HexDigits == Seq(0..15)

LexerState == [at : Places, token : Seq(Byte), ranges : AllRanges,
               hex : HexDigits, high : Int]

Lexed(s) ==
  /\ s \in LexerState
  /\ Len(s.hex) < 4
  /\ s.high # 0 => s.high \in S!High
  /\ s.at = "follower" => /\ S!Written(s.token).state \in 2..8
                          /\ s.ranges = RangesOf(S!Written(s.token).state)
  /\ s.at \notin {"follower", "error"} => S!Written(s.token).state = S!Accept

LEMMA LexerAt ==
  ASSUME NEW s \in LexerState, NEW p \in Places
  PROVE  [s EXCEPT !.at = p] \in LexerState
BY DEF LexerState

LEMMA LexerHigh ==
  ASSUME NEW s \in LexerState, NEW n \in Int
  PROVE  [s EXCEPT !.high = n] \in LexerState
BY DEF LexerState

LEMMA LexedFail == ASSUME NEW s, Lexed(s) PROVE Lexed(S!Fail(s))
BY DEF Lexed, S!Fail, LexerState, Places

LEMMA LexedAdd ==
  ASSUME NEW s \in LexerState, NEW bytes \in Seq(Byte), Len(s.hex) < 4,
         s.high # 0 => s.high \in S!High,
         S!Written(s.token \o bytes).state = S!Accept
  PROVE  Lexed(S!Add(s, bytes))
<1>1. s.token \o bytes \in Seq(Byte)
  BY DEF LexerState
<1>2. S!Add(s, bytes) \in LexerState
  BY <1>1 DEF S!Add, LexerState, Places
<1>3. /\ S!Add(s, bytes).at = "character"
      /\ S!Add(s, bytes).token = s.token \o bytes
      /\ S!Add(s, bytes).hex = s.hex /\ S!Add(s, bytes).high = s.high
  BY DEF S!Add, LexerState
<1>. QED  BY <1>2, <1>3 DEF Lexed

LEMMA CodeType ==
  ASSUME NEW h \in HexDigits, Len(h) = 4
  PROVE  S!Code(h) \in Nat /\ S!Code(h) <= 65535
<1>. DEFINE a == h[1]
            b == h[2]
            c == h[3]
            d == h[4]
<1>1. 1 \in 1..Len(h) /\ 2 \in 1..Len(h) /\ 3 \in 1..Len(h) /\ 4 \in 1..Len(h)
  BY DEF HexDigits
<1>2. a \in 0..15 /\ b \in 0..15 /\ c \in 0..15 /\ d \in 0..15
  BY <1>1, ElementOfSeq DEF HexDigits
<1>3. S!Code(h) = 4096 * a + 256 * b + 16 * c + d
  BY DEF S!Code
<1>. HIDE DEF a, b, c, d
<1>. QED  BY <1>2, <1>3

LEMMA LexedEscaped ==
  ASSUME NEW s, Lexed(s), s.at = "hex", NEW c \in Nat, c <= 65535
  PROVE  Lexed(S!Escaped(s, c))
<1>0. /\ s \in LexerState /\ s.token \in Seq(Byte) /\ Len(s.hex) < 4
      /\ s.high # 0 => s.high \in S!High
      /\ S!Written(s.token).state = S!Accept
  BY DEF Lexed, LexerState
<1>1. CASE s.high # 0 /\ c \in S!Low
  <2>. DEFINE t == [s EXCEPT !.high = 0]
              u == S!Utf8(S!Paired(s.high, c))
  <2>1. IsCodePoint(S!Paired(s.high, c))
    BY <1>0, <1>1, PairedIsCodePoint
  <2>2. u \in Seq(Byte) /\ S!Written(s.token \o u).state = S!Accept
    BY <1>0, <2>1, Utf8IsAccepted
  <2>3. t \in LexerState /\ t.token = s.token /\ t.high = 0 /\ t.hex = s.hex
    BY <1>0 DEF LexerState
  <2>4. S!Escaped(s, c) = S!Add(t, u)
    BY <1>1 DEF S!Escaped
  <2>. HIDE DEF t, u
  <2>. QED  BY <1>0, <2>2, <2>3, <2>4, LexedAdd
<1>2. CASE s.high = 0 /\ c \in S!High
  <2>1. S!Escaped(s, c) = [s EXCEPT !.at = "pair", !.high = c]
    BY <1>2 DEF S!Escaped
  <2>. DEFINE r == [s EXCEPT !.at = "pair"]
              t == [s EXCEPT !.at = "pair", !.high = c]
  <2>2. "pair" \in Places /\ c \in Int
    BY DEF Places
  <2>3. t \in LexerState
    <3>1. r \in LexerState
      BY <1>0, <2>2, LexerAt
    <3>. HIDE DEF r
    <3>2. [r EXCEPT !.high = c] \in LexerState
      BY <2>2, <3>1, LexerHigh
    <3>. QED  BY <3>2 DEF r
  <2>4. t.token = s.token /\ t.high = c /\ t.hex = s.hex /\ t.at = "pair"
    BY <1>0 DEF LexerState
  <2>. HIDE DEF t
  <2>. QED  BY <1>0, <1>2, <2>1, <2>3, <2>4 DEF Lexed, t
<1>3. CASE s.high = 0 /\ c \notin S!High \cup S!Low
  <2>. DEFINE u == S!Utf8(c)
  <2>1. IsCodePoint(c)
    BY <1>3 DEF IsCodePoint
  <2>2. u \in Seq(Byte) /\ S!Written(s.token \o u).state = S!Accept
    BY <1>0, <2>1, Utf8IsAccepted
  <2>3. S!Escaped(s, c) = S!Add(s, u)
    BY <1>3 DEF S!Escaped
  <2>. HIDE DEF u
  <2>. QED  BY <1>0, <2>2, <2>3, LexedAdd
<1>4. CASE /\ ~(s.high # 0 /\ c \in S!Low)
           /\ ~(s.high = 0 /\ c \in S!High)
           /\ ~(s.high = 0 /\ c \notin S!High \cup S!Low)
  <2>1. S!Escaped(s, c) = S!Fail(s)
    BY <1>4 DEF S!Escaped
  <2>. QED  BY <2>1, LexedFail
<1>. QED  BY <1>1, <1>2, <1>3, <1>4

LEMMA HexDigitType == \A b \in Byte : S!HexDigit(b) \in -1..15
BY DEF S!HexDigit, Byte

LEMMA LexedDigit ==
  ASSUME NEW s, Lexed(s), s.at = "hex", NEW d \in -1..15
  PROVE  Lexed(S!Digit(s, d))
<1>0. /\ s \in LexerState /\ s.hex \in HexDigits /\ Len(s.hex) \in Nat
      /\ Len(s.hex) < 4
  BY DEF Lexed, LexerState, HexDigits
<1>1. CASE d = -1
  BY <1>1, LexedFail DEF S!Digit
<1>2. CASE d # -1
  <2>. DEFINE h == Append(s.hex, d)
  <2>1. d \in 0..15
    BY <1>2
  <2>2. h \in HexDigits /\ Len(h) = Len(s.hex) + 1
    BY <1>0, <2>1, AppendProperties DEF HexDigits
  <2>. HIDE DEF h
  <2>3. CASE Len(s.hex) < 3
    <3>. DEFINE t == [s EXCEPT !.hex = h]
    <3>1. S!Digit(s, d) = t
      BY <1>2, <2>3 DEF S!Digit, h
    <3>2. t \in LexerState
      BY <1>0, <2>2 DEF LexerState
    <3>3. /\ t.hex = h /\ t.at = s.at /\ t.token = s.token
          /\ t.high = s.high /\ t.ranges = s.ranges
      BY <1>0 DEF LexerState
    <3>. HIDE DEF t
    <3>. QED  BY <1>0, <2>2, <2>3, <3>1, <3>2, <3>3 DEF Lexed
  <2>4. CASE ~(Len(s.hex) < 3)
    <3>. DEFINE t == [s EXCEPT !.hex = <<>>]
                none == <<>>
    <3>1. S!Digit(s, d) = S!Escaped(t, S!Code(h))
      BY <1>2, <2>4 DEF S!Digit, h
    <3>2. none \in HexDigits /\ Len(none) = 0
      BY DEF HexDigits
    <3>3. t = [s EXCEPT !.hex = none]
      OBVIOUS
    <3>. HIDE DEF none, t
    <3>4. t \in LexerState
      BY <1>0, <3>2, <3>3 DEF LexerState
    <3>5. /\ t.hex = none /\ t.at = s.at /\ t.token = s.token
          /\ t.high = s.high /\ t.ranges = s.ranges
      BY <1>0, <3>3 DEF LexerState
    <3>6. Lexed(t)
      BY <3>2, <3>4, <3>5 DEF Lexed
    <3>7. Len(h) = 4
      BY <1>0, <2>2, <2>4
    <3>8. S!Code(h) \in Nat /\ S!Code(h) <= 65535
      BY <2>2, <3>7, CodeType
    <3>. QED  BY <3>1, <3>5, <3>6, <3>8, LexedEscaped
  <2>. QED  BY <2>3, <2>4
<1>. QED  BY <1>1, <1>2

LEMMA LexedCharacter ==
  ASSUME NEW s, Lexed(s), s.at = "character", NEW b \in Byte
  PROVE  Lexed(S!Scan(s, b))
<1>0. /\ s \in LexerState /\ s.token \in Seq(Byte) /\ Len(s.hex) < 4
      /\ s.high # 0 => s.high \in S!High
      /\ S!Written(s.token).state = S!Accept
      /\ ~S!Over(s)
  BY DEF Lexed, LexerState, S!Over
<1>1. CASE b = S!Quote
  <2>. DEFINE t == [s EXCEPT !.at = "done"]
  <2>0. S!FollowersOf(b) = <<>>
    BY <1>1, Followers DEF S!Quote
  <2>1. S!Scan(s, b) = t
    BY <1>0, <1>1, <2>0 DEF S!Scan, S!Quote, S!Backslash
  <2>2. "done" \in Places
    BY DEF Places
  <2>3. t \in LexerState
    BY <1>0, <2>2, LexerAt
  <2>4. t.at = "done" /\ t.token = s.token /\ t.hex = s.hex /\ t.high = s.high
    BY <1>0 DEF LexerState
  <2>. HIDE DEF t
  <2>. QED  BY <1>0, <2>1, <2>3, <2>4 DEF Lexed
<1>2. CASE b = S!Backslash
  <2>. DEFINE t == [s EXCEPT !.at = "escape"]
  <2>0. S!FollowersOf(b) = <<>>
    BY <1>2, Followers DEF S!Backslash
  <2>1. S!Scan(s, b) = t
    BY <1>0, <1>2, <2>0 DEF S!Scan, S!Quote, S!Backslash
  <2>2. "escape" \in Places
    BY DEF Places
  <2>3. t \in LexerState
    BY <1>0, <2>2, LexerAt
  <2>4. t.at = "escape" /\ t.token = s.token /\ t.hex = s.hex /\ t.high = s.high
    BY <1>0 DEF LexerState
  <2>. HIDE DEF t
  <2>. QED  BY <1>0, <2>1, <2>3, <2>4 DEF Lexed
<1>3. CASE b \in (32..127) \ {S!Quote, S!Backslash}
  <2>1. S!FollowersOf(b) = <<>>
    BY <1>3, Followers
  <2>2. S!Scan(s, b) = S!Add(s, <<b>>)
    BY <1>0, <1>3, <2>1 DEF S!Scan
  <2>3. S!Written(Append(s.token, b)).state = S!Accept
    BY <1>0, <1>3, StateAppend, FirstByte
  <2>4. s.token \o <<b>> = Append(s.token, b) /\ <<b>> \in Seq(Byte)
    BY <1>0, OneByOne
  <2>5. S!Written(s.token \o <<b>>).state = S!Accept
    BY <2>3, <2>4
  <2>. QED  BY <1>0, <2>2, <2>4, <2>5, LexedAdd
<1>4. CASE b \notin 32..127 /\ S!FollowersOf(b) # <<>>
  <2>. DEFINE q == S!NextState(S!Accept, b)
              more == Append(s.token, b)
              t == [s EXCEPT !.at = "follower", !.token = more, !.ranges = S!FollowersOf(b)]
  <2>1. S!Scan(s, b) = t
    BY <1>0, <1>4 DEF S!Scan, S!Quote, S!Backslash
  <2>2. q \in 0..8 /\ S!FollowersOf(b) = RangesOf(q)
    BY FirstByte
  <2>3. q \in 2..8
    BY <1>4, <2>2, MoreRanges
  <2>4. more \in Seq(Byte) /\ S!Written(more).state = q
    BY <1>0, StateAppend
  <2>. HIDE DEF q, more
  <2>5. S!FollowersOf(b) \in AllRanges
    BY <2>2 DEF AllRanges
  <2>6. "follower" \in Places
    BY DEF Places
  <2>7. t \in LexerState
    BY <1>0, <2>4, <2>5, <2>6 DEF LexerState
  <2>8. /\ t.at = "follower" /\ t.token = more /\ t.ranges = S!FollowersOf(b)
        /\ t.hex = s.hex /\ t.high = s.high
    BY <1>0 DEF LexerState
  <2>. HIDE DEF t
  <2>. QED  BY <1>0, <2>1, <2>2, <2>3, <2>4, <2>7, <2>8 DEF Lexed
<1>5. CASE b \notin 32..127 /\ S!FollowersOf(b) = <<>>
  <2>1. S!Scan(s, b) = S!Fail(s)
    BY <1>0, <1>5 DEF S!Scan, S!Quote, S!Backslash
  <2>. QED  BY <2>1, LexedFail
<1>. QED  BY <1>1, <1>2, <1>3, <1>4, <1>5

LEMMA LexedFollower ==
  ASSUME NEW s, Lexed(s), s.at = "follower", NEW b \in Byte
  PROVE  Lexed(S!Scan(s, b))
<1>. DEFINE q == S!Written(s.token).state
<1>0. /\ s \in LexerState /\ s.token \in Seq(Byte) /\ Len(s.hex) < 4
      /\ s.high # 0 => s.high \in S!High
      /\ q \in 2..8 /\ s.ranges = RangesOf(q)
      /\ ~S!Over(s)
  BY DEF Lexed, LexerState, S!Over
<1>1. CASE b \in Head(s.ranges)
  <2>. DEFINE more == Append(s.token, b)
              p == IF After(q) = S!Accept THEN "character" ELSE "follower"
              t == [s EXCEPT !.at = p, !.token = more, !.ranges = RangesOf(After(q))]
  <2>0. /\ Head(RangesOf(q)) = First(q)
        /\ Tail(RangesOf(q)) = RangesOf(After(q))
        /\ Len(RangesOf(q)) = 1 <=> After(q) = S!Accept
        /\ After(q) \in {S!Accept, 2, 3}
    BY <1>0, RangesTail
  <2>1. S!Scan(s, b) = [s EXCEPT !.at = IF Len(s.ranges) = 1 THEN "character" ELSE "follower",
                               !.token = more, !.ranges = Tail(s.ranges)]
    BY <1>0, <1>1 DEF S!Scan
  <2>2. S!Scan(s, b) = t
    BY <1>0, <2>0, <2>1
  <2>3. more \in Seq(Byte) /\ S!Written(more).state = After(q)
    BY <1>0, <1>1, <2>0, StateAppend, NextByte
  <2>. HIDE DEF q, more
  <2>4. p \in Places
    BY DEF Places
  <2>5. RangesOf(After(q)) \in AllRanges
    BY <2>0 DEF AllRanges, S!Accept
  <2>. HIDE DEF p
  <2>6. t \in LexerState
    BY <1>0, <2>3, <2>4, <2>5 DEF LexerState
  <2>7. /\ t.at = p /\ t.token = more /\ t.ranges = RangesOf(After(q))
        /\ t.hex = s.hex /\ t.high = s.high
    BY <1>0 DEF LexerState
  <2>. HIDE DEF t
  <2>8. t.at = "follower" => After(q) \in 2..8
    BY <2>0, <2>7 DEF p, S!Accept
  <2>9. t.at # "follower" => After(q) = S!Accept
    BY <2>7 DEF p
  <2>. QED  BY <1>0, <2>2, <2>3, <2>6, <2>7, <2>8, <2>9 DEF Lexed
<1>2. CASE b \notin Head(s.ranges)
  <2>1. S!Scan(s, b) = S!Fail(s)
    BY <1>0, <1>2 DEF S!Scan
  <2>. QED  BY <2>1, LexedFail
<1>. QED  BY <1>1, <1>2

LEMMA LexedEscape ==
  ASSUME NEW s, Lexed(s), s.at \in {"escape", "pair", "unicode"}, NEW b \in Byte
  PROVE  Lexed(S!Scan(s, b))
<1>0. /\ s \in LexerState /\ s.token \in Seq(Byte) /\ Len(s.hex) < 4
      /\ s.high # 0 => s.high \in S!High
      /\ S!Written(s.token).state = S!Accept
      /\ ~S!Over(s)
  BY DEF Lexed, LexerState, S!Over
<1>1. CASE s.at = "escape" /\ b \in S!Letters
  <2>. DEFINE c == S!Meant(b)
  <2>1. S!Scan(s, b) = S!Add(s, <<c>>)
    BY <1>0, <1>1 DEF S!Scan, S!Letters, S!Quote, S!Backslash, S!LetterU
  <2>2. c \in 0..127
    BY <1>1 DEF S!Letters, S!Meant, S!Quote, S!Backslash
  <2>. HIDE DEF c
  <2>3. c \in Byte
    BY <2>2 DEF Byte
  <2>4. S!Written(Append(s.token, c)).state = S!Accept
    BY <1>0, <2>2, <2>3, StateAppend, FirstByte
  <2>5. s.token \o <<c>> = Append(s.token, c) /\ <<c>> \in Seq(Byte)
    BY <1>0, <2>3, OneByOne
  <2>6. S!Written(s.token \o <<c>>).state = S!Accept
    BY <2>4, <2>5
  <2>. QED  BY <1>0, <2>1, <2>5, <2>6, LexedAdd
<1>2. ASSUME NEW p \in {"hex", "unicode"}, S!Scan(s, b) = [s EXCEPT !.at = p]
      PROVE  Lexed(S!Scan(s, b))
  <2>. DEFINE t == [s EXCEPT !.at = p]
  <2>1. p \in Places
    BY DEF Places
  <2>2. t \in LexerState
    BY <1>0, <2>1, LexerAt
  <2>3. t.at = p /\ t.token = s.token /\ t.hex = s.hex /\ t.high = s.high
    BY <1>0 DEF LexerState
  <2>. HIDE DEF t
  <2>. QED  BY <1>0, <1>2, <2>2, <2>3 DEF Lexed, t
<1>3. CASE s.at \in {"escape", "unicode"} /\ b = S!LetterU
  <2>1. S!Scan(s, b) = [s EXCEPT !.at = "hex"]
    BY <1>0, <1>3 DEF S!Scan, S!Letters, S!Quote, S!Backslash, S!LetterU
  <2>. QED  BY <1>2, <2>1
<1>4. CASE s.at = "pair" /\ b = S!Backslash
  <2>1. S!Scan(s, b) = [s EXCEPT !.at = "unicode"]
    BY <1>0, <1>4 DEF S!Scan
  <2>. QED  BY <1>2, <2>1
<1>5. CASE /\ ~(s.at = "escape" /\ b \in S!Letters)
           /\ ~(s.at \in {"escape", "unicode"} /\ b = S!LetterU)
           /\ ~(s.at = "pair" /\ b = S!Backslash)
  <2>1. S!Scan(s, b) = S!Fail(s)
    BY <1>0, <1>5 DEF S!Scan
  <2>. QED  BY <2>1, LexedFail
<1>. QED  BY <1>1, <1>3, <1>4, <1>5

LEMMA LexedScan ==
  ASSUME NEW s, Lexed(s), NEW b \in Byte
  PROVE  Lexed(S!Scan(s, b))
<1>1. CASE S!Over(s)
  <2>1. S!Scan(s, b) = s
    BY <1>1 DEF S!Scan, S!Over
  <2>. QED  BY <2>1
<1>2. CASE s.at = "hex"
  <2>1. S!Scan(s, b) = S!Digit(s, S!HexDigit(b))
    BY <1>2 DEF S!Scan, S!Over
  <2>. QED  BY <1>2, <2>1, HexDigitType, LexedDigit
<1>3. s.at \in Places
  BY DEF Lexed, LexerState
<1>4. S!Over(s) \/ s.at \in {"character", "follower", "escape", "pair", "unicode", "hex"}
  BY <1>3 DEF Places, S!Over
<1>. QED
  BY <1>1, <1>2, <1>4, LexedCharacter, LexedFollower, LexedEscape

LEMMA ScannedIsLexed == \A text \in Seq(Byte) : Lexed(S!Scanned(text))
<1>. DEFINE none == <<>>
            T == {q \in Seq(Byte) : Lexed(S!Scanned(q))}
<1>1. none \in T
  <2>1. /\ none \in Seq(Byte)
        /\ S!Scanned(none) = S!Start
        /\ S!Written(none).state = S!Accept
    BY NothingYet DEF S!Unwritten
  <2>2. /\ S!Start.at = "character"
        /\ S!Start.token = none
        /\ S!Start.hex = none
        /\ S!Start.ranges = none /\ S!Start.high = 0
    BY DEF S!Start
  <2>3. none \in HexDigits /\ Len(none) = 0
    BY DEF HexDigits
  <2>4. none \in AllRanges
    BY NoRanges DEF AllRanges, S!Accept
  <2>5. S!Start = [at |-> "character", token |-> none, ranges |-> none,
                 hex |-> none, high |-> 0]
    BY DEF S!Start
  <2>6. "character" \in Places
    BY DEF Places
  <2>. HIDE DEF none
  <2>7. S!Start \in LexerState
    BY <2>1, <2>3, <2>4, <2>5, <2>6 DEF LexerState
  <2>. QED  BY <2>1, <2>2, <2>3, <2>7 DEF Lexed
<1>2. ASSUME NEW q \in T, NEW b \in Byte PROVE Append(q, b) \in T
  BY ScannedAppend, LexedScan
<1>3. T \in SUBSET Seq(Byte)
  OBVIOUS
<1>. HIDE DEF T
<1>4. \A q \in Seq(Byte) : q \in T
  BY <1>1, <1>2, <1>3, SequenceInduction DEF none
<1>. QED  BY <1>4 DEF T

(* ReadIsWritable for every text: whatever string a server has parsed, it  *)
(* can put into what it relays (json.hpp:6125 and 15817); dump never       *)
(* throws type_error 316 for it, although the two tests of UTF-8 have      *)
(* nothing in common.                                                      *)
THEOREM LexerAgreesWithAutomaton ==
  \A text \in Seq(Byte) : S!ReadIsWritable(text)
<1>. SUFFICES ASSUME NEW text \in Seq(Byte), S!Scanned(text).at = "done"
              PROVE  S!Written(S!Scanned(text).token).state = S!Accept
  BY DEF S!ReadIsWritable, S!IsString, S!IsWritable
<1>1. Lexed(S!Scanned(text))
  BY ScannedIsLexed
<1>. QED  BY <1>1 DEF Lexed

-----------------------------------------------------------------------------
(* What one byte does to the fields of the lexer, where it goes on.        *)

LEMMA ReadsBackslash ==
  ASSUME NEW s \in LexerState, s.at = "character"
  PROVE  LET r == S!Scan(s, S!Backslash)
         IN  /\ r.at = "escape" /\ r.token = s.token
             /\ r.hex = s.hex /\ r.high = s.high
<1>1. S!Backslash \in Byte /\ S!Backslash \notin 194..244
  BY DEF S!Backslash, Byte
<1>2. S!FollowersOf(S!Backslash) = <<>>
  BY <1>1, Followers
<1>3. S!Scan(s, S!Backslash) = [s EXCEPT !.at = "escape"]
  BY <1>2 DEF S!Scan, S!Over, S!Quote, S!Backslash
<1>. QED  BY <1>3 DEF LexerState

LEMMA ReadsU ==
  ASSUME NEW s \in LexerState, s.at = "escape"
  PROVE  LET r == S!Scan(s, S!LetterU)
         IN  /\ r.at = "hex" /\ r.token = s.token
             /\ r.hex = s.hex /\ r.high = s.high
<1>1. S!Scan(s, S!LetterU) = [s EXCEPT !.at = "hex"]
  BY DEF S!Scan, S!Over, S!Letters, S!Quote, S!Backslash, S!LetterU
<1>. QED  BY <1>1 DEF LexerState

LEMMA Adds ==
  ASSUME NEW s \in LexerState, NEW b \in Byte
  PROVE  LET r == S!Add(s, <<b>>)
         IN  /\ r.at = "character" /\ r.token = Append(s.token, b)
             /\ r.hex = s.hex /\ r.high = s.high
<1>. DEFINE one == <<b>>
<1>1. s.token \in Seq(Byte)
  BY DEF LexerState
<1>2. s.token \o one = Append(s.token, b)
  BY <1>1, OneByOne
<1>. HIDE DEF one
<1>3. S!Add(s, one) = [s EXCEPT !.at = "character", !.token = s.token \o one]
  BY DEF S!Add
<1>4. /\ S!Add(s, one).at = "character" /\ S!Add(s, one).token = s.token \o one
      /\ S!Add(s, one).hex = s.hex /\ S!Add(s, one).high = s.high
  BY <1>3 DEF LexerState
<1>. QED  BY <1>2, <1>4 DEF one

LEMMA ReadsLetter ==
  ASSUME NEW s \in LexerState, s.at = "escape", NEW b \in S!Letters
  PROVE  LET r == S!Scan(s, b)
         IN  /\ r.at = "character" /\ r.token = Append(s.token, S!Meant(b))
             /\ r.hex = s.hex /\ r.high = s.high
<1>1. S!Scan(s, b) = S!Add(s, <<S!Meant(b)>>)
  BY DEF S!Scan, S!Over, S!Letters, S!Quote, S!Backslash, S!LetterU
<1>2. S!Meant(b) \in Byte
  BY DEF S!Letters, S!Meant, S!Quote, S!Backslash, Byte
<1>. QED  BY <1>1, <1>2, Adds

LEMMA ReadsPlain ==
  ASSUME NEW s \in LexerState, s.at = "character",
         NEW b \in (32..127) \ {S!Quote, S!Backslash}
  PROVE  LET r == S!Scan(s, b)
         IN  /\ r.at = "character" /\ r.token = Append(s.token, b)
             /\ r.hex = s.hex /\ r.high = s.high
<1>1. b \in Byte /\ b \notin 194..244
  BY DEF Byte
<1>2. S!FollowersOf(b) = <<>>
  BY <1>1, Followers
<1>3. S!Scan(s, b) = S!Add(s, <<b>>)
  BY <1>2 DEF S!Scan, S!Over
<1>. QED  BY <1>1, <1>3, Adds

LEMMA ReadsFirst ==
  ASSUME NEW s \in LexerState, s.at = "character",
         NEW b \in Byte, S!NextState(S!Accept, b) \in 2..8
  PROVE  LET r == S!Scan(s, b)
         IN  /\ r.at = "follower" /\ r.token = Append(s.token, b)
             /\ r.hex = s.hex /\ r.high = s.high
<1>. DEFINE more == Append(s.token, b)
<1>0. S!NextState(S!Accept, b) # S!Accept
  BY DEF S!Accept
<1>1. S!FollowersOf(b) # <<>> /\ b \notin 32..127
  <2>1. S!FollowersOf(b) = RangesOf(S!NextState(S!Accept, b))
    BY FirstByte
  <2>2. RangesOf(S!NextState(S!Accept, b)) # <<>>
    BY RangesTail
  <2>3. b \notin 0..127
    BY <1>0, FirstByte
  <2>. QED  BY <2>1, <2>2, <2>3
<1>2. S!Scan(s, b) = [s EXCEPT !.at = "follower", !.token = more, !.ranges = S!FollowersOf(b)]
  BY <1>1 DEF S!Scan, S!Over, S!Quote, S!Backslash
<1>. HIDE DEF more
<1>3. /\ S!Scan(s, b).at = "follower" /\ S!Scan(s, b).token = more
      /\ S!Scan(s, b).hex = s.hex /\ S!Scan(s, b).high = s.high
  BY <1>2 DEF LexerState
<1>. QED  BY <1>3 DEF more

LEMMA ReadsNext ==
  ASSUME NEW s \in LexerState, s.at = "follower", NEW q \in 2..8,
         s.ranges = RangesOf(q), NEW b \in First(q)
  PROVE  LET r == S!Scan(s, b)
         IN  /\ r.at = IF After(q) = S!Accept THEN "character" ELSE "follower"
             /\ r.token = Append(s.token, b)
             /\ r.hex = s.hex /\ r.high = s.high
<1>. DEFINE more == Append(s.token, b)
            rest == Tail(s.ranges)
            p == IF After(q) = S!Accept THEN "character" ELSE "follower"
<1>0. /\ Head(s.ranges) = First(q)
      /\ Len(s.ranges) = 1 <=> After(q) = S!Accept
  BY RangesTail
<1>1. S!Scan(s, b) = [s EXCEPT !.at = IF Len(s.ranges) = 1 THEN "character" ELSE "follower",
                             !.token = more, !.ranges = rest]
  BY <1>0 DEF S!Scan, S!Over
<1>2. S!Scan(s, b) = [s EXCEPT !.at = p, !.token = more, !.ranges = rest]
  BY <1>0, <1>1
<1>. HIDE DEF more, rest, p
<1>3. /\ S!Scan(s, b).at = p /\ S!Scan(s, b).token = more
      /\ S!Scan(s, b).hex = s.hex /\ S!Scan(s, b).high = s.high
  BY <1>2 DEF LexerState
<1>. QED  BY <1>3 DEF more, p

LEMMA ReadsDigit ==
  ASSUME NEW s \in LexerState, s.at = "hex", Len(s.hex) < 3,
         NEW b \in Byte, S!HexDigit(b) # -1
  PROVE  LET r == S!Scan(s, b)
         IN  /\ r.at = "hex" /\ r.token = s.token
             /\ r.hex = Append(s.hex, S!HexDigit(b)) /\ r.high = s.high
<1>. DEFINE h == Append(s.hex, S!HexDigit(b))
<1>1. S!Scan(s, b) = S!Digit(s, S!HexDigit(b))
  BY DEF S!Scan, S!Over
<1>2. S!Digit(s, S!HexDigit(b)) = [s EXCEPT !.hex = h]
  BY DEF S!Digit
<1>. HIDE DEF h
<1>3. /\ S!Scan(s, b).at = "hex" /\ S!Scan(s, b).token = s.token
      /\ S!Scan(s, b).hex = h /\ S!Scan(s, b).high = s.high
  BY <1>1, <1>2 DEF LexerState
<1>. QED  BY <1>3 DEF h

LEMMA ReadsLastDigit ==
  ASSUME NEW s \in LexerState, s.at = "hex", Len(s.hex) = 3, s.high = 0,
         NEW b \in Byte, S!HexDigit(b) # -1,
         NEW c \in Nat, c < 128, S!Code(Append(s.hex, S!HexDigit(b))) = c
  PROVE  LET r == S!Scan(s, b)
         IN  /\ r.at = "character" /\ r.token = Append(s.token, c)
             /\ r.hex = <<>> /\ r.high = 0
<1>. DEFINE none == <<>>
            t == [s EXCEPT !.hex = none]
<1>1. S!Scan(s, b) = S!Digit(s, S!HexDigit(b))
  BY DEF S!Scan, S!Over
<1>2. S!Digit(s, S!HexDigit(b)) = S!Escaped(t, c)
  BY DEF S!Digit
<1>3. none \in HexDigits
  BY DEF HexDigits
<1>. HIDE DEF none
<1>4. t \in LexerState
  BY <1>3 DEF LexerState
<1>5. /\ t.at = "hex" /\ t.token = s.token /\ t.hex = none /\ t.high = 0
  BY DEF LexerState
<1>. HIDE DEF t
<1>6. c \notin S!High \cup S!Low /\ c \in Byte
  <2>1. c \notin S!High
    BY SMT DEF S!High
  <2>2. c \notin S!Low
    BY SMT DEF S!Low
  <2>3. c \in Byte
    BY DEF Byte
  <2>. QED  BY <2>1, <2>2, <2>3
<1>7. S!Escaped(t, c) = S!Add(t, S!Utf8(c))
  BY <1>5, <1>6 DEF S!Escaped
<1>8. S!Utf8(c) \in {<<c>>}
  BY SMT DEF S!Utf8
<1>9. S!Escaped(t, c) = S!Add(t, <<c>>)
  BY <1>7, <1>8
<1>. QED  BY <1>1, <1>2, <1>4, <1>5, <1>6, <1>9, Adds DEF none

-----------------------------------------------------------------------------
(* What is written of a character reads as that character.                 *)

(* u is the text t and behind it what the lexer reads as the byte b.       *)
ReadsOn(t, u, b) ==
  /\ u \in Seq(Byte)
  /\ S!Scanned(u).at = "character"
  /\ S!Scanned(u).token = Append(S!Scanned(t).token, b)
  /\ S!Scanned(u).hex = <<>>
  /\ S!Scanned(u).high = 0

LEMMA ScannedType == \A text \in Seq(Byte) : S!Scanned(text) \in LexerState
BY ScannedIsLexed DEF Lexed

LEMMA HexLetters ==
  ASSUME NEW d \in 0..15
  PROVE  S!HexLetter(d) \in Byte /\ S!HexDigit(S!HexLetter(d)) = d
BY DEF S!HexLetter, S!HexDigit, Byte

LEMMA ShortReads ==
  ASSUME NEW t \in Seq(Byte), S!Scanned(t).at = "character",
         S!Scanned(t).hex = <<>>, S!Scanned(t).high = 0, NEW b \in S!Shorts
  PROVE  ReadsOn(t, t \o <<S!Backslash, S!Letter(b)>>, b)
<1>. DEFINE t1 == Append(t, S!Backslash)
            t2 == Append(t1, S!Letter(b))
<1>1. S!Letter(b) \in S!Letters /\ S!Meant(S!Letter(b)) = b
  BY DEF S!Shorts, S!Letter, S!Letters, S!Meant, S!Quote, S!Backslash
<1>2. S!Letter(b) \in Byte /\ S!Backslash \in Byte
  BY <1>1 DEF S!Letters, S!Quote, S!Backslash, Byte
<1>3. /\ t1 \in Seq(Byte)
      /\ t2 \in Seq(Byte)
      /\ t2 = t \o <<S!Backslash, S!Letter(b)>>
  BY <1>2, OneByOne
<1>4. S!Scanned(t1) = S!Scan(S!Scanned(t), S!Backslash)
  BY <1>2, ScannedAppend
<1>5. S!Scanned(t2) = S!Scan(S!Scanned(t1), S!Letter(b))
  BY <1>2, <1>3, ScannedAppend
<1>6. /\ S!Scanned(t) \in LexerState /\ S!Scanned(t1) \in LexerState
  BY <1>3, ScannedType
<1>. HIDE DEF t1, t2
<1>7. /\ S!Scanned(t1).at = "escape" /\ S!Scanned(t1).token = S!Scanned(t).token
      /\ S!Scanned(t1).hex = <<>> /\ S!Scanned(t1).high = 0
  BY <1>4, <1>6, ReadsBackslash
<1>8. /\ S!Scanned(t2).at = "character"
      /\ S!Scanned(t2).token = Append(S!Scanned(t).token, b)
      /\ S!Scanned(t2).hex = <<>> /\ S!Scanned(t2).high = 0
  BY <1>1, <1>5, <1>6, <1>7, ReadsLetter
<1>9. ReadsOn(t, t2, b)
  BY <1>3, <1>8 DEF ReadsOn
<1>. QED  BY <1>3, <1>9

LEMMA PlainReads ==
  ASSUME NEW t \in Seq(Byte), S!Scanned(t).at = "character",
         S!Scanned(t).hex = <<>>, S!Scanned(t).high = 0,
         NEW b \in (32..127) \ {S!Quote, S!Backslash}
  PROVE  ReadsOn(t, t \o <<b>>, b)
<1>. DEFINE t1 == Append(t, b)
<1>1. b \in Byte
  BY DEF Byte
<1>2. t1 \in Seq(Byte) /\ t1 = t \o <<b>>
  BY <1>1, OneByOne
<1>3. S!Scanned(t1) = S!Scan(S!Scanned(t), b)
  BY <1>1, ScannedAppend
<1>4. S!Scanned(t) \in LexerState
  BY ScannedType
<1>. HIDE DEF t1
<1>5. ReadsOn(t, t1, b)
  BY <1>2, <1>3, <1>4, ReadsPlain DEF ReadsOn
<1>. QED  BY <1>2, <1>5

(* Four hex digits, the first two of them zeros.                           *)
LEMMA DigitsAre ==
  ASSUME NEW x \in 0..15, NEW y \in 0..15
  PROVE  /\ <<0>> = Append(<<>>, 0)
         /\ <<0, 0>> = Append(<<0>>, 0)
         /\ <<0, 0, x>> = Append(<<0, 0>>, x)
         /\ <<0, 0, x, y>> = Append(<<0, 0, x>>, y)
         /\ S!Code(<<0, 0, x, y>>) = 16 * x + y
<1>1. <<0>> = Append(<<>>, 0)
  OBVIOUS
<1>2. <<0, 0>> = Append(<<0>>, 0)
  OBVIOUS
<1>3. <<0, 0, x>> = Append(<<0, 0>>, x)
  OBVIOUS
<1>4. <<0, 0, x, y>> = Append(<<0, 0, x>>, y)
  OBVIOUS
<1>. DEFINE h == <<0, 0, x, y>>
<1>5. h[1] = 0 /\ h[2] = 0 /\ h[3] = x /\ h[4] = y
  OBVIOUS
<1>. HIDE DEF h
<1>6. S!Code(h) = 16 * x + y
  BY <1>5 DEF S!Code
<1>. QED  BY <1>1, <1>2, <1>3, <1>4, <1>6 DEF h

LEMMA ControlReads ==
  ASSUME NEW t \in Seq(Byte), S!Scanned(t).at = "character",
         S!Scanned(t).hex = <<>>, S!Scanned(t).high = 0, NEW b \in 0..31
  PROVE  ReadsOn(t, t \o <<S!Backslash, S!LetterU, 48, 48, S!HexLetter(b \div 16),
                           S!HexLetter(b % 16)>>, b)
<1>. DEFINE x == b \div 16
            y == b % 16
            p == S!HexLetter(x)
            q == S!HexLetter(y)
            t1 == Append(t, S!Backslash)
            t2 == Append(t1, S!LetterU)
            t3 == Append(t2, 48)
            t4 == Append(t3, 48)
            t5 == Append(t4, p)
            t6 == Append(t5, q)
<1>1. x \in 0..15 /\ y \in 0..15 /\ 16 * x + y = b /\ b \in Nat /\ b < 128
  OBVIOUS
<1>. HIDE DEF x, y
<1>2. /\ p \in Byte /\ S!HexDigit(p) = x /\ q \in Byte /\ S!HexDigit(q) = y
      /\ 48 \in Byte
      /\ S!HexDigit(48) = 0
      /\ S!Backslash \in Byte
      /\ S!LetterU \in Byte
  <2>1. p \in Byte /\ S!HexDigit(p) = x /\ q \in Byte /\ S!HexDigit(q) = y
    BY <1>1, HexLetters
  <2>2. S!HexDigit(48) = 0
    BY DEF S!HexDigit
  <2>3. 48 \in Byte /\ S!Backslash \in Byte /\ S!LetterU \in Byte
    BY DEF Byte, S!Backslash, S!LetterU
  <2>. QED  BY <2>1, <2>2, <2>3
<1>. HIDE DEF p, q
<1>3. /\ t1 \in Seq(Byte) /\ t2 \in Seq(Byte) /\ t3 \in Seq(Byte)
      /\ t4 \in Seq(Byte) /\ t5 \in Seq(Byte) /\ t6 \in Seq(Byte)
  BY <1>2
<1>4. t6 = t \o <<S!Backslash, S!LetterU, 48, 48, p, q>>
  <2>. DEFINE s4 == <<S!Backslash, S!LetterU, 48, 48>>
              s5 == <<S!Backslash, S!LetterU, 48, 48, p>>
              s6 == <<S!Backslash, S!LetterU, 48, 48, p, q>>
  <2>1. s4 \in Seq(Byte) /\ t \o s4 = t4
    BY <1>2, OneByOne
  <2>2. s5 = Append(s4, p)
    OBVIOUS
  <2>3. s6 = Append(s5, q)
    OBVIOUS
  <2>. HIDE DEF s4, s5, s6, t4, t5
  <2>4. s5 \in Seq(Byte)
    BY <1>2, <2>1, <2>2
  <2>5. t \o s5 = Append(t \o s4, p)
    BY <1>2, <2>1, <2>2, AppendOfConcat
  <2>6. t \o s6 = Append(t \o s5, q)
    BY <1>2, <2>3, <2>4, AppendOfConcat
  <2>. QED  BY <2>1, <2>5, <2>6 DEF s6, t5
<1>5. /\ S!Scanned(t1) = S!Scan(S!Scanned(t), S!Backslash)
      /\ S!Scanned(t2) = S!Scan(S!Scanned(t1), S!LetterU)
      /\ S!Scanned(t3) = S!Scan(S!Scanned(t2), 48)
      /\ S!Scanned(t4) = S!Scan(S!Scanned(t3), 48)
      /\ S!Scanned(t5) = S!Scan(S!Scanned(t4), p)
      /\ S!Scanned(t6) = S!Scan(S!Scanned(t5), q)
  <2>. HIDE DEF t1, t2, t3, t4, t5, t6
  <2>1. S!Scanned(t1) = S!Scan(S!Scanned(t), S!Backslash)
    BY <1>2, ScannedAppend DEF t1
  <2>2. S!Scanned(t2) = S!Scan(S!Scanned(t1), S!LetterU)
    BY <1>2, <1>3, ScannedAppend DEF t2
  <2>3. S!Scanned(t3) = S!Scan(S!Scanned(t2), 48)
    BY <1>2, <1>3, ScannedAppend DEF t3
  <2>4. S!Scanned(t4) = S!Scan(S!Scanned(t3), 48)
    BY <1>2, <1>3, ScannedAppend DEF t4
  <2>5. S!Scanned(t5) = S!Scan(S!Scanned(t4), p)
    BY <1>2, <1>3, ScannedAppend DEF t5
  <2>6. S!Scanned(t6) = S!Scan(S!Scanned(t5), q)
    BY <1>2, <1>3, ScannedAppend DEF t6
  <2>. QED  BY <2>1, <2>2, <2>3, <2>4, <2>5, <2>6
<1>6. /\ S!Scanned(t) \in LexerState /\ S!Scanned(t1) \in LexerState
      /\ S!Scanned(t2) \in LexerState /\ S!Scanned(t3) \in LexerState
      /\ S!Scanned(t4) \in LexerState /\ S!Scanned(t5) \in LexerState
  BY <1>3, ScannedType
<1>. HIDE DEF t1, t2, t3, t4, t5, t6
<1>. DEFINE a == S!Scanned(t).token
            d0 == <<>>
            d1 == <<0>>
            d2 == <<0, 0>>
            d3 == <<0, 0, x>>
            d4 == <<0, 0, x, y>>
<1>7. /\ Append(d0, 0) = d1 /\ Append(d1, 0) = d2 /\ Append(d2, x) = d3
      /\ Append(d3, y) = d4 /\ S!Code(d4) = b
      /\ Len(d0) = 0 /\ Len(d1) = 1 /\ Len(d2) = 2 /\ Len(d3) = 3
  BY <1>1, DigitsAre
<1>8. S!Scanned(t).hex = d0
  OBVIOUS
<1>. HIDE DEF a, d0, d1, d2, d3, d4
<1>9. /\ S!Scanned(t1).at = "escape" /\ S!Scanned(t1).token = a
      /\ S!Scanned(t1).hex = d0 /\ S!Scanned(t1).high = 0
  BY <1>5, <1>6, <1>8, ReadsBackslash DEF a
<1>10. /\ S!Scanned(t2).at = "hex" /\ S!Scanned(t2).token = a
       /\ S!Scanned(t2).hex = d0 /\ S!Scanned(t2).high = 0
  BY <1>5, <1>6, <1>9, ReadsU
<1>11. /\ S!Scanned(t3).at = "hex" /\ S!Scanned(t3).token = a
       /\ S!Scanned(t3).hex = d1 /\ S!Scanned(t3).high = 0
  <2>1. S!HexDigit(48) # -1 /\ 48 \in Byte
    BY <1>1, <1>2
  <2>2. Len(d0) < 3 /\ Append(d0, S!HexDigit(48)) = d1
    BY <1>2, <1>7
  <2>3. /\ S!Scanned(t2) \in LexerState
        /\ S!Scanned(t3) = S!Scan(S!Scanned(t2), 48)
        /\ S!Scanned(t2).at = "hex" /\ Len(S!Scanned(t2).hex) < 3
        /\ Append(S!Scanned(t2).hex, S!HexDigit(48)) = d1
    BY <1>5, <1>6, <1>10, <2>2
  <2>. QED  BY <1>10, <2>1, <2>3, ReadsDigit
<1>12. /\ S!Scanned(t4).at = "hex" /\ S!Scanned(t4).token = a
       /\ S!Scanned(t4).hex = d2 /\ S!Scanned(t4).high = 0
  <2>1. S!HexDigit(48) # -1 /\ 48 \in Byte
    BY <1>1, <1>2
  <2>2. Len(d1) < 3 /\ Append(d1, S!HexDigit(48)) = d2
    BY <1>2, <1>7
  <2>3. /\ S!Scanned(t3) \in LexerState
        /\ S!Scanned(t4) = S!Scan(S!Scanned(t3), 48)
        /\ S!Scanned(t3).at = "hex" /\ Len(S!Scanned(t3).hex) < 3
        /\ Append(S!Scanned(t3).hex, S!HexDigit(48)) = d2
    BY <1>5, <1>6, <1>11, <2>2
  <2>. QED  BY <1>11, <2>1, <2>3, ReadsDigit
<1>13. /\ S!Scanned(t5).at = "hex" /\ S!Scanned(t5).token = a
       /\ S!Scanned(t5).hex = d3 /\ S!Scanned(t5).high = 0
  <2>1. S!HexDigit(p) # -1 /\ p \in Byte
    BY <1>1, <1>2
  <2>2. Len(d2) < 3 /\ Append(d2, S!HexDigit(p)) = d3
    BY <1>2, <1>7
  <2>3. /\ S!Scanned(t4) \in LexerState
        /\ S!Scanned(t5) = S!Scan(S!Scanned(t4), p)
        /\ S!Scanned(t4).at = "hex" /\ Len(S!Scanned(t4).hex) < 3
        /\ Append(S!Scanned(t4).hex, S!HexDigit(p)) = d3
    BY <1>5, <1>6, <1>12, <2>2
  <2>. QED  BY <1>12, <2>1, <2>3, ReadsDigit
<1>14. /\ S!Scanned(t6).at = "character" /\ S!Scanned(t6).token = Append(a, b)
       /\ S!Scanned(t6).hex = <<>> /\ S!Scanned(t6).high = 0
  <2>1. S!HexDigit(q) # -1 /\ q \in Byte
    BY <1>1, <1>2
  <2>2. Len(d3) = 3 /\ S!Code(Append(d3, S!HexDigit(q))) = b
    BY <1>2, <1>7
  <2>. QED  BY <1>1, <1>5, <1>6, <1>13, <2>1, <2>2, ReadsLastDigit
<1>15. ReadsOn(t, t6, b)
  BY <1>3, <1>14 DEF ReadsOn, a
<1>. QED  BY <1>4, <1>15 DEF p, q, x, y

LEMMA SpelledReads ==
  ASSUME NEW t \in Seq(Byte), S!Scanned(t).at = "character",
         S!Scanned(t).hex = <<>>, S!Scanned(t).high = 0, NEW b \in 0..127
  PROVE  ReadsOn(t, t \o S!Spelled(b, b), b)
<1>1. CASE b \in S!Shorts
  <2>1. S!Spelled(b, b) \in {<<S!Backslash, S!Letter(b)>>}
    BY <1>1 DEF S!Spelled
  <2>. QED  BY <1>1, <2>1, ShortReads
<1>2. CASE b \in (0..31) \ S!Shorts
  <2>1. S!Spelled(b, b) \in {<<S!Backslash, S!LetterU, 48, 48, S!HexLetter(b \div 16),
                             S!HexLetter(b % 16)>>}
    BY <1>2 DEF S!Spelled
  <2>. QED  BY <1>2, <2>1, ControlReads
<1>3. CASE b \notin S!Shorts /\ b \notin 0..31
  <2>1. S!Spelled(b, b) \in {<<b>>}
    BY <1>3 DEF S!Spelled
  <2>2. b \in (32..127) \ {S!Quote, S!Backslash}
    BY <1>3 DEF S!Shorts
  <2>. QED  BY <2>1, <2>2, PlainReads
<1>. QED  BY <1>1, <1>2, <1>3

-----------------------------------------------------------------------------
(* The code point that the serializer has of a character in parts: enough  *)
(* of it that a character of several bytes is none that would be escaped.  *)

Least(q) == CASE q = 2 -> 2
              [] q \in {3, 5, 7, 8} -> 1
              [] OTHER -> 0

LEMMA BitsOfFirst ==
  ASSUME NEW c \in Nat, NEW b \in Byte
  PROVE  /\ S!Bits(S!Accept, c, b) \in Nat
         /\ b \in 0..127 => S!Bits(S!Accept, c, b) = b
         /\ S!NextState(S!Accept, b) \in 2..8 =>
              S!Bits(S!Accept, c, b) >= Least(S!NextState(S!Accept, b))
<1>. DEFINE keeps == <<256, 128, 64, 32, 16, 8, 4, 2>>
<1>1. /\ keeps[1] = 256 /\ keeps[2] = 128 /\ keeps[3] = 64 /\ keeps[4] = 32
      /\ keeps[5] = 16 /\ keeps[6] = 8 /\ keeps[7] = 4 /\ keeps[8] = 2
  OBVIOUS
<1>2. S!Bits(S!Accept, c, b) = IF S!Class(b) < 8 THEN b % keeps[S!Class(b) + 1] ELSE 0
  BY ClassOfByte DEF S!Bits
<1>. HIDE DEF keeps
<1>3. b \in Nat /\ b <= 255
  BY DEF Byte
<1>4. S!Bits(S!Accept, c, b) \in Nat
  <2>1. CASE S!Class(b) < 8
    <3>1. keeps[S!Class(b) + 1] \in Nat \ {0}
      BY <1>1, <2>1, ClassOfByte
    <3>. QED  BY <1>2, <1>3, <2>1, <3>1
  <2>2. CASE ~(S!Class(b) < 8)
    BY <1>2, <2>2
  <2>. QED  BY <2>1, <2>2
<1>5. ASSUME b \in 0..127 PROVE S!Bits(S!Accept, c, b) = b
  <2>1. S!Class(b) = 0
    BY <1>5, ClassOfByte
  <2>2. S!Bits(S!Accept, c, b) = b % 256
    BY <1>1, <1>2, <2>1
  <2>. QED  BY <1>3, <2>2
<1>6. /\ Least(2) = 2
      /\ Least(3) = 1
      /\ Least(5) = 1
      /\ Least(7) = 1
      /\ Least(8) = 1
      /\ Least(4) = 0 /\ Least(6) = 0
  BY DEF Least
<1>7. ASSUME S!NextState(S!Accept, b) \in 2..8
      PROVE  S!Bits(S!Accept, c, b) >= Least(S!NextState(S!Accept, b))
  <2>1. b \in 194..244
    BY <1>7, FirstByte DEF S!Accept, S!Reject
  <2>2. CASE b \in 194..223
    <3>1. S!Class(b) = 2 /\ S!NextState(S!Accept, b) = 2
      BY <2>2, ClassOfByte, FirstStates
    <3>2. S!Bits(S!Accept, c, b) = b % 64
      BY <1>1, <1>2, <3>1
    <3>. QED  BY <1>6, <2>2, <3>1, <3>2
  <2>3. CASE b \in (225..236) \cup {238, 239}
    <3>1. S!Class(b) = 3 /\ S!NextState(S!Accept, b) = 3
      BY <2>3, ClassOfByte, FirstStates
    <3>2. S!Bits(S!Accept, c, b) = b % 32
      BY <1>1, <1>2, <3>1
    <3>. QED  BY <1>6, <2>3, <3>1, <3>2
  <2>4. CASE b = 237
    <3>1. S!Class(b) = 4 /\ S!NextState(S!Accept, b) = 5
      BY <2>4, ClassOfByte, FirstStates
    <3>2. S!Bits(S!Accept, c, b) = b % 16
      BY <1>1, <1>2, <3>1
    <3>. QED  BY <1>6, <2>4, <3>1, <3>2
  <2>5. CASE b \in 241..243
    <3>1. S!Class(b) = 6 /\ S!NextState(S!Accept, b) = 7
      BY <2>5, ClassOfByte, FirstStates
    <3>2. S!Bits(S!Accept, c, b) = b % 4
      BY <1>1, <1>2, <3>1
    <3>. QED  BY <1>6, <2>5, <3>1, <3>2
  <2>6. CASE b = 244
    <3>1. S!Class(b) = 5 /\ S!NextState(S!Accept, b) = 8
      BY <2>6, ClassOfByte, FirstStates
    <3>2. S!Bits(S!Accept, c, b) = b % 8
      BY <1>1, <1>2, <3>1
    <3>. QED  BY <1>6, <2>6, <3>1, <3>2
  <2>7. CASE b \in {224, 240}
    <3>1. S!NextState(S!Accept, b) \in {4, 6}
      BY <2>7, FirstStates
    <3>. QED  BY <1>4, <1>6, <3>1
  <2>. QED  BY <2>1, <2>2, <2>3, <2>4, <2>5, <2>6, <2>7
<1>. QED  BY <1>4, <1>5, <1>7

LEMMA BitsOfMore ==
  ASSUME NEW q \in 2..8, NEW c, NEW b
  PROVE  S!Bits(q, c, b) = 64 * c + (b % 64)
BY DEF S!Bits, S!Accept

LEMMA BitsOfNext ==
  ASSUME NEW q \in 2..8, NEW c \in Nat, c >= Least(q), NEW b \in First(q)
  PROVE  /\ S!Bits(q, c, b) \in Nat
         /\ After(q) = S!Accept => S!Bits(q, c, b) >= 128
         /\ After(q) # S!Accept => S!Bits(q, c, b) >= Least(After(q))
<1>1. S!Bits(q, c, b) = 64 * c + (b % 64)
  BY BitsOfMore
<1>2. b \in 128..191
  BY DEF First, S!Inner
<1>3. b % 64 \in Nat
  BY <1>2
<1>4. CASE q = 2
  BY <1>1, <1>3, <1>4 DEF Least, After, S!Accept
<1>5. CASE q \in {3, 5}
  BY <1>1, <1>3, <1>5 DEF Least, After, S!Accept
<1>6. CASE q = 4
  <2>1. b \in 160..191
    BY <1>6 DEF First
  <2>2. b % 64 >= 32
    BY <2>1
  <2>. QED  BY <1>1, <1>3, <1>6, <2>2 DEF Least, After, S!Accept
<1>7. CASE q = 6
  <2>1. b \in 144..191
    BY <1>7 DEF First
  <2>2. b % 64 >= 16
    BY <2>1
  <2>. QED  BY <1>1, <1>3, <1>7, <2>2 DEF Least, After, S!Accept
<1>8. CASE q \in {7, 8}
  BY <1>1, <1>3, <1>8 DEF Least, After, S!Accept
<1>. QED  BY <1>4, <1>5, <1>6, <1>7, <1>8

(* What is written of a string reads as this string, and the lexer expects *)
(* more of a character if and only if the serializer does.                 *)
Faithful(bytes, w, s) ==
  /\ w.state \in 0..8
  /\ w.code \in Nat
  /\ w.text \in Seq(Byte)
  /\ w.state \in 2..8 => w.code >= Least(w.state)
  /\ w.state # S!Reject =>
       /\ s.token = bytes
       /\ s.hex = <<>>
       /\ s.high = 0
       /\ s.at = IF w.state = S!Accept THEN "character" ELSE "follower"

Spelt(bytes) == Faithful(bytes, S!Written(bytes), S!Scanned(S!Written(bytes).text))

LEMMA SpeltFirst ==
  ASSUME NEW bytes \in Seq(Byte), Spelt(bytes), S!Written(bytes).state = S!Accept,
         NEW b \in Byte
  PROVE  Spelt(Append(bytes, b))
<1>. DEFINE w == S!Written(bytes)
            t == w.text
            s == S!Scanned(t)
            q == S!NextState(S!Accept, b)
            c == S!Bits(S!Accept, w.code, b)
            more == Append(bytes, b)
<1>0. /\ w.code \in Nat /\ t \in Seq(Byte) /\ s.token = bytes
      /\ s.hex = <<>> /\ s.high = 0 /\ s.at = "character" /\ s \in LexerState
  BY ScannedType DEF Spelt, Faithful, S!Accept, S!Reject
<1>1. S!Written(more) = S!Write(w, b)
  BY WrittenAppend
<1>2. Append(t, b) \in Seq(Byte) /\ S!Scanned(Append(t, b)) = S!Scan(s, b)
  BY <1>0, ScannedAppend
<1>3. w.state = S!Accept /\ S!Accept # S!Reject
  BY DEF S!Accept, S!Reject
<1>4. q \in 0..8 /\ (q = S!Accept <=> b \in 0..127)
  BY FirstByte
<1>5. CASE b \in 0..127
  <2>. DEFINE u == t \o S!Spelled(b, b)
  <2>1. c = b
    BY <1>0, <1>5, BitsOfFirst
  <2>2. S!Write(w, b) = [state |-> q, code |-> 0, text |-> t \o S!Spelled(c, b)]
    BY <1>3, <1>4, <1>5 DEF S!Write
  <2>3. ReadsOn(t, u, b)
    BY <1>0, <1>5, SpelledReads
  <2>. HIDE DEF u, w, t, s, q, c, more
  <2>4. /\ S!Written(more).state = S!Accept /\ S!Written(more).code = 0
        /\ S!Written(more).text = u
    BY <1>1, <1>4, <1>5, <2>1, <2>2 DEF u
  <2>5. S!Scanned(u).token = more
    BY <1>0, <2>3 DEF ReadsOn, s, more
  <2>. QED  BY <2>3, <2>4, <2>5 DEF ReadsOn, Spelt, Faithful, S!Accept, more
<1>6. CASE b \notin 0..127
  <2>. DEFINE u == Append(t, b)
  <2>1. q # S!Accept
    BY <1>4, <1>6
  <2>2. S!Write(w, b) = [state |-> q, code |-> c, text |-> u]
    BY <1>3, <2>1 DEF S!Write
  <2>3. c \in Nat /\ (q \in 2..8 => c >= Least(q))
    BY <1>0, BitsOfFirst
  <2>4. q \in 2..8 => /\ S!Scanned(u).at = "follower" /\ S!Scanned(u).token = Append(s.token, b)
                      /\ S!Scanned(u).hex = s.hex /\ S!Scanned(u).high = s.high
    BY <1>0, <1>2, ReadsFirst
  <2>. HIDE DEF u, w, t, s, q, c, more
  <2>5. /\ S!Written(more).state = q
        /\ S!Written(more).code = c
        /\ S!Written(more).text = u
    BY <1>1, <2>2
  <2>6. q # S!Reject => q \in 2..8
    BY <1>4, <2>1 DEF S!Accept, S!Reject
  <2>7. q \in 2..8 => /\ S!Scanned(u).at = "follower" /\ S!Scanned(u).token = more
                      /\ S!Scanned(u).hex = <<>> /\ S!Scanned(u).high = 0
    BY <1>0, <2>4 DEF more
  <2>8. u \in Seq(Byte)
    BY <1>2 DEF u
  <2>. QED  BY <1>4, <2>1, <2>3, <2>5, <2>6, <2>7, <2>8 DEF Spelt, Faithful,
               more
<1>. QED  BY <1>5, <1>6

LEMMA SpeltNext ==
  ASSUME NEW bytes \in Seq(Byte), Spelt(bytes), S!Written(bytes).state \in 2..8,
         NEW b \in Byte
  PROVE  Spelt(Append(bytes, b))
<1>. DEFINE w == S!Written(bytes)
            t == w.text
            s == S!Scanned(t)
            p == w.state
            q == S!NextState(p, b)
            c == S!Bits(p, w.code, b)
            more == Append(bytes, b)
            u == Append(t, b)
<1>0. /\ w.code \in Nat /\ t \in Seq(Byte) /\ s.token = bytes
      /\ s.hex = <<>> /\ s.high = 0 /\ s.at = "follower" /\ s \in LexerState
      /\ p \in 2..8 /\ w.code >= Least(p) /\ p # S!Reject
  BY ScannedType DEF Spelt, Faithful, S!Accept, S!Reject
<1>1. S!Written(more) = S!Write(w, b)
  BY WrittenAppend
<1>2. u \in Seq(Byte) /\ S!Scanned(u) = S!Scan(s, b)
  BY <1>0, ScannedAppend
<1>3. s.ranges = RangesOf(p)
  <2>1. Lexed(s)
    BY <1>0, ScannedIsLexed
  <2>. HIDE DEF s
  <2>2. s.ranges = RangesOf(S!Written(s.token).state)
    BY <1>0, <2>1 DEF Lexed
  <2>. QED  BY <1>0, <2>2
<1>4. CASE b \in First(p)
  <2>1. q = After(p) /\ After(p) \in {S!Accept, 2, 3}
    BY <1>0, <1>4, NextByte, RangesTail
  <2>2. /\ c \in Nat /\ (q = S!Accept => c >= 128)
        /\ (q # S!Accept => c >= Least(q))
    BY <1>0, <1>4, <2>1, BitsOfNext
  <2>3. /\ S!Written(more).state = q
        /\ S!Written(more).code \in {0, c}
        /\ S!Written(more).text = u
        /\ (q # S!Accept => S!Written(more).code = c)
    <3>1. CASE q = S!Accept
      <4>1. S!Write(w, b) = [state |-> q, code |-> 0, text |-> t \o S!Spelled(c, b)]
        BY <1>0, <3>1 DEF S!Write
      <4>2. S!Spelled(c, b) \in {<<b>>}
        <5>1. c \in Nat /\ c >= 128
          BY <2>2, <3>1
        <5>. HIDE DEF c
        <5>2. c \notin S!Shorts /\ c \notin 0..31
          BY <5>1 DEF S!Shorts, S!Quote, S!Backslash
        <5>. QED  BY <5>2 DEF S!Spelled
      <4>3. t \o <<b>> = u
        BY <1>0, OneByOne
      <4>4. t \o S!Spelled(c, b) = u
        BY <4>2, <4>3
      <4>. HIDE DEF u, w, t, s, p, q, c, more
      <4>. QED  BY <1>1, <3>1, <4>1, <4>4
    <3>2. CASE q # S!Accept
      <4>1. S!Write(w, b) = [state |-> q, code |-> c, text |-> u]
        BY <1>0, <3>2 DEF S!Write
      <4>. HIDE DEF u, w, t, s, p, q, c, more
      <4>. QED  BY <1>1, <3>2, <4>1
    <3>. QED  BY <3>1, <3>2
  <2>4. /\ S!Scanned(u).at = IF After(p) = S!Accept THEN "character" ELSE "follower"
        /\ S!Scanned(u).token = Append(s.token, b)
        /\ S!Scanned(u).hex = s.hex /\ S!Scanned(u).high = s.high
    <3>. HIDE DEF u, s, p
    <3>1. S!Scanned(u) = S!Scan(s, b)
      BY <1>2
    <3>. QED  BY <1>0, <1>3, <1>4, <3>1, ReadsNext
  <2>. HIDE DEF u, w, t, s, p, q, c, more
  <2>5. /\ S!Scanned(u).at = IF q = S!Accept THEN "character" ELSE "follower"
        /\ S!Scanned(u).token = more
        /\ S!Scanned(u).hex = <<>>
        /\ S!Scanned(u).high = 0
    BY <1>0, <2>1, <2>4 DEF more
  <2>6. q \in 0..8 /\ (q \in 2..8 => q # S!Accept)
    BY <2>1 DEF S!Accept
  <2>. QED  BY <1>2, <2>2, <2>3, <2>5, <2>6 DEF Spelt, Faithful, more
<1>5. CASE b \notin First(p)
  <2>1. q = S!Reject
    BY <1>0, <1>5, NextByte
  <2>2. S!Reject # S!Accept /\ S!Reject \in 0..8 /\ S!Reject \notin 2..8
    BY DEF S!Accept, S!Reject
  <2>3. S!Write(w, b) = [state |-> q, code |-> c, text |-> u]
    BY <1>0, <2>1, <2>2 DEF S!Write
  <2>4. c \in Nat
    <3>1. c = 64 * w.code + (b % 64)
      BY <1>0, BitsOfMore
    <3>2. b % 64 \in Nat
      BY DEF Byte
    <3>. QED  BY <1>0, <3>1, <3>2
  <2>. HIDE DEF u, w, t, s, p, q, c, more
  <2>5. /\ S!Written(more).state = S!Reject
        /\ S!Written(more).code = c
        /\ S!Written(more).text = u
    BY <1>1, <2>1, <2>3
  <2>. QED  BY <1>2, <2>2, <2>4, <2>5 DEF Spelt, Faithful, more
<1>. QED  BY <1>4, <1>5

LEMMA SpeltRejected ==
  ASSUME NEW bytes \in Seq(Byte), Spelt(bytes), S!Written(bytes).state = S!Reject,
         NEW b \in Byte
  PROVE  Spelt(Append(bytes, b))
<1>. DEFINE w == S!Written(bytes)
            more == Append(bytes, b)
<1>1. S!Written(more) = S!Write(w, b)
  BY WrittenAppend
<1>2. S!NextState(S!Reject, b) = S!Reject
  BY DEF S!NextState, S!Onward, S!Reject, S!Accept
<1>3. S!Reject # S!Accept
  BY DEF S!Reject, S!Accept
<1>4. S!Write(w, b) = w
  BY <1>2, <1>3 DEF S!Write
<1>5. S!Reject \notin 2..8
  BY DEF S!Reject
<1>. HIDE DEF w, more
<1>6. S!Written(more) = w
  BY <1>1, <1>4
<1>. QED  BY <1>5, <1>6 DEF Spelt, Faithful, w, more

LEMMA EveryStringSpelt == \A bytes \in Seq(Byte) : Spelt(bytes)
<1>. DEFINE none == <<>>
            T == {q \in Seq(Byte) : Spelt(q)}
<1>1. none \in T
  <2>1. none \in Seq(Byte) /\ S!Written(none) = S!Unwritten
    BY NothingYet
  <2>2. /\ S!Unwritten.state = S!Accept
        /\ S!Unwritten.code = 0
        /\ S!Unwritten.text = none
    BY DEF S!Unwritten
  <2>3. S!Scanned(none) = S!Start
    BY NothingYet
  <2>4. /\ S!Start.at = "character"
        /\ S!Start.token = none
        /\ S!Start.hex = none
        /\ S!Start.high = 0
    BY DEF S!Start
  <2>5. none = <<>>
    OBVIOUS
  <2>. HIDE DEF none
  <2>6. S!Accept \in 0..8 /\ S!Accept \notin 2..8
    BY DEF S!Accept
  <2>7. Faithful(none, S!Unwritten, S!Start)
    BY <2>1, <2>2, <2>4, <2>5, <2>6 DEF Faithful
  <2>8. /\ S!Written(none) = S!Unwritten
        /\ S!Scanned(S!Written(none).text) = S!Start
    BY <2>1, <2>2, <2>3
  <2>. QED  BY <2>1, <2>7, <2>8 DEF Spelt
<1>2. ASSUME NEW q \in T, NEW b \in Byte PROVE Append(q, b) \in T
  <2>1. q \in Seq(Byte) /\ Spelt(q) /\ Append(q, b) \in Seq(Byte)
    OBVIOUS
  <2>2. S!Written(q).state \in 0..8
    BY <2>1, StateType
  <2>3. \/ S!Written(q).state = S!Accept \/ S!Written(q).state = S!Reject
        \/ S!Written(q).state \in 2..8
    BY <2>2 DEF S!Accept, S!Reject
  <2>. QED  BY <2>1, <2>3, SpeltFirst, SpeltNext, SpeltRejected
<1>3. T \in SUBSET Seq(Byte)
  OBVIOUS
<1>. HIDE DEF T
<1>4. \A q \in Seq(Byte) : q \in T
  BY <1>1, <1>2, <1>3, SequenceInduction DEF none
<1>. QED  BY <1>4 DEF T

LEMMA ReadsQuote ==
  ASSUME NEW s \in LexerState, s.at = "character"
  PROVE  S!Scan(s, S!Quote).at = "done" /\ S!Scan(s, S!Quote).token = s.token
<1>1. S!Quote \in Byte /\ S!Quote \notin 194..244
  BY DEF S!Quote, Byte
<1>2. S!FollowersOf(S!Quote) = <<>>
  BY <1>1, Followers
<1>3. S!Scan(s, S!Quote) = [s EXCEPT !.at = "done"]
  BY <1>2 DEF S!Scan, S!Over, S!Quote, S!Backslash
<1>. QED  BY <1>3 DEF LexerState

(* WrittenIsRead for every string: what dump writes between two quotes     *)
(* (json.hpp:15817) is read by scan_string (6125) as the bytes it was      *)
(* written of, whatever was escaped on the way.                            *)
THEOREM ReadingUndoesWriting == \A bytes \in Seq(Byte) : S!WrittenIsRead(bytes)
<1>. SUFFICES ASSUME NEW bytes \in Seq(Byte), S!Written(bytes).state = S!Accept
              PROVE  LET text == Append(S!Written(bytes).text, S!Quote)
                     IN  S!Scanned(text).at = "done" /\ S!Scanned(text).token = bytes
  BY DEF S!WrittenIsRead, S!IsString, S!IsWritable
<1>. DEFINE t == S!Written(bytes).text
<1>1. /\ t \in Seq(Byte)
      /\ S!Scanned(t).at = "character"
      /\ S!Scanned(t).token = bytes
  BY EveryStringSpelt DEF Spelt, Faithful, S!Accept, S!Reject
<1>2. S!Quote \in Byte
  BY DEF S!Quote, Byte
<1>3. S!Scanned(Append(t, S!Quote)) = S!Scan(S!Scanned(t), S!Quote)
  BY <1>1, <1>2, ScannedAppend
<1>4. S!Scanned(t) \in LexerState
  BY <1>1, ScannedType
<1>. HIDE DEF t
<1>. QED  BY <1>1, <1>3, <1>4, ReadsQuote DEF t

-----------------------------------------------------------------------------
(* Numbers: scan_number and what strtoull makes of it, as walks.           *)

Labels(f, q) ==
  f = [k \in 0..Len(q) |-> IF k = 0 THEN "init" ELSE N!Scan(f[k - 1], q[k])]

(* The label is where the walk of the lexer ends; so is the value of the   *)
(* digits.                                                                 *)
LEMMA LabelByWalk ==
  ASSUME NEW q \in Seq(Byte)
  PROVE  \E f : Walks("label", f, q) /\ N!Label(q) = f[Len(q)]
<1>. DEFINE f == CHOOSE f : Labels(f, q)
<1>1. N!Label(q) = f[Len(q)]
  BY DEF N!Label, Labels
<1>2. \A h, k : Reached("label", q, h, k)
                  = IF k = 0 THEN "init" ELSE N!Scan(h[k - 1], q[k])
  BY DEF Reached, Begin, Step
<1>3. ASSUME NEW h PROVE Labels(h, q) <=> Walks("label", h, q)
  <2>1. [k \in 0..Len(q) |-> Reached("label", q, h, k)]
          = [k \in 0..Len(q) |->
               IF k = 0 THEN "init" ELSE N!Scan(h[k - 1], q[k])]
    BY <1>2
  <2>. QED  BY <2>1 DEF Labels, Walks
<1>4. \E h : Labels(h, q)
  BY <1>3, WalkExists
<1>5. Labels(f, q)
  BY <1>4
<1>. HIDE DEF f
<1>. QED  BY <1>1, <1>3, <1>5

Values(f, q) ==
  f = [k \in 0..Len(q) |-> IF k = 0 THEN 0 ELSE 10 * f[k - 1] + q[k]]

LEMMA ValueByWalk ==
  ASSUME NEW q \in Seq(Byte)
  PROVE  \E f : Walks("value", f, q) /\ N!Spelled(q) = f[Len(q)]
<1>. DEFINE f == CHOOSE f : Values(f, q)
<1>1. N!Spelled(q) = f[Len(q)]
  BY DEF N!Spelled, Values
<1>2. \A h, k : Reached("value", q, h, k)
                  = IF k = 0 THEN 0 ELSE 10 * h[k - 1] + q[k]
  BY DEF Reached, Begin, Step
<1>3. ASSUME NEW h PROVE Values(h, q) <=> Walks("value", h, q)
  <2>1. [k \in 0..Len(q) |-> Reached("value", q, h, k)]
          = [k \in 0..Len(q) |-> IF k = 0 THEN 0 ELSE 10 * h[k - 1] + q[k]]
    BY <1>2
  <2>. QED  BY <2>1 DEF Values, Walks
<1>4. \E h : Values(h, q)
  BY <1>3, WalkExists
<1>5. Values(f, q)
  BY <1>4
<1>. HIDE DEF f
<1>. QED  BY <1>1, <1>3, <1>5

(* One character more is one step more.                                    *)
LEMMA LabelAppend ==
  ASSUME NEW q \in Seq(Byte), NEW c \in Byte
  PROVE  N!Label(Append(q, c)) = N!Scan(N!Label(q), c)
<1>1. PICK f : Walks("label", f, q) /\ N!Label(q) = f[Len(q)]
  BY LabelByWalk
<1>2. Append(q, c) \in Seq(Byte) /\ Len(Append(q, c)) = Len(q) + 1
  BY AppendProperties, LenProperties
<1>3. PICK g : /\ Walks("label", g, Append(q, c))
               /\ N!Label(Append(q, c)) = g[Len(q) + 1]
  BY <1>2, LabelByWalk
<1>4. g[Len(q) + 1] = Step("label", f[Len(q)], c)
  BY <1>1, <1>3, WalkOn
<1>. QED  BY <1>1, <1>3, <1>4 DEF Step

LEMMA SpelledAppend ==
  ASSUME NEW q \in Seq(Byte), NEW c \in Byte
  PROVE  N!Spelled(Append(q, c)) = 10 * N!Spelled(q) + c
<1>1. PICK f : Walks("value", f, q) /\ N!Spelled(q) = f[Len(q)]
  BY ValueByWalk
<1>2. Append(q, c) \in Seq(Byte) /\ Len(Append(q, c)) = Len(q) + 1
  BY AppendProperties, LenProperties
<1>3. PICK g : /\ Walks("value", g, Append(q, c))
               /\ N!Spelled(Append(q, c)) = g[Len(q) + 1]
  BY <1>2, ValueByWalk
<1>4. g[Len(q) + 1] = Step("value", f[Len(q)], c)
  BY <1>1, <1>3, WalkOn
<1>5. Step("value", f[Len(q)], c) = 10 * f[Len(q)] + c
  BY DEF Step
<1>. QED  BY <1>1, <1>3, <1>4, <1>5

LEMMA NothingRead == N!Label(<<>>) = "init" /\ N!Spelled(<<>>) = 0
<1>. DEFINE none == <<>>
<1>1. none \in Seq(Byte) /\ Len(none) = 0
  OBVIOUS
<1>. HIDE DEF none
<1>2. PICK f : Walks("label", f, none) /\ N!Label(none) = f[0]
  BY <1>1, LabelByWalk
<1>3. PICK g : Walks("value", g, none) /\ N!Spelled(none) = g[0]
  BY <1>1, ValueByWalk
<1>4. f[0] = "init"
  BY <1>1, <1>2, WalkSteps DEF Reached, Begin
<1>5. g[0] = 0
  BY <1>1, <1>3, WalkSteps DEF Reached, Begin
<1>. QED  BY <1>2, <1>3, <1>4, <1>5 DEF none

-----------------------------------------------------------------------------
(* Where in the grammar the lexer stands.                                  *)

(* The parts of a number t: a sign before i, a whole part up to j, a       *)
(* fraction up to k, and behind an exponent that is marked up to s.        *)
AllDigits(t, a, b) == \A m \in a..b : t[m] \in N!Digit
Sign(t, i) == i = 0 \/ (i = 1 /\ t[1] = N!Minus)
Whole(t, i, j) == i < j /\ AllDigits(t, i + 1, j) /\ (t[i + 1] = 0 => j = i + 1)
Fraction(t, j, k) ==
  j = k \/ (t[j + 1] = N!Dot /\ j + 2 <= k /\ AllDigits(t, j + 2, k))
Mantissa(t, i, j, k) == Sign(t, i) /\ Whole(t, i, j) /\ Fraction(t, j, k)
Marked(t, k, s) ==
  t[k + 1] = N!Exp
    /\ (s = k + 1 \/ (s = k + 2 /\ t[k + 2] \in {N!Plus, N!Minus}))

(* What the lexer has seen when it is at a label: for each of them a way   *)
(* to split the text into the parts that were read.                        *)
Shape(label, t, i, j, k) ==
  LET n == Len(t)
  IN  /\ label = "init" => n = 0
      /\ label = "minus" => n = 1 /\ t[1] = N!Minus
      /\ label = "zero" => Mantissa(t, i, j, j) /\ n = j /\ t[i + 1] = 0
      /\ label = "any1" => Mantissa(t, i, j, j) /\ n = j /\ t[i + 1] # 0
      /\ label = "decimal1" => Mantissa(t, i, j, j) /\ n = j + 1 /\ t[n] = N!Dot
      /\ label = "decimal2" => Mantissa(t, i, j, n) /\ j < n
      /\ label = "exponent" => Mantissa(t, i, j, k) /\ n = k + 1 /\ Marked(t, k, n)
      /\ label = "sign" => Mantissa(t, i, j, k) /\ n = k + 2 /\ Marked(t, k, n)
      /\ label = "any2" => /\ Mantissa(t, i, j, k)
                           /\ \E s \in {k + 1, k + 2} :
                                Marked(t, k, s) /\ s < n /\ AllDigits(t, s + 1, n)

States == {"init", "minus", "zero", "any1", "decimal1", "decimal2", "exponent",
           "sign", "any2"}

HasShape(label, t) ==
  /\ label \in States
  /\ \E i, j, k \in Nat : Shape(label, t, i, j, k)

(* A character more leaves those before it where they are.                 *)
LEMMA Longer ==
  ASSUME NEW t \in Seq(Byte), NEW c \in Byte
  PROVE  /\ Append(t, c) \in Seq(Byte) /\ Len(Append(t, c)) = Len(t) + 1
         /\ Len(t) \in Nat
         /\ \A m \in 1..Len(t) : Append(t, c)[m] = t[m]
         /\ Append(t, c)[Len(t) + 1] = c
  BY AppendProperties, LenProperties

Agree(t, q, n) == \A m \in 1..n : q[m] = t[m]

(* The parts of a number are told by the characters they are made of.      *)
LEMMA SameMantissa ==
  ASSUME NEW t, NEW q, NEW n \in Nat, Agree(t, q, n),
         NEW i \in Nat, NEW j \in Nat, NEW k \in Nat, k <= n
  PROVE  /\ Mantissa(t, i, j, k) => Mantissa(q, i, j, k)
         /\ Mantissa(t, i, j, k) => i < j /\ j <= k /\ i <= 1
<1>. SUFFICES ASSUME Mantissa(t, i, j, k)
              PROVE  Mantissa(q, i, j, k) /\ i < j /\ j <= k /\ i <= 1
  OBVIOUS
<1>0. \A m \in 1..n : q[m] = t[m]
  BY DEF Agree
<1>1. Sign(t, i) /\ Whole(t, i, j) /\ Fraction(t, j, k)
  BY DEF Mantissa
<1>2. i < j /\ i <= 1 /\ j <= k
  BY <1>1 DEF Sign, Whole, Fraction
<1>3. Sign(q, i)
  <2>1. i = 1 => q[1] = t[1]
    BY <1>0, <1>2
  <2>. QED  BY <1>1, <2>1 DEF Sign
<1>4. Whole(q, i, j)
  <2>1. \A m \in i + 1..j : q[m] = t[m]
    BY <1>0, <1>2
  <2>2. AllDigits(q, i + 1, j)
    BY <1>1, <2>1 DEF Whole, AllDigits
  <2>3. q[i + 1] = t[i + 1]
    BY <1>0, <1>2
  <2>. QED  BY <1>1, <2>2, <2>3 DEF Whole
<1>5. Fraction(q, j, k)
  <2>1. CASE j = k  BY <2>1 DEF Fraction
  <2>2. CASE j # k
    <3>1. t[j + 1] = N!Dot /\ j + 2 <= k /\ AllDigits(t, j + 2, k)
      BY <1>1, <2>2 DEF Fraction
    <3>2. q[j + 1] = t[j + 1] /\ \A m \in j + 2..k : q[m] = t[m]
      BY <1>0, <1>2, <3>1
    <3>3. AllDigits(q, j + 2, k)
      BY <3>1, <3>2 DEF AllDigits
    <3>. QED  BY <3>1, <3>2, <3>3 DEF Fraction
  <2>. QED  BY <2>1, <2>2
<1>. QED  BY <1>1, <1>2, <1>3, <1>4, <1>5 DEF Mantissa

(* Every step of the lexer keeps the shape: whatever it accepts one        *)
(* character after the other is split as the grammar splits it.            *)
LEMMA Grows ==
  ASSUME NEW t \in Seq(Byte), NEW c \in Byte, NEW label,
         HasShape(label, t), N!Scan(label, c) # "error"
  PROVE  HasShape(N!Scan(label, c), Append(t, c))
<1>. DEFINE q == Append(t, c)
            n == Len(t)
            new == N!Scan(label, c)
<1>1. /\ q \in Seq(Byte) /\ Len(q) = n + 1 /\ n \in Nat
      /\ \A m \in 1..n : q[m] = t[m]
      /\ q[n + 1] = c
  BY Longer
<1>2. PICK i \in Nat, j \in Nat, k \in Nat : Shape(label, t, i, j, k)
  BY DEF HasShape
<1>2a. \A x, y, z \in Nat :
         z <= n /\ Mantissa(t, x, y, z) =>
           Mantissa(q, x, y, z) /\ x < y /\ y <= z /\ x <= 1
  BY <1>1, SameMantissa DEF Agree
<1>3. \/ label \in {"init", "minus"} /\ c = 0 /\ new = "zero"
      \/ label \in {"init", "minus"} /\ c \in 1..9 /\ new = "any1"
      \/ label = "init" /\ c = N!Minus /\ new = "minus"
      \/ label = "any1" /\ c \in N!Digit /\ new = "any1"
      \/ label \in {"zero", "any1"} /\ c = N!Dot /\ new = "decimal1"
      \/ label \in {"decimal1", "decimal2"} /\ c \in N!Digit /\ new = "decimal2"
      \/ label \in {"zero", "any1", "decimal2"} /\ c = N!Exp /\ new = "exponent"
      \/ label = "exponent" /\ c \in {N!Plus, N!Minus} /\ new = "sign"
      \/ label \in {"exponent", "sign", "any2"} /\ c \in N!Digit /\ new = "any2"
  BY DEF N!Scan
<1>. SUFFICES \E a, b, d \in Nat : Shape(new, q, a, b, d)
  BY <1>3 DEF HasShape, States
<1>. HIDE DEF q, n, new
<1>4. CASE /\ label \in {"init", "minus"}
           /\ c \in N!Digit
           /\ new \in {"zero", "any1"}
           /\ (new = "zero" <=> c = 0)
  <2>1. n \in {0, 1} /\ (n = 1 => q[1] = N!Minus)
    BY <1>1, <1>2, <1>4 DEF Shape, n
  <2>2. Mantissa(q, n, n + 1, n + 1)
    BY <1>1, <1>4, <2>1 DEF Mantissa, Sign, Whole, Fraction, AllDigits
  <2>3. Shape(new, q, n, n + 1, n + 1)
    BY <1>1, <1>4, <2>2 DEF Shape
  <2>. QED  BY <1>1, <2>3
<1>5. CASE label = "init" /\ c = N!Minus /\ new = "minus"
  <2>1. Shape(new, q, 0, 0, 0)
    BY <1>1, <1>2, <1>5 DEF Shape, n
  <2>. QED  BY <2>1
<1>6. CASE label = "any1" /\ c \in N!Digit /\ new = "any1"
  <2>1. Mantissa(t, i, j, j) /\ n = j /\ t[i + 1] # 0
    BY <1>2, <1>6 DEF Shape, n
  <2>2. Mantissa(q, i, j, j) /\ i < j
    BY <1>1, <2>1, <1>2a
  <2>3. q[i + 1] = t[i + 1]
    BY <1>1, <2>1, <2>2
  <2>4. \A m \in i + 1..j + 1 : m \in i + 1..j \/ m = n + 1
    BY <2>1
  <2>5. AllDigits(q, i + 1, j + 1)
    BY <1>1, <1>6, <2>2, <2>4 DEF Mantissa, Whole, AllDigits
  <2>6. Mantissa(q, i, j + 1, j + 1)
    BY <2>1, <2>2, <2>3, <2>5 DEF Mantissa, Whole, Fraction
  <2>7. Shape(new, q, i, j + 1, j + 1)
    BY <1>1, <1>6, <2>1, <2>3, <2>6 DEF Shape
  <2>. QED  BY <2>7
<1>7. CASE label \in {"zero", "any1"} /\ c = N!Dot /\ new = "decimal1"
  <2>1. Mantissa(t, i, j, j) /\ n = j
    BY <1>2, <1>7 DEF Shape, n
  <2>2. Mantissa(q, i, j, j)
    BY <1>1, <2>1, <1>2a
  <2>3. Shape(new, q, i, j, j)
    BY <1>1, <1>7, <2>1, <2>2 DEF Shape
  <2>. QED  BY <2>3
<1>8. CASE /\ label \in {"decimal1", "decimal2"}
           /\ c \in N!Digit
           /\ new = "decimal2"
  <2>1. CASE label = "decimal1"
    <3>1. Mantissa(t, i, j, j) /\ n = j + 1 /\ t[n] = N!Dot
      BY <1>2, <2>1 DEF Shape, n
    <3>2. Mantissa(q, i, j, j) /\ q[j + 1] = N!Dot
      BY <1>1, <3>1, <1>2a
    <3>3. AllDigits(q, j + 2, n + 1)
      BY <1>1, <1>8, <3>1 DEF AllDigits
    <3>4. Mantissa(q, i, j, n + 1)
      BY <1>1, <3>1, <3>2, <3>3 DEF Mantissa, Fraction
    <3>5. Shape(new, q, i, j, j)
      BY <1>1, <1>8, <3>1, <3>4 DEF Shape
    <3>. QED  BY <3>5
  <2>2. CASE label = "decimal2"
    <3>1. Mantissa(t, i, j, n) /\ j < n
      BY <1>2, <2>2 DEF Shape, n
    <3>2. Mantissa(q, i, j, n)
      BY <1>1, <3>1, <1>2a
    <3>3. q[j + 1] = N!Dot /\ j + 2 <= n /\ AllDigits(q, j + 2, n)
      BY <3>1, <3>2 DEF Mantissa, Fraction
    <3>4. \A m \in j + 2..n + 1 : m \in j + 2..n \/ m = n + 1
      BY <1>1
    <3>5. AllDigits(q, j + 2, n + 1)
      BY <1>1, <1>8, <3>3, <3>4 DEF AllDigits
    <3>6. Mantissa(q, i, j, n + 1)
      BY <1>1, <3>2, <3>3, <3>5 DEF Mantissa, Fraction
    <3>7. Shape(new, q, i, j, j)
      BY <1>1, <1>8, <3>1, <3>6 DEF Shape
    <3>. QED  BY <3>7
  <2>. QED  BY <1>8, <2>1, <2>2
<1>9. CASE /\ label \in {"zero", "any1", "decimal2"}
           /\ c = N!Exp
           /\ new = "exponent"
  <2>1. Mantissa(t, i, j, n)
    BY <1>2, <1>9 DEF Shape, n
  <2>2. Mantissa(q, i, j, n)
    BY <1>1, <2>1, <1>2a
  <2>3. Marked(q, n, n + 1)
    BY <1>1, <1>9 DEF Marked
  <2>4. Shape(new, q, i, j, n)
    BY <1>1, <1>9, <2>2, <2>3 DEF Shape
  <2>. QED  BY <1>1, <2>4
<1>10. CASE label = "exponent" /\ c \in {N!Plus, N!Minus} /\ new = "sign"
  <2>1. Mantissa(t, i, j, k) /\ n = k + 1 /\ Marked(t, k, n)
    BY <1>2, <1>10 DEF Shape, n
  <2>2. Mantissa(q, i, j, k)
    BY <1>1, <2>1, <1>2a
  <2>3. Marked(q, k, n + 1)
    BY <1>1, <1>10, <2>1 DEF Marked
  <2>4. Shape(new, q, i, j, k)
    BY <1>1, <1>10, <2>1, <2>2, <2>3 DEF Shape
  <2>. QED  BY <1>1, <2>4
<1>11. CASE /\ label \in {"exponent", "sign", "any2"}
            /\ c \in N!Digit
            /\ new = "any2"
  <2>1. Mantissa(t, i, j, k) /\ k + 1 <= n
    BY <1>1, <1>2, <1>11 DEF Shape, n
  <2>2. Mantissa(q, i, j, k)
    BY <1>1, <2>1, <1>2a
  <2>3. PICK s \in {k + 1, k + 2} :
          Marked(t, k, s) /\ s <= n /\ AllDigits(t, s + 1, n)
    <3>1. CASE label = "any2"
      BY <1>2, <3>1 DEF Shape, n
    <3>2. CASE label \in {"exponent", "sign"}
      <4>1. n \in {k + 1, k + 2} /\ Marked(t, k, n)
        BY <1>2, <3>2 DEF Shape, n
      <4>2. AllDigits(t, n + 1, n)
        BY <1>1 DEF AllDigits
      <4>. QED  BY <1>1, <4>1, <4>2
    <3>. QED  BY <1>11, <3>1, <3>2
  <2>4. Marked(q, k, s)
    BY <1>1, <2>3 DEF Marked
  <2>5. \A m \in s + 1..n + 1 : m \in s + 1..n \/ m = n + 1
    BY <1>1
  <2>6. \A m \in s + 1..n : m \in 1..n
    BY <1>1
  <2>7. AllDigits(q, s + 1, n + 1)
    BY <1>1, <1>11, <2>3, <2>5, <2>6 DEF AllDigits
  <2>8. s < n + 1
    BY <1>1, <2>3
  <2>9. Shape(new, q, i, j, k)
    BY <1>1, <1>11, <2>2, <2>4, <2>7, <2>8 DEF Shape
  <2>. QED  BY <2>9
<1>. QED
  BY <1>3, <1>4, <1>5, <1>6, <1>7, <1>8, <1>9, <1>10, <1>11 DEF N!Digit

(* And backwards: a text with the shape of a label, but for its last       *)
(* character, has the shape of a label from which the lexer comes there.   *)
LEMMA Shrinks ==
  ASSUME NEW t \in Seq(Byte), NEW c \in Byte, NEW label,
         HasShape(label, Append(t, c))
  PROVE  \E old : HasShape(old, t) /\ N!Scan(old, c) = label
<1>. DEFINE q == Append(t, c)
            n == Len(t)
            Old(old, a, b, d) == Shape(old, t, a, b, d) /\ N!Scan(old, c) = label
<1>1. /\ q \in Seq(Byte) /\ Len(q) = n + 1 /\ n \in Nat
      /\ \A m \in 1..n : t[m] = q[m]
      /\ q[n + 1] = c
  BY Longer
<1>2. label \in States /\ \E i, j, k \in Nat : Shape(label, q, i, j, k)
  BY DEF HasShape
<1>3. PICK i \in Nat, j \in Nat, k \in Nat : Shape(label, q, i, j, k)
  BY <1>2
<1>. SUFFICES \E old \in States, a, b, d \in Nat : Old(old, a, b, d)
  BY DEF HasShape
<1>. HIDE DEF q, n
<1>4. \A x, y, z \in Nat :
        z <= n /\ Mantissa(q, x, y, z) =>
          Mantissa(t, x, y, z)
  BY <1>1, SameMantissa DEF Agree
<1>5. \A x, y, z \in Nat :
        z <= n + 1 /\ Mantissa(q, x, y, z) => x < y /\ y <= z /\ x <= 1
  <2>1. Agree(q, q, n + 1)
    BY DEF Agree
  <2>. QED  BY <1>1, <2>1, SameMantissa
<1>6. label # "init"
  BY <1>1, <1>3 DEF Shape
<1>7. CASE label = "minus"
  <2>1. n = 0 /\ c = N!Minus
    BY <1>1, <1>3, <1>7 DEF Shape
  <2>2. Shape("init", t, 0, 0, 0)
    BY <2>1 DEF Shape, n
  <2>3. N!Scan("init", c) = label
    BY <1>7, <2>1 DEF N!Scan, N!Minus
  <2>. QED  BY <2>2, <2>3 DEF States
<1>8. ASSUME label \in {"zero", "any1"}, n = i
      PROVE  \E old \in States, a, b, d \in Nat : Old(old, a, b, d)
  <2>1. /\ Mantissa(q, i, j, j) /\ n + 1 = j
        /\ label = "zero" <=> q[i + 1] = 0
    BY <1>1, <1>3, <1>8 DEF Shape
  <2>2. Sign(q, i) /\ AllDigits(q, i + 1, j)
    BY <2>1 DEF Mantissa, Whole
  <2>3. c \in N!Digit /\ (label = "zero" <=> c = 0)
    <3>1. q[n + 1] \in N!Digit
      BY <1>1, <1>8, <2>1, <2>2 DEF AllDigits
    <3>. QED  BY <1>1, <1>8, <2>1, <3>1
  <2>4. CASE i = 0
    <3>1. Shape("init", t, 0, 0, 0)
      BY <1>8, <2>4 DEF Shape, n
    <3>2. N!Scan("init", c) = label
      BY <1>8, <2>3 DEF N!Scan, N!Digit, N!Minus, N!Exp, N!Dot
    <3>. QED  BY <3>1, <3>2 DEF States
  <2>5. CASE i = 1
    <3>1. t[1] = N!Minus
      BY <1>1, <1>8, <2>2, <2>5 DEF Sign
    <3>2. Shape("minus", t, 0, 0, 0)
      BY <1>8, <2>5, <3>1 DEF Shape, n
    <3>3. N!Scan("minus", c) = label
      BY <1>8, <2>3 DEF N!Scan, N!Digit, N!Minus, N!Exp, N!Dot
    <3>. QED  BY <3>2, <3>3 DEF States
  <2>. QED  BY <2>2, <2>4, <2>5 DEF Sign
<1>9. ASSUME label \in {"zero", "any1"}, n # i
      PROVE  \E old \in States, a, b, d \in Nat : Old(old, a, b, d)
  <2>1. /\ Mantissa(q, i, j, j) /\ n + 1 = j
        /\ label = "zero" <=> q[i + 1] = 0
    BY <1>1, <1>3, <1>9 DEF Shape
  <2>2. i < n
    BY <1>1, <1>5, <1>9, <2>1
  <2>3. Sign(q, i) /\ AllDigits(q, i + 1, j) /\ q[i + 1] # 0
    BY <1>1, <2>1, <2>2 DEF Mantissa, Whole
  <2>4. label = "any1"
    BY <1>9, <2>1, <2>3
  <2>5. c \in N!Digit
    BY <1>1, <2>1, <2>2, <2>3 DEF AllDigits
  <2>6. AllDigits(q, i + 1, n)
    BY <1>1, <2>1, <2>3 DEF AllDigits
  <2>7. Mantissa(q, i, n, n)
    BY <2>2, <2>3, <2>6 DEF Mantissa, Whole, Fraction
  <2>8. Mantissa(t, i, n, n) /\ t[i + 1] # 0
    <3>1. t[i + 1] = q[i + 1]
      BY <1>1, <2>2
    <3>. QED  BY <1>1, <1>4, <2>3, <2>7, <3>1
  <2>9. Shape("any1", t, i, n, n)
    BY <2>8 DEF Shape, n
  <2>10. N!Scan("any1", c) = label
    BY <2>4, <2>5 DEF N!Scan, N!Digit, N!Minus, N!Exp, N!Dot
  <2>. QED  BY <1>1, <2>9, <2>10 DEF States
<1>10. CASE label = "decimal1"
  <2>1. Mantissa(q, i, j, j) /\ n = j /\ c = N!Dot
    BY <1>1, <1>3, <1>10 DEF Shape
  <2>2. Mantissa(t, i, j, j)
    BY <1>1, <1>4, <2>1
  <2>. DEFINE old == IF t[i + 1] = 0 THEN "zero" ELSE "any1"
  <2>3. Shape(old, t, i, j, j)
    BY <2>1, <2>2 DEF Shape, n
  <2>4. N!Scan(old, c) = label
    BY <1>10, <2>1 DEF N!Scan, N!Digit, N!Minus, N!Exp, N!Dot
  <2>5. old \in States
    BY DEF States
  <2>. QED  BY <2>3, <2>4, <2>5
<1>11. CASE label = "decimal2"
  <2>1. Mantissa(q, i, j, n + 1) /\ j < n + 1
    BY <1>1, <1>3, <1>11 DEF Shape
  <2>2. /\ Sign(q, i) /\ Whole(q, i, j) /\ q[j + 1] = N!Dot
        /\ j + 1 <= n /\ AllDigits(q, j + 2, n + 1)
    BY <1>1, <2>1 DEF Mantissa, Fraction
  <2>3. c \in N!Digit
    BY <1>1, <2>2 DEF AllDigits
  <2>4. t[j + 1] = N!Dot
    BY <1>1, <2>2
  <2>5. CASE n = j + 1
    <3>1. Mantissa(q, i, j, j)
      BY <2>2 DEF Mantissa, Fraction
    <3>2. Mantissa(t, i, j, j)
      BY <1>1, <1>4, <2>2, <3>1
    <3>3. Shape("decimal1", t, i, j, j)
      BY <2>4, <2>5, <3>2 DEF Shape, n
    <3>4. N!Scan("decimal1", c) = label
      BY <1>11, <2>3 DEF N!Scan, N!Digit, N!Minus, N!Exp, N!Dot
    <3>. QED  BY <3>3, <3>4 DEF States
  <2>6. CASE n # j + 1
    <3>1. j + 2 <= n /\ AllDigits(q, j + 2, n)
      BY <1>1, <2>2, <2>6 DEF AllDigits
    <3>2. Mantissa(q, i, j, n)
      BY <2>2, <3>1 DEF Mantissa, Fraction
    <3>3. Mantissa(t, i, j, n)
      BY <1>1, <1>4, <3>2
    <3>4. Shape("decimal2", t, i, j, j)
      BY <1>1, <3>1, <3>3 DEF Shape, n
    <3>5. N!Scan("decimal2", c) = label
      BY <1>11, <2>3 DEF N!Scan, N!Digit, N!Minus, N!Exp, N!Dot
    <3>. QED  BY <3>4, <3>5 DEF States
  <2>. QED  BY <2>5, <2>6
<1>12. CASE label = "exponent"
  <2>1. Mantissa(q, i, j, k) /\ n = k /\ c = N!Exp
    BY <1>1, <1>3, <1>12 DEF Shape, Marked
  <2>2. Mantissa(t, i, j, n)
    BY <1>1, <1>4, <2>1
  <2>3. j <= n
    BY <1>1, <1>5, <2>1
  <2>. DEFINE old == IF j < n THEN "decimal2"
                     ELSE IF t[i + 1] = 0 THEN "zero" ELSE "any1"
  <2>4. Shape(old, t, i, j, j)
    <3>1. CASE j < n
      BY <2>2, <3>1 DEF Shape, n
    <3>2. CASE j = n
      BY <2>2, <3>2 DEF Shape, n
    <3>. QED  BY <1>1, <2>3, <3>1, <3>2
  <2>5. N!Scan(old, c) = label
    BY <1>12, <2>1 DEF N!Scan, N!Digit, N!Minus, N!Exp, N!Dot
  <2>6. old \in States
    BY DEF States
  <2>. QED  BY <2>4, <2>5, <2>6
<1>13. CASE label = "sign"
  <2>1. /\ Mantissa(q, i, j, k) /\ n = k + 1 /\ q[n] = N!Exp
        /\ c \in {N!Plus, N!Minus}
    BY <1>1, <1>3, <1>13 DEF Shape, Marked
  <2>2. Mantissa(t, i, j, k)
    BY <1>1, <1>4, <2>1
  <2>3. Marked(t, k, n)
    BY <1>1, <2>1 DEF Marked
  <2>4. Shape("exponent", t, i, j, k)
    BY <2>1, <2>2, <2>3 DEF Shape, n
  <2>5. N!Scan("exponent", c) = label
    BY <1>13, <2>1 DEF N!Scan, N!Digit, N!Minus, N!Plus, N!Exp, N!Dot
  <2>. QED  BY <2>4, <2>5 DEF States
<1>14. CASE label = "any2"
  <2>1. Mantissa(q, i, j, k)
    BY <1>3, <1>14 DEF Shape
  <2>2. PICK s \in {k + 1, k + 2} :
          Marked(q, k, s) /\ s < n + 1 /\ AllDigits(q, s + 1, n + 1)
    BY <1>1, <1>3, <1>14 DEF Shape
  <2>3. Mantissa(t, i, j, k)
    BY <1>1, <1>4, <2>1, <2>2
  <2>4. Marked(t, k, s)
    BY <1>1, <2>2 DEF Marked
  <2>5. c \in N!Digit
    BY <1>1, <2>2 DEF AllDigits
  <2>6. CASE s < n
    <3>1. \A m \in s + 1..n : m \in 1..n /\ m \in s + 1..n + 1
      BY <1>1
    <3>2. AllDigits(t, s + 1, n)
      BY <1>1, <2>2, <3>1 DEF AllDigits
    <3>3. Shape("any2", t, i, j, k)
      BY <2>3, <2>4, <2>6, <3>2 DEF Shape, n
    <3>4. N!Scan("any2", c) = label
      BY <1>14, <2>5 DEF N!Scan, N!Digit, N!Minus, N!Exp, N!Dot
    <3>. QED  BY <3>3, <3>4 DEF States
  <2>7. CASE s = n
    <3>. DEFINE old == IF s = k + 1 THEN "exponent" ELSE "sign"
    <3>1. Shape(old, t, i, j, k)
      BY <2>3, <2>4, <2>7 DEF Shape, n
    <3>2. N!Scan(old, c) = label
      BY <1>14, <2>5 DEF N!Scan, N!Digit, N!Minus, N!Plus, N!Exp, N!Dot
    <3>3. old \in States
      BY DEF States
    <3>. QED  BY <3>1, <3>2, <3>3
  <2>. QED  BY <1>1, <2>2, <2>6, <2>7
<1>. QED
  BY <1>2, <1>6, <1>7, <1>8, <1>9, <1>10, <1>11, <1>12, <1>13, <1>14 DEF States

(* The lexer is at a label exactly when the text has its shape.            *)
LEMMA LabelIsShape ==
  ASSUME NEW t \in Seq(Byte)
  PROVE  /\ N!Label(t) \in States \cup {"error"}
         /\ \A label \in States : N!Label(t) = label <=> HasShape(label, t)
<1>. DEFINE Right(q) ==
              /\ N!Label(q) \in States \cup {"error"}
              /\ \A label \in States : N!Label(q) = label <=> HasShape(label, q)
            none == <<>>
            T == {q \in Seq(Byte) : Right(q)}
<1>1. none \in T
  <2>1. none \in Seq(Byte) /\ Len(none) = 0 /\ N!Label(none) = "init"
    BY NothingRead
  <2>. HIDE DEF none
  <2>2. HasShape("init", none)
    <3>1. Shape("init", none, 0, 0, 0)
      BY <2>1 DEF Shape
    <3>. QED  BY <3>1 DEF HasShape, States
  <2>3. ASSUME NEW label \in States, HasShape(label, none) PROVE label = "init"
    <3>1. PICK i \in Nat, j \in Nat, k \in Nat : Shape(label, none, i, j, k)
      BY <2>3 DEF HasShape
    <3>2. \A x, y, z \in Nat : Mantissa(none, x, y, z) => y > 0 /\ y <= z
      BY DEF Mantissa, Whole, Fraction
    <3>. QED  BY <2>1, <3>1, <3>2 DEF Shape, States
  <2>. QED  BY <2>1, <2>2, <2>3 DEF States
<1>2. ASSUME NEW p \in T, NEW e \in Byte PROVE Append(p, e) \in T
  <2>. DEFINE q == Append(p, e)
  <2>1. p \in Seq(Byte) /\ Right(p)
    OBVIOUS
  <2>2. q \in Seq(Byte)
    BY <2>1, Longer
  <2>3. N!Label(q) = N!Scan(N!Label(p), e)
    BY <2>1, LabelAppend
  <2>4. N!Scan("error", e) = "error"
    BY DEF N!Scan
  <2>5. \A label : N!Scan(label, e) \in States \cup {"error"}
    BY DEF N!Scan, States
  <2>6. ASSUME NEW label \in States, N!Label(q) = label PROVE HasShape(label, q)
    <3>1. N!Scan(N!Label(p), e) # "error" /\ N!Label(p) # "error"
      BY <2>3, <2>4, <2>6 DEF States
    <3>2. HasShape(N!Label(p), p)
      BY <2>1, <3>1
    <3>. QED  BY <2>1, <2>3, <2>6, <3>1, <3>2, Grows
  <2>7. ASSUME NEW label \in States, HasShape(label, q) PROVE N!Label(q) = label
    <3>1. PICK old : HasShape(old, p) /\ N!Scan(old, e) = label
      BY <2>1, <2>7, Shrinks
    <3>2. N!Label(p) = old
      BY <2>1, <3>1 DEF HasShape
    <3>. QED  BY <2>3, <3>1, <3>2
  <2>8. Right(q)
    BY <2>3, <2>5, <2>6, <2>7
  <2>. QED  BY <2>2, <2>8
<1>3. T \in SUBSET Seq(Byte)
  OBVIOUS
<1>. HIDE DEF T
<1>4. \A q \in Seq(Byte) : q \in T
  BY <1>1, <1>2, <1>3, SequenceInduction DEF none
<1>. QED  BY <1>4 DEF T

(* The grammar speaks of SubSeq, the shapes of places: they agree.         *)
IsPiece(s, t, a, b) ==
  s \in Seq(Byte) /\ Len(s) = b - a /\ \A m \in 1..b - a : s[m] = t[a + m]

LEMMA PieceOf ==
  ASSUME NEW t \in Seq(Byte), NEW a \in Nat, NEW b \in Nat, a <= b, b <= Len(t)
  PROVE  IsPiece(SubSeq(t, a + 1, b), t, a, b)
<1>1. Len(t) \in Nat
  BY LenProperties
<1>2. SubSeq(t, a + 1, b) \in Seq(Byte)
  BY <1>1, SubSeqProperties
<1>3. Len(SubSeq(t, a + 1, b)) = b - a
  BY <1>1, SubSeqProperties
<1>4. \A m \in 1..b - a : SubSeq(t, a + 1, b)[m] = t[a + m]
  BY <1>1, SubSeqProperties
<1>. QED  BY <1>2, <1>3, <1>4 DEF IsPiece

LEMMA PieceParts ==
  ASSUME NEW s, NEW t, NEW a \in Nat, NEW b \in Nat, a <= b, IsPiece(s, t, a, b)
  PROVE  /\ s = <<>> <=> a = b
         /\ a < b => s[1] = t[a + 1] /\ IsPiece(Tail(s), t, a + 1, b)
         /\ N!AreDigits(s) <=> a < b /\ AllDigits(t, a + 1, b)
<1>1. /\ s \in Seq(Byte) /\ Len(s) = b - a /\ DOMAIN s = 1..b - a
      /\ \A m \in 1..b - a : s[m] = t[a + m]
  BY LenProperties DEF IsPiece
<1>2. s = <<>> <=> a = b
  BY <1>1
<1>3. a < b => s[1] = t[a + 1]
  BY <1>1
<1>4. ASSUME a < b PROVE IsPiece(Tail(s), t, a + 1, b)
  <2>1. s # <<>>
    BY <1>2, <1>4
  <2>2. /\ Tail(s) \in Seq(Byte) /\ Len(Tail(s)) = Len(s) - 1
        /\ \A m \in 1..Len(s) - 1 : Tail(s)[m] = s[m + 1]
    BY <1>1, <2>1, HeadTailProperties
  <2>3. ASSUME NEW m \in 1..b - (a + 1) PROVE Tail(s)[m] = t[(a + 1) + m]
    <3>1. m \in 1..Len(s) - 1 /\ m + 1 \in 1..b - a /\ a + (m + 1) = (a + 1) + m
      BY <1>1
    <3>2. Tail(s)[m] = s[m + 1]
      BY <2>2, <3>1
    <3>3. s[m + 1] = t[a + (m + 1)]
      BY <1>1, <3>1
    <3>. QED  BY <3>1, <3>2, <3>3
  <2>4. Len(Tail(s)) = b - (a + 1)
    BY <1>1, <2>2
  <2>. QED  BY <2>2, <2>3, <2>4 DEF IsPiece
<1>5. ASSUME N!AreDigits(s) PROVE a < b /\ AllDigits(t, a + 1, b)
  <2>1. s # <<>> /\ \A m \in 1..b - a : s[m] \in N!Digit
    BY <1>1, <1>5 DEF N!AreDigits
  <2>2. ASSUME NEW m \in a + 1..b PROVE t[m] \in N!Digit
    <3>1. m - a \in 1..b - a /\ a + (m - a) = m
      OBVIOUS
    <3>2. s[m - a] \in N!Digit /\ s[m - a] = t[a + (m - a)]
      BY <1>1, <2>1, <3>1
    <3>. QED  BY <3>1, <3>2
  <2>. QED  BY <1>2, <2>1, <2>2 DEF AllDigits
<1>6. ASSUME a < b, AllDigits(t, a + 1, b) PROVE N!AreDigits(s)
  <2>1. ASSUME NEW m \in 1..b - a PROVE s[m] \in N!Digit
    <3>1. a + m \in a + 1..b
      OBVIOUS
    <3>. QED  BY <1>1, <1>6, <3>1 DEF AllDigits
  <2>. QED  BY <1>1, <1>2, <1>6, <2>1 DEF N!AreDigits
<1>. QED  BY <1>2, <1>3, <1>4, <1>5, <1>6

LEMMA WholePiece ==
  ASSUME NEW t \in Seq(Byte), NEW i \in Nat, NEW j \in Nat, i <= j, j <= Len(t)
  PROVE  N!IsWhole(SubSeq(t, i + 1, j)) <=> Whole(t, i, j)
<1>. DEFINE s == SubSeq(t, i + 1, j)
<1>1. IsPiece(s, t, i, j)
  BY PieceOf
<1>. HIDE DEF s
<1>2. /\ i < j => s[1] = t[i + 1]
      /\ N!AreDigits(s) <=> i < j /\ AllDigits(t, i + 1, j)
  BY <1>1, PieceParts
<1>3. Len(s) = j - i
  BY <1>1 DEF IsPiece
<1>4. N!IsWhole(s) <=> N!AreDigits(s) /\ (s[1] = 0 => Len(s) = 1)
  BY DEF N!IsWhole
<1>5. CASE i < j /\ AllDigits(t, i + 1, j)
  <2>1. s[1] = t[i + 1] /\ N!AreDigits(s)
    BY <1>2, <1>5
  <2>2. Len(s) = 1 <=> j = i + 1
    BY <1>3
  <2>3. Whole(t, i, j) <=> (t[i + 1] = 0 => j = i + 1)
    BY <1>5 DEF Whole
  <2>. QED  BY <1>4, <2>1, <2>2, <2>3 DEF s
<1>6. CASE ~(i < j /\ AllDigits(t, i + 1, j))
  <2>1. ~N!AreDigits(s)
    BY <1>2, <1>6
  <2>2. ~Whole(t, i, j)
    BY <1>6 DEF Whole
  <2>. QED  BY <1>4, <2>1, <2>2 DEF s
<1>. QED  BY <1>5, <1>6 DEF s

LEMMA FractionPiece ==
  ASSUME NEW t \in Seq(Byte), NEW j \in Nat, NEW k \in Nat, j <= k, k <= Len(t)
  PROVE  N!IsFraction(SubSeq(t, j + 1, k)) <=> Fraction(t, j, k)
<1>. DEFINE s == SubSeq(t, j + 1, k)
<1>0. \A u : \A a, b \in Nat :
        a <= b /\ IsPiece(u, t, a, b) =>
          /\ u = <<>> <=> a = b
          /\ a < b => u[1] = t[a + 1] /\ IsPiece(Tail(u), t, a + 1, b)
          /\ N!AreDigits(u) <=> a < b /\ AllDigits(t, a + 1, b)
  BY PieceParts
<1>1. IsPiece(s, t, j, k)
  BY PieceOf
<1>. HIDE DEF s
<1>2. s = <<>> <=> j = k
  BY <1>1, <1>0
<1>3. CASE j = k
  BY <1>2, <1>3 DEF N!IsFraction, Fraction
<1>4. CASE j < k
  <2>1. s[1] = t[j + 1] /\ IsPiece(Tail(s), t, j + 1, k)
    BY <1>1, <1>4, <1>0
  <2>2. N!AreDigits(Tail(s)) <=> j + 1 < k /\ AllDigits(t, (j + 1) + 1, k)
    <3>1. j + 1 \in Nat /\ j + 1 <= k
      BY <1>4
    <3>. QED  BY <1>0, <2>1, <3>1
  <2>3. (j + 1) + 1 = j + 2 /\ (j + 1 < k <=> j + 2 <= k)
    OBVIOUS
  <2>4. N!IsFraction(s) <=> s[1] = N!Dot /\ N!AreDigits(Tail(s))
    BY <1>2, <1>4 DEF N!IsFraction
  <2>5. Fraction(t, j, k) <=> t[j + 1] = N!Dot /\ j + 2 <= k /\ AllDigits(t, j + 2, k)
    BY <1>4 DEF Fraction
  <2>. QED  BY <2>1, <2>2, <2>3, <2>4, <2>5 DEF s
<1>. QED  BY <1>3, <1>4

Exponent(t, k, n) ==
  k = n \/ \E s \in {k + 1, k + 2} : Marked(t, k, s) /\ s < n /\ AllDigits(t, s + 1, n)

LEMMA ExponentPiece ==
  ASSUME NEW t \in Seq(Byte), NEW k \in Nat, NEW n \in Nat, k <= n, n = Len(t)
  PROVE  N!IsExponent(SubSeq(t, k + 1, n)) <=> Exponent(t, k, n)
<1>. DEFINE s == SubSeq(t, k + 1, n)
<1>0. \A u : \A a, b \in Nat :
        a <= b /\ IsPiece(u, t, a, b) =>
          /\ u = <<>> <=> a = b
          /\ a < b => u[1] = t[a + 1] /\ IsPiece(Tail(u), t, a + 1, b)
          /\ N!AreDigits(u) <=> a < b /\ AllDigits(t, a + 1, b)
  BY PieceParts
<1>1. IsPiece(s, t, k, n)
  BY PieceOf
<1>. HIDE DEF s
<1>2. s = <<>> <=> k = n
  BY <1>1, <1>0
<1>3. CASE k = n
  BY <1>2, <1>3 DEF N!IsExponent, Exponent
<1>4. CASE k < n
  <2>0. Len(s) = n - k
    BY <1>1 DEF IsPiece
  <2>1. s[1] = t[k + 1] /\ IsPiece(Tail(s), t, k + 1, n) /\ Len(s) = n - k
    BY <1>0, <1>1, <1>4, <2>0
  <2>2. N!AreDigits(Tail(s)) <=> k + 1 < n /\ AllDigits(t, (k + 1) + 1, n)
    <3>1. k + 1 \in Nat /\ k + 1 <= n
      BY <1>4
    <3>. QED  BY <1>0, <2>1, <3>1
  <2>3. ASSUME k + 1 < n
        PROVE  /\ s[2] = t[k + 2]
               /\ N!AreDigits(Tail(Tail(s))) <=>
                    k + 2 < n /\ AllDigits(t, (k + 2) + 1, n)
    <3>1. s[2] = t[k + 2]
      <4>1. 2 \in 1..n - k
        BY <2>3
      <4>. QED  BY <1>1, <4>1 DEF IsPiece
    <3>2. (k + 1) + 1 = k + 2
      OBVIOUS
    <3>3. IsPiece(Tail(Tail(s)), t, (k + 1) + 1, n)
      BY <2>1, <2>3, <1>0
    <3>4. IsPiece(Tail(Tail(s)), t, k + 2, n)
      BY <3>2, <3>3
    <3>5. N!AreDigits(Tail(Tail(s))) <=> k + 2 < n /\ AllDigits(t, (k + 2) + 1, n)
      <4>1. k + 2 \in Nat /\ k + 2 <= n
        BY <2>3
      <4>. QED  BY <1>0, <3>4, <4>1
    <3>. QED  BY <3>1, <3>5
  <2>. DEFINE plain == Marked(t, k, k + 1) /\ k + 1 < n /\ AllDigits(t, (k + 1) + 1, n)
              signed == Marked(t, k, k + 2) /\ k + 2 < n /\ AllDigits(t, (k + 2) + 1, n)
  <2>4. Exponent(t, k, n) <=> plain \/ signed
    BY <1>4 DEF Exponent
  <2>5. plain <=> s[1] = N!Exp /\ N!AreDigits(Tail(s))
    BY <2>1, <2>2 DEF Marked
  <2>6. Marked(t, k, k + 2) <=> t[k + 1] = N!Exp /\ t[k + 2] \in {N!Plus, N!Minus}
    BY DEF Marked
  <2>7. signed <=> /\ Len(s) > 1 /\ s[1] = N!Exp /\ s[2] \in {N!Plus, N!Minus}
                   /\ N!AreDigits(Tail(Tail(s)))
    <3>1. CASE k + 1 < n
      <4>1. Len(s) > 1
        BY <2>1, <3>1
      <4>. QED  BY <2>1, <2>3, <2>6, <3>1, <4>1
    <3>2. CASE ~(k + 1 < n)
      <4>1. ~(Len(s) > 1) /\ ~(k + 2 < n)
        BY <2>1, <3>2
      <4>. QED  BY <4>1
    <3>. QED  BY <3>1, <3>2
  <2>. HIDE DEF plain, signed
  <2>. QED  BY <1>2, <1>4, <2>4, <2>5, <2>7 DEF N!IsExponent, s
<1>. QED  BY <1>3, <1>4

(* A number of the grammar is a text with the shape of a label of Ends.    *)
LEMMA GrammarIsShape ==
  ASSUME NEW t \in Seq(Byte)
  PROVE  N!InGrammar(t) <=>
           \E i, j, k \in 0..Len(t) : Mantissa(t, i, j, k) /\ Exponent(t, k, Len(t))
<1>. DEFINE n == Len(t)
            Read(i, j, k) ==
              /\ i <= 1 /\ i <= j /\ j <= k
              /\ i = 1 => t[1] = N!Minus
              /\ N!IsWhole(SubSeq(t, i + 1, j))
              /\ N!IsFraction(SubSeq(t, j + 1, k))
              /\ N!IsExponent(SubSeq(t, k + 1, n))
<1>1. n \in Nat
  OBVIOUS
<1>2. ASSUME NEW i \in 0..n, NEW j \in 0..n, NEW k \in 0..n
      PROVE  Read(i, j, k) <=> Mantissa(t, i, j, k) /\ Exponent(t, k, n)
  <2>1. ASSUME i <= 1, i <= j, j <= k
        PROVE  Read(i, j, k) <=> Mantissa(t, i, j, k) /\ Exponent(t, k, n)
    <3>1. N!IsWhole(SubSeq(t, i + 1, j)) <=> Whole(t, i, j)
      BY <1>1, <2>1, WholePiece
    <3>2. N!IsFraction(SubSeq(t, j + 1, k)) <=> Fraction(t, j, k)
      BY <1>1, <2>1, FractionPiece
    <3>3. N!IsExponent(SubSeq(t, k + 1, n)) <=> Exponent(t, k, n)
      BY <1>1, <2>1, ExponentPiece
    <3>4. (i = 1 => t[1] = N!Minus) <=> Sign(t, i)
      BY <2>1 DEF Sign
    <3>5. Read(i, j, k) <=>
            /\ Sign(t, i)
            /\ Whole(t, i, j)
            /\ Fraction(t, j, k)
            /\ Exponent(t, k, n)
      BY <2>1, <3>1, <3>2, <3>3, <3>4
    <3>. QED  BY <3>5 DEF Mantissa
  <2>2. Mantissa(t, i, j, k) => i <= 1 /\ i <= j /\ j <= k
    <3>1. Agree(t, t, n)
      BY DEF Agree
    <3>. QED  BY <1>1, <3>1, SameMantissa
  <2>3. Read(i, j, k) => i <= 1 /\ i <= j /\ j <= k
    OBVIOUS
  <2>. QED  BY <2>1, <2>2, <2>3
<1>3. N!InGrammar(t) <=> \E i, j, k \in 0..n : Read(i, j, k)
  BY DEF N!InGrammar
<1>. HIDE DEF Read
<1>. QED  BY <1>2, <1>3

(* ReadsTheGrammar for every text: scan_number (json.hpp:6840) accepts the *)
(* numbers of the grammar of JSON, and no others.                          *)
THEOREM LexerReadsNumbers == \A t \in Seq(Byte) : N!ReadsTheGrammar(t)
<1>. SUFFICES ASSUME NEW t \in Seq(Byte) PROVE N!IsNumber(t) <=> N!InGrammar(t)
  BY DEF N!ReadsTheGrammar
<1>. DEFINE n == Len(t)
<1>1. n \in Nat
  OBVIOUS
<1>2. N!IsNumber(t) <=> \E label \in N!Ends : HasShape(label, t)
  <2>1. N!Ends \subseteq States
    BY DEF N!Ends, States
  <2>. QED  BY <2>1, LabelIsShape DEF N!IsNumber
<1>3. ASSUME NEW label \in N!Ends, HasShape(label, t)
      PROVE  \E i, j, k \in 0..n : Mantissa(t, i, j, k) /\ Exponent(t, k, n)
  <2>1. PICK i \in Nat, j \in Nat, k \in Nat : Shape(label, t, i, j, k)
    BY <1>3 DEF HasShape
  <2>2. \A x, y, z \in Nat :
          z <= n /\ Mantissa(t, x, y, z) =>
            x \in 0..n /\ y \in 0..n /\ z \in 0..n
    <3>1. Agree(t, t, n)
      BY DEF Agree
    <3>. QED  BY <1>1, <3>1, SameMantissa
  <2>3. CASE label \in {"zero", "any1", "decimal2"}
    <3>1. Mantissa(t, i, j, n)
      BY <2>1, <2>3 DEF Shape
    <3>2. Exponent(t, n, n)
      BY DEF Exponent
    <3>3. i \in 0..n /\ j \in 0..n /\ n \in 0..n
      BY <1>1, <2>2, <3>1
    <3>. QED  BY <3>1, <3>2, <3>3
  <2>4. CASE label = "any2"
    <3>1. /\ Mantissa(t, i, j, k)
          /\ \E s \in {k + 1, k + 2} :
               Marked(t, k, s) /\ s < n /\ AllDigits(t, s + 1, n)
      BY <2>1, <2>4 DEF Shape
    <3>2. k <= n
      BY <1>1, <3>1
    <3>3. Exponent(t, k, n)
      BY <3>1 DEF Exponent
    <3>4. i \in 0..n /\ j \in 0..n /\ k \in 0..n
      BY <2>2, <3>1, <3>2
    <3>. QED  BY <3>1, <3>3, <3>4
  <2>. QED  BY <2>3, <2>4 DEF N!Ends
<1>4. ASSUME NEW i \in 0..n, NEW j \in 0..n, NEW k \in 0..n,
             Mantissa(t, i, j, k), Exponent(t, k, n)
      PROVE  \E label \in N!Ends : HasShape(label, t)
  <2>1. j <= k
    <3>1. Agree(t, t, n)
      BY DEF Agree
    <3>. QED  BY <1>1, <1>4, <3>1, SameMantissa
  <2>2. CASE k # n
    <3>1. Shape("any2", t, i, j, k)
      BY <1>4, <2>2 DEF Shape, Exponent
    <3>. QED  BY <3>1 DEF HasShape, N!Ends, States
  <2>3. CASE k = n /\ j < n
    <3>1. Shape("decimal2", t, i, j, k)
      BY <1>4, <2>3 DEF Shape
    <3>. QED  BY <3>1 DEF HasShape, N!Ends, States
  <2>4. CASE k = n /\ j = n
    <3>. DEFINE label == IF t[i + 1] = 0 THEN "zero" ELSE "any1"
    <3>1. Shape(label, t, i, j, k)
      BY <1>4, <2>4 DEF Shape
    <3>2. label \in N!Ends /\ label \in States
      BY DEF N!Ends, States
    <3>. HIDE DEF label
    <3>. QED  BY <3>1, <3>2 DEF HasShape
  <2>. QED  BY <2>1, <2>2, <2>3, <2>4
<1>. QED  BY <1>2, <1>3, <1>4, GrammarIsShape

-----------------------------------------------------------------------------
(* dump_integer.                                                           *)

(* The function that Digits chooses is there, and there is one only, so    *)
(* that the loop of the code has the equations one expects of it.          *)
Cut(g, k) ==
  CASE k >= 100 -> g[k \div 100] \o <<(k % 100) \div 10, k % 10>>
    [] k \in 10..99 -> <<k \div 10, k % 10>>
    [] OTHER -> <<k>>

Divides(g, n) == g = [k \in 0..n |-> Cut(g, k)]

LEMMA DividesExists == ASSUME NEW n \in Nat PROVE \E g : Divides(g, n)
<1>. DEFINE K == {m \in Nat : \E g : Divides(g, m)}
<1>1. 0 \in K
  <2>. DEFINE g == [k \in 0..0 |-> <<k>>]
  <2>1. \A k \in 0..0 : Cut(g, k) = <<k>>
    BY DEF Cut
  <2>2. Divides(g, 0)
    BY <2>1 DEF Divides
  <2>. QED  BY <2>2
<1>2. ASSUME NEW m \in K PROVE m + 1 \in K
  <2>1. PICK f : Divides(f, m)
    OBVIOUS
  <2>2. m \in Nat
    OBVIOUS
  <2>. HIDE DEF K
  <2>. DEFINE g == [k \in 0..m + 1 |-> IF k = m + 1 THEN Cut(f, k) ELSE f[k]]
  <2>3. \A k \in 0..m : g[k] = f[k] /\ f[k] = Cut(f, k)
    BY <2>1, <2>2 DEF Divides
  <2>4. g[m + 1] = Cut(f, m + 1)
    BY <2>2
  <2>5. g = [k \in 0..m + 1 |-> g[k]]
    OBVIOUS
  <2>. HIDE DEF g
  <2>6. ASSUME NEW k \in 0..m + 1 PROVE g[k] = Cut(g, k)
    <3>1. g[k] = Cut(f, k)
      BY <2>2, <2>3, <2>4
    <3>2. k >= 100 => k \div 100 \in 0..m
      BY <2>2
    <3>3. k >= 100 => g[k \div 100] = f[k \div 100]
      BY <2>3, <3>2
    <3>4. Cut(g, k) = Cut(f, k)
      <4>1. CASE k >= 100  BY <3>3, <4>1 DEF Cut
      <4>2. CASE ~(k >= 100)  BY <4>2 DEF Cut
      <4>. QED  BY <4>1, <4>2
    <3>. QED  BY <3>1, <3>4
  <2>7. Divides(g, m + 1)
    <3>1. [k \in 0..m + 1 |-> g[k]] = [k \in 0..m + 1 |-> Cut(g, k)]
      BY <2>6
    <3>. QED  BY <2>5, <3>1 DEF Divides
  <2>. QED  BY <2>2, <2>7 DEF K
<1>3. K \in SUBSET Nat
  OBVIOUS
<1>. HIDE DEF K
<1>4. n \in K
  BY <1>1, <1>2, <1>3, SetInduction
<1>. QED  BY <1>4 DEF K

LEMMA DividesSame ==
  ASSUME NEW n \in Nat, NEW m \in Nat, m <= n, NEW f, NEW g,
         Divides(f, n), Divides(g, m)
  PROVE  f[m] = g[m]
<1>. DEFINE D == {k \in 0..m : f[k] # g[k]}
<1>. SUFFICES ASSUME D # {} PROVE FALSE
  OBVIOUS
<1>1. D \in SUBSET Nat
  OBVIOUS
<1>2. PICK k \in D : \A x \in D : k <= x
  BY <1>1, LeastNumber
<1>3. k \in 0..m /\ f[k] # g[k]
  OBVIOUS
<1>4. k >= 100 => f[k \div 100] = g[k \div 100]
  <2>. SUFFICES ASSUME k >= 100 PROVE f[k \div 100] = g[k \div 100]
    OBVIOUS
  <2>1. k \div 100 \in 0..m /\ ~(k <= k \div 100)
    BY <1>3
  <2>. QED  BY <1>2, <2>1
<1>. HIDE DEF D
<1>5. f[k] = Cut(f, k) /\ g[k] = Cut(g, k)
  <2>1. k \in 0..n
    BY <1>3
  <2>. QED  BY <1>3, <2>1 DEF Divides
<1>6. Cut(f, k) = Cut(g, k)
  <2>1. CASE k >= 100  BY <1>4, <2>1 DEF Cut
  <2>2. CASE ~(k >= 100)  BY <2>2 DEF Cut
  <2>. QED  BY <2>1, <2>2
<1>. QED  BY <1>3, <1>5, <1>6

LEMMA DigitsDivides ==
  ASSUME NEW n \in Nat
  PROVE  \E g : Divides(g, n) /\ N!Digits(n) = g[n]
<1>. DEFINE g == CHOOSE g : Divides(g, n)
<1>1. N!Digits(n) = g[n]
  BY DEF N!Digits, Divides, Cut
<1>2. Divides(g, n)
  BY DividesExists
<1>. HIDE DEF g
<1>. QED  BY <1>1, <1>2

(* The equations of dump_integer.                                          *)
LEMMA DumpedDigits ==
  ASSUME NEW n \in Nat
  PROVE  /\ n < 10 => N!Digits(n) = <<n>>
         /\ n \in 10..99 => N!Digits(n) = <<n \div 10, n % 10>>
         /\ n >= 100 => N!Digits(n) = N!Digits(n \div 100)
                                        \o <<(n % 100) \div 10, n % 10>>
<1>1. PICK g : Divides(g, n) /\ N!Digits(n) = g[n]
  BY DigitsDivides
<1>2. N!Digits(n) = Cut(g, n)
  BY <1>1 DEF Divides
<1>3. ASSUME n >= 100 PROVE g[n \div 100] = N!Digits(n \div 100)
  <2>. DEFINE m == n \div 100
  <2>1. m \in Nat /\ m <= n
    BY <1>3
  <2>. HIDE DEF m
  <2>2. PICK f : Divides(f, m) /\ N!Digits(m) = f[m]
    BY <2>1, DigitsDivides
  <2>3. g[m] = f[m]
    BY <1>1, <2>1, <2>2, DividesSame
  <2>. QED  BY <2>2, <2>3 DEF m
<1>4. ASSUME n < 10 PROVE N!Digits(n) = <<n>>
  <2>1. ~(n >= 100) /\ n \notin 10..99
    BY <1>4
  <2>. QED  BY <1>2, <2>1, Zenon DEF Cut
<1>5. ASSUME n \in 10..99 PROVE N!Digits(n) = <<n \div 10, n % 10>>
  <2>1. ~(n >= 100)
    BY <1>5
  <2>. QED  BY <1>2, <1>5, <2>1, Zenon DEF Cut
<1>6. ASSUME n >= 100
      PROVE  N!Digits(n) = N!Digits(n \div 100) \o <<(n % 100) \div 10, n % 10>>
  <2>1. n \notin 10..99
    BY <1>6
  <2>2. Cut(g, n) = g[n \div 100] \o <<(n % 100) \div 10, n % 10>>
    BY <1>6, <2>1, Zenon DEF Cut
  <2>. QED  BY <1>2, <1>3, <1>6, <2>2
<1>. QED  BY <1>4, <1>5, <1>6

(* The digits d spell n, and no zero stands before them.                   *)
IsDecimal(d, n) ==
  /\ d \in Seq(N!Digit)
  /\ d # <<>>
  /\ N!Spelled(d) = n
  /\ d[1] = 0 => n = 0 /\ d = <<0>>

LEMMA DigitsAreBytes == \A d \in Seq(N!Digit) : d \in Seq(Byte)
  BY DEF N!Digit, Byte

(* Digits that are written behind others, and those they begin with.       *)
LEMMA AddDigit ==
  ASSUME NEW d, NEW n \in Nat \ {0}, NEW c \in N!Digit, IsDecimal(d, n)
  PROVE  IsDecimal(Append(d, c), 10 * n + c)
<1>1. d \in Seq(N!Digit) /\ d # <<>> /\ N!Spelled(d) = n /\ d[1] # 0
  BY DEF IsDecimal
<1>2. d \in Seq(Byte) /\ c \in Byte
  BY <1>1, DigitsAreBytes DEF N!Digit, Byte
<1>3. N!Spelled(Append(d, c)) = 10 * n + c
  BY <1>1, <1>2, SpelledAppend
<1>4. /\ Append(d, c) \in Seq(N!Digit)
      /\ Append(d, c)[1] = d[1]
      /\ Append(d, c) # <<>>
  BY <1>1
<1>. QED  BY <1>1, <1>3, <1>4 DEF IsDecimal

LEMMA OneDigit == ASSUME NEW c \in N!Digit PROVE IsDecimal(<<c>>, c)
<1>. DEFINE none == <<>>
            d == Append(none, c)
<1>1. none \in Seq(Byte) /\ c \in Byte
  BY DEF N!Digit, Byte
<1>2. N!Spelled(d) = 10 * N!Spelled(none) + c
  BY <1>1, SpelledAppend
<1>3. N!Spelled(none) = 0
  BY NothingRead
<1>4. <<c>> = d
  OBVIOUS
<1>5. c \in Nat
  BY DEF N!Digit
<1>. HIDE DEF d, none
<1>6. N!Spelled(<<c>>) = c
  BY <1>2, <1>3, <1>4, <1>5
<1>7. <<c>> \in Seq(N!Digit) /\ <<c>> # <<>> /\ <<c>>[1] = c
  OBVIOUS
<1>. QED  BY <1>6, <1>7 DEF IsDecimal

(* dump_integer (json.hpp:16131) writes the digits of its number.          *)
LEMMA DumpedIsDecimal == \A n \in Nat : IsDecimal(N!Digits(n), n)
<1>. DEFINE D == {n \in Nat : ~IsDecimal(N!Digits(n), n)}
<1>. SUFFICES ASSUME D # {} PROVE FALSE
  OBVIOUS
<1>1. D \in SUBSET Nat
  OBVIOUS
<1>2. PICK n \in D : \A m \in D : n <= m
  BY <1>1, LeastNumber
<1>3. /\ n \in Nat /\ ~IsDecimal(N!Digits(n), n)
      /\ \A m \in Nat : m < n => IsDecimal(N!Digits(m), m)
  BY <1>2
<1>. HIDE DEF D
<1>4. CASE n < 10
  <2>1. n \in N!Digit
    BY <1>3, <1>4 DEF N!Digit
  <2>2. N!Digits(n) = <<n>>
    BY <1>3, <1>4, DumpedDigits
  <2>. QED  BY <1>3, <2>1, <2>2, OneDigit
<1>5. CASE n \in 10..99
  <2>. DEFINE a == n \div 10
              b == n % 10
  <2>1. a \in N!Digit /\ a # 0 /\ b \in N!Digit /\ 10 * a + b = n
    BY <1>5 DEF N!Digit
  <2>2. N!Digits(n) = <<a, b>>
    BY <1>3, <1>5, DumpedDigits
  <2>. HIDE DEF a, b
  <2>3. <<a, b>> = Append(<<a>>, b)
    OBVIOUS
  <2>4. IsDecimal(<<a>>, a) /\ a \in Nat \ {0}
    BY <2>1, OneDigit DEF N!Digit
  <2>5. IsDecimal(Append(<<a>>, b), 10 * a + b)
    BY <2>1, <2>4, AddDigit
  <2>. QED  BY <1>3, <2>1, <2>2, <2>3, <2>5
<1>6. CASE n >= 100
  <2>. DEFINE m == n \div 100
              a == (n % 100) \div 10
              b == n % 10
              d == N!Digits(m)
  <2>1. /\ m \in Nat \ {0} /\ m < n
        /\ a \in N!Digit /\ b \in N!Digit /\ 10 * (10 * m + a) + b = n
    BY <1>3, <1>6 DEF N!Digit
  <2>2. N!Digits(n) = d \o <<a, b>>
    BY <1>3, <1>6, DumpedDigits
  <2>3. IsDecimal(d, m)
    BY <1>3, <2>1
  <2>. HIDE DEF m, a, b, d
  <2>4. d \in Seq(N!Digit)
    BY <2>3 DEF IsDecimal
  <2>5. d \o <<a, b>> = Append(Append(d, a), b)
    BY <2>1, <2>4
  <2>6. IsDecimal(Append(d, a), 10 * m + a)
    BY <2>1, <2>3, AddDigit
  <2>7. 10 * m + a \in Nat \ {0}
    BY <2>1 DEF N!Digit
  <2>8. IsDecimal(Append(Append(d, a), b), 10 * (10 * m + a) + b)
    BY <2>1, <2>6, <2>7, AddDigit
  <2>. QED  BY <1>3, <2>1, <2>2, <2>5, <2>8
<1>. QED  BY <1>3, <1>4, <1>5, <1>6

(* What is written is read as an integer.                                  *)
LEMMA WholeIsIntegral ==
  ASSUME NEW q \in Seq(Byte), NEW i \in {0, 1}, Sign(q, i), Whole(q, i, Len(q))
  PROVE  N!IsNumber(q) /\ N!Integral(q)
<1>. DEFINE label == IF q[i + 1] = 0 THEN "zero" ELSE "any1"
            n == Len(q)
<1>1. n \in Nat
  OBVIOUS
<1>2. Mantissa(q, i, n, n)
  BY DEF Mantissa, Fraction
<1>3. Shape(label, q, i, n, n)
  BY <1>2 DEF Shape
<1>4. label \in {"zero", "any1"} /\ label \in States
  BY DEF States
<1>. HIDE DEF label
<1>5. HasShape(label, q)
  BY <1>1, <1>3, <1>4 DEF HasShape
<1>6. N!Label(q) = label
  BY <1>4, <1>5, LabelIsShape
<1>. QED  BY <1>4, <1>6 DEF N!IsNumber, N!Integral, N!Ends

LEMMA DecimalRead ==
  ASSUME NEW d, NEW n \in Nat, IsDecimal(d, n)
  PROVE  /\ N!IsNumber(d) /\ N!Integral(d) /\ d[1] # N!Minus /\ N!Integer(d) = n
         /\ n # 0 => LET q == <<N!Minus>> \o d
                     IN  /\ N!IsNumber(q) /\ N!Integral(q)
                         /\ q[1] = N!Minus /\ N!Integer(q) = -n
<1>1. /\ d \in Seq(N!Digit) /\ d # <<>> /\ N!Spelled(d) = n
      /\ d[1] = 0 => n = 0 /\ d = <<0>>
  BY DEF IsDecimal
<1>2. /\ d \in Seq(Byte) /\ Len(d) \in Nat /\ Len(d) > 0
      /\ \A m \in 1..Len(d) : d[m] \in N!Digit
  BY <1>1, DigitsAreBytes
<1>3. d[1] # N!Minus
  BY <1>2 DEF N!Digit, N!Minus
<1>4. N!Integer(d) = n
  BY <1>1, <1>3 DEF N!Integer
<1>5. N!IsNumber(d) /\ N!Integral(d)
  <2>1. d[1] = 0 => Len(d) = 1
    BY <1>1
  <2>2. Whole(d, 0, Len(d))
    BY <1>2, <2>1 DEF Whole, AllDigits
  <2>3. Sign(d, 0)
    BY DEF Sign
  <2>. QED  BY <1>2, <2>2, <2>3, WholeIsIntegral
<1>6. ASSUME n # 0
      PROVE  LET q == <<N!Minus>> \o d
             IN  /\ N!IsNumber(q) /\ N!Integral(q)
                 /\ q[1] = N!Minus /\ N!Integer(q) = -n
  <2>. DEFINE q == <<N!Minus>> \o d
  <2>1. N!Minus \in Byte
    BY DEF N!Minus, Byte
  <2>2. /\ q \in Seq(Byte) /\ Len(q) = 1 + Len(d) /\ q[1] = N!Minus
        /\ \A m \in 1..Len(d) : q[m + 1] = d[m]
    BY <1>2, <2>1
  <2>3. Tail(q) = d
    BY <1>2, <2>1
  <2>. HIDE DEF q
  <2>4. N!Integer(q) = -n
    BY <1>1, <2>2, <2>3 DEF N!Integer
  <2>5. ASSUME NEW m \in 2..Len(q) PROVE q[m] \in N!Digit
    <3>1. m - 1 \in 1..Len(d) /\ (m - 1) + 1 = m
      BY <1>2, <2>2
    <3>2. q[(m - 1) + 1] = d[m - 1] /\ d[m - 1] \in N!Digit
      BY <1>2, <2>2, <3>1
    <3>. QED  BY <3>1, <3>2
  <2>6. q[2] # 0
    <3>1. 1 \in 1..Len(d) /\ 1 + 1 = 2
      BY <1>2
    <3>2. q[2] = d[1]
      BY <2>2, <3>1
    <3>. QED  BY <1>1, <1>6, <3>2
  <2>7. Whole(q, 1, Len(q))
    BY <1>2, <2>2, <2>5, <2>6 DEF Whole, AllDigits
  <2>8. Sign(q, 1)
    BY <2>2 DEF Sign
  <2>9. N!IsNumber(q) /\ N!Integral(q)
    BY <2>2, <2>7, <2>8, WholeIsIntegral
  <2>. QED  BY <2>2, <2>4, <2>9 DEF q
<1>. QED  BY <1>3, <1>4, <1>5, <1>6

(* The conversion keeps what is in the range of an int, whatever bits it   *)
(* cuts off from the others.                                               *)
LEMMA Remainder ==
  ASSUME NEW x \in Int, NEW m \in Nat \ {0}
  PROVE  x % m \in 0..m - 1 /\ (x \in 0..m - 1 => x % m = x)
  BY SMT

LEMMA ConversionToInt ==
  ASSUME NEW n \in Int
  PROVE  N!GetInt(n) \in N!Ints /\ (n \in N!Ints => N!GetInt(n) = n)
<1>1. Narrow \in Nat \ {0}
  BY TextsAssumption
<1>. DEFINE x == n + Narrow
            m == 2 * Narrow
<1>2. x \in Int /\ m \in Nat \ {0}
  BY <1>1
<1>3. x % m \in 0..m - 1 /\ (x \in 0..m - 1 => x % m = x)
  BY <1>2, Remainder
<1>. DEFINE r == x % m
<1>4. N!GetInt(n) = r - Narrow
  BY DEF N!GetInt
<1>. HIDE DEF r
<1>5. n \in N!Ints => x \in 0..m - 1
  BY <1>1 DEF N!Ints
<1>6. r - Narrow \in N!Ints
  BY <1>1, <1>3 DEF N!Ints, r
<1>7. n \in N!Ints => r - Narrow = n
  BY <1>1, <1>3, <1>5 DEF r
<1>. QED  BY <1>4, <1>6, <1>7

(* An integer that was read, whatever its spelling, is written as a text   *)
(* that is read as the same integer, with the least and the greatest one   *)
(* of any width; and every int survives the conversion.                    *)
(* DumpReadsBack for every text: an integer that scan_number takes is      *)
(* written by dump_integer (json.hpp:16131), the least one by way of       *)
(* remove_sign, as a text that is read as the same integer; and get<int>   *)
(* (json.hpp:3696) keeps those of an int.                                  *)
THEOREM IntegersReadBack == \A t \in Seq(Byte) : N!DumpReadsBack(t)
<1>. SUFFICES ASSUME NEW t \in Seq(Byte), N!Kind(t) = "integer"
              PROVE  LET n == N!Integer(t)
                     IN  /\ N!Kind(N!Dump(n)) = "integer"
                         /\ N!Integer(N!Dump(n)) = n
                         /\ N!GetInt(n) \in N!Ints
                         /\ n \in N!Ints => N!GetInt(n) = n
  BY DEF N!DumpReadsBack
<1>. DEFINE n == N!Integer(t)
<1>1. Wide \in Nat \ {0}
  BY TextsAssumption
<1>2. N!Fits(t)
  BY DEF N!Kind
<1>3. n \in N!Signed \/ n \in N!Unsigned
  BY <1>2 DEF N!Fits
<1>. HIDE DEF n
<1>4. /\ n \in Int
      /\ n < 0 => n \in N!Signed
      /\ n >= 0 => n \in N!Unsigned
  BY <1>1, <1>3 DEF N!Signed, N!Unsigned
<1>5. ASSUME NEW q, N!IsNumber(q), N!Integral(q), N!Fits(q)
      PROVE  N!Kind(q) = "integer"
  BY <1>5 DEF N!Kind
<1>6. CASE n >= 0
  <2>. DEFINE d == N!Digits(n)
  <2>1. N!Dump(n) = d
    BY <1>4, <1>6 DEF N!Dump
  <2>2. IsDecimal(d, n) /\ n \in Nat
    BY <1>4, <1>6, DumpedIsDecimal
  <2>. HIDE DEF d
  <2>3. N!IsNumber(d) /\ N!Integral(d) /\ d[1] # N!Minus /\ N!Integer(d) = n
    BY <2>2, DecimalRead
  <2>4. N!Fits(d)
    BY <1>4, <1>6, <2>3 DEF N!Fits
  <2>. QED  BY <1>4, <1>5, <2>1, <2>3, <2>4, ConversionToInt DEF n
<1>7. CASE n < 0
  <2>. DEFINE d == N!Digits(-n)
              q == <<N!Minus>> \o d
  <2>1. N!Dump(n) = q
    <3>1. N!Absolute(n) = -n
      BY <1>4 DEF N!Absolute
    <3>. QED  BY <1>7, <3>1 DEF N!Dump
  <2>2. IsDecimal(d, -n) /\ -n \in Nat \ {0} /\ -(-n) = n
    BY <1>4, <1>7, DumpedIsDecimal
  <2>. HIDE DEF d
  <2>3. N!IsNumber(q) /\ N!Integral(q) /\ q[1] = N!Minus /\ N!Integer(q) = n
    BY <2>2, DecimalRead
  <2>. HIDE DEF q
  <2>4. N!Fits(q)
    BY <1>4, <1>7, <2>3 DEF N!Fits
  <2>. QED  BY <1>4, <1>5, <2>1, <2>3, <2>4, ConversionToInt DEF n
<1>. QED  BY <1>4, <1>6, <1>7

-----------------------------------------------------------------------------
(* Base64 again: the bits in between.                                      *)

(* Each bit of the four characters of a group is one of its three bytes.   *)
LEMMA GroupBits ==
  ASSUME NEW x \in Byte, NEW y \in Byte, NEW z \in Byte
  PROVE
    /\ B!Bit(x \div 4, 5) = B!Bit(x, 7)
    /\ B!Bit(x \div 4, 4) = B!Bit(x, 6)
    /\ B!Bit(x \div 4, 3) = B!Bit(x, 5)
    /\ B!Bit(x \div 4, 2) = B!Bit(x, 4)
    /\ B!Bit(x \div 4, 1) = B!Bit(x, 3)
    /\ B!Bit(x \div 4, 0) = B!Bit(x, 2)
    /\ B!Bit(B!Second(x, y), 5) = B!Bit(x, 1)
    /\ B!Bit(B!Second(x, y), 4) = B!Bit(x, 0)
    /\ B!Bit(B!Second(x, y), 3) = B!Bit(y, 7)
    /\ B!Bit(B!Second(x, y), 2) = B!Bit(y, 6)
    /\ B!Bit(B!Second(x, y), 1) = B!Bit(y, 5)
    /\ B!Bit(B!Second(x, y), 0) = B!Bit(y, 4)
    /\ B!Bit((y % 16) * 4 + z \div 64, 5) = B!Bit(y, 3)
    /\ B!Bit((y % 16) * 4 + z \div 64, 4) = B!Bit(y, 2)
    /\ B!Bit((y % 16) * 4 + z \div 64, 3) = B!Bit(y, 1)
    /\ B!Bit((y % 16) * 4 + z \div 64, 2) = B!Bit(y, 0)
    /\ B!Bit((y % 16) * 4 + z \div 64, 1) = B!Bit(z, 7)
    /\ B!Bit((y % 16) * 4 + z \div 64, 0) = B!Bit(z, 6)
    /\ B!Bit(z % 64, 5) = B!Bit(z, 5)
    /\ B!Bit(z % 64, 4) = B!Bit(z, 4)
    /\ B!Bit(z % 64, 3) = B!Bit(z, 3)
    /\ B!Bit(z % 64, 2) = B!Bit(z, 2)
    /\ B!Bit(z % 64, 1) = B!Bit(z, 1)
    /\ B!Bit(z % 64, 0) = B!Bit(z, 0)
<1>1. B!Bit(x \div 4, 5) = B!Bit(x, 7)
  BY SMT DEF B!Bit, B!Weight, Byte
<1>2. B!Bit(x \div 4, 4) = B!Bit(x, 6)
  BY SMT DEF B!Bit, B!Weight, Byte
<1>3. B!Bit(x \div 4, 3) = B!Bit(x, 5)
  BY SMT DEF B!Bit, B!Weight, Byte
<1>4. B!Bit(x \div 4, 2) = B!Bit(x, 4)
  BY SMT DEF B!Bit, B!Weight, Byte
<1>5. B!Bit(x \div 4, 1) = B!Bit(x, 3)
  BY SMT DEF B!Bit, B!Weight, Byte
<1>6. B!Bit(x \div 4, 0) = B!Bit(x, 2)
  BY SMT DEF B!Bit, B!Weight, Byte
<1>7. B!Bit(B!Second(x, y), 5) = B!Bit(x, 1)
  BY SMT DEF B!Bit, B!Weight, Byte, B!Second
<1>8. B!Bit(B!Second(x, y), 4) = B!Bit(x, 0)
  BY SMT DEF B!Bit, B!Weight, Byte, B!Second
<1>9. B!Bit(B!Second(x, y), 3) = B!Bit(y, 7)
  BY SMT DEF B!Bit, B!Weight, Byte, B!Second
<1>10. B!Bit(B!Second(x, y), 2) = B!Bit(y, 6)
  BY SMT DEF B!Bit, B!Weight, Byte, B!Second
<1>11. B!Bit(B!Second(x, y), 1) = B!Bit(y, 5)
  BY SMT DEF B!Bit, B!Weight, Byte, B!Second
<1>12. B!Bit(B!Second(x, y), 0) = B!Bit(y, 4)
  BY SMT DEF B!Bit, B!Weight, Byte, B!Second
<1>13. B!Bit((y % 16) * 4 + z \div 64, 5) = B!Bit(y, 3)
  BY SMT DEF B!Bit, B!Weight, Byte
<1>14. B!Bit((y % 16) * 4 + z \div 64, 4) = B!Bit(y, 2)
  BY SMT DEF B!Bit, B!Weight, Byte
<1>15. B!Bit((y % 16) * 4 + z \div 64, 3) = B!Bit(y, 1)
  BY SMT DEF B!Bit, B!Weight, Byte
<1>16. B!Bit((y % 16) * 4 + z \div 64, 2) = B!Bit(y, 0)
  BY SMT DEF B!Bit, B!Weight, Byte
<1>17. B!Bit((y % 16) * 4 + z \div 64, 1) = B!Bit(z, 7)
  BY SMT DEF B!Bit, B!Weight, Byte
<1>18. B!Bit((y % 16) * 4 + z \div 64, 0) = B!Bit(z, 6)
  BY SMT DEF B!Bit, B!Weight, Byte
<1>19. B!Bit(z % 64, 5) = B!Bit(z, 5)
  BY SMT DEF B!Bit, B!Weight, Byte
<1>20. B!Bit(z % 64, 4) = B!Bit(z, 4)
  BY SMT DEF B!Bit, B!Weight, Byte
<1>21. B!Bit(z % 64, 3) = B!Bit(z, 3)
  BY SMT DEF B!Bit, B!Weight, Byte
<1>22. B!Bit(z % 64, 2) = B!Bit(z, 2)
  BY SMT DEF B!Bit, B!Weight, Byte
<1>23. B!Bit(z % 64, 1) = B!Bit(z, 1)
  BY SMT DEF B!Bit, B!Weight, Byte
<1>24. B!Bit(z % 64, 0) = B!Bit(z, 0)
  BY SMT DEF B!Bit, B!Weight, Byte
<1>. QED  BY <1>1, <1>2, <1>3, <1>4, <1>5, <1>6, <1>7, <1>8, <1>9, <1>10,
             <1>11, <1>12, <1>13, <1>14, <1>15, <1>16, <1>17, <1>18, <1>19,
             <1>20, <1>21, <1>22, <1>23, <1>24

(* SpellsTheBits for every block: the characters of Encode are the bits of *)
(* its bytes, six at a time, and zeros behind them (base64.cc).            *)
THEOREM EncodeSpellsBits == \A b \in Seq(Byte) : B!SpellsTheBits(b)
<1>. SUFFICES ASSUME NEW b \in Seq(Byte), NEW p \in 0..6 * B!Filled(Len(b)) - 1
              PROVE  B!BitOfText(B!Encode(b), p) = B!BitOfBytes(b, p)
  BY DEF B!SpellsTheBits
<1>. DEFINE n == Len(b)
            g == p \div 24
            s == p % 24
            i == p \div 6 + 1
            k == 3 * g + 1
            x == B!ByteOf(b, k)
            y == B!ByteOf(b, k + 1)
            z == B!ByteOf(b, k + 2)
            char == B!Sextet(b, k, s \div 6)
            byte == B!ByteOf(b, k + s \div 8)
<1>1. n \in Nat /\ B!Filled(n) \in Nat /\ B!Filled(n) <= 4 * ((n + 2) \div 3)
  BY DEF B!Filled
<1>2. p \in Nat /\ p < 6 * B!Filled(n)
  BY <1>1
<1>3. /\ g \in Nat /\ k \in Nat \ {0} /\ s \in 0..23
      /\ p = 24 * g + s
  BY <1>2
<1>4. /\ p \div 6 = 4 * g + s \div 6 /\ p % 6 = s % 6
      /\ p \div 8 = 3 * g + s \div 8 /\ p % 8 = s % 8
      /\ (p \div 6) \div 4 = g /\ (p \div 6) % 4 = s \div 6
  BY <1>2
<1>5. i \in 1..B!Filled(n) /\ i \in 1..4 * ((n + 2) \div 3)
  BY <1>1, <1>2
<1>6. B!Encode(b)[i] = B!Sextet(b, 3 * ((i - 1) \div 4) + 1, (i - 1) % 4)
  BY <1>5 DEF B!Encode
<1>7. i - 1 = p \div 6 /\ 3 * g + s \div 8 + 1 = k + s \div 8
  BY <1>2, <1>3
<1>8. B!Encode(b)[i] = char
  BY <1>4, <1>6, <1>7
<1>9. B!BitOfText(B!Encode(b), p) = B!Bit(char, 5 - (s % 6))
  BY <1>4, <1>8 DEF B!BitOfText
<1>10. B!BitOfBytes(b, p) = B!Bit(byte, 7 - (s % 8))
  BY <1>4, <1>7 DEF B!BitOfBytes
<1>11. x \in Byte /\ y \in Byte /\ z \in Byte
  BY <1>3, ByteOfType
<1>12. /\ s \div 6 = 0 => char = x \div 4
       /\ s \div 6 = 1 => char = B!Second(x, y)
       /\ s \div 6 = 2 => char = (y % 16) * 4 + z \div 64
       /\ s \div 6 = 3 => char = z % 64
  BY DEF B!Sextet
<1>13. /\ s \div 8 = 0 => byte = x
       /\ s \div 8 = 1 => byte = y
       /\ s \div 8 = 2 => byte = z
  BY <1>3
<1>. HIDE DEF x, y, z, char, byte, s
<1>14. B!Bit(char, 5 - (s % 6)) = B!Bit(byte, 7 - (s % 8))
  <2>1. CASE s = 0  BY <1>11, <1>12, <1>13, <2>1, GroupBits
  <2>2. CASE s = 1  BY <1>11, <1>12, <1>13, <2>2, GroupBits
  <2>3. CASE s = 2  BY <1>11, <1>12, <1>13, <2>3, GroupBits
  <2>4. CASE s = 3  BY <1>11, <1>12, <1>13, <2>4, GroupBits
  <2>5. CASE s = 4  BY <1>11, <1>12, <1>13, <2>5, GroupBits
  <2>6. CASE s = 5  BY <1>11, <1>12, <1>13, <2>6, GroupBits
  <2>7. CASE s = 6  BY <1>11, <1>12, <1>13, <2>7, GroupBits
  <2>8. CASE s = 7  BY <1>11, <1>12, <1>13, <2>8, GroupBits
  <2>9. CASE s = 8  BY <1>11, <1>12, <1>13, <2>9, GroupBits
  <2>10. CASE s = 9  BY <1>11, <1>12, <1>13, <2>10, GroupBits
  <2>11. CASE s = 10  BY <1>11, <1>12, <1>13, <2>11, GroupBits
  <2>12. CASE s = 11  BY <1>11, <1>12, <1>13, <2>12, GroupBits
  <2>13. CASE s = 12  BY <1>11, <1>12, <1>13, <2>13, GroupBits
  <2>14. CASE s = 13  BY <1>11, <1>12, <1>13, <2>14, GroupBits
  <2>15. CASE s = 14  BY <1>11, <1>12, <1>13, <2>15, GroupBits
  <2>16. CASE s = 15  BY <1>11, <1>12, <1>13, <2>16, GroupBits
  <2>17. CASE s = 16  BY <1>11, <1>12, <1>13, <2>17, GroupBits
  <2>18. CASE s = 17  BY <1>11, <1>12, <1>13, <2>18, GroupBits
  <2>19. CASE s = 18  BY <1>11, <1>12, <1>13, <2>19, GroupBits
  <2>20. CASE s = 19  BY <1>11, <1>12, <1>13, <2>20, GroupBits
  <2>21. CASE s = 20  BY <1>11, <1>12, <1>13, <2>21, GroupBits
  <2>22. CASE s = 21  BY <1>11, <1>12, <1>13, <2>22, GroupBits
  <2>23. CASE s = 22  BY <1>11, <1>12, <1>13, <2>23, GroupBits
  <2>24. CASE s = 23  BY <1>11, <1>12, <1>13, <2>24, GroupBits
  <2>. QED  BY <1>3, <2>1, <2>2, <2>3, <2>4, <2>5, <2>6, <2>7, <2>8, <2>9,
               <2>10, <2>11, <2>12, <2>13, <2>14, <2>15, <2>16, <2>17, <2>18,
               <2>19, <2>20, <2>21, <2>22, <2>23, <2>24
<1>. QED  BY <1>9, <1>10, <1>14

-----------------------------------------------------------------------------
(* The texts of TextSpec.                                                  *)

(* Every text that grows is one of bytes, as the three conversions take    *)
(* them.                                                                   *)
TextTypeOK ==
  /\ kind \in {"string", "number", "block"}
  /\ input \in Seq(Byte)

LEMMA PiecesAreBytes ==
  /\ StringPieces \subseteq Seq(Byte)
  /\ {<<c>> : c \in Characters} \subseteq Seq(Byte)
  /\ {<<b>> : b \in BlockBytes} \subseteq Seq(Byte)
<1>1. N!Character \subseteq Byte
  BY DEF N!Character, N!Other, Byte
<1>2. \A c \in Byte : <<c>> \in Seq(Byte)
  OBVIOUS
<1>. QED  BY <1>1, <1>2, TextsAssumption

(* The bytes that are read and written, whatever has grown before.         *)
THEOREM TextsAreBytes == TextSpec => []TextTypeOK
<1>1. TextInit => TextTypeOK
  BY DEF TextInit, TextTypeOK
<1>2. ASSUME TextTypeOK, [TextNext]_textVars PROVE TextTypeOK'
  <2>1. ASSUME NEW k, NEW more, NEW pieces, pieces \subseteq Seq(Byte),
               Grow(k, more, pieces)
        PROVE  TextTypeOK'
    <3>1. PICK p \in pieces : input' = input \o p
      BY <2>1 DEF Grow
    <3>2. input' \in Seq(Byte)
      BY <1>2, <2>1, <3>1 DEF TextTypeOK
    <3>. QED  BY <1>2, <2>1, <3>2 DEF TextTypeOK, Grow
  <2>2. CASE GrowString  BY <2>1, <2>2, PiecesAreBytes DEF GrowString
  <2>3. CASE GrowNumber  BY <2>1, <2>3, PiecesAreBytes DEF GrowNumber
  <2>4. CASE GrowBlock   BY <2>1, <2>4, PiecesAreBytes DEF GrowBlock
  <2>5. CASE UNCHANGED textVars  BY <1>2, <2>5 DEF TextTypeOK, textVars
  <2>. QED  BY <1>2, <2>2, <2>3, <2>4, <2>5 DEF TextNext
<1>. QED  BY <1>1, <1>2, PTL DEF TextSpec

(* StringsSurvive: a string that a program writes is read as it was, and   *)
(* one that it reads it can write again, however the bytes arrive.         *)
THEOREM StringsAlwaysSurvive == TextSpec => []StringsSurvive
<1>1. TextTypeOK => StringsSurvive
  BY ReadingUndoesWriting, LexerAgreesWithAutomaton DEF TextTypeOK,
     StringsSurvive
<1>. QED  BY <1>1, TextsAreBytes, PTL

(* NumbersSurvive, whatever Wide and Narrow: so for the integers of 64 and *)
(* the int of 32 bits the code has, where TLC takes small ones.            *)
THEOREM NumbersAlwaysSurvive == TextSpec => []NumbersSurvive
<1>1. TextTypeOK => NumbersSurvive
  BY LexerReadsNumbers, IntegersReadBack DEF TextTypeOK, NumbersSurvive
<1>. QED  BY <1>1, TextsAreBytes, PTL

(* BlocksSurvive: whatever block of a file is sent comes out as it went    *)
(* in, and the characters in between spell its bits.                       *)
THEOREM BlocksAlwaysSurvive == TextSpec => []BlocksSurvive
<1>1. TextTypeOK => BlocksSurvive
  BY DecodeUndoesEncode, EncodeSpellsBits DEF TextTypeOK, BlocksSurvive
<1>. QED  BY <1>1, TextsAreBytes, PTL
=============================================================================
