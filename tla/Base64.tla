------------------------------- MODULE Base64 -------------------------------
(***************************************************************************)
(* class CBASE64 of crypto/: blocks of files travel inside JSON strings as *)
(* characters that stand for six bits each.  A character is its place in   *)
(* base64_chars, or one of two that are not in it: '=' and any other.      *)
(***************************************************************************)
EXTENDS Integers, Sequences

Pad == 64
Foreign == 65
Character == 0..Foreign

isBase64(c) == c < Pad

-----------------------------------------------------------------------------
(* Encode: three bytes make four characters; missing ones count as zero.   *)

ByteOf(b, i) == IF i <= Len(b) THEN b[i] ELSE 0

Second(x, y) == (x % 4) * 16 + y \div 16

(* The character of place r in a group that begins with the byte b[k].     *)
Sextet(b, k, r) ==
  CASE r = 0 -> ByteOf(b, k) \div 4
    [] r = 1 -> Second(ByteOf(b, k), ByteOf(b, k + 1))
    [] r = 2 -> (ByteOf(b, k + 1) % 16) * 4 + ByteOf(b, k + 2) \div 64
    [] r = 3 -> ByteOf(b, k + 2) % 64

(* A last group of one or two bytes has one character more than bytes.     *)
Filled(n) == (4 * n + 2) \div 3

Encode(b) ==
  [i \in 1..4 * ((Len(b) + 2) \div 3) |->
     IF i <= Filled(Len(b))
     THEN Sextet(b, 3 * ((i - 1) \div 4) + 1, (i - 1) % 4)
     ELSE Pad]

-----------------------------------------------------------------------------
(* Decode: the characters up to the first that is not of the alphabet; of  *)
(* a last group of m characters, the m - 1 bytes they fill.                *)

Usable(e) ==
  CHOOSE n \in 0..Len(e) :
    /\ \A i \in 1..n : isBase64(e[i])
    /\ n < Len(e) => ~isBase64(e[n + 1])

RoundedUp(n) == 3 * ((n + 3) \div 4)
Decoded(n) == (3 * n) \div 4

(* The byte of place r in a group that begins with the character e[k].     *)
Octet(e, k, r) ==
  CASE r = 0 -> (e[k] * 4 + e[k + 1] \div 16) % 256
    [] r = 1 -> ((e[k + 1] % 16) * 16 + e[k + 2] \div 4) % 256
    [] r = 2 -> ((e[k + 2] % 4) * 64 + e[k + 3]) % 256

Decode(e) ==
  [j \in 1..Decoded(Usable(e)) |->
     Octet(e, 4 * ((j - 1) \div 3) + 1, (j - 1) % 3)]

-----------------------------------------------------------------------------
(* What both are about: the characters spell the bits of the bytes, the    *)
(* highest first, and zeros behind them.                                   *)
Weight == <<1, 2, 4, 8, 16, 32, 64, 128>>
Bit(x, k) == (x \div Weight[k + 1]) % 2
BitOfBytes(b, p) == Bit(ByteOf(b, p \div 8 + 1), 7 - (p % 8))
BitOfText(e, p) == Bit(e[p \div 6 + 1], 5 - (p % 6))

SpellsTheBits(b) ==
  \A p \in 0..6 * Filled(Len(b)) - 1 : BitOfText(Encode(b), p) = BitOfBytes(b, p)

RoundTrip(b) == Decode(Encode(b)) = b
=============================================================================
