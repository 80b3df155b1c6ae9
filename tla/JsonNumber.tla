------------------------------ MODULE JsonNumber ------------------------------
(***************************************************************************)
(* The characters of a JSON number: the lexer that reads them, the         *)
(* serializer that writes integers, and the conversion to int, by which    *)
(* the programs take their parameters (common/json.hpp).  A character is   *)
(* its digit, or its name.                                                 *)
(***************************************************************************)
EXTENDS Integers, Sequences

CONSTANTS
  Wide,    \* half of the integers a value may hold (2 ^ 63)
  Narrow   \* half of the values of an int (2 ^ 31)

Unsigned == 0..2 * Wide - 1
Signed == -Wide..Wide - 1
Ints == -Narrow..Narrow - 1

Digit == 0..9
Minus == 10
Plus == 11
Dot == 12
Exp == 13
Other == 14
Character == 0..Other

-----------------------------------------------------------------------------
(* scan_number: the labels of the code are its states.                     *)

Scan(label, c) ==
  CASE label \in {"init", "minus"} /\ c = 0 -> "zero"
    [] label \in {"init", "minus"} /\ c \in 1..9 -> "any1"
    [] label = "init" /\ c = Minus -> "minus"
    [] label = "any1" /\ c \in Digit -> "any1"
    [] label \in {"zero", "any1"} /\ c = Dot -> "decimal1"
    [] label \in {"decimal1", "decimal2"} /\ c \in Digit -> "decimal2"
    [] label \in {"zero", "any1", "decimal2"} /\ c = Exp -> "exponent"
    [] label = "exponent" /\ c \in {Plus, Minus} -> "sign"
    [] label \in {"exponent", "sign", "any2"} /\ c \in Digit -> "any2"
    [] OTHER -> "error"

Label(text) ==
  LET f[k \in 0..Len(text)] == IF k = 0 THEN "init" ELSE Scan(f[k - 1], text[k])
  IN  f[Len(text)]

(* Where any other character ends the number.                              *)
Ends == {"zero", "any1", "decimal2", "any2"}

IsNumber(text) == Label(text) \in Ends

(* strtoull and strtoll.                                                   *)
Spelled(digits) ==
  LET f[k \in 0..Len(digits)] == IF k = 0 THEN 0 ELSE 10 * f[k - 1] + digits[k]
  IN  f[Len(digits)]

Integer(text) == IF text[1] = Minus THEN -Spelled(Tail(text)) ELSE Spelled(text)

Integral(text) == Label(text) \in {"zero", "any1"}

(* An integer that is too large is taken as a floating point number.       *)
Fits(text) ==
  Integer(text) \in IF text[1] = Minus THEN Signed ELSE Unsigned

Kind(text) ==
  CASE ~IsNumber(text) -> "error"
    [] IsNumber(text) /\ Integral(text) /\ Fits(text) -> "integer"
    [] OTHER -> "float"

-----------------------------------------------------------------------------
(* dump_integer: the last two digits at a time, from the end.              *)

Digits(n) ==
  LET f[k \in 0..n] ==
        CASE k >= 100 -> f[k \div 100] \o <<(k % 100) \div 10, k % 10>>
          [] k \in 10..99 -> <<k \div 10, k % 10>>
          [] OTHER -> <<k>>
  IN  f[n]

(* remove_sign: the negation of the least integer is none, so it takes one *)
(* away first and adds it to the number without a sign.                    *)
Complement(n) == -(n + 1)
Absolute(n) == -(n + 1) + 1

Dump(n) == IF n < 0 THEN <<Minus>> \o Digits(Absolute(n)) ELSE Digits(n)

(* get<int>: the bits that find room.                                      *)
GetInt(n) == ((n + Narrow) % (2 * Narrow)) - Narrow

-----------------------------------------------------------------------------
(* Reference: the grammar of JSON.                                         *)

AreDigits(s) == s # <<>> /\ \A i \in DOMAIN s : s[i] \in Digit

IsWhole(s) == AreDigits(s) /\ (s[1] = 0 => Len(s) = 1)
IsFraction(s) == s = <<>> \/ (s[1] = Dot /\ AreDigits(Tail(s)))
IsExponent(s) ==
  \/ s = <<>>
  \/ s[1] = Exp /\ AreDigits(Tail(s))
  \/ Len(s) > 1 /\ s[1] = Exp /\ s[2] \in {Plus, Minus} /\ AreDigits(Tail(Tail(s)))

InGrammar(text) ==
  \E i, j, k \in 0..Len(text) :
    /\ i <= 1 /\ i <= j /\ j <= k
    /\ i = 1 => text[1] = Minus
    /\ IsWhole(SubSeq(text, i + 1, j))
    /\ IsFraction(SubSeq(text, j + 1, k))
    /\ IsExponent(SubSeq(text, k + 1, Len(text)))

ReadsTheGrammar(text) == IsNumber(text) <=> InGrammar(text)

(* An integer that was read is written as a text that reads the same, and  *)
(* one that is an int keeps its value in the conversion.                   *)
DumpReadsBack(text) ==
  Kind(text) = "integer" =>
    LET n == Integer(text)
    IN  /\ Kind(Dump(n)) = "integer" /\ Integer(Dump(n)) = n
        /\ GetInt(n) \in Ints
        /\ n \in Ints => GetInt(n) = n
=============================================================================
