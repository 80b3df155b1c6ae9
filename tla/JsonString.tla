------------------------------ MODULE JsonString ------------------------------
(***************************************************************************)
(* The bytes of a JSON string: the lexer that reads them and the           *)
(* serializer that writes them (common/json.hpp).  Each of the two checks  *)
(* in a way of its own that a string is UTF-8: the lexer by ranges of the  *)
(* bytes that follow, the serializer with an automaton.                    *)
(***************************************************************************)
EXTENDS Integers, Sequences

Quote == 34
Backslash == 92
LetterU == 117

-----------------------------------------------------------------------------
(* scan_string.  The lexer expects "character"s, what stands behind a      *)
(* backslash, the hex digits of an escape, a second escape for the low     *)
(* half of a pair, or bytes in certain ranges.                             *)

Start == [at |-> "character", token |-> <<>>, ranges |-> <<>>, hex |-> <<>>,
          high |-> 0]

Over(s) == s.at \in {"done", "error"}

(* An escape of one letter and the character it stands for.                *)
Letters == {Quote, Backslash, 47, 98, 102, 110, 114, 116}
Meant(b) ==
  CASE b \in {Quote, Backslash, 47} -> b
    [] b = 98 -> 8
    [] b = 102 -> 12
    [] b = 110 -> 10
    [] b = 114 -> 13
    [] b = 116 -> 9

(* The ranges of the bytes that follow a first byte.                       *)
Inner == 128..191
AnyFollowersOf(b) ==
  CASE b \in 194..223 -> <<Inner>>
    [] b \in 224..239 -> <<Inner, Inner>>
    [] b \in 240..244 -> <<Inner, Inner, Inner>>
    [] OTHER -> <<>>

FollowersOf(b) ==
  CASE b \in 194..223 -> <<Inner>>
    [] b = 224 -> <<160..191, Inner>>
    [] b \in (225..236) \cup {238, 239} -> <<Inner, Inner>>
    [] b = 237 -> <<128..159, Inner>>
    [] b = 240 -> <<144..191, Inner, Inner>>
    [] b \in 241..243 -> <<Inner, Inner, Inner>>
    [] b = 244 -> <<128..143, Inner, Inner>>
    [] OTHER -> <<>>

HexDigit(b) ==
  CASE b \in 48..57 -> b - 48
    [] b \in 65..70 -> b - 55
    [] b \in 97..102 -> b - 87
    [] OTHER -> -1

High == 55296..56319
Low == 56320..57343

(* Two halves of a pair make a code point beyond 16 bits.                  *)
Paired(high, low) == 1024 * (high - 55296) + (low - 56320) + 65536

Follow(c, weight) == 128 + ((c \div weight) % 64)

Utf8(c) ==
  CASE c < 128 -> <<c>>
    [] 128 <= c /\ c <= 2047 -> <<192 + c \div 64, Follow(c, 1)>>
    [] 2048 <= c /\ c <= 65535 -> <<224 + c \div 4096, Follow(c, 64), Follow(c, 1)>>
    [] OTHER -> <<240 + c \div 262144, Follow(c, 4096), Follow(c, 64), Follow(c, 1)>>

Add(s, bytes) == [s EXCEPT !.at = "character", !.token = @ \o bytes]
Fail(s) == [s EXCEPT !.at = "error"]

(* Four hex digits were read.                                              *)
Escaped(s, c) ==
  CASE s.high # 0 /\ c \in Low -> Add([s EXCEPT !.high = 0], Utf8(Paired(s.high, c)))
    [] s.high = 0 /\ c \in High -> [s EXCEPT !.at = "pair", !.high = c]
    [] s.high = 0 /\ c \notin High \cup Low -> Add(s, Utf8(c))
    [] OTHER -> Fail(s)

Code(hex) == 4096 * hex[1] + 256 * hex[2] + 16 * hex[3] + hex[4]

Digit(s, d) ==
  CASE d = -1 -> Fail(s)
    [] d # -1 /\ Len(s.hex) < 3 -> [s EXCEPT !.hex = Append(@, d)]
    [] OTHER -> Escaped([s EXCEPT !.hex = <<>>], Code(Append(s.hex, d)))

Scan(s, b) ==
  CASE Over(s) -> s
    [] s.at = "character" /\ b = Quote -> [s EXCEPT !.at = "done"]
    [] s.at = "character" /\ b = Backslash -> [s EXCEPT !.at = "escape"]
    [] s.at = "character" /\ b \in (32..127) \ {Quote, Backslash} -> Add(s, <<b>>)
    [] s.at = "character" /\ FollowersOf(b) # <<>> ->
         [s EXCEPT !.at = "follower", !.token = Append(@, b), !.ranges = FollowersOf(b)]
    [] s.at = "follower" /\ b \in Head(s.ranges) ->
         [s EXCEPT !.at = IF Len(s.ranges) = 1 THEN "character" ELSE "follower",
                   !.token = Append(@, b), !.ranges = Tail(@)]
    [] s.at = "escape" /\ b \in Letters -> Add(s, <<Meant(b)>>)
    [] s.at \in {"escape", "unicode"} /\ b = LetterU -> [s EXCEPT !.at = "hex"]
    [] s.at = "pair" /\ b = Backslash -> [s EXCEPT !.at = "unicode"]
    [] s.at = "hex" -> Digit(s, HexDigit(b))
    [] OTHER -> Fail(s)

(* A text is what stands behind the opening quote.                         *)
Scanned(text) ==
  LET f[k \in 0..Len(text)] == IF k = 0 THEN Start ELSE Scan(f[k - 1], text[k])
  IN  f[Len(text)]

IsString(text) == Scanned(text).at = "done"

-----------------------------------------------------------------------------
(* decode.  The table has a class for every byte and for each state the    *)
(* classes that lead on; all others reject.                                *)

Accept == 0
Reject == 1

Class(b) ==
  CASE b \in 0..127 -> 0
    [] b \in 128..143 -> 1
    [] b \in 144..159 -> 9
    [] b \in 160..191 -> 7
    [] b \in {192, 193} \cup 245..255 -> 8
    [] b \in 194..223 -> 2
    [] b = 224 -> 10
    [] b \in (225..236) \cup {238, 239} -> 3
    [] b = 237 -> 4
    [] b = 240 -> 11
    [] b \in 241..243 -> 6
    [] b = 244 -> 5

Leads(class) ==
  CASE class = 0 -> Accept
    [] class \in {2, 3} -> class
    [] class = 4 -> 5
    [] class = 5 -> 8
    [] class = 6 -> 7
    [] class = 10 -> 4
    [] class = 11 -> 6
    [] OTHER -> Reject

Onward(q) ==
  CASE q \in {2, 3, 7} -> {1, 7, 9}
    [] q = 4 -> {7}
    [] q = 5 -> {1, 9}
    [] q = 6 -> {7, 9}
    [] q = 8 -> {1}
    [] OTHER -> {}

NextState(q, b) ==
  CASE q = Accept -> Leads(Class(b))
    [] q = 2 /\ Class(b) \in Onward(q) -> Accept
    [] q \in 3..5 /\ Class(b) \in Onward(q) -> 2
    [] q \in 6..8 /\ Class(b) \in Onward(q) -> 3
    [] OTHER -> Reject

(* The bits of the byte that belong to the code point.                     *)
Bits(q, c, b) ==
  CASE q # Accept -> 64 * c + (b % 64)
    [] q = Accept /\ Class(b) < 8 -> b % <<256, 128, 64, 32, 16, 8, 4, 2>>[Class(b) + 1]
    [] OTHER -> 0

(* dump_escaped: characters that need it are escaped, the bytes of others  *)
(* copied as they come.                                                    *)
Shorts == {8, 9, 10, 12, 13, Quote, Backslash}
Letter(c) ==
  CASE c = 8 -> 98
    [] c = 9 -> 116
    [] c = 10 -> 110
    [] c = 12 -> 102
    [] c = 13 -> 114
    [] c \in {Quote, Backslash} -> c

HexLetter(d) == IF d < 10 THEN 48 + d ELSE 87 + d

Spelled(c, b) ==
  CASE c \in Shorts -> <<Backslash, Letter(c)>>
    [] c \in (0..31) \ Shorts ->
         <<Backslash, LetterU, 48, 48, HexLetter(c \div 16), HexLetter(c % 16)>>
    [] OTHER -> <<b>>

Write(s, b) ==
  LET q == NextState(s.state, b)
      c == Bits(s.state, s.code, b)
  IN  CASE s.state = Reject -> s
        [] q = Accept -> [state |-> q, code |-> 0, text |-> s.text \o Spelled(c, b)]
        [] OTHER -> [state |-> q, code |-> c, text |-> Append(s.text, b)]

Unwritten == [state |-> Accept, code |-> 0, text |-> <<>>]

Written(bytes) ==
  LET f[k \in 0..Len(bytes)] == IF k = 0 THEN Unwritten ELSE Write(f[k - 1], bytes[k])
  IN  f[Len(bytes)]

(* Otherwise dump throws type_error 316.                                   *)
IsWritable(bytes) == Written(bytes).state = Accept

-----------------------------------------------------------------------------
(* A string that is written reads the same.                                *)
WrittenIsRead(bytes) ==
  IsWritable(bytes) =>
    LET text == Append(Written(bytes).text, Quote)
    IN  IsString(text) /\ Scanned(text).token = bytes

(* Whatever the lexer reads can be written: a server that relays a message *)
(* never fails in writing it.                                              *)
ReadIsWritable(text) == IsString(text) => IsWritable(Scanned(text).token)
=============================================================================
