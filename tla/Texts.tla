--------------------------------- MODULE Texts ---------------------------------
(***************************************************************************)
(* What a line is made of, below its symbols: the bytes of a string, the   *)
(* characters of a number, and the bytes of a block in Base64.  Each kind  *)
(* of text grows by one piece after the other, as long as there is a       *)
(* program that has not refused it.                                        *)
(***************************************************************************)
EXTENDS Integers, Sequences

CONSTANTS
  Wide, Narrow,   \* half of the integers a value and an int may hold
  StringPieces,   \* bytes that a string grows by
  Characters,     \* characters that a number grows by
  BlockBytes,     \* bytes that a block grows by
  MaxBytes,       \* bound: when a string stops to grow
  MaxDigits,      \* bound: characters of a number
  MaxBlock        \* bound: bytes of a block

VARIABLES kind, input

Byte == 0..255

textVars == <<kind, input>>

S == INSTANCE JsonString
N == INSTANCE JsonNumber
B == INSTANCE Base64

ASSUME TextsAssumption ==
  /\ Wide \in Nat \ {0}
  /\ Narrow \in Nat \ {0}
  /\ StringPieces \subseteq Seq(Byte)
  /\ Characters \subseteq N!Character
  /\ BlockBytes \subseteq Byte
  /\ {MaxBytes, MaxDigits, MaxBlock} \subseteq Nat

TextInit == kind \in {"string", "number", "block"} /\ input = <<>>

Grow(k, more, pieces) ==
  /\ kind = k
  /\ more
  /\ \E p \in pieces : input' = input \o p
  /\ UNCHANGED kind

(* The second half of a pair is always tried.                              *)
GrowString ==
  Grow("string",
       /\ Len(input) < MaxBytes \/ S!Scanned(input).at = "pair"
       /\ S!Scanned(input).at # "error" \/ S!Written(input).state # S!Reject,
       StringPieces)

GrowNumber ==
  Grow("number", Len(input) < MaxDigits /\ N!Label(input) # "error",
       {<<c>> : c \in Characters})

GrowBlock == Grow("block", Len(input) < MaxBlock, {<<b>> : b \in BlockBytes})

TextNext == GrowString \/ GrowNumber \/ GrowBlock

TextSpec == TextInit /\ [][TextNext]_textVars

-----------------------------------------------------------------------------
(* A string that is written reads the same; and whatever the lexer lets    *)
(* through can be written, although each has its own idea of UTF-8.        *)
StringsSurvive ==
  kind = "string" => S!WrittenIsRead(input) /\ S!ReadIsWritable(input)

(* The lexer accepts the numbers of the grammar; integers are written so   *)
(* that they read the same, up to the ends of their range, and those of an *)
(* int keep their value when one is asked for.                             *)
NumbersSurvive ==
  kind = "number" => N!ReadsTheGrammar(input) /\ N!DumpReadsBack(input)

(* Blocks of files come out of Base64 as they went in, and the characters  *)
(* in between spell their bits.                                            *)
BlocksSurvive == kind = "block" => B!SpellsTheBits(input) /\ B!RoundTrip(input)
=============================================================================
