------------------------------- MODULE MCText -------------------------------
(* Lines on their way (kind "line"), and the texts they are made of: those *)
(* of Texts, and a text of symbols (kind "text"), which grows like them.   *)
EXTENDS Lines, Texts

CONSTANT MaxSymbols

MCKeys ==
  << "Account", "ActiveList", "Alter", "Checksum", "Clientversion", "Content",
     "Expired", "Filename", "Filesize", "Icon", "Invitecode", "Length", "Method",
     "Name", "NewInviteCode", "NewPassword", "OldPassword", "Password", "Process",
     "Status", "StatusCode", "ToAccount", "code", "data", "error", "id", "jsonrpc",
     "message", "method", "params", "result" >>

MCSymbols ==
  {P(c) : c \in {"{", "}", "[", "]", ":", ",", " "}}
  \cup {Str("id"), [Str("Name") EXCEPT !.raw = FALSE], NoToken}

(* Bytes at the ends of the ranges that the lexer and the automaton tell   *)
(* apart, and escapes at the ends of those of code points.                 *)
MCBytes ==
  {0, 31, 32, 34, 48, 68, 92, 110, 117, 127, 128, 143, 144, 159, 160, 191, 192,
   193, 194, 223, 224, 225, 236, 237, 238, 239, 240, 241, 243, 244, 245, 255}

MCCodes ==
  {0, 127, 128, 2047, 2048, 55295, 55296, 56319, 56320, 57343, 57344, 65535}

MCHex(d) == IF d < 10 THEN 48 + d ELSE 55 + d
MCEscape(c) ==
  <<92, 117>> \o [i \in 1..4 |-> MCHex((c \div (16 ^ (4 - i))) % 16)]

MCPieces == {<<b>> : b \in MCBytes} \cup {MCEscape(c) : c \in MCCodes}

MCCharacters == {0, 1, 2, 5, 7, 8, N!Minus, N!Plus, N!Dot, N!Exp, N!Other}

MCBlockBytes == {0, 1, 84, 171, 240, 255}

GrowText ==
  Grow("text", Len(input) < MaxSymbols /\ ~Ended(Parse(input)), {<<t>> : t \in MCSymbols})

MCInit ==
  \/ kind = "line" /\ input = <<>> /\ LinesInit
  \/ /\ TextInit \/ (kind = "text" /\ input = <<>>)
     /\ at = "client" /\ text = <<>> /\ leg = "answered" /\ odd = 0 /\ read = <<>>
     /\ package = "none" /\ loaded = FALSE /\ stream = FALSE /\ kept = FALSE
     /\ fate = "running"

MCNext ==
  \/ kind = "line" /\ LinesNext /\ UNCHANGED textVars
  \/ (GrowText \/ TextNext) /\ UNCHANGED vars

MCSpec == MCInit /\ [][MCNext]_<<vars, textVars>>

(* A text is accepted if and only if it is in the grammar of JSON, with    *)
(* the value the grammar gives it, and what is written of that value reads *)
(* the same.                                                               *)
TextsAreRead == kind = "text" => ReadsTheGrammar(input) /\ DumpReadsBack(input)
=============================================================================
