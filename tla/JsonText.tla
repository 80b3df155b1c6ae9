------------------------------- MODULE JsonText -------------------------------
(***************************************************************************)
(* Texts of JSON and the values they stand for: parser and serializer of   *)
(* common/json.hpp.  A text is a sequence of symbols, what the lexer makes *)
(* of its characters; the characters of strings and numbers are in         *)
(* JsonString and JsonNumber.  A byte order mark and a null byte, which    *)
(* ends the text, are left out.                                            *)
(*                                                                         *)
(* Symbols and values are records told apart by their fields:              *)
(*   [p |-> c]              a structural character, or " " for white space *)
(*   [str |-> s, raw |-> b] a string; raw if none of it is escaped         *)
(*   [num |-> n, int |-> b] a number; int if it has no fraction            *)
(*   [lit |-> l]            null, true or false                            *)
(*   [bad |-> b]            characters that are no token; b if the first   *)
(*                          byte of them is not one of ASCII               *)
(*   [arr |-> s]            an array, by the sequence of its elements      *)
(*   [obj |-> f]            an object, by the function of its members      *)
(***************************************************************************)
EXTENDS Integers, Sequences, SequencesExt, TLC

CONSTANT Keys   \* the keys of objects, in the order of std::map

P(c) == [p |-> c]
Str(s) == [str |-> s, raw |-> TRUE]
Num(n) == [num |-> n, int |-> TRUE]
Null == [lit |-> "null"]
Obj(f) == [obj |-> f]

IsStr(t) == "str" \in DOMAIN t
IsObj(v) == "obj" \in DOMAIN v
IsArr(v) == "arr" \in DOMAIN v
IsBlank(t) == t = P(" ")
IsScalar(t) == DOMAIN t \in {{"str", "raw"}, {"num", "int"}, {"lit"}}

(* A string is the same value however it was spelled.                      *)
Scalar(t) == IF IsStr(t) THEN Str(t.str) ELSE t

-----------------------------------------------------------------------------
(* The parser.  want is what it reads next; open holds the arrays and      *)
(* objects that are not closed yet, the innermost last, each object with   *)
(* the key of the member that is read; root is the value of the text.      *)

Start == [want |-> "value", open |-> <<>>, root |-> Null]

Ended(s) == s.want \in {"error", "ill-formed"}

(* Of two members with one key the later one stays.                        *)
FirstStays(k, v, f) == f @@ (k :> v)
LastStays(k, v, f) == (k :> v) @@ f

Put(v, o) ==
  IF IsArr(o) THEN [arr |-> Append(o.arr, v)]
  ELSE [o EXCEPT !.obj = LastStays(o.key, v, o.obj)]

Completed(s, v) ==
  IF s.open = <<>> THEN [s EXCEPT !.want = "end", !.root = v]
  ELSE [s EXCEPT !.want = "more", !.open = Append(Front(@), Put(v, Last(@)))]

Opened(s, o, want) == [s EXCEPT !.want = want, !.open = Append(@, o)]

Closed(s) ==
  Completed([s EXCEPT !.open = Front(@)],
            IF IsArr(Last(s.open)) THEN Last(s.open) ELSE Obj(Last(s.open).obj))

(* The message of an error quotes the characters that are no token.        *)
Refused(s, t) ==
  [s EXCEPT !.want = IF t = [bad |-> TRUE] THEN "ill-formed" ELSE "error"]

InArray(s) == s.open # <<>> /\ IsArr(Last(s.open))
InObject(s) == s.open # <<>> /\ IsObj(Last(s.open))

Read(s, t) ==
  CASE Ended(s) \/ IsBlank(t) -> s
    [] s.want \in {"value", "first"} /\ IsScalar(t) -> Completed(s, Scalar(t))
    [] s.want \in {"value", "first"} /\ t = P("[") -> Opened(s, [arr |-> <<>>], "first")
    [] s.want \in {"value", "first"} /\ t = P("{") ->
         Opened(s, [obj |-> <<>>, key |-> ""], "first key")
    [] s.want \in {"key", "first key"} /\ IsStr(t) ->
         [s EXCEPT !.want = "colon", !.open[Len(s.open)].key = t.str]
    [] s.want = "colon" /\ t = P(":") -> [s EXCEPT !.want = "value"]
    [] s.want = "more" /\ t = P(",") ->
         [s EXCEPT !.want = IF InArray(s) THEN "value" ELSE "key"]
    [] s.want \in {"first", "more"} /\ InArray(s) /\ t = P("]") -> Closed(s)
    [] s.want \in {"first key", "more"} /\ InObject(s) /\ t = P("}") -> Closed(s)
    [] OTHER -> Refused(s, t)

Parse(text) == FoldLeft(Read, Start, text)

IsText(text) == Parse(text).want = "end"
Value(text) == Parse(text).root

-----------------------------------------------------------------------------
(* The serializer: no white space, the keys in their order.                *)

Joined(texts) ==
  FlattenSeq([i \in DOMAIN texts |->
                IF i = 1 THEN texts[i] ELSE <<P(",")>> \o texts[i]])

RECURSIVE Dump(_)
Dump(v) ==
  CASE IsArr(v) ->
         <<P("[")>> \o Joined([i \in DOMAIN v.arr |-> Dump(v.arr[i])]) \o <<P("]")>>
    [] IsObj(v) ->
         LET members == SelectSeq(Keys, LAMBDA k : k \in DOMAIN v.obj)
         IN  <<P("{")>>
             \o Joined([i \in DOMAIN members |->
                          <<Str(members[i]), P(":")>> \o Dump(v.obj[members[i]])])
             \o <<P("}")>>
    [] OTHER -> <<v>>

-----------------------------------------------------------------------------
(* Reference: the grammar of JSON, by the places where a text is split.    *)

RECURSIVE Readings(_), Elements(_), Members(_)

(* The values a text may be read as.                                       *)
Readings(text) ==
  LET n == Len(text)
      inner == SubSeq(text, 2, n - 1)
      Between(a, b) == n >= 2 /\ text[1] = P(a) /\ text[n] = P(b)
  IN  IF n = 1 /\ IsScalar(text[1]) THEN {Scalar(text[1])}
      ELSE IF Between("[", "]")
      THEN {[arr |-> s] : s \in IF inner = <<>> THEN {<<>>} ELSE Elements(inner)}
      ELSE IF Between("{", "}")
      THEN {[obj |-> [k \in {m[i].key : i \in DOMAIN m} |->
                        m[CHOOSE i \in DOMAIN m :
                            /\ m[i].key = k
                            /\ \A j \in DOMAIN m : m[j].key = k => j <= i].value]]
            : m \in IF inner = <<>> THEN {<<>>} ELSE Members(inner)}
      ELSE {}

(* One or more parts with commas between them.                             *)
Commas(text) == {i \in DOMAIN text : text[i] = P(",")}
Before(text, i) == SubSeq(text, 1, i - 1)
Behind(text, i) == SubSeq(text, i + 1, Len(text))

Elements(text) ==
  {<<v>> : v \in Readings(text)}
  \cup UNION {{<<v>> \o rest : v \in Readings(Before(text, i)),
                               rest \in Elements(Behind(text, i))}
              : i \in Commas(text)}

Member(text) ==
  IF Len(text) > 2 /\ IsStr(text[1]) /\ text[2] = P(":")
  THEN {[key |-> text[1].str, value |-> v] : v \in Readings(Behind(text, 2))}
  ELSE {}

Members(text) ==
  {<<m>> : m \in Member(text)}
  \cup UNION {{<<m>> \o rest : m \in Member(Before(text, i)),
                               rest \in Members(Behind(text, i))}
              : i \in Commas(text)}

WithoutBlanks(text) == SelectSeq(text, LAMBDA t : ~IsBlank(t))

(* The parser accepts the texts of the grammar and no others, and gives    *)
(* the value the grammar gives.                                            *)
ReadsTheGrammar(text) ==
  Readings(WithoutBlanks(text)) = IF IsText(text) THEN {Value(text)} ELSE {}

(* A value that was read is written as a text that reads the same.         *)
DumpReadsBack(text) ==
  IsText(text) =>
    LET dump == Dump(Value(text)) IN IsText(dump) /\ Value(dump) = Value(text)
=============================================================================
