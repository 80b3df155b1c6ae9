-------------------------------- MODULE Lines --------------------------------
(***************************************************************************)
(* The way of a line through the programs: a client sends it, a server     *)
(* decrypts, cuts, parses and handles it, and what the server answers or   *)
(* relays is read by fclient, which may send the next line.  A line is the *)
(* text it is decrypted to; AES itself is not modelled.                    *)
(*                                                                         *)
(* The string Braces stands for the strings that hold the characters }}    *)
(* and "a" for all others.  Number 1 is any account.                       *)
(***************************************************************************)
EXTENDS JsonRpc

CONSTANT MaxOdd   \* bound: how often a line is made unlike those of clients

VARIABLES
  at,       \* who reads the line next; "client" is the end of its way
  text,     \* the line
  leg,      \* "sent", "answered" or "relayed"
  odd,      \* history variable: how often the line was changed
  read,     \* history variable: the parameters the last server read
  package,  \* the package of fserver: "none", "empty" or "full"
  loaded,   \* has the session upgrade_file_size_ > 0
  stream,   \* has fclient upgrade_stream_
  kept,     \* has recentMessages_ a message whose Account is no int
  fate      \* "running"; "deaf", "ended" or "undefined": of who read last

vars == <<at, text, leg, odd, read, package, loaded, stream, kept, fate>>

CONTENT == 1
SETTING == 2
FILE == 3

Braces == "}}"
Holds(t) == IsStr(t) /\ t.str = Braces

(* A line that holds "Cookie: mstshash=hello" as it comes.                 *)
Cookie == <<P("Cookie")>>

-----------------------------------------------------------------------------
(* substr(0, find("}}") + 2): a text without the characters is left with   *)
(* its first one, because npos + 2 is 1.                                   *)

NoToken == [bad |-> FALSE]

Pairs(t) ==
  {i \in DOMAIN t : i > 1 /\ t[i - 1] = P("}") /\ t[i] = P("}")}
  \cup {i \in DOMAIN t : Holds(t[i]) /\ t[i].raw}

FirstCharacter(t) ==
  CASE t = <<>> -> <<>>
    [] t # <<>> /\ DOMAIN t[1] \in {{"p"}, {"num", "int"}, {"bad"}} -> <<t[1]>>
    [] OTHER -> <<NoToken>>

CutBeforeLast(t) ==
  IF Pairs(t) = {} THEN FirstCharacter(t)
  ELSE SubSeq(t, 1, (CHOOSE i \in Pairs(t) : \A j \in Pairs(t) : i <= j) - 1)

Cut(t) ==
  IF Pairs(t) = {} THEN FirstCharacter(t)
  ELSE LET i == CHOOSE i \in Pairs(t) : \A j \in Pairs(t) : i <= j
       IN  IF IsStr(t[i]) THEN SubSeq(t, 1, i - 1) \o <<NoToken>>
           ELSE SubSeq(t, 1, i)

-----------------------------------------------------------------------------
(* The conversions of a parameter.  A boolean is an int, too.              *)

Truth(v) == CASE v = [lit |-> "true"] -> Num(1)
              [] v = [lit |-> "false"] -> Num(0)
              [] OTHER -> v

Is(type, v) ==
  CASE type = "int" -> DOMAIN Truth(v) = {"num", "int"}
    [] type = "string" -> IsStr(v)
    [] type = "json" -> TRUE

(* What get of a missing key or a conversion throws is caught by servers.  *)
Throws(params, reads) ==
  \E k \in DOMAIN reads : k \notin DOMAIN params \/ ~Is(reads[k], params[k])

As(type, v) == IF type = "int" THEN [Truth(v) EXCEPT !.int = TRUE] ELSE v

(* How a request is handled: what is read of its parameters; the answer's  *)
(* own members and those taken from parameters, if there is one; the       *)
(* notification and the parameters it carries, in which type, if there is. *)
Silent(reads) ==
  [reads |-> reads, answer |-> {}, relay |-> "", carries |-> <<>>]

Answers(reads, tells, echoes) ==
  [Silent(reads) EXCEPT !.answer = {[tells |-> tells, echoes |-> echoes]}]

Relays(h, method, carries) == [h EXCEPT !.relay = method, !.carries = carries]

Each(keys, type) == [k \in keys |-> type]
Method(name) == "Method" :> Str(name)

-----------------------------------------------------------------------------
(* Session::processRequest.  What depends on the data base is a choice.    *)

KeysWithoutIcon == {"Account", "Name", "ToAccount", "Content"}
ContentKeys == {"Account", "Name", "Icon", "ToAccount", "Content"}
ContentMethods == [Content |-> "ContentNotification",
                   PicContent |-> "PicContentNotification"]

Hello == Each({"Name", "Icon"}, "string") @@ Each({"Account"}, "int")
Alter == Each({"Account", "Alter"}, "int")
Code(n) == "StatusCode" :> Num(n)

SessionHandles(id, method, params) ==
  CASE id = CONTENT /\ method \in DOMAIN ContentMethods ->
         {Relays(Silent(Each(ContentKeys, "json")), ContentMethods[method],
                 Each(ContentKeys, "json"))}
    [] id = SETTING /\ method = "SayHello" ->
         {Relays(Answers(Hello, Method(method), "Account" :> "Account" @@ "ActiveList" :> "Name"),
                 "OnlineNotification", Hello)}
    [] id = SETTING /\ method = "RegisterRequest" ->
         {Answers(Each({"Invitecode", "Password", "Name", "Icon"}, "string"),
                  Method(method) @@ Code(0) @@ "Account" :> Str("a"), "Password" :> "Password"),
          Answers(Each({"Invitecode"}, "string"),
                  Method(method) @@ Code(1) @@ "NewInviteCode" :> Str("a"), <<>>),
          Answers(Each({"Invitecode"}, "string"), Method(method) @@ Code(2), <<>>)}
    [] id = SETTING /\ method = "PermissionRequest" ->
         {Answers("Account" :> "int" @@ "Password" :> "string",
                  Method(method) @@ Code(0) @@ "Name" :> Str("a") @@ "Icon" :> Str("a"),
                  "Account" :> "Account"),
          Answers("Account" :> "int" @@ "Password" :> "string", Method(method) @@ Code(1), <<>>)}
    [] id = SETTING /\ method = "SettingRequest" ->
         CASE Throws(params, Alter) -> {Silent(Alter)}
           [] ~Throws(params, Alter) /\ Truth(params["Alter"]).num = 0 ->
                {Answers(Alter @@ Each({"NewPassword", "OldPassword"}, "string"),
                         Method(method) @@ Code(n), <<>>) : n \in {0, 1}}
           [] ~Throws(params, Alter) /\ Truth(params["Alter"]).num = 1 ->
                {Relays(Silent(Alter @@ Each({"Icon"}, "string")),
                        "SettingNotification", "Account" :> "int" @@ "Icon" :> "string")}
           [] OTHER -> {Silent(Alter)}
    [] OTHER -> {Silent(<<>>)}

(* FSession::processRequest                                                *)
FileKeys == {"Account", "Name", "ToAccount", "Status", "Filename", "Filesize",
             "Checksum", "Content"}
FileReads == [k \in FileKeys |-> IF k \in {"Account", "ToAccount", "Status", "Filesize"}
                                 THEN "int" ELSE "string"]

FSessionHandles(id, method) ==
  CASE id = SETTING /\ method = "VersionCheck" ->
         {Answers(Each({"Clientversion"}, "string"),
                  Method("VersionChecked") @@ "Expired" :> Num(n), <<>>) : n \in {0, 1}}
    [] id = SETTING /\ method = "SayHello" ->
         {Answers(Each({"Account"}, "int"), Method(method), "Account" :> "Account")}
    [] id = SETTING /\ method = "UpgradeRequest" /\ package # "none" ->
         {Answers(<<>>, Method("UpgradeReply") @@ "Filename" :> Str("a")
                        @@ "Checksum" :> Str("a"), <<>>)}
    [] id = FILE /\ method = "FileTransfer" ->
         {Relays(Silent(FileReads), "FileTransferNotification", Each(FileKeys, "json"))}
    [] id = FILE /\ method = "UpgradeFileTransfer" ->
         {Answers(Each({"Account"}, "int"),
                  Method("UpgradeProcessing") @@ "Content" :> Str("a")
                    @@ "Checksum" :> Str("a") @@ "Length" :> Num(1) @@ "Process" :> Num(n),
                  "Account" :> "Account") : n \in {50, 100}}
    [] OTHER -> {Silent(<<>>)}

-----------------------------------------------------------------------------
(* The handlers that read a line.                                          *)

Taken(params, types) == [k \in DOMAIN types |-> As(types[k], params[k])]

Notice(h, params) == NotificationJson(h.relay, Taken(params, h.carries))

Result(id, h, a, params) ==
  ResultJson(id, a.tells @@ [k \in DOMAIN a.echoes |->
                               As(h.reads[a.echoes[k]], params[a.echoes[k]])])

(* Another program reads the answer to a line no client of ours has sent.  *)
Asker == IF odd = 0 /\ at = "fserver" THEN "fclient" ELSE "client"
Listener == IF at = "fserver" THEN "fclient" ELSE "client"

Fate(f) == fate' = f /\ UNCHANGED <<at, text, leg, read, kept>>

Send(v, kind, to) ==
  /\ text' = Dump(v)
  /\ leg' = kind
  /\ at' = to
  /\ UNCHANGED fate

Nothing ==
  at' = "client" /\ text' = <<>> /\ leg' = "answered" /\ UNCHANGED <<kept, fate>>

(* The chat server parses what it answers and takes it to be a response.   *)
Answer(v) ==
  IF at = "server" /\ EntityOf(Dump(v)).kind # "response"
  THEN Fate("undefined")
  ELSE Send(v, "answered", Asker) /\ UNCHANGED <<read, kept>>

ContentNotifications == {ContentMethods[m] : m \in DOMAIN ContentMethods}

(* ToAccount becomes an int where nothing catches what that throws.        *)
Uncaught(h, params) ==
  h.relay \in ContentNotifications /\ ~Is("int", params["ToAccount"])

(* A message for all is kept as it is, with whatever its Account is.       *)
Keeps(h, params) ==
  /\ h.relay \in ContentNotifications
  /\ Truth(params["ToAccount"]).num = 0
  /\ ~Is("int", params["Account"])

Relay(h, params) ==
  /\ h.relay # ""
  /\ Send(Notice(h, params), "relayed", Listener)
  /\ read' = params
  /\ kept' = (kept \/ Keeps(h, params))

(* DataUpdate makes the Account of every kept message an int, in a thread  *)
(* of its own that catches nothing.                                        *)
DataUpdateThrows(h) == h.relay = "SettingNotification" /\ kept

(* What get or a conversion throws becomes the answer.                     *)
NotCaught(e) == Fate("ended")
CaughtError(e) == Answer(ErrorJson(e.id, -32603, "Internal error"))

HandleRequest(e, h) ==
  CASE Throws(e.params, h.reads) -> CaughtError(e)
    [] ~Throws(e.params, h.reads) /\ Uncaught(h, e.params) -> Fate("ended")
    [] OTHER ->
         \/ \E a \in h.answer : Answer(Result(e.id, h, a, e.params))
         \/ Relay(h, e.params)
         \/ DataUpdateThrows(h) /\ Fate("ended")
         \/ h.relay = "" /\ h.answer = {} /\ Nothing /\ UNCHANGED read

(* doMessageReceived of both servers.  The error that quotes bytes which   *)
(* are not UTF-8 cannot be written, in a handler that catches nothing; and *)
(* the function ends without a value for what is neither request nor error.*)
DoMessageReceived(kind, handled) ==
  CASE kind = "request" -> handled
    [] kind = "invalid" -> Answer(ErrorJson(Null, -32700, "Parse error"))
    [] kind = "none" -> Nothing /\ UNCHANGED read
    [] kind = "ill-formed" -> Fate("ended")
    [] OTHER -> Fate("undefined")

SessionReads ==
  /\ at = "server" /\ fate = "running"
  /\ CASE text = Cookie -> Fate("deaf")
       [] text = <<>> -> Fate("undefined")
       [] OTHER ->
            LET e == EntityOf(Cut(text))
            IN  DoMessageReceived(e.kind,
                  \E h \in SessionHandles(IntId(e.id), e.method, e.params) :
                    HandleRequest(e, h))
  /\ UNCHANGED <<odd, package, loaded, stream>>

Early(e) == IntId(e.id) = FILE /\ e.method = "UpgradeFileTransfer" /\ ~loaded

HandleFile(e) ==
  \E h \in FSessionHandles(IntId(e.id), e.method) :
    IF Early(e) /\ ~Throws(e.params, h.reads) THEN Fate("undefined")
    ELSE HandleRequest(e, h)

Upgrades(e) ==
  e.kind = "request" /\ IntId(e.id) = SETTING /\ e.method = "UpgradeRequest"

FSessionReads ==
  /\ at = "fserver" /\ fate = "running"
  /\ LET e == EntityOf(Cut(text)) IN DoMessageReceived(e.kind, HandleFile(e))
  /\ loaded' = (loaded \/ (Upgrades(EntityOf(Cut(text))) /\ package = "full"))
  /\ UNCHANGED <<odd, package, stream>>

(* What fclient does with a response, by its Method.                       *)
Reaction ==
  [SayHello          |-> Each({"Account"}, "int"),
   VersionChecked    |-> Each({"Expired"}, "int"),
   UpgradeReply      |-> Each({"Filename"}, "string"),
   UpgradeProcessing |-> Each({"Process", "Length"}, "int")
                         @@ Each({"Checksum", "Content"}, "string")]

Ask(id, method) ==
  Send(RequestJson(id, method, "Account" :> Num(1)), "sent", "fserver")

HandleResult(params) ==
  LET m == params["Method"]
      n(k) == Truth(params[k]).num
  IN  CASE ~IsStr(m) \/ m.str \notin DOMAIN Reaction -> Nothing /\ UNCHANGED stream
        [] IsStr(m) /\ m.str \in DOMAIN Reaction /\ Throws(params, Reaction[m.str]) ->
             Fate("ended") /\ UNCHANGED stream
        [] m.str = "SayHello" \/ (m.str = "VersionChecked" /\ n("Expired") = 0) ->
             Nothing /\ UNCHANGED stream
        [] m.str = "VersionChecked" /\ n("Expired") # 0 ->
             Ask(SETTING, "UpgradeRequest") /\ UNCHANGED stream
        [] m.str = "UpgradeReply" -> Ask(FILE, "UpgradeFileTransfer") /\ stream' = TRUE
        [] m.str = "UpgradeProcessing" /\ ~stream -> Fate("undefined") /\ UNCHANGED stream
        [] m.str = "UpgradeProcessing" /\ stream /\ n("Process") < 100 ->
             Ask(FILE, "UpgradeFileTransfer") /\ UNCHANGED stream
        [] OTHER -> Nothing /\ stream' = FALSE

(* A file of which the receiver has the beginning; a size of zero is       *)
(* divided by when the next block comes.                                   *)
Divides(params) ==
  /\ Truth(params["Filesize"]).num = 0
  /\ Truth(params["Status"]).num \in {0, 2}

HandleFileTransfer(params) ==
  CASE Throws(params, FileReads) -> Fate("ended")
    [] ~Throws(params, FileReads) /\ Divides(params) -> Nothing \/ Fate("undefined")
    [] OTHER -> Nothing

(* The handler lets every exception through to main, which ends.           *)
FClientReads ==
  /\ at = "fclient" /\ fate = "running"
  /\ LET e == EntityOf(Cut(text))
     IN  CASE e.kind \in {"invalid", "ill-formed"} -> Fate("ended") /\ UNCHANGED stream
           [] e.kind = "none" -> Fate("undefined") /\ UNCHANGED stream
           [] e.kind = "response" /\ ~Count(e.result, "Method") ->
                Fate("ended") /\ UNCHANGED stream
           [] e.kind = "response" /\ Count(e.result, "Method") -> HandleResult(e.result.obj)
           [] e.kind = "notification" /\ e.method = "FileTransferNotification" ->
                HandleFileTransfer(e.params) /\ UNCHANGED stream
           [] OTHER -> Nothing /\ UNCHANGED stream
  /\ UNCHANGED <<odd, package, loaded, kept>>
  /\ fate' = "running" => UNCHANGED read

-----------------------------------------------------------------------------
(* What the clients send.  The chat client is not in this repository: its  *)
(* lines are those the server reads.                                       *)

Texts(keys) == [k \in keys |-> Str("a")]
Account == "Account" :> Num(1)

ChatRequests ==
  {RequestJson(CONTENT, m, Texts({"Name", "Icon", "Content"}) @@ Account
                           @@ "ToAccount" :> Num(n)) :
     m \in DOMAIN ContentMethods, n \in {0, 1}}
  \cup {RequestJson(SETTING, "SayHello", Texts({"Name", "Icon"}) @@ Account),
        RequestJson(SETTING, "RegisterRequest",
                    Texts({"Invitecode", "Password", "Name", "Icon"})),
        RequestJson(SETTING, "PermissionRequest", Texts({"Password"}) @@ Account),
        RequestJson(SETTING, "SettingRequest",
                    Texts({"NewPassword", "OldPassword"}) @@ Account @@ "Alter" :> Num(0)),
        RequestJson(SETTING, "SettingRequest",
                    Texts({"Icon"}) @@ Account @@ "Alter" :> Num(1))}

FileRequests ==
  {RequestJson(SETTING, "SayHello", Account),
   RequestJson(SETTING, "VersionCheck", Texts({"Clientversion"}))}
  \cup {RequestJson(FILE, "FileTransfer",
                    Texts({"Name", "Filename", "Checksum", "Content"}) @@ Account
                    @@ "ToAccount" :> Num(0) @@ "Filesize" :> Num(1)
                    @@ "Status" :> Num(n)) : n \in 0..2}

LinesInit ==
  /\ \/ at = "server" /\ package = "none" /\ \E v \in ChatRequests : text = Dump(v)
     \/ /\ at = "fserver" /\ package \in {"none", "empty", "full"}
        /\ \E v \in FileRequests : text = Dump(v)
  /\ leg = "sent"
  /\ odd = 0
  /\ read = <<>>
  /\ loaded = FALSE
  /\ stream = FALSE
  /\ kept = FALSE
  /\ fate = "running"

(* Another program may send something else: a member more, less or of      *)
(* another value; strings in escapes; white space; what is no JSON.        *)
OddValues ==
  {Null, Str("a"), Str(Braces), Num(0), Num(3), [num |-> 1, int |-> FALSE],
   [lit |-> "true"], [arr |-> <<>>], Obj(<<>>), Obj("Name" :> Obj(<<>>))}

Without(f, k) == [j \in DOMAIN f \ {k} |-> f[j]]
Changed(f, k) == {Without(f, k)} \cup {(k :> w) @@ f : w \in OddValues}

OddObjects(f) ==
  UNION {Changed(f, k) : k \in {"jsonrpc", "id", "method", "params", "result", "error"}}
  \cup IF "params" \in DOMAIN f /\ IsObj(f["params"])
       THEN {("params" :> Obj(g)) @@ f :
               g \in UNION {Changed(f["params"].obj, k) : k \in DOMAIN f["params"].obj}}
       ELSE {}

Spelled(t, raw) ==
  [i \in DOMAIN t |-> IF IsStr(t[i]) THEN [t[i] EXCEPT !.raw = raw] ELSE t[i]]

(* With a blank between closing braces, except those that end the line.    *)
Aired(t) ==
  FlattenSeq([i \in DOMAIN t |-> IF i \in Pairs(t) /\ i < Len(t)
                                 THEN <<P(" "), t[i]>> ELSE <<t[i]>>])

OddTexts(t) ==
  {Cookie, <<P("[")>> \o t \o <<P("]")>>}
  \cup UNION {{SubSeq(t, 1, i - 1),
               SubSeq(t, 1, i - 1) \o <<P(" ")>> \o SubSeq(t, i, Len(t)),
               [t EXCEPT ![i] = NoToken],
               [t EXCEPT ![i] = [bad |-> TRUE]]}
              : i \in DOMAIN t}

SendOdd ==
  /\ leg = "sent" /\ fate = "running"
  /\ odd < MaxOdd
  /\ odd' = odd + 1
  /\ \/ IsText(text) /\ IsObj(Value(text))
        /\ \E f \in OddObjects(Value(text).obj), raw \in BOOLEAN :
             LET t == Spelled(Dump(Obj(f)), raw) IN text' \in {t, Aired(t)}
     \/ text' \in OddTexts(text)
  /\ UNCHANGED <<at, leg, read, package, loaded, stream, kept, fate>>

(* The next line of another client, to a server that keeps such a message: *)
(* every other one is the server of the beginning.                         *)
NextRequest ==
  /\ at = "client" /\ kept /\ fate = "running"
  /\ at' = "server"
  /\ \E v \in ChatRequests : text' = Dump(v)
  /\ leg' = "sent"
  /\ read' = <<>>
  /\ UNCHANGED <<odd, package, loaded, stream, kept, fate>>

LinesNext ==
  SendOdd \/ NextRequest \/ SessionReads \/ FSessionReads \/ FClientReads

LinesSpec == LinesInit /\ [][LinesNext]_vars

-----------------------------------------------------------------------------
(* As long as clients send the lines that are theirs, with strings without *)
(* }} in them, nobody who reads a line on its way ends or stops reading:   *)
(* no answer is an error and every one is cut where it ends.  An empty     *)
(* package is the exception: the file server divides by its size.          *)
OwnLinesGoOn == odd = 0 /\ package # "empty" => fate = "running"

(* Bytes that are no token do a server no harm if they are UTF-8, nor does *)
(* a request that lacks parameters or has them in other types - but for    *)
(* the addressee of a message; for the author of one that is kept, at the  *)
(* next change of an icon; and for a block that is asked for before there  *)
(* is a package.                                                           *)
Harmful(t) ==
  \/ \E i \in DOMAIN t : t[i] = [bad |-> TRUE]
  \/ t = <<>> \/ t = Cookie
  \/ LET e == EntityOf(Cut(t))
     IN  \/ e.kind \notin {"request", "invalid", "none"}
         \/ e.kind = "request" /\ "ToAccount" \in DOMAIN e.params
              /\ ~Is("int", e.params["ToAccount"])
         \/ e.kind = "request" /\ e.method = "SettingRequest" /\ kept
         \/ e.kind = "request" /\ Early(e)

ServersGoOn ==
  fate # "running" /\ at \in {"server", "fserver"} => Harmful(text)

(* What a server relays is read whole by those who cut it as fclient does, *)
(* and carries the parameters that were sent, unless one of them is        *)
(* written with }} in it: as a string that holds these characters, or as   *)
(* an object in an object, which a sender spells with a blank and the      *)
(* server without.                                                         *)
RelayedAsSent ==
  leg = "relayed" /\ (\A k \in DOMAIN read : Pairs(Dump(read[k])) = {}) =>
    /\ Cut(text) = text
    /\ LET e == EntityOf(text)
       IN  /\ e.kind = "notification"
           /\ DOMAIN e.params = DOMAIN read \ {"Alter"}
           /\ \A k \in DOMAIN e.params :
                \/ e.params[k] = read[k]
                \/ Is("int", read[k]) /\ e.params[k] = As("int", read[k])

(* The comment of the cut says "Remove any characters after }}": a request *)
(* without these characters stays the request it is.                       *)
NothingElseCut ==
  at = "server" /\ Pairs(text) = {} /\ EntityOf(text).kind = "request" =>
    EntityOf(Cut(text)) = EntityOf(text)
=============================================================================
