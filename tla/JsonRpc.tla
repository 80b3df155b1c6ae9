------------------------------- MODULE JsonRpc -------------------------------
(***************************************************************************)
(* JSON-RPC 2.0 as common/jsonrpcpp.hpp reads and writes it: what kind of  *)
(* entity a value is, and the values of the entities the programs send.    *)
(* Every exception of a constructor comes to the programs as one thing:    *)
(* the value is "invalid".                                                 *)
(***************************************************************************)
EXTENDS JsonText

(* json.count: values that are no objects have no members.                 *)
Count(v, k) == IsObj(v) /\ k \in DOMAIN v.obj

(* Id: what is no integer counts as zero where an int is asked for.        *)
IsInteger(v) == "num" \in DOMAIN v /\ v.int
IsId(v) == v = Null \/ IsInteger(v) \/ IsStr(v)
IntId(v) == IF IsInteger(v) THEN v.num ELSE 0

(* Parameter: only an object has parameters that get finds.                *)
IsParams(v) == v = Null \/ IsArr(v) \/ IsObj(v)
Params(v) == IF IsObj(v) THEN v.obj ELSE <<>>

IsVersioned(v) == Count(v, "jsonrpc") /\ v.obj["jsonrpc"] = Str("2.0")
IsMethod(v) == IsStr(v) /\ v.str # ""

(* get<int> takes every number, and a boolean.                             *)
IsNumber(v) == "num" \in DOMAIN v \/ v \in {[lit |-> "true"], [lit |-> "false"]}

IsError(v) ==
  \/ v = Null
  \/ /\ Count(v, "code") /\ IsNumber(v.obj["code"])
     /\ Count(v, "message") /\ IsStr(v.obj["message"])

HasParams(v) == Count(v, "params") => IsParams(v.obj["params"])
ParamsOf(v) == IF Count(v, "params") THEN Params(v.obj["params"]) ELSE <<>>

IsCall(v) == IsVersioned(v) /\ IsMethod(v.obj["method"]) /\ HasParams(v)

Invalid == [kind |-> "invalid"]

Request(v) ==
  IF IsCall(v) /\ IsId(v.obj["id"])
  THEN [kind |-> "request", id |-> v.obj["id"], method |-> v.obj["method"].str,
        params |-> ParamsOf(v)]
  ELSE Invalid

Notification(v) ==
  IF IsCall(v)
  THEN [kind |-> "notification", method |-> v.obj["method"].str,
        params |-> ParamsOf(v)]
  ELSE Invalid

(* A result counts before an error.                                        *)
Response(v) ==
  IF IsVersioned(v) /\ IsId(v.obj["id"])
     /\ (Count(v, "result") \/ IsError(v.obj["error"]))
  THEN [kind |-> "response",
        result |-> IF Count(v, "result") THEN v.obj["result"] ELSE Null]
  ELSE Invalid

(* What the parts of a batch are does not matter to anyone.                *)
Batch(v) == IF v.arr # <<>> THEN [kind |-> "batch"] ELSE Invalid

IsRequest(v) == Count(v, "method") /\ Count(v, "id")
IsNotification(v) == Count(v, "method") /\ ~Count(v, "id")
IsResponse(v) == (Count(v, "result") \/ Count(v, "error")) /\ Count(v, "id")

(* do_parse_json                                                           *)
Entity(v) ==
  CASE IsRequest(v) -> Request(v)
    [] IsNotification(v) -> Notification(v)
    [] IsResponse(v) /\ ~IsRequest(v) -> Response(v)
    [] IsArr(v) -> Batch(v)
    [] OTHER -> [kind |-> "none"]

(* do_parse                                                                *)
EntityOf(text) ==
  LET s == Parse(text)
  IN  CASE s.want = "end" -> Entity(s.root)
        [] s.want = "ill-formed" -> [kind |-> "ill-formed"]
        [] OTHER -> Invalid

-----------------------------------------------------------------------------
(* to_json                                                                 *)

Versioned(f) == Obj("jsonrpc" :> Str("2.0") @@ f)

RequestJson(id, method, params) ==
  Versioned("id" :> Num(id) @@ "method" :> Str(method) @@ "params" :> Obj(params))

NotificationJson(method, params) ==
  Versioned("method" :> Str(method) @@ "params" :> Obj(params))

ResultJson(id, result) == Versioned("id" :> id @@ "result" :> Obj(result))

ErrorJson(id, code, message) ==
  Versioned("id" :> id
            @@ "error" :> Obj("code" :> Num(code) @@ "message" :> Str(message)
                              @@ "data" :> Str("what")))
=============================================================================
