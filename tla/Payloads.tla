------------------------------ MODULE Payloads ------------------------------
(***************************************************************************)
(* What becomes of a value on its way through a payload                    *)
(* (payload/payload.go), the JSON serializer (serializer/jsonSerializer.go) *)
(* and the handlers of actions (service/service.go).  A value is known by  *)
(* its kind only:                                                          *)
(*   data      a value without a field "error"                             *)
(*   nothing   nil                                                         *)
(*   error     a Go error                                                  *)
(*   errorMap  a map with a field "error"                                  *)
(*   function  a func(), which JSON cannot hold                            *)
(***************************************************************************)
EXTENDS Naturals

Kinds == {"data", "nothing", "error", "errorMap", "function"}
Payload == [form : {"raw", "json"}, kind : Kinds]

\* payload.New: a payload stays what it is, so that only other values come here.
New(kind) == [form |-> "raw", kind |-> kind]
Json(kind) == [form |-> "json", kind |-> kind]

\* A JSON payload with a field "error" is an error, a Go map with one is not.
IsError(p) == p.kind = "error" \/ (p.form = "json" /\ p.kind = "errorMap")

-----------------------------------------------------------------------------
(* A response *)

Replies == [success : BOOLEAN, data : Kinds]

\* Mutant: the answer to a call is a success whatever its result.
Sent_Succeeds(p) ==
  [success |-> TRUE, data |-> IF p.kind = "error" THEN "data" ELSE p.kind]

\* The RES that sendResponse makes of a result: the text of an error, or the
\* value without the functions in it.
Sent(p) ==
  IF IsError(p) THEN [success |-> FALSE, data |-> "nothing"]
                ELSE [success |-> TRUE, data |-> IF p.kind = "function" THEN "nothing" ELSE p.kind]

\* The result that reponseHandler takes from it.
Received(reply) == IF reply.success THEN Json(reply.data) ELSE New("error")

-----------------------------------------------------------------------------
(* The parameters of a handler *)

\* Parameters are nil, one value, or a list of len values.
Params == [kind : {"nothing", "single", "list"}, len : Nat, valid : BOOLEAN]

Signatures == [known : BOOLEAN, args : Nat, returns : BOOLEAN]

\* The known signatures, with the context, the parameters, both or none as
\* arguments: such a handler takes any parameters.
Templates == {s \in Signatures : s.known}

\* One of another type is called by reflection: it gets a list value by value,
\* and it panics when they are not as many as it has arguments.
Takes(s, params) ==
  \/ s \in Templates
  \/ params.kind = "nothing" /\ s.args = 0
  \/ params.kind = "single" /\ s.args = 1
  \/ params.kind = "list" /\ IF s.args > 1 THEN params.len = s.args ELSE params.len >= s.args

\* Without a result it returns nil.
Returned(s, out) == IF s.returns THEN out ELSE New("nothing")
=============================================================================
