------------------------------- MODULE JsonRPC -------------------------------
(***************************************************************************)
(* JSON-RPC 2.0 messages as class JsonRPC sees them.  A parsed document is *)
(* reduced to what the class asks of each member: is it there, and of the  *)
(* kind the class wants.  A method that throws an Error unless something   *)
(* holds is the operator that says whether it holds.                       *)
(***************************************************************************)

Absent    == "absent"
NotString == "not a string"

(* An id is an integer or a string; of strings, isNumber() accepts those   *)
(* strtol() reads to the end, the empty one included.                      *)
IntIds    == {"0", "1"}
NumberIds == {"string 1", "empty string"}
BadIds    == {"string NULL", "string text", "neither int nor string"}

(* The methods of a registration, and two that a plugin might offer.       *)
Methods == {"announce", "register", "pluginActive", "read", "write"}
Results == {"announceACK", "registerACK", "other string"}

(* Parameters are asked for by name, and some for a member of one type.    *)
Params == {"object", "object lacking it", "object with another type",
           "not an object"}

Document ==
  [json    : BOOLEAN,      \* does it parse?
   jsonrpc : {Absent, NotString, "2.0", "other version"},
   method  : Methods \cup {"", Absent, NotString},
   params  : Params \cup {Absent},
   id      : IntIds \cup NumberIds \cup BadIds \cup {Absent},
   result  : Results \cup {Absent, NotString},
   error   : {Absent, "object", "not an object"}]

-----------------------------------------------------------------------------
HasJsonRPCVersion(dom)   == dom.jsonrpc \notin {Absent, NotString}
CheckJsonRpcVersion(dom) == dom.jsonrpc = "2.0"
HasMethod(dom)           == dom.method \notin {Absent, NotString}
HasParams(dom)           == dom.params \notin {Absent, "not an object"}
HasId(dom)               == dom.id \in IntIds \cup NumberIds
HasNoId(dom)             == dom.id = Absent
HasResult(dom)           == dom.result # Absent
HasError(dom)            == dom.error = "object"
HasResultOrError(dom)    == HasResult(dom) \/ HasError(dom)

TryToGetParam(dom)       == HasParams(dom) /\ dom.params # "object lacking it"

(* findObjectMember(), with and without the type the member should have.   *)
FindObjectMember(params) ==
  params \in {"object", "object with another type"}
FindTypedMember(params)  == params = "object"

Versioned(dom) == HasJsonRPCVersion(dom) /\ CheckJsonRpcVersion(dom)

IsRequest(dom)      == Versioned(dom) /\ HasMethod(dom) /\ HasId(dom)
IsNotification(dom) == Versioned(dom) /\ HasMethod(dom) /\ HasNoId(dom)
IsResponse(dom)     == Versioned(dom) /\ HasResultOrError(dom) /\ HasId(dom)
IsError(dom)        == Versioned(dom) /\ HasError(dom) /\ HasId(dom)

-----------------------------------------------------------------------------
(***************************************************************************)
(* The documents the constructor prepares, and the generators, which edit  *)
(* them again for each message: dom is what the last message left, the     *)
(* value the document of the next one and its text.                        *)
(***************************************************************************)
Blank == [json |-> TRUE, jsonrpc |-> "2.0", method |-> Absent, params |-> Absent,
          id |-> "0", result |-> Absent, error |-> Absent]

RequestDOM  == [Blank EXCEPT !.method = ""]
ResponseDOM == [Blank EXCEPT !.result = "other string"]
ErrorDOM    == [Blank EXCEPT !.error = "object"]

(* Mutant of GenerateRequest: the id is only replaced, never removed.      *)
GenerateRequestKeepsId(dom, method, params, id) ==
  [dom EXCEPT !.method = method, !.params = params,
              !.id = IF id = Absent THEN dom.id ELSE id]

GenerateRequest(dom, method, params, id) ==
  [dom EXCEPT !.method = method, !.params = params, !.id = id]

(* Mutant of GenerateResponse: the id of the last response stays.          *)
GenerateResponseKeepsId(dom, id, result) == [dom EXCEPT !.result = result]

GenerateResponse(dom, id, result) ==
  [dom EXCEPT !.result = result, !.id = id]

(* Only an integer id is copied; any other becomes 0.                      *)
GenerateResponseError(dom, id) ==
  [dom EXCEPT !.id = IF id \in IntIds THEN id ELSE "0"]
=============================================================================
