------------------------------ MODULE Exchange ------------------------------
(***************************************************************************)
(* Requests and their answers over one connection, at the level of data:   *)
(* the client's JsonRPC object makes a request, transmit() puts a header   *)
(* before it, the server reads the header, logs, parses and executes the   *)
(* request, and answers.                                                   *)
(*                                                                         *)
(* The ComPoints at both ends are taken for what ComPoint establishes: a   *)
(* channel that keeps messages whole and in order, a worker that stays     *)
(* with a message it cannot log, and a tmutex that stays locked when       *)
(* transmit() cannot.  The class that implements ProcessInterface is the   *)
(* library's user: its process() is modelled as the headers of JsonRPC     *)
(* and RPCInterface mean it to be, with one Document for each message.     *)
(***************************************************************************)
EXTENDS Header, JsonRPC, LogUnit, RPCInterface, Sequences

CONSTANTS RequestParams, RequestIds,  \* what the client's requests contain
          Lens, OutLens,              \* lengths of requests and of answers
          PrefixIn, PrefixOut,        \* lengths of the server's log prefixes
          LogMethod, GlobalLogLevel,  \* what the server's main() sets
          MaxRequests                 \* bound: how many requests are made

ASSUME ExchangeAssumption ==
  /\ Functions \subseteq Methods
  /\ RequestParams \subseteq Params \cup {Absent}
  /\ RequestIds \subseteq IntIds \cup NumberIds \cup BadIds \cup {Absent}
  /\ Lens \subseteq 1 .. MaxInt /\ OutLens \subseteq 1 .. MaxInt
  /\ {PrefixIn, PrefixOut} \subseteq 0 .. LINESIZE - 1
  /\ LogMethod \in {"printf", "syslog"} /\ GlobalLogLevel \in Level
  /\ MaxRequests \in Nat

VARIABLES
  (* the client *)
  requestDOM,   \* of its JsonRPC object
  open,         \* the requests it waits for, by their ids
  (* the connection, and a history of what went through it *)
  toServer, toClient,
  sent,         \* every request made
  answered,     \* every answer made
  taken,        \* what the client took for an answer to what
  (* the server *)
  responseDOM, errorDOM,
  output,       \* what process() returned and the worker has yet to transmit
  orphaned,     \* is tmutex locked for ever?
  alive

clientVars == <<requestDOM, open, sent, taken>>
serverVars == <<responseDOM, errorDOM, output, orphaned, alive, answered, funcMap>>
vars       == <<clientVars, serverVars, toServer, toClient>>

Unparsable == [Blank EXCEPT !.json = FALSE]
NoAnswer   == [n |-> 0, doc |-> Unparsable]

Init ==
  /\ requestDOM = RequestDOM /\ open = {}
  /\ toServer = <<>> /\ toClient = <<>>
  /\ sent = <<>> /\ answered = <<>> /\ taken = {}
  /\ responseDOM = ResponseDOM /\ errorDOM = ErrorDOM
  /\ output = NoAnswer /\ orphaned = FALSE /\ alive = TRUE
  /\ InitMap

-----------------------------------------------------------------------------
(* A text in its frame; what the other end cuts out of the stream is as    *)
(* long as the header says, and is the text only if that is right.         *)
Encode(n, doc, len) ==
  [n |-> n, header |-> CreateHeader(len), len |-> len, doc |-> doc]

Content(frame) ==
  IF Decoded(frame.header) /\ ReadHeader(frame.header) = frame.len
    THEN frame.doc ELSE Unparsable

(***************************************************************************)
(* The client.  It does not use an id again while it waits for it.         *)
(***************************************************************************)
Request(method, params, id, len) ==
  /\ Len(sent) < MaxRequests
  /\ \A w \in open : w.id # id
  /\ requestDOM' = GenerateRequest(requestDOM, method, params, id)
  /\ sent' = Append(sent, [doc |-> requestDOM', len |-> len])
  /\ open' = IF id = Absent THEN open
             ELSE open \cup {[id |-> id, n |-> Len(sent')]}
  /\ toServer' = Append(toServer, Encode(Len(sent'), requestDOM', len))
  /\ UNCHANGED <<taken, serverVars, toClient>>

TakeAnswer ==
  /\ toClient # <<>>
  /\ toClient' = Tail(toClient)
  /\ LET frame == Head(toClient)
         doc   == Content(frame)
         mine  == {w \in open : IsResponse(doc) /\ w.id = doc.id}
     IN /\ open' = open \ mine
        /\ taken' = taken \cup {[id |-> w.id, for |-> w.n, of |-> frame.n,
                                    error |-> IsError(doc)] : w \in mine}
  /\ UNCHANGED <<requestDOM, sent, serverVars, toServer>>

-----------------------------------------------------------------------------
(***************************************************************************)
(* The server's worker.  It keeps taking a message it cannot log, which    *)
(* changes nothing, and otherwise processes it.                            *)
(***************************************************************************)
NotLogged(len, level, prefix) ==
  CannotLog(len, level, prefix, LogMethod, SetGlobalLogLevel(GlobalLogLevel))

Answer(n, doc) ==
  /\ output' = [n |-> n, doc |-> doc]
  /\ answered' = Append(answered, output')
  /\ UNCHANGED alive

Return(n, id) ==
  /\ responseDOM' = GenerateResponse(responseDOM, id, "other string")
  /\ Answer(n, responseDOM')
  /\ UNCHANGED errorDOM

ReturnError(n, id) ==
  /\ errorDOM' = GenerateResponseError(errorDOM, id)
  /\ Answer(n, errorDOM')
  /\ UNCHANGED responseDOM

(* The ways a function has to look for its parameter: in the document, or  *)
(* in the object it is handed, by name or by name and type.                *)
Lookup(doc) ==
  {TryToGetParam(doc)} \cup
  (IF HasParams(doc)
     THEN {FindObjectMember(doc.params), FindTypedMember(doc.params)}
     ELSE {FALSE})

(* The function is found, and finds its parameter or throws an Error.      *)
Execute(frame, doc) ==
  /\ IsRequest(doc)
  /\ CallFunction(doc.method, frame.n)
  /\ \E found \in Lookup(doc) :
       IF found THEN Return(frame.n, doc.id) ELSE ReturnError(frame.n, doc.id)

ExecuteUnknown(frame, doc) ==
  /\ IsRequest(doc)
  /\ NotFound(doc.method, frame.n)
  /\ ReturnError(frame.n, doc.id)

(* A notification is executed and not answered, whatever comes of it.      *)
Notified(frame, doc) ==
  /\ IsNotification(doc)
  /\ CallFunction(doc.method, frame.n) \/ NotFound(doc.method, frame.n)
  /\ UNCHANGED <<responseDOM, errorDOM, output, answered, alive>>

(* Mutant of Refuse: what cannot be parsed is not answered.                *)
RefuseSilently(frame, doc) ==
  /\ ~(doc.json /\ (IsRequest(doc) \/ IsNotification(doc)))
  /\ UNCHANGED <<responseDOM, errorDOM, output, answered, alive, funcMap>>

(* No text of a request: parse() throws, or an Error is made of it here.   *)
Refuse(frame, doc) ==
  /\ ~(doc.json /\ (IsRequest(doc) \/ IsNotification(doc)))
  /\ ReturnError(frame.n, Absent)
  /\ UNCHANGED funcMap

(* A search among stale keys reads freed memory, which may end the process. *)
Dies(frame, doc) ==
  /\ IsRequest(doc) \/ IsNotification(doc)
  /\ Stale(frame.n) # {}
  /\ alive' = FALSE
  /\ UNCHANGED <<responseDOM, errorDOM, output, answered, funcMap>>

(* transmit() of the answer, log() included, if tmutex can be had.         *)
TransmitAnswer ==
  /\ output # NoAnswer /\ ~orphaned
  /\ \E len \in OutLens :
       IF NotLogged(len, {2}, PrefixOut)
         THEN orphaned' = TRUE /\ UNCHANGED toClient
         ELSE /\ toClient' = Append(toClient, Encode(output.n, output.doc, len))
              /\ UNCHANGED orphaned
  /\ output' = NoAnswer
  /\ UNCHANGED <<clientVars, responseDOM, errorDOM, alive, answered, funcMap,
                 toServer>>

Process(frame, doc) ==
  \/ Execute(frame, doc) \/ ExecuteUnknown(frame, doc)
  \/ Notified(frame, doc) \/ Refuse(frame, doc) \/ Dies(frame, doc)

TakeRequest ==
  /\ output = NoAnswer
  /\ toServer # <<>>
  /\ LET frame == Head(toServer)
     IN /\ ~NotLogged(ReadHeader(frame.header), {1}, PrefixIn)
        /\ Process(frame, Content(frame))
  /\ toServer' = Tail(toServer)
  /\ UNCHANGED <<clientVars, toClient, orphaned>>

Server == alive /\ (TakeRequest \/ TransmitAnswer)

Client ==
  \/ TakeAnswer
  \/ \E method \in {"read", "write"}, params \in RequestParams,
        id \in RequestIds, len \in Lens : Request(method, params, id, len)

Next == Client \/ Server

Spec     == Init /\ [][Next]_vars
FairSpec == Spec /\ WF_vars(Server)

-----------------------------------------------------------------------------
Frame == [n : 1 .. MaxRequests, header : Bytes, len : Lens \cup OutLens,
          doc : Document]

TypeOK ==
  /\ requestDOM \in Document /\ responseDOM \in Document /\ errorDOM \in Document
  /\ open \subseteq [id : RequestIds, n : 1 .. MaxRequests]
  /\ \A i \in DOMAIN toServer : toServer[i] \in Frame
  /\ \A i \in DOMAIN toClient : toClient[i] \in Frame
  /\ orphaned \in BOOLEAN /\ alive \in BOOLEAN
  /\ AllFunctionNames \subseteq Methods
  /\ \A e \in funcMap : e.owner \in 0 .. MaxRequests

(* An answer reaches the request it answers, as long as none was made for  *)
(* an id that is no integer: the error for that carries 0                  *)
(* (JsonRPC.cpp:571), which may be the id of another request the client    *)
(* waits for, and then of one that comes after that.  Other ids are never  *)
(* confused, no request is answered twice, a notification never.           *)
Misled(t) ==
  /\ t.id = "0"
  /\ \E i \in DOMAIN answered :
       /\ IsError(answered[i].doc) /\ answered[i].n <= t.of
       /\ sent[answered[i].n].doc.id \notin IntIds

AnswersMatch ==
  /\ \A t \in taken : t.for = t.of \/ Misled(t)
  /\ \A i, j \in DOMAIN answered : answered[i].n = answered[j].n => i = j
  /\ \A i \in DOMAIN answered : ~IsNotification(sent[answered[i].n].doc)

(* A request for a function the plugin registered is answered with its     *)
(* result if its parameter is right, whichever way it is looked up, and    *)
(* with an error if there is none: for as long as nobody asked for an      *)
(* unknown function (RPCInterface.hpp:58).                                 *)
Offers(n, params) ==
  LET doc == sent[n].doc
  IN IsRequest(doc) /\ doc.method \in Functions /\ doc.params \in params

KnownIsCalled ==
  \A i \in DOMAIN answered :
    LET n == answered[i].n
        undisturbed == \A m \in 1 .. n - 1 : sent[m].doc.method \in Functions
    IN undisturbed =>
         /\ Offers(n, {"object"}) => HasResult(answered[i].doc)
         /\ HasResult(answered[i].doc) =>
              Offers(n, {"object", "object with another type"})

(* A request is answered, unless the server cannot log it, one before it   *)
(* or an answer, or dies of a stale key.                                   *)
CanBeLogged == {len \in Lens : ~NotLogged(len, {1}, PrefixIn)}

Answerable(n) ==
  n \in DOMAIN sent /\ ~IsNotification(sent[n].doc)
    /\ \A m \in 1 .. n : sent[m].len \in CanBeLogged

AnswerComes ==
  \A n \in 1 .. MaxRequests :
    Answerable(n) ~>
      (\E i \in DOMAIN answered : answered[i].n = n) \/ orphaned \/ ~alive
=============================================================================
