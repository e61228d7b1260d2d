-------------------------- MODULE Exchange_proofs ---------------------------
(***************************************************************************)
(* That answers reach what they answer, for any number of requests, any    *)
(* ids and parameters, any lengths and prefixes, and any functions; and    *)
(* which messages formatString() can always format.                        *)
(***************************************************************************)
EXTENDS Exchange, Header_proofs, SequenceTheorems

-----------------------------------------------------------------------------
(***************************************************************************)
(* The kinds of documents the two ends write.                              *)
(***************************************************************************)
RequestDoc ==
  [json : {TRUE}, jsonrpc : {"2.0"}, method : {"read", "write"},
   params : RequestParams, id : RequestIds, result : {Absent}, error : {Absent}]

ResponseDoc ==
  [json : {TRUE}, jsonrpc : {"2.0"}, method : {Absent}, params : {Absent},
   id : IntIds \cup NumberIds, result : {"other string"}, error : {Absent}]

ErrorDoc ==
  [json : {TRUE}, jsonrpc : {"2.0"}, method : {Absent}, params : {Absent},
   id : IntIds, result : {Absent}, error : {"object"}]

(* What each of the edited documents keeps, whatever was written last.     *)
DocumentsOK ==
  /\ requestDOM \in [json : {TRUE}, jsonrpc : {"2.0"},
                     method : {"", "read", "write"},
                     params : RequestParams \cup {Absent},
                     id : RequestIds \cup {"0"},
                     result : {Absent}, error : {Absent}]
  /\ responseDOM \in ResponseDoc
  /\ errorDOM \in ErrorDoc

(* The server takes the requests in the order in which they were made: the *)
(* first Served of them it has taken, the others are under way.            *)
Served == Len(sent) - Len(toServer)

RequestsOK ==
  /\ sent \in Seq([doc : RequestDoc, len : Lens]) /\ Len(sent) <= MaxRequests
  /\ toServer \in Seq(Frame) /\ Len(toServer) <= Len(sent)
  /\ \A i \in DOMAIN toServer :
       toServer[i] = Encode(Served + i, sent[Served + i].doc, sent[Served + i].len)

(* An answer is a response with the id of its request, or an error, which  *)
(* carries 0 if that id is no integer.                                     *)
Answers(doc, request) ==
  /\ ~IsNotification(request)
  /\ \/ /\ doc \in ResponseDoc
        /\ IsRequest(request) /\ doc.id = request.id
     \/ /\ doc \in ErrorDoc
        /\ doc.id = IF request.id \in IntIds THEN request.id ELSE "0"

AnswersOK ==
  /\ answered \in Seq([n : Nat, doc : ResponseDoc \cup ErrorDoc])
  /\ \A i \in DOMAIN answered :
       /\ answered[i].n \in 1 .. Served
       /\ Answers(answered[i].doc, sent[answered[i].n].doc)
  /\ \A i, j \in DOMAIN answered : i < j => answered[i].n < answered[j].n

(* Answers come in the order in which they were made: the client has taken *)
(* the first ones, then come those under way, last the one to transmit.    *)
Made(n, doc) == \E i \in DOMAIN answered : answered[i] = [n |-> n, doc |-> doc]

FlightOK ==
  /\ toClient \in Seq(Frame)
  /\ \A i \in DOMAIN toClient :
       /\ toClient[i].header = CreateHeader(toClient[i].len)
       /\ Made(toClient[i].n, toClient[i].doc)
  /\ \A i, j \in DOMAIN toClient : i < j => toClient[i].n < toClient[j].n
  /\ \A t \in taken, i \in DOMAIN toClient : t.of < toClient[i].n

OutputOK ==
  output # NoAnswer =>
    /\ \E i \in DOMAIN answered : output = answered[i]
    /\ \A i \in DOMAIN toClient : toClient[i].n < output.n
    /\ \A t \in taken : t.of < output.n

(* The client waits for a request as long as it took nothing for its       *)
(* answer, and does not use its id for another one meanwhile.              *)
TakenOK ==
  \A t \in taken : t.of \in 1 .. Served /\ t.for \in 1 .. Len(sent)

OpenOK ==
  /\ \A w \in open : /\ w \in [id : RequestIds, n : 1 .. Len(sent)]
                     /\ w.id # Absent /\ w.id = sent[w.n].doc.id
  /\ \A w \in open, m \in DOMAIN sent : w.n < m => sent[m].doc.id # w.id
  /\ \A m \in DOMAIN sent :
       sent[m].doc.id # Absent =>
         \/ [id |-> sent[m].doc.id, n |-> m] \in open
         \/ \E t \in taken : t.for = m /\ t.id = sent[m].doc.id

(* Every function registered stays in the map.  What else is in it was     *)
(* inserted after somebody had asked for a function that is none of them.  *)
Disturbed(n) == \E m \in 1 .. n : sent[m].doc.method \notin Functions

MapOK ==
  /\ \A f \in Functions :
       [name |-> f, owner |-> Literal, callable |-> TRUE] \in funcMap
  /\ \A e \in funcMap :
       /\ e \in [name : Methods, owner : Nat, callable : BOOLEAN]
       /\ e.owner = Literal => e.name \in Functions /\ e.callable
       /\ e.owner # Literal => e.owner \in 1 .. Served /\ Disturbed(e.owner)

FlagsOK == orphaned \in BOOLEAN /\ alive \in BOOLEAN

ExInv ==
  /\ DocumentsOK /\ RequestsOK /\ AnswersOK /\ FlightOK /\ OutputOK
  /\ TakenOK /\ OpenOK /\ MapOK /\ FlagsOK
  /\ KnownIsCalled
  /\ \A t \in taken : t.for = t.of \/ Misled(t)

-----------------------------------------------------------------------------
(* What the other end cuts out of the stream is the text that was sent.    *)
LEMMA Whole ==
  ASSUME NEW n, NEW doc, NEW len \in Lens \cup OutLens
  PROVE  /\ Content(Encode(n, doc, len)) = doc
         /\ CreateHeader(len) \in Bytes
<1>1. len \in 1 .. MaxInt
  BY ExchangeAssumption, Zenon
<1>2. MaxInt \in Nat
  BY SMT DEF MaxInt
<1>2a. len \in Nat /\ len <= MaxInt
  BY <1>1, <1>2
<1>3. ReadHeader(CreateHeader(len)) = len /\ CreateHeader(len) \in Bytes
  BY <1>2a, RoundTrip, HeaderIsBytes
<1>4. Decoded(CreateHeader(len))
  BY <1>2a, <1>3, SMT DEF Decoded
<1> QED
  BY <1>3, <1>4, Zenon DEF Content, Encode

(* Which of the client's documents are what to the server.                 *)
LEMMA Kinds ==
  ASSUME NEW r \in RequestDoc
  PROVE  /\ IsRequest(r) <=> r.id \in IntIds \cup NumberIds
         /\ IsNotification(r) <=> r.id = Absent
         /\ r \in Document /\ r.json /\ r.method \in Methods
         /\ r.params \in Params \cup {Absent}
<1>1. /\ r.json = TRUE /\ r.jsonrpc = "2.0" /\ r.method \in {"read", "write"}
      /\ r.params \in RequestParams /\ r.id \in RequestIds
      /\ r.result = Absent /\ r.error = Absent
  BY DEF RequestDoc
<1>2. /\ r.params \in Params \cup {Absent}
      /\ r.id \in IntIds \cup NumberIds \cup BadIds \cup {Absent}
  BY <1>1, ExchangeAssumption, Zenon
<1>3. Versioned(r) /\ HasMethod(r) /\ r.method \in Methods
  BY <1>1 DEF Versioned, HasJsonRPCVersion, CheckJsonRpcVersion, HasMethod,
     Methods, Absent, NotString
<1>4. r \in Document
  <2>1. r = [json |-> r.json, jsonrpc |-> r.jsonrpc, method |-> r.method,
             params |-> r.params, id |-> r.id, result |-> r.result,
             error |-> r.error]
    BY DEF RequestDoc
  <2> QED
    BY <1>1, <1>2, <1>3, <2>1 DEF Document
<1> QED
  BY <1>1, <1>2, <1>3, <1>4 DEF IsRequest, IsNotification, HasId, HasNoId

(* The answers are documents, and how the client takes them.               *)
LEMMA AnswerKinds ==
  /\ \A d \in ResponseDoc : /\ d \in Document /\ HasResult(d)
                            /\ IsResponse(d) /\ ~IsError(d)
  /\ \A d \in ErrorDoc : /\ d \in Document /\ ~HasResult(d)
                         /\ IsResponse(d) /\ IsError(d)
<1>1. ASSUME NEW d \in ResponseDoc
      PROVE  d \in Document /\ HasResult(d) /\ IsResponse(d) /\ ~IsError(d)
  <2>1. /\ d.json = TRUE /\ d.jsonrpc = "2.0" /\ d.method = Absent
        /\ d.params = Absent /\ d.id \in IntIds \cup NumberIds
        /\ d.result = "other string" /\ d.error = Absent
        /\ d = [json |-> d.json, jsonrpc |-> d.jsonrpc, method |-> d.method,
                params |-> d.params, id |-> d.id, result |-> d.result,
                error |-> d.error]
    BY DEF ResponseDoc
  <2>2. d \in Document
    BY <2>1 DEF Document, Results
  <2> QED
    BY <2>1, <2>2 DEF IsResponse, IsError, Versioned, HasJsonRPCVersion,
       CheckJsonRpcVersion, HasResultOrError, HasResult, HasError, HasId, Absent,
       NotString
<1>2. ASSUME NEW d \in ErrorDoc
      PROVE  d \in Document /\ ~HasResult(d) /\ IsResponse(d) /\ IsError(d)
  <2>1. /\ d.json = TRUE /\ d.jsonrpc = "2.0" /\ d.method = Absent
        /\ d.params = Absent /\ d.id \in IntIds
        /\ d.result = Absent /\ d.error = "object"
        /\ d = [json |-> d.json, jsonrpc |-> d.jsonrpc, method |-> d.method,
                params |-> d.params, id |-> d.id, result |-> d.result,
                error |-> d.error]
    BY DEF ErrorDoc
  <2>2. d \in Document
    BY <2>1 DEF Document
  <2> QED
    BY <2>1, <2>2 DEF IsResponse, IsError, Versioned, HasJsonRPCVersion,
       CheckJsonRpcVersion, HasResultOrError, HasResult, HasError, HasId, Absent,
       NotString
<1> QED
  BY <1>1, <1>2

(* What the generators make of a document of their kind.                   *)
LEMMA Generated ==
  /\ \A d \in ResponseDoc, id \in IntIds \cup NumberIds :
       /\ GenerateResponse(d, id, "other string") \in ResponseDoc
       /\ GenerateResponse(d, id, "other string").id = id
  /\ \A id : \A d \in ErrorDoc :
       /\ GenerateResponseError(d, id) \in ErrorDoc
       /\ GenerateResponseError(d, id).id = IF id \in IntIds THEN id ELSE "0"
<1>1. ASSUME NEW d \in ResponseDoc, NEW id \in IntIds \cup NumberIds
      PROVE  /\ GenerateResponse(d, id, "other string") \in ResponseDoc
             /\ GenerateResponse(d, id, "other string").id = id
  BY DEF GenerateResponse, ResponseDoc
<1>2. ASSUME NEW d \in ErrorDoc, NEW id
      PROVE  /\ GenerateResponseError(d, id) \in ErrorDoc
             /\ GenerateResponseError(d, id).id = IF id \in IntIds THEN id ELSE "0"
  <2> DEFINE k == IF id \in IntIds THEN id ELSE "0"
  <2>1. k \in IntIds
    BY DEF IntIds
  <2>2. GenerateResponseError(d, id) = [d EXCEPT !.id = k]
    BY Zenon DEF GenerateResponseError
  <2> HIDE DEF k
  <2>3. [d EXCEPT !.id = k] \in ErrorDoc /\ [d EXCEPT !.id = k].id = k
    BY <2>1 DEF ErrorDoc
  <2> QED
    BY <2>2, <2>3, Zenon DEF k
<1> QED
  BY <1>1, <1>2

(* A parameter of the right type is found in each of the ways there are to *)
(* look for it, and one of another type in some.                           *)
LEMMA Found ==
  ASSUME NEW r \in RequestDoc, NEW found \in Lookup(r)
  PROVE  /\ found \in BOOLEAN
         /\ r.params = "object" => found
         /\ found => r.params \in {"object", "object with another type"}
<1>1. r.params \in Params \cup {Absent}
  BY Kinds
<1>2. \/ found = TryToGetParam(r)
      \/ HasParams(r) /\ found = FindObjectMember(r.params)
      \/ HasParams(r) /\ found = FindTypedMember(r.params)
      \/ ~HasParams(r) /\ found = FALSE
  BY Zenon DEF Lookup
<1>3. TryToGetParam(r) <=> r.params \in {"object", "object with another type"}
  BY <1>1 DEF TryToGetParam, HasParams, Params, Absent
<1>4. FindObjectMember(r.params) <=>
        r.params \in {"object", "object with another type"}
  BY DEF FindObjectMember
<1>5. FindTypedMember(r.params) <=> r.params = "object"
  BY DEF FindTypedMember
<1>6. r.params = "object" => HasParams(r)
  BY DEF HasParams, Absent
<1>7. found \in BOOLEAN
  <2>1. /\ TryToGetParam(r) \in BOOLEAN /\ FindObjectMember(r.params) \in BOOLEAN
        /\ FindTypedMember(r.params) \in BOOLEAN
    BY DEF TryToGetParam, FindObjectMember, FindTypedMember
  <2> QED
    BY <1>2, <2>1, Zenon
<1> QED
  BY <1>2, <1>3, <1>4, <1>5, <1>6, <1>7, Zenon

-----------------------------------------------------------------------------
(* How many requests are made, under way and served.                       *)
LEMMA Counted ==
  ASSUME RequestsOK
  PROVE  /\ Len(sent) \in Nat /\ DOMAIN sent = 1 .. Len(sent)
         /\ Len(toServer) \in Nat /\ DOMAIN toServer = 1 .. Len(toServer)
         /\ Served \in Nat /\ Served + Len(toServer) = Len(sent)
         /\ Len(sent) <= MaxRequests /\ MaxRequests \in Nat
         /\ \A m \in 1 .. Len(sent) : sent[m].doc \in RequestDoc /\ sent[m].len \in Lens
<1>1. /\ sent \in Seq([doc : RequestDoc, len : Lens]) /\ Len(sent) <= MaxRequests
      /\ toServer \in Seq(Frame) /\ Len(toServer) <= Len(sent)
  BY DEF RequestsOK
<1>2. MaxRequests \in Nat
  BY ExchangeAssumption, Zenon
<1>3. /\ Len(sent) \in Nat /\ DOMAIN sent = 1 .. Len(sent)
      /\ Len(toServer) \in Nat /\ DOMAIN toServer = 1 .. Len(toServer)
  BY <1>1
<1>4. Served \in Nat /\ Served + Len(toServer) = Len(sent)
  BY <1>1, <1>3 DEF Served
<1>5. \A m \in 1 .. Len(sent) : sent[m] \in [doc : RequestDoc, len : Lens]
  BY <1>1, ElementOfSeq, Zenon
<1>6. \A m \in 1 .. Len(sent) : sent[m].doc \in RequestDoc /\ sent[m].len \in Lens
  BY <1>5
<1> QED
  BY <1>1, <1>2, <1>3, <1>4, <1>6

(* Every invariant holds before the first request.                         *)
LEMMA InitInv == Init => ExInv
<1> SUFFICES ASSUME Init PROVE ExInv
  OBVIOUS
<1>1. DocumentsOK
  BY DEF Init, DocumentsOK, RequestDOM, ResponseDOM, ErrorDOM, Blank, ResponseDoc,
     ErrorDoc, IntIds
<1>2. RequestsOK
  BY ExchangeAssumption DEF Init, RequestsOK
<1>3. /\ DOMAIN sent = {} /\ DOMAIN answered = {} /\ DOMAIN toClient = {}
      /\ answered \in Seq([n : Nat, doc : ResponseDoc \cup ErrorDoc])
      /\ toClient \in Seq(Frame)
      /\ open = {} /\ taken = {} /\ output = NoAnswer
      /\ orphaned \in BOOLEAN /\ alive \in BOOLEAN
  <2>1. DOMAIN << >> = {} /\ \A S : << >> \in Seq(S)
    OBVIOUS
  <2>2. /\ sent = <<>> /\ answered = <<>> /\ toClient = <<>> /\ open = {}
        /\ taken = {} /\ output = NoAnswer /\ orphaned = FALSE /\ alive = TRUE
    BY Zenon DEF Init
  <2> QED
    BY <2>1, <2>2, Zenon
<1>4. /\ AnswersOK /\ FlightOK /\ OutputOK /\ TakenOK /\ OpenOK /\ FlagsOK
      /\ KnownIsCalled
      /\ \A t \in taken : t.for = t.of \/ Misled(t)
  BY <1>3, Zenon DEF AnswersOK, FlightOK, OutputOK, TakenOK, OpenOK, FlagsOK,
     KnownIsCalled
<1>5. MapOK
  <2>1. funcMap = {[name |-> f, owner |-> Literal, callable |-> TRUE] :
                     f \in Functions}
    BY DEF Init, InitMap
  <2>2. ASSUME NEW e \in funcMap
        PROVE  /\ e \in [name : Methods, owner : Nat, callable : BOOLEAN]
               /\ e.owner = Literal /\ e.name \in Functions /\ e.callable
    <3>1. PICK f \in Functions : e = [name |-> f, owner |-> 0, callable |-> TRUE]
      BY <2>1 DEF Literal
    <3>2. f \in Methods
      BY ExchangeAssumption, Zenon
    <3> QED
      BY <3>1, <3>2 DEF Literal
  <2> QED
    BY <2>1, <2>2 DEF MapOK
<1> QED
  BY <1>1, <1>2, <1>4, <1>5 DEF ExInv

(* The client makes one more request; those before it are what they were.  *)
LEMMA RequestKeeps ==
  ASSUME ExInv,
         NEW method \in {"read", "write"}, NEW params \in RequestParams,
         NEW id \in RequestIds, NEW len \in Lens,
         Request(method, params, id, len)
  PROVE  ExInv'
<1> DEFINE L == Len(sent)
           request == [doc |-> requestDOM', len |-> len]
<1>0. /\ DocumentsOK /\ RequestsOK /\ AnswersOK /\ FlightOK /\ OutputOK
      /\ TakenOK /\ OpenOK /\ MapOK /\ FlagsOK /\ KnownIsCalled
      /\ \A t \in taken : t.for = t.of \/ Misled(t)
  BY Zenon DEF ExInv
<1>1. /\ L \in Nat /\ DOMAIN sent = 1 .. L
      /\ Len(toServer) \in Nat /\ DOMAIN toServer = 1 .. Len(toServer)
      /\ Served \in Nat /\ Served + Len(toServer) = L /\ MaxRequests \in Nat
      /\ \A m \in 1 .. L : sent[m].doc \in RequestDoc /\ sent[m].len \in Lens
  BY <1>0, Counted
<1>2. /\ L < MaxRequests /\ \A w \in open : w.id # id
      /\ requestDOM' = GenerateRequest(requestDOM, method, params, id)
      /\ sent' = Append(sent, request)
      /\ open' = IF id = Absent THEN open
                 ELSE open \cup {[id |-> id, n |-> Len(sent')]}
      /\ toServer' = Append(toServer, Encode(Len(sent'), requestDOM', len))
      /\ UNCHANGED <<taken, responseDOM, errorDOM, output, orphaned, alive,
                     answered, funcMap, toClient>>
  BY Zenon DEF Request, serverVars
<1>3. requestDOM' \in RequestDoc /\ requestDOM'.id = id
  <2>1. requestDOM' = [requestDOM EXCEPT !.method = method, !.params = params,
                                         !.id = id]
    BY <1>2, Zenon DEF GenerateRequest
  <2> QED
    BY <1>0, <2>1 DEF DocumentsOK, RequestDoc
<1>4. DocumentsOK'
  <2>1. /\ responseDOM' \in ResponseDoc /\ errorDOM' \in ErrorDoc
    BY <1>0, <1>2 DEF DocumentsOK
  <2> QED
    BY <1>3, <2>1 DEF DocumentsOK, RequestDoc
<1>5. /\ sent' \in Seq([doc : RequestDoc, len : Lens])
      /\ Len(sent') = L + 1 /\ sent'[L + 1] = request
      /\ \A m \in 1 .. L : sent'[m] = sent[m]
  <2>1. request \in [doc : RequestDoc, len : Lens]
    BY <1>3
  <2>2. sent \in Seq([doc : RequestDoc, len : Lens])
    BY <1>0 DEF RequestsOK
  <2> HIDE DEF request
  <2> QED
    BY <1>2, <2>1, <2>2, AppendProperties
<1>6. Encode(L + 1, requestDOM', len) \in Frame
  <2>1. CreateHeader(len) \in Bytes
    BY Whole
  <2>2. requestDOM' \in Document
    BY <1>3, Kinds
  <2>3. L + 1 \in 1 .. MaxRequests
    BY <1>1, <1>2
  <2> QED
    BY <2>1, <2>2, <2>3 DEF Encode, Frame
<1>7. /\ toServer' \in Seq(Frame) /\ Len(toServer') = Len(toServer) + 1
      /\ toServer'[Len(toServer) + 1] = Encode(L + 1, requestDOM', len)
      /\ \A i \in 1 .. Len(toServer) : toServer'[i] = toServer[i]
  <2>1. toServer \in Seq(Frame)
    BY <1>0 DEF RequestsOK
  <2>2. toServer' = Append(toServer, Encode(L + 1, requestDOM', len))
    BY <1>2, <1>5
  <2> QED
    BY <1>6, <2>1, <2>2, AppendProperties
<1> HIDE DEF L
<1>8. Served' = Served /\ DOMAIN sent' = 1 .. L + 1
      /\ DOMAIN toServer' = 1 .. Len(toServer) + 1
  BY <1>1, <1>5, <1>7 DEF Served, L
<1>9. RequestsOK'
  <2>1. ASSUME NEW i \in 1 .. Len(toServer) + 1
        PROVE  toServer'[i] = Encode(Served + i, sent'[Served + i].doc,
                                     sent'[Served + i].len)
    <3>1. CASE i = Len(toServer) + 1
      <4>1. Served + i = L + 1
        BY <1>1, <3>1
      <4> QED
        BY <1>5, <1>7, <3>1, <4>1
    <3>2. CASE i \in 1 .. Len(toServer)
      <4>1. Served + i \in 1 .. L
        BY <1>1, <3>2
      <4>2. toServer[i] = Encode(Served + i, sent[Served + i].doc,
                                 sent[Served + i].len)
        BY <1>0, <1>1, <3>2 DEF RequestsOK
      <4> QED
        BY <1>5, <1>7, <3>2, <4>1, <4>2
    <3> QED
      BY <1>1, <3>1, <3>2
  <2>2. Len(sent') <= MaxRequests /\ Len(toServer') <= Len(sent')
    BY <1>1, <1>2, <1>5, <1>7
  <2> QED
    BY <1>5, <1>7, <1>8, <2>1, <2>2 DEF RequestsOK
<1>10. \A m \in 1 .. Served : m \in 1 .. L /\ sent'[m] = sent[m]
  BY <1>1, <1>5
<1>11. AnswersOK'
  <2>1. \A i \in DOMAIN answered : answered[i].n \in 1 .. Served
    BY <1>0 DEF AnswersOK
  <2>2. \A i \in DOMAIN answered : sent'[answered[i].n] = sent[answered[i].n]
    BY <1>10, <2>1
  <2> QED
    BY <1>0, <1>2, <1>8, <2>2 DEF AnswersOK
<1>12. FlightOK' /\ OutputOK' /\ FlagsOK'
  BY <1>0, <1>2 DEF FlightOK, OutputOK, FlagsOK, Made
<1>13. TakenOK'
  BY <1>0, <1>1, <1>2, <1>5, <1>8 DEF TakenOK, L
<1>14. OpenOK'
  <2>1. /\ \A w \in open : /\ w \in [id : RequestIds, n : 1 .. L]
                           /\ w.id # Absent /\ w.id = sent[w.n].doc.id
        /\ \A w \in open, m \in 1 .. L : w.n < m => sent[m].doc.id # w.id
        /\ \A m \in 1 .. L :
             sent[m].doc.id # Absent =>
               \/ [id |-> sent[m].doc.id, n |-> m] \in open
               \/ \E t \in taken : t.for = m /\ t.id = sent[m].doc.id
    BY <1>0, <1>1 DEF OpenOK, L
  <2> DEFINE mine == [id |-> id, n |-> L + 1]
  <2>2. \A w \in open' : w \in open \/ (id # Absent /\ w = mine)
    BY <1>2, <1>5
  <2>3. sent'[L + 1].doc.id = id
    BY <1>3, <1>5
  <2>4. ASSUME NEW w \in open'
        PROVE  /\ w \in [id : RequestIds, n : 1 .. L + 1]
               /\ w.id # Absent /\ w.id = sent'[w.n].doc.id
    <3>1. CASE w \in open
      BY <1>1, <1>5, <2>1, <3>1
    <3>2. CASE id # Absent /\ w = mine
      BY <1>1, <2>3, <3>2
    <3> QED
      BY <2>2, <3>1, <3>2
  <2>5. ASSUME NEW w \in open', NEW m \in 1 .. L + 1, w.n < m
        PROVE  sent'[m].doc.id # w.id
    <3>1. CASE w \in open /\ m = L + 1
      BY <1>2, <2>3, <3>1
    <3>2. CASE w \in open /\ m \in 1 .. L
      BY <1>5, <2>1, <2>5, <3>2
    <3>3. CASE w = mine
      BY <1>1, <2>5, <3>3
    <3> QED
      BY <1>1, <2>2, <3>1, <3>2, <3>3
  <2>6. ASSUME NEW m \in 1 .. L + 1, sent'[m].doc.id # Absent
        PROVE  \/ [id |-> sent'[m].doc.id, n |-> m] \in open'
               \/ \E t \in taken' : t.for = m /\ t.id = sent'[m].doc.id
    <3>1. CASE m = L + 1
      BY <1>2, <1>5, <2>3, <2>6, <3>1
    <3>2. CASE m \in 1 .. L
      <4>1. sent'[m] = sent[m]
        BY <1>5, <3>2
      <4>2. open \subseteq open'
        BY <1>2
      <4>3. \/ [id |-> sent[m].doc.id, n |-> m] \in open
            \/ \E t \in taken : t.for = m /\ t.id = sent[m].doc.id
        BY <2>1, <2>6, <3>2, <4>1, Zenon
      <4>4. taken' = taken
        BY <1>2
      <4> QED
        BY <4>1, <4>2, <4>3, <4>4, Zenon
    <3> QED
      BY <1>1, <3>1, <3>2
  <2> QED
    BY <1>5, <1>8, <2>4, <2>5, <2>6 DEF OpenOK
<1>15. MapOK'
  <2>1. ASSUME NEW n \in 1 .. Served, Disturbed(n)
        PROVE  Disturbed(n)'
    <3>1. \A m \in 1 .. n : m \in 1 .. Served
      BY <1>1
    <3> QED
      BY <1>2, <1>10, <2>1, <3>1 DEF Disturbed
  <2> QED
    BY <1>0, <1>2, <1>8, <2>1 DEF MapOK
<1>16. KnownIsCalled'
  <2> SUFFICES ASSUME NEW i \in DOMAIN answered,
                      \A m \in 1 .. answered[i].n - 1 :
                        sent'[m].doc.method \in Functions
               PROVE  /\ Offers(answered[i].n, {"object"})' =>
                           HasResult(answered[i].doc)
                      /\ HasResult(answered[i].doc) =>
                           Offers(answered[i].n,
                                  {"object", "object with another type"})'
    BY <1>2 DEF KnownIsCalled
  <2>1. answered[i].n \in 1 .. Served
    BY <1>0 DEF AnswersOK
  <2>2. \A m \in 1 .. answered[i].n : sent'[m] = sent[m]
    BY <1>1, <1>10, <2>1
  <2>3. \A m \in 1 .. answered[i].n - 1 : sent[m].doc.method \in Functions
    BY <1>1, <2>1, <2>2
  <2>4. sent'[answered[i].n] = sent[answered[i].n]
    BY <1>1, <2>1, <2>2
  <2>5. /\ Offers(answered[i].n, {"object"}) => HasResult(answered[i].doc)
        /\ HasResult(answered[i].doc) =>
             Offers(answered[i].n, {"object", "object with another type"})
    BY <1>0, <2>3, Zenon DEF KnownIsCalled
  <2> QED
    BY <1>2, <2>4, <2>5 DEF Offers
<1>17. \A t \in taken' : t.for = t.of \/ Misled(t)'
  <2>1. \A i \in DOMAIN answered : sent'[answered[i].n] = sent[answered[i].n]
    BY <1>0, <1>10 DEF AnswersOK
  <2> QED
    BY <1>0, <1>2, <2>1 DEF Misled
<1> QED
  BY <1>4, <1>9, <1>11, <1>12, <1>13, <1>14, <1>15, <1>16, <1>17 DEF ExInv

-----------------------------------------------------------------------------
(***************************************************************************)
(* The client takes the answer at the head of the connection for the one   *)
(* to a request it has open under that id.  Say the answer is to request n *)
(* and the open one is w.  Had w been made before n, n's id would have     *)
(* been in use; had it been made after n, the client would have taken      *)
(* something else for the answer to n, earlier, and was misled then.       *)
(***************************************************************************)
LEMMA TakeAnswerKeeps ==
  ASSUME ExInv, TakeAnswer
  PROVE  ExInv'
<1> DEFINE L     == Len(sent)
           frame == toClient[1]
           doc   == frame.doc
           mine  == {w \in open : w.id = doc.id}
<1>0. /\ DocumentsOK /\ RequestsOK /\ AnswersOK /\ FlightOK /\ OutputOK
      /\ TakenOK /\ OpenOK /\ MapOK /\ FlagsOK /\ KnownIsCalled
      /\ \A t \in taken : t.for = t.of \/ Misled(t)
  BY Zenon DEF ExInv
<1>1. /\ L \in Nat /\ DOMAIN sent = 1 .. L
      /\ Served \in Nat /\ Served <= L
      /\ \A m \in 1 .. L : sent[m].doc \in RequestDoc
  BY <1>0, Counted
<1>2. /\ toClient # <<>> /\ toClient \in Seq(Frame) /\ Len(toClient) \in Nat
      /\ Head(toClient) = frame
      /\ toClient' = Tail(toClient)
  BY <1>0 DEF TakeAnswer, FlightOK
<1>3. /\ 1 \in DOMAIN toClient /\ toClient' \in Seq(Frame)
      /\ DOMAIN toClient = 1 .. Len(toClient)
      /\ DOMAIN toClient' = 1 .. Len(toClient) - 1
      /\ \A i \in 1 .. Len(toClient) - 1 : toClient'[i] = toClient[i + 1]
  <2>1. /\ Tail(toClient) \in Seq(Frame)
        /\ Len(Tail(toClient)) = Len(toClient) - 1
        /\ \A i \in 1 .. Len(Tail(toClient)) : Tail(toClient)[i] = toClient[i + 1]
    BY <1>2, HeadTailProperties
  <2> QED
    BY <1>2, <2>1
<1>4. UNCHANGED <<requestDOM, sent, responseDOM, errorDOM, output, orphaned, alive,
                  answered, funcMap, toServer>>
  BY Zenon DEF TakeAnswer, serverVars
<1>5. PICK a \in DOMAIN answered : answered[a] = [n |-> frame.n, doc |-> doc]
  BY <1>0, <1>3 DEF FlightOK, Made
<1>6. /\ answered[a].n = frame.n /\ answered[a].doc = doc
      /\ frame.n \in 1 .. Served /\ frame.n \in 1 .. L
      /\ Answers(doc, sent[frame.n].doc)
      /\ doc \in ResponseDoc \cup ErrorDoc
  <2>1. answered[a].n = frame.n /\ answered[a].doc = doc
    BY <1>5
  <2>2. answered[a] \in [n : Nat, doc : ResponseDoc \cup ErrorDoc]
    <3>1. answered \in Seq([n : Nat, doc : ResponseDoc \cup ErrorDoc])
      BY <1>0, Zenon DEF AnswersOK
    <3>2. a \in 1 .. Len(answered)
      BY <3>1
    <3> QED
      BY <3>1, <3>2, ElementOfSeq, Zenon
  <2>3. answered[a].n \in 1 .. Served /\ Answers(answered[a].doc,
                                                sent[answered[a].n].doc)
    BY <1>0 DEF AnswersOK
  <2> QED
    BY <1>1, <2>1, <2>2, <2>3
<1>7. Content(frame) = doc
  <2>1. frame \in Frame /\ frame.header = CreateHeader(frame.len)
    BY <1>0, <1>2, <1>3, ElementOfSeq DEF FlightOK
  <2>2. /\ frame = [n |-> frame.n, header |-> frame.header, len |-> frame.len,
                    doc |-> doc]
        /\ frame.len \in Lens \cup OutLens
    BY <2>1 DEF Frame
  <2>3. frame = Encode(frame.n, doc, frame.len)
    BY <2>1, <2>2, Zenon DEF Encode
  <2>4. Content(Encode(frame.n, doc, frame.len)) = doc
    BY <2>2, Whole
  <2> HIDE DEF frame, doc
  <2> QED
    BY <2>3, <2>4, Zenon
<1>8. IsResponse(doc)
  BY <1>6, AnswerKinds
<1>9. /\ open' = open \ mine
      /\ taken' = taken \cup {[id |-> w.id, for |-> w.n, of |-> frame.n,
                               error |-> IsError(doc)] : w \in mine}
  <2>1. /\ open' = open \ {w \in open : IsResponse(Content(frame))
                                        /\ w.id = Content(frame).id}
        /\ taken' = taken \cup
             {[id |-> w.id, for |-> w.n, of |-> frame.n,
               error |-> IsError(Content(frame))] :
                 w \in {w \in open : IsResponse(Content(frame))
                                     /\ w.id = Content(frame).id}}
    BY <1>2, Zenon DEF TakeAnswer
  <2>2. {w \in open : IsResponse(doc) /\ w.id = doc.id} = mine
    BY <1>8
  <2> HIDE DEF mine, frame, doc
  <2> QED
    BY <1>7, <2>1, <2>2
<1>10. \A t \in taken' :
         \/ t \in taken
         \/ \E w \in mine : t.id = w.id /\ t.for = w.n /\ t.of = frame.n
  BY <1>9
<1>11. \A w \in mine :
         /\ w \in open /\ w.id = doc.id /\ w.n \in 1 .. L
         /\ w.id # Absent /\ w.id = sent[w.n].doc.id
  BY <1>0, <1>1 DEF OpenOK
<1> HIDE DEF L, frame, doc, mine
<1>12. \A t \in taken : t.of < frame.n
  BY <1>0, <1>3 DEF FlightOK, frame
<1>13. ASSUME NEW w \in mine
       PROVE  \/ w.n = frame.n
              \/ /\ w.id = "0"
                 /\ \E i \in DOMAIN answered :
                      /\ IsError(answered[i].doc) /\ answered[i].n <= frame.n
                      /\ sent[answered[i].n].doc.id \notin IntIds
  <2>1. w.n \in 1 .. L /\ w.id = doc.id /\ w \in open
    BY <1>11
  <2>2. CASE sent[frame.n].doc.id \in IntIds \/ doc \in ResponseDoc
    <3>1. doc.id = sent[frame.n].doc.id
      <4>1. CASE doc \in ResponseDoc
        <5>1. ~(doc \in ErrorDoc)
          BY <4>1, AnswerKinds, Zenon
        <5> QED
          BY <1>6, <5>1 DEF Answers
      <4>2. CASE doc \notin ResponseDoc
        BY <1>6, <2>2, <4>2 DEF Answers
      <4> QED
        BY <4>1, <4>2
    <3>2. ~(w.n < frame.n)
      BY <1>0, <1>1, <1>6, <2>1, <3>1 DEF OpenOK, L
    <3>3. CASE frame.n < w.n
      <4>1. [id |-> doc.id, n |-> frame.n] \notin open
        <5>1. SUFFICES ASSUME [id |-> doc.id, n |-> frame.n] \in open
                       PROVE  FALSE
          OBVIOUS
        <5> DEFINE v == [id |-> doc.id, n |-> frame.n]
        <5>2. v.n < w.n /\ v.id = doc.id
          BY <3>3
        <5>3. sent[w.n].doc.id = doc.id
          BY <1>11, <2>1
        <5> HIDE DEF v
        <5>4. v \in open
          BY <5>1 DEF v
        <5> QED
          BY <1>0, <1>1, <2>1, <5>2, <5>3, <5>4 DEF OpenOK, L
      <4>2. doc.id # Absent
        BY <1>11, <2>1
      <4>3. PICK t \in taken : t.for = frame.n /\ t.id = doc.id
        <5>1. sent[frame.n].doc.id # Absent =>
                \/ [id |-> sent[frame.n].doc.id, n |-> frame.n] \in open
                \/ \E t \in taken : t.for = frame.n /\ t.id = sent[frame.n].doc.id
          BY <1>0, <1>1, <1>6 DEF OpenOK, L
        <5> QED
          BY <3>1, <4>1, <4>2, <5>1, Zenon
      <4>4. t.of < frame.n /\ t.of \in Int
        BY <1>0, <1>12 DEF TakenOK
      <4>5. Misled(t)
        BY <1>0, <4>3, <4>4
      <4>6. PICK i \in DOMAIN answered :
              /\ IsError(answered[i].doc) /\ answered[i].n <= t.of
              /\ sent[answered[i].n].doc.id \notin IntIds
        BY <4>5 DEF Misled
      <4>7. answered[i].n <= frame.n
        <5>1. answered[i].n \in Int /\ frame.n \in Int
          BY <1>0, <1>1, <1>6 DEF AnswersOK
        <5> QED
          BY <4>4, <4>6, <5>1
      <4> QED
        BY <2>1, <4>3, <4>5, <4>6, <4>7 DEF Misled
    <3> QED
      BY <1>1, <1>6, <2>1, <3>2, <3>3
  <2>3. CASE sent[frame.n].doc.id \notin IntIds /\ doc \notin ResponseDoc
    <3>1. doc \in ErrorDoc /\ doc.id = "0"
      BY <1>6, <2>3 DEF Answers
    <3>2. IsError(answered[a].doc)
      BY <1>6, <3>1, AnswerKinds
    <3>3. answered[a].n <= frame.n
      BY <1>1, <1>6
    <3> QED
      BY <1>6, <2>1, <2>3, <3>1, <3>2, <3>3
  <2> QED
    BY <2>2, <2>3
<1>14. \A t \in taken' : t.for = t.of \/ Misled(t)'
  <2>1. ASSUME NEW t \in taken
        PROVE  t.for = t.of \/ Misled(t)'
    BY <1>0, <1>4 DEF Misled
  <2>2. ASSUME NEW t \in taken', NEW w \in mine,
               t.id = w.id, t.for = w.n, t.of = frame.n
        PROVE  t.for = t.of \/ Misled(t)'
    BY <1>4, <1>13, <2>2 DEF Misled
  <2> QED
    BY <1>10, <2>1, <2>2, Zenon
<1>15. DocumentsOK' /\ RequestsOK' /\ AnswersOK' /\ MapOK' /\ FlagsOK'
       /\ KnownIsCalled' /\ Served' = Served
  BY <1>0, <1>4 DEF DocumentsOK, RequestsOK, AnswersOK, MapOK, FlagsOK, Disturbed,
     KnownIsCalled, Offers, Served
<1>16. FlightOK'
  <2>1. \A i \in 1 .. Len(toClient) - 1 :
          /\ toClient'[i].header = CreateHeader(toClient'[i].len)
          /\ Made(toClient'[i].n, toClient'[i].doc)
    BY <1>0, <1>2, <1>3 DEF FlightOK
  <2>2. \A i, j \in 1 .. Len(toClient) - 1 :
          i < j => toClient'[i].n < toClient'[j].n
    BY <1>0, <1>2, <1>3 DEF FlightOK
  <2>3. ASSUME NEW t \in taken', NEW i \in 1 .. Len(toClient) - 1
        PROVE  t.of < toClient'[i].n
    <3>1. i + 1 \in DOMAIN toClient /\ toClient'[i] = toClient[i + 1]
      BY <1>2, <1>3
    <3>2. t.of = frame.n \/ t \in taken
      BY <1>10
    <3>3. frame.n < toClient[i + 1].n
      BY <1>0, <1>2, <1>3, <3>1 DEF FlightOK, frame
    <3> QED
      BY <1>0, <3>1, <3>2, <3>3 DEF FlightOK
  <2> QED
    BY <1>3, <1>4, <2>1, <2>2, <2>3 DEF FlightOK, Made
<1>17. OutputOK'
  <2> SUFFICES ASSUME output # NoAnswer
               PROVE  /\ \E i \in DOMAIN answered : output = answered[i]
                      /\ \A i \in DOMAIN toClient' : toClient'[i].n < output.n
                      /\ \A t \in taken' : t.of < output.n
    BY <1>4 DEF OutputOK
  <2>1. /\ \E i \in DOMAIN answered : output = answered[i]
        /\ \A i \in DOMAIN toClient : toClient[i].n < output.n
        /\ \A t \in taken : t.of < output.n
    BY <1>0 DEF OutputOK
  <2>2. frame.n < output.n
    BY <1>3, <2>1 DEF frame
  <2> QED
    BY <1>2, <1>3, <1>10, <2>1, <2>2
<1>18. TakenOK'
  BY <1>0, <1>4, <1>6, <1>10, <1>11, <1>15 DEF TakenOK, L
<1>19. OpenOK'
  <2>1. /\ \A w \in open : /\ w \in [id : RequestIds, n : 1 .. L]
                           /\ w.id # Absent /\ w.id = sent[w.n].doc.id
        /\ \A w \in open, m \in 1 .. L : w.n < m => sent[m].doc.id # w.id
        /\ \A m \in 1 .. L :
             sent[m].doc.id # Absent =>
               \/ [id |-> sent[m].doc.id, n |-> m] \in open
               \/ \E t \in taken : t.for = m /\ t.id = sent[m].doc.id
    BY <1>0, <1>1 DEF OpenOK, L
  <2>2. open' \subseteq open /\ taken \subseteq taken'
    BY <1>9
  <2>3. ASSUME NEW m \in 1 .. L, sent[m].doc.id # Absent
        PROVE  \/ [id |-> sent[m].doc.id, n |-> m] \in open'
               \/ \E t \in taken' : t.for = m /\ t.id = sent[m].doc.id
    <3> DEFINE w == [id |-> sent[m].doc.id, n |-> m]
    <3>1. w.id = sent[m].doc.id /\ w.n = m
      OBVIOUS
    <3>2. w \in open \/ \E t \in taken : t.for = m /\ t.id = sent[m].doc.id
      BY <2>1, <2>3
    <3> HIDE DEF w
    <3>3. CASE w \in mine
      <4> DEFINE u == [id |-> w.id, for |-> w.n, of |-> frame.n,
                       error |-> IsError(doc)]
      <4>1. u.for = m /\ u.id = sent[m].doc.id
        BY <3>1
      <4>2. u \in taken'
        BY <1>9, <3>3
      <4> QED
        BY <4>1, <4>2
    <3>4. CASE w \notin mine
      <4>1. w \in open' \/ \E t \in taken' : t.for = m /\ t.id = sent[m].doc.id
        BY <1>9, <2>2, <3>2, <3>4
      <4> QED
        BY <4>1 DEF w
    <3> QED
      BY <3>3, <3>4
  <2> QED
    BY <1>1, <1>4, <2>1, <2>2, <2>3 DEF OpenOK, L
<1> QED
  BY <1>14, <1>15, <1>16, <1>17, <1>18, <1>19 DEF ExInv

-----------------------------------------------------------------------------
(* The answer to be transmitted goes to the end of the connection, or is   *)
(* lost with tmutex.                                                       *)
LEMMA TransmitKeeps ==
  ASSUME ExInv, TransmitAnswer
  PROVE  ExInv'
<1>0. /\ DocumentsOK /\ RequestsOK /\ AnswersOK /\ FlightOK /\ OutputOK
      /\ TakenOK /\ OpenOK /\ MapOK /\ FlagsOK /\ KnownIsCalled
      /\ \A t \in taken : t.for = t.of \/ Misled(t)
  BY Zenon DEF ExInv
<1>1. /\ output # NoAnswer /\ output' = NoAnswer
      /\ UNCHANGED <<requestDOM, open, sent, taken, responseDOM, errorDOM, alive,
                     answered, funcMap, toServer>>
  BY Zenon DEF TransmitAnswer, clientVars
<1>2. PICK len \in OutLens :
        \/ orphaned' = TRUE /\ toClient' = toClient
        \/ /\ toClient' = Append(toClient, Encode(output.n, output.doc, len))
           /\ orphaned' = orphaned
  BY Zenon DEF TransmitAnswer
<1>3. DocumentsOK' /\ RequestsOK' /\ AnswersOK' /\ MapOK' /\ TakenOK' /\ OpenOK'
      /\ KnownIsCalled' /\ \A t \in taken' : t.for = t.of \/ Misled(t)'
  <2>1. DocumentsOK' /\ RequestsOK' /\ AnswersOK' /\ MapOK'
    BY <1>0, <1>1 DEF DocumentsOK, RequestsOK, AnswersOK, MapOK, Disturbed, Served
  <2>2. TakenOK' /\ OpenOK' /\ \A t \in taken' : t.for = t.of \/ Misled(t)'
    BY <1>0, <1>1 DEF TakenOK, OpenOK, Served, Misled
  <2>3. KnownIsCalled'
    BY <1>0, <1>1 DEF KnownIsCalled, Offers
  <2> QED
    BY <2>1, <2>2, <2>3
<1>4. OutputOK'
  BY <1>1, Zenon DEF OutputOK, NoAnswer, Unparsable, Blank
<1>5. FlagsOK'
  BY <1>0, <1>1, <1>2 DEF FlagsOK
<1>6. CASE toClient' = toClient
  <2>1. FlightOK'
    BY <1>0, <1>1, <1>6 DEF FlightOK, Made
  <2> QED
    BY <1>3, <1>4, <1>5, <2>1, Zenon DEF ExInv
<1>7. CASE toClient' = Append(toClient, Encode(output.n, output.doc, len))
  <2> DEFINE frame == Encode(output.n, output.doc, len)
             k == Len(toClient)
  <2>1. PICK a \in DOMAIN answered : output = answered[a]
    BY <1>0, <1>1, Zenon DEF OutputOK
  <2>2. /\ answered[a] \in [n : Nat, doc : ResponseDoc \cup ErrorDoc]
        /\ answered[a].n \in 1 .. Served
    <3>1. answered \in Seq([n : Nat, doc : ResponseDoc \cup ErrorDoc])
      BY <1>0, Zenon DEF AnswersOK
    <3>2. a \in 1 .. Len(answered)
      BY <3>1
    <3>3. answered[a] \in [n : Nat, doc : ResponseDoc \cup ErrorDoc]
      BY <3>1, <3>2, ElementOfSeq, Zenon
    <3> QED
      BY <1>0, <3>3, Zenon DEF AnswersOK
  <2>3. /\ frame.n = output.n /\ frame.doc = output.doc
        /\ frame.len = len /\ frame.header = CreateHeader(len)
        /\ frame \in Frame
    <3>1. output.n \in 1 .. MaxRequests
      BY <1>0, <2>1, <2>2, Counted
    <3>2. output.doc \in Document
      BY <2>1, <2>2, AnswerKinds
    <3>3. CreateHeader(len) \in Bytes
      BY Whole
    <3> QED
      BY <3>1, <3>2, <3>3 DEF Encode, Frame
  <2>4. Made(output.n, output.doc)
    <3>1. output = [n |-> output.n, doc |-> output.doc]
      BY <2>1, <2>2
    <3> QED
      BY <2>1, <3>1, Zenon DEF Made
  <2> HIDE DEF frame
  <2>5. /\ k \in Nat /\ toClient' \in Seq(Frame) /\ DOMAIN toClient' = 1 .. k + 1
        /\ DOMAIN toClient = 1 .. k
        /\ toClient'[k + 1] = frame /\ \A i \in 1 .. k : toClient'[i] = toClient[i]
    <3>1. toClient \in Seq(Frame)
      BY <1>0 DEF FlightOK
    <3>2. toClient' = Append(toClient, frame)
      BY <1>7, Zenon DEF frame
    <3> QED
      BY <2>3, <3>1, <3>2, AppendProperties
  <2>6. /\ \A i \in 1 .. k : toClient[i].n < output.n
        /\ \A t \in taken : t.of < output.n
    BY <1>0, <1>1, <2>5 DEF OutputOK
  <2> HIDE DEF k
  <2>7. /\ \A i \in 1 .. k : /\ toClient[i].header = CreateHeader(toClient[i].len)
                            /\ Made(toClient[i].n, toClient[i].doc)
        /\ \A i, j \in 1 .. k : i < j => toClient[i].n < toClient[j].n
        /\ \A t \in taken, i \in 1 .. k : t.of < toClient[i].n
    BY <1>0, <2>5, Zenon DEF FlightOK
  <2>8. \A i \in 1 .. k + 1 : i = k + 1 \/ i \in 1 .. k
    BY <2>5
  <2>9. \A i \in 1 .. k + 1 :
          /\ toClient'[i].header = CreateHeader(toClient'[i].len)
          /\ Made(toClient'[i].n, toClient'[i].doc)
    <3> SUFFICES ASSUME NEW i \in 1 .. k + 1
                 PROVE  /\ toClient'[i].header = CreateHeader(toClient'[i].len)
                        /\ Made(toClient'[i].n, toClient'[i].doc)
      OBVIOUS
    <3>2. CASE i = k + 1
      BY <2>3, <2>4, <2>5, <3>2
    <3>3. CASE i \in 1 .. k
      BY <2>5, <2>7, <3>3
    <3> QED
      BY <2>8, <3>2, <3>3
  <2>10. \A i, j \in 1 .. k + 1 : i < j => toClient'[i].n < toClient'[j].n
    BY <2>3, <2>5, <2>6, <2>7, <2>8
  <2>11. \A t \in taken, i \in 1 .. k + 1 : t.of < toClient'[i].n
    BY <2>3, <2>5, <2>6, <2>7, <2>8
  <2>12. FlightOK'
    BY <1>1, <2>5, <2>9, <2>10, <2>11 DEF FlightOK, Made
  <2> QED
    BY <1>3, <1>4, <1>5, <2>12, Zenon DEF ExInv
<1> QED
  BY <1>2, <1>6, <1>7

-----------------------------------------------------------------------------
(***************************************************************************)
(* The map, when the server looks up the function of the next request.     *)
(* As long as nobody has asked for a function that is not registered, what *)
(* is registered is found and nothing else.                                *)
(***************************************************************************)
LEMMA Undisturbed ==
  ASSUME RequestsOK, MapOK, ~Disturbed(Served), NEW name
  PROVE  /\ Stale(Served + 1) = {}
         /\ MayFind(name, Served + 1, TRUE) => name \in Functions
         /\ ~MayFind(name, Served + 1, FALSE)
         /\ name \in Functions => ~MayMiss(name, Served + 1)
<1>1. Served \in Nat
  BY Counted
<1>2. ASSUME NEW e \in funcMap
      PROVE  e.owner = Literal /\ e.name \in Functions /\ e.callable = TRUE
  <2>1. /\ e.callable \in BOOLEAN
        /\ e.owner = Literal => e.name \in Functions /\ e.callable
        /\ e.owner # Literal => e.owner \in 1 .. Served /\ Disturbed(e.owner)
    BY DEF MapOK
  <2>2. e.owner \in 1 .. Served => ~Disturbed(e.owner)
    <3> SUFFICES ASSUME e.owner \in 1 .. Served, Disturbed(e.owner)
                 PROVE  FALSE
      OBVIOUS
    <3>1. PICK m \in 1 .. e.owner : sent[m].doc.method \notin Functions
      BY DEF Disturbed
    <3>2. m \in 1 .. Served
      BY <1>1
    <3> QED
      BY <3>1, <3>2 DEF Disturbed
  <2> QED
    BY <2>1, <2>2
<1>3. Stale(Served + 1) = {}
  BY <1>2 DEF Stale
<1>4. name \in Functions => \E e \in funcMap : e.name = name
  BY DEF MapOK
<1> QED
  BY <1>2, <1>3, <1>4, Zenon DEF MayFind, MayMiss

(* A name that is missed is not registered, or the map was disturbed.      *)
LEMMA Missed ==
  ASSUME RequestsOK, MapOK, NEW name, MayMiss(name, Served + 1)
  PROVE  name \notin Functions \/ Disturbed(Served)
BY Undisturbed, Zenon

(* What processing the next request may do, in any of the five ways.       *)
Outcome(n, request, doc) ==
  /\ doc \in ResponseDoc \cup ErrorDoc
  /\ Answers(doc, request)
  /\ ~Disturbed(n - 1) =>
       /\ IsRequest(request) /\ request.method \in Functions
            /\ request.params = "object" => doc \in ResponseDoc
       /\ doc \in ResponseDoc =>
            /\ request.method \in Functions
            /\ request.params \in {"object", "object with another type"}

NameAdded(n, name) ==
  /\ funcMap' = funcMap \cup {[name |-> name, owner |-> n, callable |-> FALSE]}
  /\ name \notin Functions \/ Disturbed(n - 1)

LEMMA Processed ==
  ASSUME DocumentsOK, RequestsOK, MapOK, FlagsOK, NEW frame,
         frame.n = Served + 1, Served < Len(sent),
         Process(frame, sent[Served + 1].doc)
  PROVE  /\ responseDOM' \in ResponseDoc /\ errorDOM' \in ErrorDoc
         /\ alive' \in BOOLEAN
         /\ \/ output' = output /\ answered' = answered
            \/ \E doc : /\ Outcome(Served + 1, sent[Served + 1].doc, doc)
                       /\ output' = [n |-> Served + 1, doc |-> doc]
                       /\ answered' = Append(answered, output')
         /\ funcMap' = funcMap \/ NameAdded(Served + 1, sent[Served + 1].doc.method)
<1> DEFINE n == Served + 1
           r == sent[n].doc
<1>1. /\ r \in RequestDoc /\ Served \in Nat /\ n - 1 = Served
  <2>1. Served \in Nat /\ Len(sent) \in Nat
    BY Counted
  <2>2. n \in 1 .. Len(sent) /\ n - 1 = Served
    BY <2>1
  <2> QED
    BY <2>1, <2>2, Counted
<1> HIDE DEF n, r
<1>2. /\ IsRequest(r) <=> r.id \in IntIds \cup NumberIds
      /\ IsNotification(r) <=> r.id = Absent
      /\ r.json /\ r.method \in Methods
  BY <1>1, Kinds
<1>3. /\ responseDOM \in ResponseDoc /\ errorDOM \in ErrorDoc /\ alive \in BOOLEAN
  BY DEF DocumentsOK, FlagsOK
<1>4. Absent \notin IntIds \cup NumberIds /\ IntIds \subseteq IntIds \cup NumberIds
  BY DEF Absent, IntIds, NumberIds
<1>5. ~Disturbed(Served) =>
        /\ MayFind(r.method, n, TRUE) => r.method \in Functions
        /\ NotFound(r.method, n) => r.method \notin Functions
  BY Undisturbed, Zenon DEF NotFound, n
<1>6. ASSUME NEW id, ReturnError(n, id)
      PROVE  \E doc : /\ doc \in ErrorDoc /\ doc.id = IF id \in IntIds THEN id ELSE "0"
                     /\ output' = [n |-> n, doc |-> doc]
                     /\ answered' = Append(answered, output')
                     /\ errorDOM' = doc /\ responseDOM' = responseDOM
                     /\ alive' = alive
  <2>1. /\ errorDOM' = GenerateResponseError(errorDOM, id)
        /\ output' = [n |-> n, doc |-> errorDOM']
        /\ answered' = Append(answered, output')
        /\ responseDOM' = responseDOM /\ alive' = alive
    BY <1>6, Zenon DEF ReturnError, Answer
  <2>2. /\ GenerateResponseError(errorDOM, id) \in ErrorDoc
        /\ GenerateResponseError(errorDOM, id).id =
             IF id \in IntIds THEN id ELSE "0"
    BY <1>3, Generated
  <2> QED
    BY <2>1, <2>2, Zenon
<1>7. ASSUME NEW id \in IntIds \cup NumberIds, Return(n, id)
      PROVE  \E doc : /\ doc \in ResponseDoc /\ doc.id = id
                     /\ output' = [n |-> n, doc |-> doc]
                     /\ answered' = Append(answered, output')
                     /\ responseDOM' = doc /\ errorDOM' = errorDOM
                     /\ alive' = alive
  <2>1. /\ responseDOM' = GenerateResponse(responseDOM, id, "other string")
        /\ output' = [n |-> n, doc |-> responseDOM']
        /\ answered' = Append(answered, output')
        /\ errorDOM' = errorDOM /\ alive' = alive
    BY <1>7, Zenon DEF Return, Answer
  <2>2. /\ GenerateResponse(responseDOM, id, "other string") \in ResponseDoc
        /\ GenerateResponse(responseDOM, id, "other string").id = id
    BY <1>3, Generated
  <2> QED
    BY <2>1, <2>2, Zenon
<1>8. \A d \in ErrorDoc : d \notin ResponseDoc
  BY AnswerKinds, Zenon
<1>9. NotFound(r.method, n) => funcMap' = funcMap \/ NameAdded(n, r.method)
  <2>1. MayMiss(r.method, n) => r.method \notin Functions \/ Disturbed(Served)
    BY Missed, Zenon DEF n
  <2> QED
    BY <1>1, <2>1, Zenon DEF NotFound, NameAdded
<1>10. CASE Execute(frame, r)
  <2>1. /\ IsRequest(r) /\ MayFind(r.method, n, TRUE) /\ funcMap' = funcMap
        /\ r.id \in IntIds \cup NumberIds /\ ~IsNotification(r)
    BY <1>2, <1>4, <1>10 DEF Execute, CallFunction, n
  <2>2. PICK found \in Lookup(r) :
          IF found THEN Return(n, r.id) ELSE ReturnError(n, r.id)
    BY <1>10, Zenon DEF Execute, n
  <2>3. /\ found \in BOOLEAN
        /\ r.params = "object" => found
        /\ found => r.params \in {"object", "object with another type"}
    BY <1>1, Found
  <2>4. CASE found
    <3>1. PICK doc : /\ doc \in ResponseDoc /\ doc.id = r.id
                     /\ output' = [n |-> n, doc |-> doc]
                     /\ answered' = Append(answered, output')
                     /\ responseDOM' = doc /\ errorDOM' = errorDOM
                     /\ alive' = alive
      BY <1>7, <2>1, <2>2, <2>4
    <3>2. Outcome(n, r, doc)
      BY <1>1, <1>5, <2>1, <2>3, <2>4, <3>1 DEF Outcome, Answers
    <3> QED
      BY <1>3, <2>1, <3>1, <3>2, Zenon DEF n, r
  <2>5. CASE ~found
    <3>1. PICK doc : /\ doc \in ErrorDoc
                     /\ doc.id = IF r.id \in IntIds THEN r.id ELSE "0"
                     /\ output' = [n |-> n, doc |-> doc]
                     /\ answered' = Append(answered, output')
                     /\ errorDOM' = doc /\ responseDOM' = responseDOM
                     /\ alive' = alive
      BY <1>6, <2>2, <2>5
    <3>2. Outcome(n, r, doc)
      BY <1>8, <2>1, <2>3, <2>5, <3>1 DEF Outcome, Answers
    <3> QED
      BY <1>3, <2>1, <3>1, <3>2, Zenon DEF n, r
  <2> QED
    BY <2>4, <2>5
<1>11. CASE ExecuteUnknown(frame, r)
  <2>1. /\ IsRequest(r) /\ NotFound(r.method, n) /\ ReturnError(n, r.id)
        /\ ~IsNotification(r)
    BY <1>2, <1>4, <1>11 DEF ExecuteUnknown, n
  <2>2. PICK doc : /\ doc \in ErrorDoc
                   /\ doc.id = IF r.id \in IntIds THEN r.id ELSE "0"
                   /\ output' = [n |-> n, doc |-> doc]
                   /\ answered' = Append(answered, output')
                   /\ errorDOM' = doc /\ responseDOM' = responseDOM
                   /\ alive' = alive
    BY <1>6, <2>1
  <2>3. Outcome(n, r, doc)
    BY <1>1, <1>5, <1>8, <2>1, <2>2 DEF Outcome, Answers
  <2> QED
    BY <1>3, <1>9, <2>1, <2>2, <2>3, Zenon DEF n, r
<1>12. CASE Notified(frame, r)
  <2>1. /\ CallFunction(r.method, n) \/ NotFound(r.method, n)
        /\ UNCHANGED <<responseDOM, errorDOM, output, answered, alive>>
    BY <1>12, Zenon DEF Notified, n
  <2> QED
    BY <1>3, <1>9, <2>1 DEF CallFunction, n, r
<1>13. CASE Refuse(frame, r)
  <2>1. /\ ~IsRequest(r) /\ ~IsNotification(r) /\ ReturnError(n, Absent)
        /\ funcMap' = funcMap
    BY <1>2, <1>13 DEF Refuse, n
  <2>2. PICK doc : /\ doc \in ErrorDoc
                   /\ doc.id = IF Absent \in IntIds THEN Absent ELSE "0"
                   /\ output' = [n |-> n, doc |-> doc]
                   /\ answered' = Append(answered, output')
                   /\ errorDOM' = doc /\ responseDOM' = responseDOM
                   /\ alive' = alive
    BY <1>6, <2>1
  <2>3. Outcome(n, r, doc)
    BY <1>2, <1>4, <1>8, <2>1, <2>2 DEF Outcome, Answers
  <2> QED
    BY <1>3, <2>1, <2>2, <2>3, Zenon DEF n, r
<1>14. CASE Dies(frame, r)
  BY <1>3, <1>14 DEF Dies
<1> QED
  BY <1>10, <1>11, <1>12, <1>13, <1>14, Zenon DEF Process, n, r

(* The request the server takes is the next one, and its text is what the  *)
(* client wrote.                                                           *)
LEMMA TakesNext ==
  ASSUME RequestsOK, TakeRequest
  PROVE  /\ Served \in Nat /\ Served < Len(sent) /\ Len(toServer) > 0
         /\ toServer' \in Seq(Frame) /\ Len(toServer') = Len(toServer) - 1
         /\ \A i \in 1 .. Len(toServer) - 1 : toServer'[i] = toServer[i + 1]
         /\ Process(Head(toServer), sent[Served + 1].doc)
         /\ Head(toServer).n = Served + 1
<1> DEFINE n == Served + 1
           r == sent[n].doc
<1>1. /\ Len(sent) \in Nat
      /\ Len(toServer) \in Nat /\ DOMAIN toServer = 1 .. Len(toServer)
      /\ Served \in Nat /\ Served + Len(toServer) = Len(sent)
      /\ \A m \in 1 .. Len(sent) : sent[m].len \in Lens
  BY Counted
<1>2. /\ toServer # <<>> /\ toServer' = Tail(toServer)
      /\ Process(Head(toServer), Content(Head(toServer)))
  BY Zenon DEF TakeRequest
<1>3. /\ Len(toServer) > 0 /\ Head(toServer) = toServer[1]
      /\ toServer' \in Seq(Frame) /\ Len(toServer') = Len(toServer) - 1
      /\ \A i \in 1 .. Len(toServer) - 1 : toServer'[i] = toServer[i + 1]
  <2>1. toServer \in Seq(Frame)
    BY DEF RequestsOK
  <2>2. /\ Tail(toServer) \in Seq(Frame)
        /\ Len(Tail(toServer)) = Len(toServer) - 1
        /\ \A i \in 1 .. Len(Tail(toServer)) : Tail(toServer)[i] = toServer[i + 1]
    BY <1>2, <2>1, HeadTailProperties
  <2> QED
    BY <1>1, <1>2, <2>1, <2>2
<1>4. n \in 1 .. Len(sent) /\ Served < Len(sent)
  BY <1>1, <1>3
<1>5. Head(toServer) = Encode(n, r, sent[n].len)
  <2>1. 1 \in DOMAIN toServer
    BY <1>1, <1>3
  <2>2. toServer[1] = Encode(n, r, sent[n].len)
    BY <2>1, Zenon DEF RequestsOK
  <2> QED
    BY <1>3, <2>2, Zenon
<1>6. Content(Head(toServer)) = r /\ Head(toServer).n = n
  <2>1. Content(Encode(n, r, sent[n].len)) = r
    BY <1>1, <1>4, Whole
  <2>2. Encode(n, r, sent[n].len).n = n
    BY DEF Encode
  <2> QED
    BY <1>5, <2>1, <2>2, Zenon
<1> QED
  BY <1>1, <1>2, <1>3, <1>4, <1>6, Zenon

(* The server takes the request at the head of the connection: answers     *)
(* before it belong to requests before it, and its own comes behind them.  *)
LEMMA TakeRequestKeeps ==
  ASSUME ExInv, TakeRequest
  PROVE  ExInv'
<1> DEFINE L == Len(sent)
           n == Served + 1
           r == sent[n].doc
           k == Len(answered)
           Record == [n : Nat, doc : ResponseDoc \cup ErrorDoc]
<1>0. /\ DocumentsOK /\ RequestsOK /\ AnswersOK /\ FlightOK /\ OutputOK
      /\ TakenOK /\ OpenOK /\ MapOK /\ FlagsOK /\ KnownIsCalled
      /\ \A t \in taken : t.for = t.of \/ Misled(t)
  BY Zenon DEF ExInv
<1>1. /\ L \in Nat /\ DOMAIN sent = 1 .. L
      /\ Len(toServer) \in Nat /\ DOMAIN toServer = 1 .. Len(toServer)
      /\ Served \in Nat /\ Served + Len(toServer) = L
      /\ \A m \in 1 .. L : sent[m].doc \in RequestDoc /\ sent[m].len \in Lens
  BY <1>0, Counted
<1>2. /\ output = NoAnswer
      /\ UNCHANGED <<requestDOM, open, sent, taken, toClient, orphaned>>
  BY Zenon DEF TakeRequest, clientVars
<1>3. /\ Len(toServer) > 0
      /\ toServer' \in Seq(Frame) /\ Len(toServer') = Len(toServer) - 1
      /\ \A i \in 1 .. Len(toServer) - 1 : toServer'[i] = toServer[i + 1]
      /\ Process(Head(toServer), r) /\ Head(toServer).n = n
  BY <1>0, TakesNext
<1>4. Served' = n /\ n \in 1 .. L /\ n - 1 = Served
  BY <1>1, <1>2, <1>3 DEF Served
<1>7. /\ responseDOM' \in ResponseDoc /\ errorDOM' \in ErrorDoc
      /\ alive' \in BOOLEAN
      /\ \/ output' = output /\ answered' = answered
         \/ \E doc : /\ Outcome(n, r, doc)
                    /\ output' = [n |-> n, doc |-> doc]
                    /\ answered' = Append(answered, output')
      /\ funcMap' = funcMap \/ NameAdded(n, r.method)
  BY <1>0, TakesNext, Processed
<1> HIDE DEF n, r, L
<1>8. \A m \in 1 .. Served : m \in 1 .. n
  BY <1>1, <1>4
<1>9. /\ answered \in Seq(Record) /\ k \in Nat /\ DOMAIN answered = 1 .. k
      /\ \A i \in 1 .. k : /\ answered[i] \in Record
                          /\ answered[i].n \in 1 .. Served
                          /\ Answers(answered[i].doc, sent[answered[i].n].doc)
      /\ \A i, j \in 1 .. k : i < j => answered[i].n < answered[j].n
  <2>1. answered \in Seq(Record)
    BY <1>0 DEF AnswersOK
  <2> HIDE DEF Record
  <2>2. k \in Nat /\ DOMAIN answered = 1 .. k
    BY <2>1
  <2>3. \A i \in 1 .. k : answered[i] \in Record
    BY <2>1, ElementOfSeq
  <2> QED
    BY <1>0, <2>1, <2>2, <2>3, Zenon DEF AnswersOK
<1> HIDE DEF k, Record
<1>10. DocumentsOK' /\ FlagsOK'
  BY <1>0, <1>2, <1>7 DEF DocumentsOK, FlagsOK
<1>11. RequestsOK'
  <2>1. ASSUME NEW i \in 1 .. Len(toServer) - 1
        PROVE  toServer'[i] = Encode(n + i, sent[n + i].doc, sent[n + i].len)
    <3>1. n + i = Served + (i + 1) /\ i + 1 \in 1 .. Len(toServer)
      BY <1>1, <1>3, <1>4
    <3>2. toServer'[i] = toServer[i + 1]
      BY <1>3
    <3>3. toServer[i + 1] = Encode(Served + (i + 1), sent[Served + (i + 1)].doc,
                                   sent[Served + (i + 1)].len)
      BY <1>0, <1>1, <3>1, Zenon DEF RequestsOK
    <3> QED
      BY <3>1, <3>2, <3>3, Zenon
  <2>2. /\ sent' \in Seq([doc : RequestDoc, len : Lens]) /\ Len(sent') <= MaxRequests
        /\ Len(toServer') <= Len(sent')
    BY <1>0, <1>1, <1>2, <1>3 DEF RequestsOK
  <2>3. DOMAIN toServer' = 1 .. Len(toServer) - 1
    BY <1>3
  <2> QED
    BY <1>2, <1>3, <1>4, <2>1, <2>2, <2>3, Zenon DEF RequestsOK
<1>12. TakenOK' /\ OpenOK'
  <2>1. TakenOK'
    BY <1>0, <1>1, <1>2, <1>4 DEF TakenOK
  <2>2. OpenOK'
    BY <1>0, <1>2 DEF OpenOK
  <2> QED
    BY <2>1, <2>2
<1>13. MapOK'
  <2>1. ASSUME NEW m \in Nat, Disturbed(m)
        PROVE  Disturbed(m)'
    BY <1>2, <2>1 DEF Disturbed
  <2>2. /\ \A f \in Functions :
             [name |-> f, owner |-> Literal, callable |-> TRUE] \in funcMap'
        /\ \A e \in funcMap :
             /\ e \in [name : Methods, owner : Nat, callable : BOOLEAN]
             /\ e.owner = Literal => e.name \in Functions /\ e.callable
             /\ e.owner # Literal => e.owner \in 1 .. n /\ Disturbed(e.owner)'
    BY <1>0, <1>7, <1>8, <2>1 DEF MapOK, NameAdded
  <2>3. ASSUME NameAdded(n, r.method),
               NEW e, e = [name |-> r.method, owner |-> n, callable |-> FALSE]
        PROVE  /\ e \in [name : Methods, owner : Nat, callable : BOOLEAN]
               /\ e.owner # Literal
               /\ e.owner \in 1 .. n /\ Disturbed(e.owner)'
    <3>1. r.method \in Methods
      BY <1>1, <1>4, Kinds DEF r
    <3>2. n \in Nat /\ n # 0
      BY <1>1, <1>4
    <3>3. Disturbed(n)
      <4>1. CASE r.method \notin Functions
        BY <1>4, <3>2, <4>1 DEF Disturbed, r
      <4>2. CASE Disturbed(Served)
        <5>1. \A m \in 1 .. Served : m \in 1 .. n
          BY <1>8
        <5> QED
          BY <4>2, <5>1 DEF Disturbed
      <4> QED
        BY <1>4, <2>3, <4>1, <4>2 DEF NameAdded
    <3>4. e.owner = n /\ e \in [name : Methods, owner : Nat, callable : BOOLEAN]
      BY <2>3, <3>1, <3>2
    <3>5. Disturbed(e.owner)
      BY <3>3, <3>4, Zenon
    <3>6. Disturbed(e.owner)'
      BY <2>1, <3>2, <3>4, <3>5
    <3> QED
      BY <3>2, <3>4, <3>6 DEF Literal
  <2>4. \A e \in funcMap' :
          \/ e \in funcMap
          \/ /\ NameAdded(n, r.method)
             /\ e = [name |-> r.method, owner |-> n, callable |-> FALSE]
    BY <1>7 DEF NameAdded
  <2> QED
    BY <1>4, <2>2, <2>3, <2>4 DEF MapOK
<1>14. CASE output' = output /\ answered' = answered
  <2>1. AnswersOK'
    BY <1>2, <1>4, <1>8, <1>9, <1>14 DEF AnswersOK, Record
  <2>2. FlightOK' /\ OutputOK'
    BY <1>0, <1>2, <1>14 DEF FlightOK, OutputOK, Made
  <2>3. KnownIsCalled' /\ \A t \in taken' : t.for = t.of \/ Misled(t)'
    BY <1>0, <1>2, <1>14 DEF KnownIsCalled, Offers, Misled
  <2> QED
    BY <1>10, <1>11, <1>12, <1>13, <2>1, <2>2, <2>3, Zenon DEF ExInv
<1>15. ASSUME NEW doc, Outcome(n, r, doc), output' = [n |-> n, doc |-> doc],
              answered' = Append(answered, output')
       PROVE  ExInv'
  <2>1. /\ doc \in ResponseDoc \cup ErrorDoc /\ Answers(doc, r)
    BY <1>15, Zenon DEF Outcome
  <2>2. output' \in Record /\ output'.n = n /\ output'.doc = doc
    BY <1>1, <1>4, <1>15, <2>1 DEF Record
  <2>3. /\ answered' \in Seq(Record) /\ DOMAIN answered' = 1 .. k + 1
        /\ answered'[k + 1] = output'
        /\ \A i \in 1 .. k : answered'[i] = answered[i]
    BY <1>9, <1>15, <2>2, AppendProperties DEF k
  <2>4. \A i \in 1 .. k + 1 : i = k + 1 \/ i \in 1 .. k
    BY <1>9
  <2>5. AnswersOK'
    <3>1. ASSUME NEW i \in 1 .. k + 1
          PROVE  /\ answered'[i].n \in 1 .. n
                 /\ Answers(answered'[i].doc, sent[answered'[i].n].doc)
      <4>1. CASE i = k + 1
        BY <1>4, <2>1, <2>2, <2>3, <4>1 DEF r
      <4>2. CASE i \in 1 .. k
        BY <1>8, <1>9, <2>3, <4>2
      <4> QED
        BY <2>4, <4>1, <4>2
    <3>2. ASSUME NEW i \in 1 .. k + 1, NEW j \in 1 .. k + 1, i < j
          PROVE  answered'[i].n < answered'[j].n
      <4>1. i \in 1 .. k
        BY <1>9, <3>2
      <4>2. CASE j = k + 1
        BY <1>1, <1>4, <1>9, <2>2, <2>3, <4>1, <4>2
      <4>3. CASE j \in 1 .. k
        BY <1>9, <2>3, <3>2, <4>1, <4>3
      <4> QED
        BY <2>4, <4>2, <4>3
    <3> QED
      BY <1>2, <1>4, <2>3, <3>1, <3>2 DEF AnswersOK, Record
  <2>6. \A m, d : Made(m, d) => Made(m, d)'
    <3>1. \A i \in DOMAIN answered : i \in DOMAIN answered' /\ answered'[i] = answered[i]
      BY <1>9, <2>3
    <3> QED
      BY <3>1, Zenon DEF Made
  <2>7. FlightOK'
    BY <1>0, <1>2, <2>6 DEF FlightOK
  <2>8. \A i \in DOMAIN toClient : toClient[i].n < n
    <3> SUFFICES ASSUME NEW i \in DOMAIN toClient
                 PROVE  toClient[i].n < n
      OBVIOUS
    <3>1. PICK a \in DOMAIN answered :
            answered[a] = [n |-> toClient[i].n, doc |-> toClient[i].doc]
      BY <1>0, Zenon DEF FlightOK, Made
    <3>2. toClient[i].n \in 1 .. Served
      <4>1. answered[a].n = toClient[i].n
        BY <3>1
      <4> QED
        BY <1>9, <4>1
    <3> QED
      BY <1>1, <1>4, <3>2
  <2>9. \A t \in taken : t.of < n
    BY <1>0, <1>1, <1>4 DEF TakenOK
  <2>10. OutputOK'
    <3>1. k + 1 \in DOMAIN answered'
      BY <1>9, <2>3
    <3>2. \A i \in DOMAIN toClient' : toClient'[i].n < output'.n
      BY <1>2, <2>2, <2>8
    <3>3. \A t \in taken' : t.of < output'.n
      BY <1>2, <2>2, <2>9
    <3> QED
      BY <2>3, <3>1, <3>2, <3>3, Zenon DEF OutputOK
  <2>11. KnownIsCalled'
    <3> SUFFICES ASSUME NEW i \in 1 .. k + 1,
                        \A m \in 1 .. answered'[i].n - 1 :
                          sent[m].doc.method \in Functions
                 PROVE  /\ Offers(answered'[i].n, {"object"}) =>
                             HasResult(answered'[i].doc)
                        /\ HasResult(answered'[i].doc) =>
                             Offers(answered'[i].n,
                                    {"object", "object with another type"})
      BY <1>2, <2>3 DEF KnownIsCalled, Offers
    <3>1. CASE i \in 1 .. k
      <4>1. answered'[i] = answered[i] /\ i \in DOMAIN answered
        BY <1>9, <2>3, <3>1
      <4> QED
        BY <1>0, <4>1, Zenon DEF KnownIsCalled
    <3>2. CASE i = k + 1
      <4>1. answered'[i].n = n /\ answered'[i].doc = doc
        BY <2>2, <2>3, <3>2
      <4>2. ~Disturbed(n - 1)
        BY <4>1 DEF Disturbed
      <4>3. /\ IsRequest(r) /\ r.method \in Functions /\ r.params = "object"
                 => doc \in ResponseDoc
            /\ doc \in ResponseDoc =>
                 /\ r.method \in Functions
                 /\ r.params \in {"object", "object with another type"}
        BY <1>15, <4>2, Zenon DEF Outcome
      <4>4. HasResult(doc) <=> doc \in ResponseDoc
        BY <2>1, AnswerKinds, Zenon
      <4>5. doc \in ResponseDoc => IsRequest(r)
        <5>1. doc \in ResponseDoc => doc \notin ErrorDoc
          BY AnswerKinds, Zenon
        <5> QED
          BY <2>1, <5>1, Zenon DEF Answers
      <4> QED
        BY <4>1, <4>3, <4>4, <4>5 DEF Offers, r
    <3> QED
      BY <2>4, <3>1, <3>2
  <2>12. \A t \in taken' : t.for = t.of \/ Misled(t)'
    <3>1. \A i \in DOMAIN answered : i \in DOMAIN answered' /\ answered'[i] = answered[i]
      BY <1>9, <2>3
    <3> QED
      BY <1>0, <1>2, <3>1 DEF Misled
  <2> QED
    BY <1>10, <1>11, <1>12, <1>13, <2>5, <2>7, <2>10, <2>11, <2>12, Zenon DEF ExInv
<1> QED
  BY <1>7, <1>14, <1>15, Zenon

-----------------------------------------------------------------------------
(* The invariant is kept by each step of the client and of the server.     *)
LEMMA NextKeeps == ExInv /\ [Next]_vars => ExInv'
<1> SUFFICES ASSUME ExInv, [Next]_vars
             PROVE  ExInv'
  OBVIOUS
<1>1. CASE TakeAnswer
  BY <1>1, TakeAnswerKeeps
<1>2. ASSUME NEW method \in {"read", "write"}, NEW params \in RequestParams,
             NEW id \in RequestIds, NEW len \in Lens,
             Request(method, params, id, len)
      PROVE  ExInv'
  BY <1>2, RequestKeeps
<1>3. CASE TakeRequest
  BY <1>3, TakeRequestKeeps
<1>4. CASE TransmitAnswer
  BY <1>4, TransmitKeeps
<1>5. CASE UNCHANGED vars
  <2>1. UNCHANGED <<requestDOM, open, sent, taken, responseDOM, errorDOM, output,
                    orphaned, alive, answered, funcMap, toServer, toClient>>
    BY <1>5, Zenon DEF vars, clientVars, serverVars
  <2>2. /\ DocumentsOK /\ RequestsOK /\ AnswersOK /\ FlightOK /\ OutputOK
        /\ TakenOK /\ OpenOK /\ MapOK /\ FlagsOK /\ KnownIsCalled
        /\ \A t \in taken : t.for = t.of \/ Misled(t)
    BY Zenon DEF ExInv
  <2>3. DocumentsOK' /\ RequestsOK' /\ AnswersOK' /\ MapOK'
    BY <2>1, <2>2 DEF DocumentsOK, RequestsOK, AnswersOK, MapOK, Disturbed, Served
  <2>4. FlightOK' /\ OutputOK' /\ FlagsOK'
    BY <2>1, <2>2 DEF FlightOK, OutputOK, FlagsOK, Made
  <2>5. TakenOK' /\ OpenOK' /\ \A t \in taken' : t.for = t.of \/ Misled(t)'
    BY <2>1, <2>2 DEF TakenOK, OpenOK, Served, Misled
  <2>6. KnownIsCalled'
    BY <2>1, <2>2 DEF KnownIsCalled, Offers
  <2> QED
    BY <2>3, <2>4, <2>5, <2>6, Zenon DEF ExInv
<1> QED
  BY <1>1, <1>2, <1>3, <1>4, <1>5, Zenon DEF Next, Client, Server

(* The invariant, of which the theorems below name parts.                  *)
THEOREM ExchangeInvariant == Spec => []ExInv
<1> QED
  BY InitInv, NextKeeps, PTL DEF Spec

(* Each variable keeps its type; in particular every frame under way is    *)
(* one that createHeader() can have made, and every name in the map is the *)
(* name of a method.                                                       *)
THEOREM ExchangeTypes == Spec => []TypeOK
<1>1. ExInv => TypeOK
  <2> SUFFICES ASSUME ExInv
               PROVE  TypeOK
    OBVIOUS
  <2>0. /\ DocumentsOK /\ RequestsOK /\ FlightOK /\ OpenOK /\ MapOK /\ FlagsOK
    BY Zenon DEF ExInv
  <2>1. /\ Len(sent) \in Nat /\ Served \in Nat /\ Served <= Len(sent)
        /\ Len(sent) <= MaxRequests /\ MaxRequests \in Nat
    BY <2>0, Counted
  <2>2. responseDOM \in Document /\ errorDOM \in Document
    BY <2>0, AnswerKinds DEF DocumentsOK
  <2>3. requestDOM \in Document
    <3>1. /\ RequestParams \subseteq Params \cup {Absent}
          /\ RequestIds \cup {"0"} \subseteq IntIds \cup NumberIds \cup BadIds
                                          \cup {Absent}
      BY ExchangeAssumption DEF IntIds
    <3>2. /\ requestDOM.json = TRUE /\ requestDOM.jsonrpc = "2.0"
          /\ requestDOM.method \in {"", "read", "write"}
          /\ requestDOM.params \in RequestParams \cup {Absent}
          /\ requestDOM.id \in RequestIds \cup {"0"}
          /\ requestDOM.result = Absent /\ requestDOM.error = Absent
          /\ requestDOM = [json |-> requestDOM.json, jsonrpc |-> requestDOM.jsonrpc,
                           method |-> requestDOM.method,
                           params |-> requestDOM.params, id |-> requestDOM.id,
                           result |-> requestDOM.result,
                           error |-> requestDOM.error]
      BY <2>0 DEF DocumentsOK
    <3> QED
      BY <3>1, <3>2 DEF Document, Methods
  <2>4. open \subseteq [id : RequestIds, n : 1 .. MaxRequests]
    BY <2>0, <2>1 DEF OpenOK
  <2>5. /\ \A i \in DOMAIN toServer : toServer[i] \in Frame
        /\ \A i \in DOMAIN toClient : toClient[i] \in Frame
    <3>1. toServer \in Seq(Frame) /\ toClient \in Seq(Frame)
      BY <2>0, Zenon DEF RequestsOK, FlightOK
    <3>2. ASSUME NEW s \in Seq(Frame), NEW i \in DOMAIN s
          PROVE  s[i] \in Frame
      BY ElementOfSeq
    <3> QED
      BY <3>1, <3>2
  <2>6. \A e \in funcMap : e.name \in Methods /\ e.owner \in 0 .. MaxRequests
    BY <2>0, <2>1 DEF MapOK, Literal
  <2>7. AllFunctionNames \subseteq Methods
    BY <2>6 DEF AllFunctionNames
  <2> QED
    BY <2>0, <2>2, <2>3, <2>4, <2>5, <2>6, <2>7 DEF TypeOK, FlagsOK
<1> QED
  BY <1>1, ExchangeInvariant, PTL

(* An answer reaches the request it answers, unless an error for an id     *)
(* that is no integer was made before; no request is answered twice, and a *)
(* notification never.                                                     *)
THEOREM ExchangeAnswersMatch == Spec => []AnswersMatch
<1>1. ExInv => AnswersMatch
  <2> SUFFICES ASSUME ExInv
               PROVE  AnswersMatch
    OBVIOUS
  <2>0. /\ AnswersOK /\ \A t \in taken : t.for = t.of \/ Misled(t)
    BY Zenon DEF ExInv
  <2>1. /\ DOMAIN answered \subseteq Nat
        /\ \A i \in DOMAIN answered : answered[i].n \in Int
    BY <2>0 DEF AnswersOK
  <2>2. \A i, j \in DOMAIN answered : answered[i].n = answered[j].n => i = j
    BY <2>0, <2>1 DEF AnswersOK
  <2>3. \A i \in DOMAIN answered : ~IsNotification(sent[answered[i].n].doc)
    BY <2>0, Zenon DEF AnswersOK, Answers
  <2> QED
    BY <2>0, <2>2, <2>3, Zenon DEF AnswersMatch
<1> QED
  BY <1>1, ExchangeInvariant, PTL

(* A registered function is called and its result returned for as long as  *)
(* nobody asked for a function that is not registered.                     *)
THEOREM ExchangeKnownIsCalled == Spec => []KnownIsCalled
<1>1. ExInv => KnownIsCalled
  BY Zenon DEF ExInv
<1> QED
  BY <1>1, ExchangeInvariant, PTL

(* A client whose ids are integers, as those the library's own messages    *)
(* carry, never takes an answer for that to another request.               *)
THEOREM IntegerIdsMatch ==
  ASSUME RequestIds \subseteq IntIds \cup {Absent}
  PROVE  Spec => [](\A t \in taken : t.for = t.of)
<1>1. ExInv => \A t \in taken : t.for = t.of
  <2> SUFFICES ASSUME ExInv, NEW t \in taken, Misled(t)
               PROVE  FALSE
    BY Zenon DEF ExInv
  <2>1. PICK i \in DOMAIN answered : sent[answered[i].n].doc.id \notin IntIds
    BY Zenon DEF Misled
  <2>2. /\ AnswersOK /\ RequestsOK
    BY Zenon DEF ExInv
  <2> DEFINE r == sent[answered[i].n].doc
  <2>3. r \in RequestDoc /\ ~IsNotification(r)
    BY <2>2, Counted DEF AnswersOK, Answers
  <2> HIDE DEF r
  <2>4. r.id \in RequestIds
    BY <2>3 DEF RequestDoc
  <2>5. r.id # Absent
    BY <2>3, Kinds
  <2> QED
    BY <2>1, <2>4, <2>5 DEF r
<1> QED
  BY <1>1, ExchangeInvariant, PTL

(* A server that has both functions its clients ask for ("read" and        *)
(* "write", see Client) never searches among stale keys: its map stays     *)
(* what the plugin registered, and it does not die of it.                  *)
THEOREM KnownNeverDies ==
  ASSUME {"read", "write"} \subseteq Functions
  PROVE  Spec => [](alive /\ InitMap)
<1>1. Init => alive /\ InitMap
  BY DEF Init
<1>2. ExInv => ~Disturbed(Served)
  <2> SUFFICES ASSUME RequestsOK, NEW m \in 1 .. Served
               PROVE  sent[m].doc.method \in Functions
    BY Zenon DEF ExInv, Disturbed
  <2>1. sent[m].doc \in RequestDoc
    BY Counted
  <2> QED
    BY <2>1 DEF RequestDoc
<1>3. ASSUME ExInv, alive, InitMap, Next
      PROVE  alive' /\ InitMap'
  <2>1. /\ ~Disturbed(Served) /\ RequestsOK /\ DocumentsOK /\ MapOK /\ FlagsOK
    BY <1>2, <1>3, Zenon DEF ExInv
  <2>2. CASE UNCHANGED <<alive, funcMap>>
    BY <1>3, <2>2 DEF InitMap
  <2>3. CASE TakeRequest
    <3> DEFINE n     == Served + 1
               r     == sent[n].doc
               frame == Head(toServer)
    <3>1. Process(frame, r) /\ frame.n = n /\ n \in 1 .. Len(sent)
      <4>1. Len(sent) \in Nat
        BY <2>1, Counted
      <4> QED
        BY <2>1, <2>3, <4>1, TakesNext
    <3>2. r.method \in Functions
      <4>1. r \in RequestDoc
        BY <2>1, <3>1, Counted
      <4> HIDE DEF r
      <4> QED
        BY <4>1 DEF RequestDoc
    <3>3. Stale(n) = {} /\ ~NotFound(r.method, n)
      BY <2>1, <3>2, Undisturbed, Zenon DEF NotFound
    <3> HIDE DEF n, r, frame
    <3>4. Execute(frame, r) \/ Notified(frame, r) \/ Refuse(frame, r)
      BY <3>1, <3>3, Zenon DEF Process, ExecuteUnknown, Dies
    <3>5. UNCHANGED <<alive, funcMap>>
      BY <3>1, <3>3, <3>4, Zenon DEF Execute, Notified, Refuse, CallFunction,
         Return, ReturnError, Answer
    <3> QED
      BY <2>2, <3>5
  <2> QED
    BY <1>3, <2>2, <2>3, Zenon DEF Next, Client, Server, Request, TakeAnswer,
       TransmitAnswer, serverVars
<1>4. ExInv /\ (alive /\ InitMap) /\ [Next]_vars => (alive /\ InitMap)'
  <2>1. UNCHANGED vars => UNCHANGED <<alive, funcMap>>
    BY Zenon DEF vars, serverVars
  <2> QED
    BY <1>3, <2>1 DEF InitMap
<1> QED
  BY <1>1, <1>4, ExchangeInvariant, PTL DEF Spec

-----------------------------------------------------------------------------
(***************************************************************************)
(* Which messages formatString() can format: all that fit into a line, and *)
(* all without a prefix or with one of a single character.  With any other *)
(* prefix, short of the whole line, it fails for every long one.           *)
(***************************************************************************)

(* A message that fits into a line beside its prefix is never broken.      *)
THEOREM ShortIsFormatted ==
  ASSUME NEW len \in Nat, NEW offset \in Nat, NEW lineSize \in Nat,
         len < lineSize - offset
  PROVE  ~FormatThrows(len, offset, lineSize)
<1>1. len \div (lineSize - offset) = 0
  BY SMT
<1>2. BreaksUpTo(len, offset, lineSize) = 0
  BY <1>1, SMT DEF BreaksUpTo
<1>3. BreaksUpTo(len, offset, lineSize) \div lineSize = 0
  BY <1>2, SMT
<1> QED
  BY <1>3, SMT DEF FormatThrows

(* Without a prefix, the default of a ComPoint, every break lies within    *)
(* the text, whatever its length.                                          *)
THEOREM NoPrefixIsFormatted ==
  ASSUME NEW len \in Nat, NEW lineSize \in Nat \ {0}
  PROVE  ~FormatThrows(len, 0, lineSize)
<1> DEFINE q == len \div lineSize
<1>1. q \in Nat /\ q * lineSize <= len
  BY SMT
<1>2. BreaksUpTo(len, 0, lineSize) = q * lineSize
  BY SMT DEF BreaksUpTo
<1>3. (q * lineSize) \div lineSize = q
  <2> HIDE DEF q
  <2> QED BY <1>1, SMT
<1>4. ASSUME NEW k \in 1 .. q
      PROVE  k * lineSize <= len + (k - 1)
  <2> HIDE DEF q
  <2>1. k * lineSize <= q * lineSize
    BY <1>1, SMT
  <2> QED BY <1>1, <2>1, SMT
<1> QED
  <2> HIDE DEF q
  <2>1. SUFFICES ASSUME NEW k \in 1 .. q,
                        k * lineSize > len + 0 + (k - 1) * Inserted(0)
                 PROVE  FALSE
    BY <1>2, <1>3 DEF FormatThrows
  <2>2. Inserted(0) = 1
    BY DEF Inserted
  <2> QED BY <1>1, <1>4, <2>1, <2>2, SMT

(* Nor does a prefix of one character, for all that is inserted more often *)
(* then.                                                                   *)
THEOREM OneCharacterIsFormatted ==
  ASSUME NEW len \in Nat, NEW lineSize \in Nat, lineSize > 1
  PROVE  ~FormatThrows(len, 1, lineSize)
<1> DEFINE q    == len \div (lineSize - 1)
           upTo == q * (lineSize + 1)
<1>1. q \in Nat /\ q * (lineSize - 1) <= len
  BY SMT
<1>2. BreaksUpTo(len, 1, lineSize) = upTo
  BY SMT DEF BreaksUpTo
<1> HIDE DEF q
<1>3. upTo \in Nat
  BY <1>1, SMT
<1>4. SUFFICES ASSUME NEW k \in 1 .. (upTo \div lineSize),
                      k * lineSize > len + 1 + (k - 1) * 2
               PROVE  FALSE
  BY <1>2, SMT DEF FormatThrows, Inserted
<1> HIDE DEF upTo
<1>5. k \in Nat \ {0} /\ upTo \div lineSize \in Nat /\ k <= upTo \div lineSize
  BY <1>3, <1>4, SMT
<1>6. k * lineSize <= upTo
  <2> DEFINE j == upTo \div lineSize
  <2>1. j * lineSize <= upTo
    BY <1>3, SMT
  <2> HIDE DEF j
  <2>2. j \in Nat /\ k <= j
    BY <1>5 DEF j
  <2>3. k * lineSize <= j * lineSize
    BY <1>5, <2>2, SMT
  <2>4. k * lineSize \in Int /\ j * lineSize \in Int
    BY <1>5, <2>2, SMT
  <2> QED
    BY <1>3, <2>1, <2>3, <2>4, SMT
<1>7. k * (lineSize - 2) >= q * (lineSize - 1)
  <2>1. k * lineSize - k * 2 >= len
    BY <1>4, <1>5, SMT
  <2>2. k * (lineSize - 2) = k * lineSize - k * 2
    BY <1>5, SMT
  <2> QED
    BY <1>1, <1>5, <2>1, <2>2, SMT
<1>8. k * lineSize <= q * (lineSize + 1)
  BY <1>6 DEF upTo
<1> DEFINE m == lineSize - 2
<1>9. m \in Nat /\ lineSize = m + 2
  BY SMT
<1> HIDE DEF m
<1>10. k * m >= q * m + q /\ k * m + 2 * k <= q * m + 3 * q
  BY <1>1, <1>5, <1>7, <1>8, <1>9, SMT
<1>11. k <= q
  BY <1>1, <1>5, <1>9, <1>10, SMT
<1>12. k * m <= q * m
  BY <1>1, <1>5, <1>9, <1>11, SMT
<1>13. q = 0
  <2>1. k * m \in Int /\ q * m \in Int
    BY <1>1, <1>5, <1>9, SMT
  <2> QED
    BY <1>1, <1>10, <1>12, <2>1, SMT
<1> QED
  BY <1>5, <1>11, <1>13, SMT

(* Every other prefix that leaves at least three characters of a line      *)
(* makes it fail for every message from 12948 characters on: the breaks    *)
(* are counted to a length that outgrows the text.                         *)
THEOREM LongIsNeverFormatted ==
  ASSUME NEW len \in Nat, len >= 12948, NEW offset \in 2 .. 77
  PROVE  FormatThrows(len, offset, LINESIZE)
<1> DEFINE d    == 80 - offset
           q    == len \div d
           upTo == q * (160 - d)
           k    == upTo \div 80
<1>1. d \in 3 .. 78 /\ offset = 80 - d
  BY SMT
<1>2. BreaksUpTo(len, offset, LINESIZE) = upTo
  BY SMT DEF BreaksUpTo, LINESIZE
<1> HIDE DEF d
<1>3. q \in Nat /\ q * d <= len /\ len < q * d + d
  BY <1>1, SMT
<1> HIDE DEF q
<1>4. q >= 166
  <2>1. SUFFICES ASSUME q <= 165
                 PROVE  FALSE
    BY <1>3, SMT
  <2>2. q * d <= 165 * d
    BY <1>1, <1>3, <2>1, SMT
  <2>3. q * d \in Int
    BY <1>1, <1>3, SMT
  <2> QED
    BY <1>1, <1>3, <2>2, <2>3, SMT
<1>5. upTo \in Nat /\ upTo >= 166
  <2>1. 160 - d \in Nat /\ 160 - d >= 1
    BY <1>1, SMT
  <2> QED
    BY <1>3, <1>4, <2>1, SMT
<1> HIDE DEF upTo
<1>6. k \in Nat /\ 80 * k <= upTo /\ upTo <= 80 * k + 79 /\ k >= 1
  BY <1>5, SMT
<1>7. k * (d - 1) >= len
  <2>1. d * (81 - d) - 160 >= 74
    <3>1. (d - 3) * (78 - d) >= 0
      BY <1>1, SMT
    <3>2. (d - 3) * (78 - d) = d * (81 - d) - 234
      BY <1>1, SMT
    <3> QED
      BY <1>1, <3>1, <3>2, SMT
  <2>2. q * (d * (81 - d) - 160) >= 166 * 74
    <3> DEFINE f == d * (81 - d) - 160
    <3>1. f \in Nat /\ f >= 74
      BY <1>1, <2>1, SMT
    <3> HIDE DEF f
    <3>2. q * f >= 166 * 74
      BY <1>3, <1>4, <3>1, SMT
    <3> QED
      BY <3>2 DEF f
  <2>3. q * (d * (81 - d) - 160) = upTo * (d - 1) - 80 * (q * d)
    BY <1>1, <1>3, SMT DEF upTo
  <2>4. (80 * k + 79) * (d - 1) >= upTo * (d - 1)
    BY <1>1, <1>5, <1>6, SMT
  <2>5. (80 * k + 79) * (d - 1) = 80 * (k * (d - 1)) + 79 * (d - 1)
    BY <1>1, <1>6, SMT
  <2>6. k * (d - 1) \in Int /\ q * d \in Int /\ upTo * (d - 1) \in Int
    BY <1>1, <1>3, <1>5, <1>6, SMT
  <2>7. 80 * (k * (d - 1)) >= 80 * (q * d) + 80 * (d - 1)
    BY <1>1, <2>2, <2>3, <2>4, <2>5, <2>6, SMT
  <2> QED
    BY <1>1, <1>3, <2>6, <2>7, SMT
<1> HIDE DEF k
<1>8. k * LINESIZE > len + offset + (k - 1) * Inserted(offset)
  <2>1. k * LINESIZE = k * 80 /\ Inserted(offset) = 81 - d
    BY <1>1, SMT DEF LINESIZE, Inserted
  <2>2. (k - 1) * (81 - d) = 80 * k - k * (d - 1) - 81 + d
    BY <1>1, <1>6, SMT
  <2> QED
    BY <1>1, <1>6, <1>7, <2>1, <2>2, SMT
<1>9. k \in 1 .. (BreaksUpTo(len, offset, LINESIZE) \div LINESIZE)
  <2>1. BreaksUpTo(len, offset, LINESIZE) \div LINESIZE = k
    BY <1>2 DEF k, LINESIZE
  <2> QED
    BY <1>6, <2>1, SMT
<1> QED
  <2> SUFFICES \E i \in 1 .. (BreaksUpTo(len, offset, LINESIZE) \div LINESIZE) :
                 i * LINESIZE > len + offset + (i - 1) * Inserted(offset)
    BY DEF FormatThrows
  <2> WITNESS k \in 1 .. (BreaksUpTo(len, offset, LINESIZE) \div LINESIZE)
  <2> QED
    BY <1>8
=============================================================================
