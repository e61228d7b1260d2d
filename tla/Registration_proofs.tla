------------------------- MODULE Registration_proofs -------------------------
(***************************************************************************)
(* A registration with an RSD that may send any number of other messages,  *)
(* reject, and leave.                                                      *)
(*                                                                         *)
(* The argument: of the messages that move a registration on (announce,    *)
(* its acknowledgement, register, its acknowledgement, pluginActive) at    *)
(* most one is under way, somewhere between the plugin and the RSD.        *)
(***************************************************************************)
EXTENDS Registration, Integers, SequenceTheorems, TLAPS

Ack(dom) == dom.result \in {"announceACK", "registerACK"}

(* What the RSD has sent and the plugin has not processed.                 *)
Coming  == queue \o toPlugin
NoneAck == \A i \in DOMAIN Coming : ~Ack(Coming[i])

(* Is dom what the plugin has to send after n messages?                    *)
IsNext(dom, n) ==
  \/ n = 0 /\ dom.method = "announce" /\ IsRequest(dom)
  \/ n = 1 /\ dom.method = "register" /\ IsRequest(dom)
  \/ n = 2 /\ dom.method = "pluginActive" /\ IsNotification(dom)

(* The documents that are edited again and again keep their kind.          *)
DocumentsOK ==
  /\ requestDOM.json /\ requestDOM.jsonrpc = "2.0"
  /\ responseDOM.jsonrpc = "2.0" /\ responseDOM.error = Absent
  /\ errorDOM.result = Absent

(* Before the main thread has announced, nothing has been said.            *)
StartOK ==
  main \in {"connect", "announce", "transmit"} =>
    /\ received = <<>> /\ toRsd = <<>> /\ output = Nothing
    /\ rsd = "NOT_ACTIVE" /\ NoneAck
    /\ main = "transmit" => IsNext(sBuffer, 0)

(* A message on its way to the RSD is the one it expects, and alone.       *)
FlightOK ==
  toRsd # <<>> =>
    /\ Len(toRsd) = 1 /\ output = Nothing /\ NoneAck
    /\ Rank(rsd) = Len(received) /\ IsNext(toRsd[1], Len(received))

(* So is one the worker is about to transmit.                              *)
OutputOK ==
  output # Nothing =>
    /\ toRsd = <<>> /\ NoneAck
    /\ Len(received) > 0 /\ Rank(rsd) = Len(received)
    /\ IsNext(output, Len(received))

(* An acknowledgement on its way to the worker answers the last message    *)
(* the RSD has read.                                                       *)
AcksOK ==
  /\ \A i, j \in DOMAIN Coming : Ack(Coming[i]) /\ Ack(Coming[j]) => i = j
  /\ \A i \in DOMAIN Coming : Ack(Coming[i]) =>
       /\ toRsd = <<>> /\ output = Nothing
       /\ IsResponse(Coming[i]) /\ ~IsError(Coming[i])
       /\ Rank(rsd) = Len(received)
       /\ IF Coming[i].result = "announceACK" THEN rsd = "ANNOUNCED"
                                              ELSE rsd = "REGISTERED"

ReceivedOK ==
  /\ Rank(rsd) <= Len(received) /\ Len(received) <= 3
  /\ \A i \in DOMAIN received : IsNext(received[i], i - 1)

RegInv ==
  /\ TypeOK /\ DocumentsOK
  /\ StartOK /\ FlightOK /\ OutputOK /\ AcksOK /\ ReceivedOK
  /\ NeverAhead /\ state # "ACTIVE"
-----------------------------------------------------------------------------
(* Every generator makes a document of a document.                         *)
LEMMA Generated ==
  /\ \A dom \in Document, method \in Methods, params \in Params \cup {Absent},
        id \in IntIds \cup NumberIds \cup BadIds \cup {Absent} :
       GenerateRequest(dom, method, params, id) \in Document
  /\ \A dom \in Document, result \in Results,
        id \in IntIds \cup NumberIds \cup BadIds \cup {Absent} :
       GenerateResponse(dom, id, result) \in Document
  /\ \A dom \in Document,
        id \in IntIds \cup NumberIds \cup BadIds \cup {Absent} :
       GenerateResponseError(dom, id) \in Document
<1>1. ASSUME NEW dom \in Document, NEW method \in Methods,
             NEW params \in Params \cup {Absent},
             NEW id \in IntIds \cup NumberIds \cup BadIds \cup {Absent}
      PROVE  GenerateRequest(dom, method, params, id) \in Document
  BY <1>1 DEF GenerateRequest, Document
<1>2. ASSUME NEW dom \in Document, NEW result \in Results,
             NEW id \in IntIds \cup NumberIds \cup BadIds \cup {Absent}
      PROVE  GenerateResponse(dom, id, result) \in Document
  BY <1>2 DEF GenerateResponse, Document
<1>3. ASSUME NEW dom \in Document,
             NEW id \in IntIds \cup NumberIds \cup BadIds \cup {Absent}
      PROVE  GenerateResponseError(dom, id) \in Document
  BY <1>3 DEF GenerateResponseError, Document, IntIds
<1> QED
  BY <1>1, <1>2, <1>3

(* The documents the program starts from.                                  *)
LEMMA Prepared ==
  /\ RequestDOM \in Document /\ ResponseDOM \in Document
  /\ ErrorDOM \in Document /\ Nothing \in Document
BY DEF RequestDOM, ResponseDOM, ErrorDOM, Nothing, Blank, Document, IntIds,
       Results, Absent

(* What the members of a document may be.                                  *)
LEMMA Members ==
  ASSUME NEW dom \in Document
  PROVE  /\ dom.id \in IntIds \cup NumberIds \cup BadIds \cup {Absent}
         /\ dom.json \in BOOLEAN
BY DEF Document

LEMMA TypesInit == Init => TypeOK
<1>1. <<>> \in Seq(Document)
  OBVIOUS
<1>2. 0 \in 0 .. MaxStrays
  BY RegistrationAssumption
<1> QED
  BY <1>1, <1>2, Prepared DEF Init, TypeOK

LEMMA SeqTypes ==
  ASSUME NEW S, NEW s \in Seq(S)
  PROVE  /\ \A d \in S : Append(s, d) \in Seq(S)
         /\ s # <<>> => Head(s) \in S /\ Tail(s) \in Seq(S)
OBVIOUS

LEMMA TransmitTypes ==
  ASSUME TypeOK, NEW dom \in Document, Transmit(dom)
  PROVE  toRsd' \in Seq(Document) /\ alive' \in BOOLEAN
<1>1. toRsd \in Seq(Document) /\ alive \in BOOLEAN
  BY DEF TypeOK
<1>2. toRsd' = toRsd \/ toRsd' = Append(toRsd, dom)
  BY DEF Transmit
<1>3. alive' = alive \/ alive' \in BOOLEAN
  BY DEF Transmit
<1> QED
  BY <1>1, <1>2, <1>3, SeqTypes

LEMMA TypesStep == TypeOK /\ [Next]_vars => TypeOK'
<1> SUFFICES ASSUME TypeOK, [Next]_vars
             PROVE  TypeOK'
  OBVIOUS
<1> USE DEF mainVars, regVars, cpVars, rsdVars
<1>1. CASE ConnectToRSD \/ ConnectFails \/ Poll \/ CallRecv \/ ListenerSpins
             \/ ListenerEnds
  BY <1>1 DEF ConnectToRSD, ConnectFails, Poll, CallRecv, ListenerSpins,
              ListenerEnds, RecvReturnsEnd, TypeOK
<1>2. CASE GenerateAnnounce
  <2>1. requestDOM' \in Document /\ sBuffer' = requestDOM'
    BY <1>2, Generated DEF GenerateAnnounce, Generate, TypeOK, Methods, Params,
                           IntIds
  <2> QED
    BY <1>2, <2>1 DEF GenerateAnnounce, TypeOK
<1>3. CASE TransmitAnnounce
  <2>1. toRsd' \in Seq(Document) /\ alive' \in BOOLEAN
    BY <1>3, TransmitTypes DEF TransmitAnnounce, TypeOK
  <2> QED
    BY <1>3, <2>1 DEF TransmitAnnounce, TypeOK
<1>4. CASE Receive
  <2>1. queue' \in Seq(Document) /\ toPlugin' \in Seq(Document)
    BY <1>4, SeqTypes DEF Receive, TypeOK
  <2> QED
    BY <1>4, <2>1 DEF Receive, TypeOK
<1>5. CASE Process
  <2> DEFINE dom == Head(queue)
  <2>1. dom \in Document /\ Tail(queue) \in Seq(Document)
    BY <1>5, SeqTypes DEF Process, TypeOK
  <2> HIDE DEF dom
  <2>2. CASE ProcessError(dom) \/ OtherString(dom) \/ Recover(dom)
    BY <2>1, <2>2 DEF ProcessError, OtherString, Recover, NextMessage, TypeOK
  <2>3. CASE AnnounceACK(dom)
    <3>1. requestDOM' \in Document /\ sBuffer' = requestDOM'
      BY <2>1, <2>3, Generated, Members
         DEF AnnounceACK, Generate, TypeOK, Methods, Params
    <3> QED
      BY <2>1, <2>3, <3>1 DEF AnnounceACK, NextMessage, TypeOK
  <2>4. CASE RegisterACK(dom)
    <3>1. /\ requestDOM' \in Document /\ sBuffer' \in Document
          /\ output' \in Document /\ alive' \in BOOLEAN
      <4>1. GenerateRequest(requestDOM, "pluginActive", Absent, Absent) \in Document
        BY Generated DEF TypeOK, Methods
      <4>2. alive' \in BOOLEAN
        BY <2>4 DEF RegisterACK, TypeOK
      <4> QED
        BY <2>4, <4>1, <4>2 DEF RegisterACK, Generate, TypeOK
    <3> QED
      BY <2>1, <2>4, <3>1 DEF RegisterACK, NextMessage, TypeOK
  <2> QED
    BY <1>5, <2>2, <2>3, <2>4 DEF Process, dom
<1>6. CASE TransmitOutput
  <2>1. toRsd' \in Seq(Document) /\ alive' \in BOOLEAN
    BY <1>6, TransmitTypes DEF TransmitOutput, TypeOK
  <2> QED
    BY <1>6, <2>1, Prepared DEF TransmitOutput, TypeOK
<1>7. ASSUME RsdRead
      PROVE  /\ Head(toRsd) \in Document
             /\ toRsd' \in Seq(Document) /\ received' \in Seq(Document)
  BY <1>7, SeqTypes DEF RsdRead, TypeOK
<1>8. CASE RsdAccepts
  <2> DEFINE dom == Head(toRsd)
  <2>1. /\ rsd' \in {"ANNOUNCED", "REGISTERED", "ACTIVE"}
    BY <1>8 DEF RsdAccepts, Expects, TypeOK
  <2>2. responseDOM' \in Document /\ toPlugin' \in Seq(Document)
    <3>1. dom \in Document
      BY <1>7, <1>8 DEF RsdAccepts
    <3> HIDE DEF dom
    <3>2. \A result \in Results : GenerateResponse(responseDOM, dom.id, result) \in Document
      BY <3>1, Generated, Members DEF TypeOK
    <3>3. CASE rsd = "REGISTERED"
      BY <1>8, <3>3 DEF RsdAccepts, TypeOK
    <3>4. CASE rsd # "REGISTERED"
      <4>1. responseDOM' \in Document
        BY <1>8, <3>2, <3>4 DEF RsdAccepts, Results, dom
      <4>2. toPlugin' = Append(toPlugin, responseDOM')
        BY <1>8, <3>4 DEF RsdAccepts
      <4>3. toPlugin \in Seq(Document)
        BY DEF TypeOK
      <4> QED
        BY <4>1, <4>2, <4>3, SeqTypes
    <3> QED
      BY <3>3, <3>4
  <2> QED
    BY <1>7, <1>8, <2>1, <2>2 DEF RsdAccepts, RsdRead, TypeOK
<1>9. CASE RsdRejects
  <2>1. errorDOM' \in Document
    BY <1>7, <1>9, Generated, Members DEF RsdRejects, TypeOK
  <2>2. toPlugin' \in Seq(Document)
    BY <1>9, <2>1, SeqTypes DEF RsdRejects, TypeOK
  <2> QED
    BY <1>7, <1>9, <2>1, <2>2 DEF RsdRejects, RsdRead, TypeOK
<1>10. CASE RsdStray
  <2>1. toPlugin' \in Seq(Document)
    BY <1>10, RegistrationAssumption, SeqTypes DEF RsdStray, TypeOK
  <2>2. strays' \in 0 .. MaxStrays
    BY <1>10, RegistrationAssumption DEF RsdStray, TypeOK
  <2> QED
    BY <1>10, <2>1, <2>2 DEF RsdStray, TypeOK
<1>11. CASE RsdLeaves
  BY <1>11 DEF RsdLeaves, TypeOK
<1>12. CASE UNCHANGED vars
  BY <1>12 DEF vars, TypeOK
<1> QED
  BY <1>1, <1>2, <1>3, <1>4, <1>5, <1>6, <1>8, <1>9, <1>10, <1>11, <1>12
     DEF Next, Main, Listener, Worker, Rsd

(* Type correctness of the registration: what travels is always a          *)
(* document, whatever the RSD sends.                                       *)
THEOREM RegistrationTypes == Spec => []TypeOK
BY TypesInit, TypesStep, PTL DEF Spec
-----------------------------------------------------------------------------
(* What becomes of two sequences in a row when a message moves.            *)
LEMMA Moved ==
  ASSUME NEW S, NEW q \in Seq(S), NEW t \in Seq(S)
  PROVE  /\ t # <<>> => Append(q, Head(t)) \o Tail(t) = q \o t
         /\ q # <<>> => Tail(q) \o t = Tail(q \o t) /\ (q \o t)[1] = Head(q)
                          /\ Len(q \o t) > 0
         /\ \A d \in S : q \o Append(t, d) = Append(q \o t, d)
<1>1. ASSUME t # <<>>
      PROVE  Append(q, Head(t)) \o Tail(t) = q \o t
  <2> DEFINE h == Head(t)
             r == Tail(t)
  <2>1. h \in S /\ r \in Seq(S) /\ <<h>> \in Seq(S)
    BY <1>1
  <2>2. <<h>> \o r = t
    BY <1>1
  <2> HIDE DEF h, r
  <2>3. Append(q, h) \o r = (q \o <<h>>) \o r
    BY <2>1, AppendIsConcat
  <2>4. (q \o <<h>>) \o r = q \o (<<h>> \o r)
    BY <2>1, ConcatAssociative
  <2> QED
    BY <2>2, <2>3, <2>4 DEF h, r
<1>2. ASSUME q # <<>>
      PROVE  Tail(q) \o t = Tail(q \o t) /\ (q \o t)[1] = Head(q)
               /\ Len(q \o t) > 0
  <2> DEFINE h == Head(q)
             r == Tail(q)
             one == <<h>>
  <2>1. h \in S /\ r \in Seq(S) /\ one \in Seq(S)
    BY <1>2
  <2>2. one \o r = q
    BY <1>2
  <2>0. Len(one) = 1 /\ one[1] = h
    OBVIOUS
  <2> HIDE DEF h, r, one
  <2>3. (one \o r) \o t = one \o (r \o t)
    BY <2>1, ConcatAssociative
  <2>5. q \o t = one \o (r \o t)
    BY <2>2, <2>3, Zenon
  <2>6. r \o t \in Seq(S)
    BY <2>1
  <2>4. ASSUME NEW u \in Seq(S)
        PROVE  /\ Tail(one \o u) = u /\ (one \o u)[1] = h
               /\ Len(one \o u) > 0
    <3> DEFINE hu == one \o u
    <3>1. /\ hu \in Seq(S) /\ Len(hu) = 1 + Len(u)
          /\ \A i \in 1 .. 1 + Len(u) : hu[i] = IF i <= 1 THEN h ELSE u[i - 1]
      <4>1. /\ hu \in Seq(S) /\ Len(hu) = Len(one) + Len(u)
            /\ \A i \in 1 .. Len(one) + Len(u) :
                 hu[i] = IF i <= Len(one) THEN one[i] ELSE u[i - Len(one)]
        BY <2>1, ConcatProperties, Zenon
      <4> HIDE DEF hu
      <4>2. ASSUME NEW i \in 1 .. 1 + Len(u)
            PROVE  hu[i] = IF i <= 1 THEN h ELSE u[i - 1]
        BY <2>0, <4>1
      <4> QED
        BY <2>0, <4>1, <4>2
    <3> HIDE DEF hu
    <3>2. Len(u) \in Nat /\ Len(hu) > 0 /\ hu # <<>> /\ hu[1] = h
      BY <3>1
    <3>3. /\ Tail(hu) \in Seq(S) /\ Len(Tail(hu)) = Len(u)
          /\ \A i \in 1 .. Len(u) : Tail(hu)[i] = u[i]
      BY <3>1, <3>2, HeadTailProperties
    <3>4. Tail(hu) = u
      BY <3>3, SeqEqual
    <3> QED
      BY <3>2, <3>4 DEF hu
  <2> QED
    BY <2>4, <2>5, <2>6 DEF h, r
<1>3. ASSUME NEW d \in S
      PROVE  q \o Append(t, d) = Append(q \o t, d)
  <2>1. <<d>> \in Seq(S) /\ q \o t \in Seq(S)
    OBVIOUS
  <2>2. q \o Append(t, d) = q \o (t \o <<d>>)
    BY AppendIsConcat
  <2>3. q \o (t \o <<d>>) = (q \o t) \o <<d>>
    BY <2>1, ConcatAssociative
  <2> QED
    BY <2>1, <2>2, <2>3, AppendIsConcat
<1> QED
  BY <1>1, <1>2, <1>3
LEMMA Tails ==
  ASSUME NEW S, NEW s \in Seq(S), Len(s) > 0
  PROVE  /\ DOMAIN Tail(s) = 1 .. Len(s) - 1
         /\ \A i \in 1 .. Len(s) - 1 : Tail(s)[i] = s[i + 1]
OBVIOUS

LEMMA ComingTypes ==
  ASSUME TypeOK
  PROVE  /\ Coming \in Seq(Document) /\ Len(Coming) \in Nat
         /\ DOMAIN Coming = 1 .. Len(Coming)
<1>1. queue \in Seq(Document) /\ toPlugin \in Seq(Document)
  BY DEF TypeOK
<1>2. Coming \in Seq(Document)
  BY <1>1, ConcatProperties, Zenon DEF Coming
<1> QED
  BY <1>2

(* The worker takes a message: the others are as they were.                *)
Taken == queue # <<>> /\ queue' = Tail(queue) /\ toPlugin' = toPlugin

LEMMA ComingTaken ==
  ASSUME TypeOK, Taken
  PROVE  /\ DOMAIN Coming' = 1 .. Len(Coming) - 1
         /\ \A i \in 1 .. Len(Coming) - 1 : Coming'[i] = Coming[i + 1]
         /\ 1 \in DOMAIN Coming /\ Coming[1] = Head(queue)
<1>1. queue \in Seq(Document) /\ toPlugin \in Seq(Document)
  BY DEF TypeOK
<1>2. /\ Tail(queue) \o toPlugin = Tail(Coming)
      /\ Coming[1] = Head(queue) /\ Len(Coming) > 0
  BY <1>1, Moved, Zenon DEF Coming, Taken
<1>3. Coming' = Tail(Coming)
  BY <1>2 DEF Coming, Taken
<1> DEFINE rest == Tail(Coming)
<1>4. /\ DOMAIN rest = 1 .. Len(Coming) - 1
      /\ \A i \in 1 .. Len(Coming) - 1 : rest[i] = Coming[i + 1]
  BY <1>2, ComingTypes, Tails
<1>5. Coming' = rest
  BY <1>3
<1>6. 1 \in DOMAIN Coming
  <2>1. Len(Coming) \in Nat /\ Len(Coming) > 0
    BY <1>2, ComingTypes
  <2>2. 1 \in 1 .. Len(Coming)
    BY <2>1
  <2> QED
    BY <2>2, ComingTypes, Zenon
<1> HIDE DEF rest
<1> QED
  BY <1>2, <1>4, <1>5, <1>6

(* The RSD sends one: it comes after the others.                           *)
LEMMA ComingSent ==
  ASSUME TypeOK, NEW d \in Document,
         queue' = queue, toPlugin' = Append(toPlugin, d)
  PROVE  /\ DOMAIN Coming' = 1 .. Len(Coming) + 1
         /\ \A i \in 1 .. Len(Coming) : Coming'[i] = Coming[i]
         /\ Coming'[Len(Coming) + 1] = d
<1>1. queue \in Seq(Document) /\ toPlugin \in Seq(Document)
  BY DEF TypeOK
<1>2. Coming' = Append(Coming, d)
  BY <1>1, Moved DEF Coming
<1> QED
  BY <1>2, ComingTypes, AppendProperties

LEMMA AcksTaken ==
  ASSUME TypeOK, AcksOK, Taken
  PROVE  /\ NoneAck => NoneAck'
         /\ Ack(Head(queue)) =>
              /\ NoneAck' /\ toRsd = <<>> /\ output = Nothing
              /\ Rank(rsd) = Len(received)
              /\ IF Head(queue).result = "announceACK" THEN rsd = "ANNOUNCED"
                                                       ELSE rsd = "REGISTERED"
         /\ UNCHANGED <<toRsd, output, rsd, received>> => AcksOK'
<1>1. /\ DOMAIN Coming' = 1 .. Len(Coming) - 1 /\ Len(Coming) \in Nat
      /\ DOMAIN Coming = 1 .. Len(Coming)
      /\ \A i \in 1 .. Len(Coming) - 1 : Coming'[i] = Coming[i + 1]
      /\ 1 \in DOMAIN Coming /\ Coming[1] = Head(queue)
  BY ComingTaken, ComingTypes
<1>2. \A i \in DOMAIN Coming' : i + 1 \in DOMAIN Coming /\ i + 1 # 1
                                /\ Coming'[i] = Coming[i + 1]
  BY <1>1
<1>3. NoneAck => NoneAck'
  BY <1>2 DEF NoneAck
<1>4. ASSUME Ack(Head(queue))
      PROVE  NoneAck'
  BY <1>1, <1>2, <1>4 DEF NoneAck, AcksOK
<1>5. ASSUME Ack(Head(queue))
      PROVE  /\ toRsd = <<>> /\ output = Nothing
             /\ Rank(rsd) = Len(received)
             /\ IF Head(queue).result = "announceACK" THEN rsd = "ANNOUNCED"
                                                      ELSE rsd = "REGISTERED"
  BY <1>1, <1>5 DEF AcksOK
<1>6. ASSUME UNCHANGED <<toRsd, output, rsd, received>>
      PROVE  AcksOK'
  <2>1. ASSUME NEW i \in DOMAIN Coming', NEW j \in DOMAIN Coming',
               Ack(Coming'[i]), Ack(Coming'[j])
        PROVE  i = j
    <3>1. i + 1 = j + 1
      BY <1>2, <2>1 DEF AcksOK
    <3> QED
      BY <1>1, <3>1
  <2> QED
    BY <1>2, <1>6, <2>1 DEF AcksOK
<1> QED
  BY <1>3, <1>4, <1>5, <1>6

LEMMA StraySent ==
  ASSUME TypeOK, NEW d \in Document, ~Ack(d),
         queue' = queue, toPlugin' = Append(toPlugin, d)
  PROVE  /\ NoneAck => NoneAck'
         /\ AcksOK /\ UNCHANGED <<toRsd, output, rsd, received>> => AcksOK'
<1>1. /\ DOMAIN Coming' = 1 .. Len(Coming) + 1 /\ Len(Coming) \in Nat
      /\ DOMAIN Coming = 1 .. Len(Coming)
      /\ \A i \in 1 .. Len(Coming) : Coming'[i] = Coming[i]
      /\ Coming'[Len(Coming) + 1] = d
  BY ComingSent, ComingTypes
<1>2. \A i \in DOMAIN Coming' :
        Ack(Coming'[i]) => i \in DOMAIN Coming /\ Coming'[i] = Coming[i]
  BY <1>1
<1> QED
  BY <1>2 DEF NoneAck, AcksOK

LEMMA AckSent ==
  ASSUME TypeOK, NEW d \in Document, NoneAck,
         queue' = queue, toPlugin' = Append(toPlugin, d)
  PROVE  \A i \in DOMAIN Coming' :
           Ack(Coming'[i]) => i = Len(Coming) + 1 /\ Coming'[i] = d
<1>1. /\ DOMAIN Coming' = 1 .. Len(Coming) + 1 /\ Len(Coming) \in Nat
      /\ DOMAIN Coming = 1 .. Len(Coming)
      /\ \A i \in 1 .. Len(Coming) : Coming'[i] = Coming[i]
      /\ Coming'[Len(Coming) + 1] = d
  BY ComingSent, ComingTypes
<1> QED
  BY <1>1 DEF NoneAck
-----------------------------------------------------------------------------
LEMMA RegInit == Init => RegInv
<1> SUFFICES ASSUME Init
             PROVE  RegInv
  OBVIOUS
<1>1. TypeOK
  BY TypesInit
<1>2. Coming = <<>>
  BY DEF Init, Coming
<1>3. Rank(rsd) = 0 /\ Rank(state) = 0 /\ Len(received) = 0
  BY DEF Init, Rank
<1>4. DocumentsOK
  BY DEF Init, DocumentsOK, RequestDOM, ResponseDOM, ErrorDOM, Blank, Absent
<1> QED
  BY <1>1, <1>2, <1>3, <1>4
     DEF Init, RegInv, StartOK, FlightOK, OutputOK, AcksOK, ReceivedOK, NoneAck,
         NeverAhead

(* Steps that leave the messages, the documents and both states alone.     *)
LEMMA IdleStep ==
  ASSUME RegInv, TypeOK', Coming' = Coming,
         UNCHANGED <<state, requestDOM, sBuffer, output, rsd, responseDOM,
                     errorDOM, received, toRsd>>,
         main' # main => main' \in {"loop", "ended"}
                           \/ (main' = "announce" /\ main = "connect")
  PROVE  RegInv'
<1>1. NoneAck' = NoneAck /\ AcksOK'
  BY DEF NoneAck, AcksOK, RegInv
<1>2. StartOK'
  BY <1>1 DEF StartOK, RegInv
<1>3. FlightOK' /\ OutputOK'
  BY <1>1 DEF FlightOK, OutputOK, RegInv
<1> QED
  BY <1>1, <1>2, <1>3 DEF RegInv, DocumentsOK, ReceivedOK, NeverAhead
(* The plugin announces itself.                                            *)
LEMMA AnnounceStep ==
  ASSUME RegInv, TypeOK', GenerateAnnounce \/ TransmitAnnounce
  PROVE  RegInv'
<1> USE DEF mainVars, regVars, cpVars, rsdVars
<1>1. /\ received = <<>> /\ toRsd = <<>> /\ output = Nothing
      /\ rsd = "NOT_ACTIVE" /\ NoneAck
      /\ main = "transmit" => IsNext(sBuffer, 0)
  BY DEF GenerateAnnounce, TransmitAnnounce, RegInv, StartOK
<1>2. Coming' = Coming /\ UNCHANGED <<state, output, rsd, received, responseDOM,
                                      errorDOM, queue, toPlugin>>
  BY DEF GenerateAnnounce, TransmitAnnounce, Coming
<1>3. NoneAck' /\ AcksOK'
  BY <1>1, <1>2 DEF NoneAck, AcksOK
<1>4. DocumentsOK' /\ ReceivedOK' /\ NeverAhead' /\ state' # "ACTIVE"
  <2>1. requestDOM \in Document
    BY DEF RegInv, TypeOK
  <2> QED
    BY <1>2, <2>1 DEF GenerateAnnounce, TransmitAnnounce, Generate, GenerateRequest,
         RegInv, DocumentsOK, ReceivedOK, NeverAhead, Document
<1>5. OutputOK'
  BY <1>1, <1>2 DEF OutputOK, Nothing
<1>6. CASE GenerateAnnounce
  <2>1. /\ sBuffer' = GenerateRequest(requestDOM, "announce", "object", "1")
        /\ requestDOM \in Document /\ requestDOM.jsonrpc = "2.0"
    BY <1>6 DEF GenerateAnnounce, Generate, RegInv, TypeOK, DocumentsOK
  <2>2. /\ sBuffer'.jsonrpc = "2.0" /\ sBuffer'.method = "announce"
        /\ sBuffer'.id = "1"
    BY <2>1 DEF GenerateRequest, Document
  <2>3. IsNext(sBuffer', 0)
    BY <2>2 DEF IsNext, IsRequest, Versioned, HasJsonRPCVersion,
         CheckJsonRpcVersion, HasMethod, HasId, IntIds, Absent, NotString
  <2> QED
    BY <1>1, <1>2, <1>3, <1>4, <1>5, <1>6, <2>3
       DEF GenerateAnnounce, RegInv, StartOK, FlightOK
<1>7. CASE TransmitAnnounce
  <2>1. toRsd' = <<>> \/ toRsd' = <<sBuffer>>
    BY <1>1, <1>7 DEF TransmitAnnounce, Transmit
  <2>2. Rank(rsd) = 0 /\ Len(received) = 0
    BY <1>1 DEF Rank
  <2>3. FlightOK'
    BY <1>1, <1>2, <1>3, <1>7, <2>1, <2>2 DEF TransmitAnnounce, FlightOK
  <2> QED
    BY <1>3, <1>4, <1>5, <1>7, <2>3 DEF TransmitAnnounce, RegInv, StartOK
<1> QED
  BY <1>6, <1>7

(* The worker processes a message.                                         *)
LEMMA ProcessStep ==
  ASSUME RegInv, TypeOK', Process
  PROVE  RegInv'
<1> USE DEF mainVars, regVars, cpVars, rsdVars
<1> DEFINE dom == Head(queue)
<1>1. queue # <<>> /\ dom \in Document
  BY SeqTypes DEF Process, RegInv, TypeOK
<1> HIDE DEF dom
<1>2. PICK d : /\ d = dom
               /\ \/ ProcessError(d) \/ AnnounceACK(d) \/ RegisterACK(d)
                  \/ OtherString(d) \/ Recover(d)
  BY DEF Process, dom
<1>3. /\ Taken /\ output = Nothing
      /\ UNCHANGED <<main, rsd, received, responseDOM, errorDOM, toRsd>>
  BY <1>1, <1>2 DEF ProcessError, AnnounceACK, RegisterACK, OtherString, Recover,
                    NextMessage, Taken
<1>4. /\ NoneAck => NoneAck'
      /\ Ack(dom) =>
           /\ NoneAck' /\ toRsd = <<>>
           /\ Rank(rsd) = Len(received)
           /\ IF dom.result = "announceACK" THEN rsd = "ANNOUNCED"
                                            ELSE rsd = "REGISTERED"
      /\ output' = output => AcksOK'
  BY <1>3, AcksTaken DEF RegInv, dom
<1>5. /\ requestDOM.json /\ requestDOM.jsonrpc = "2.0" /\ requestDOM \in Document
      /\ NeverAhead /\ state # "ACTIVE"
  BY DEF RegInv, DocumentsOK, TypeOK
<1>6. CASE ProcessError(d) \/ OtherString(d) \/ Recover(d)
  <2>1. UNCHANGED <<requestDOM, sBuffer, output>>
    BY <1>6 DEF ProcessError, OtherString, Recover
  <2>2. state' = state \/ state' \in {"BROKEN", "NOT_ACTIVE"}
    BY <1>6 DEF ProcessError, OtherString, Recover
  <2>3. NeverAhead' /\ state' # "ACTIVE"
    <3>1. Rank(rsd) \in 0 .. 3
      BY DEF Rank
    <3> QED
      BY <1>3, <1>5, <2>2, <3>1 DEF NeverAhead, Rank
  <2>4. StartOK'
    BY <1>3, <1>4, <2>1 DEF StartOK, RegInv
  <2>5. FlightOK' /\ OutputOK'
    BY <1>3, <1>4, <2>1 DEF FlightOK, OutputOK, RegInv
  <2> QED
    BY <1>3, <1>4, <2>1, <2>3, <2>4, <2>5 DEF RegInv, DocumentsOK, ReceivedOK
<1>7. ASSUME Ack(dom), UNCHANGED <<output>>, state' \in {"ANNOUNCED", "REGISTERED"},
             state' = rsd, UNCHANGED <<requestDOM, sBuffer>>
      PROVE  RegInv'
  <2>1. StartOK'
    BY <1>3, <1>4, <1>7 DEF StartOK, RegInv
  <2>2. FlightOK' /\ OutputOK'
    BY <1>3, <1>4, <1>7 DEF FlightOK, OutputOK, RegInv
  <2>3. NeverAhead' /\ state' # "ACTIVE"
    BY <1>3, <1>7 DEF NeverAhead, Rank
  <2> QED
    BY <1>3, <1>4, <1>7, <2>1, <2>2, <2>3 DEF RegInv, DocumentsOK, ReceivedOK
<1>8. ASSUME Ack(dom), state' \in {"ANNOUNCED", "REGISTERED"}, state' = rsd,
             requestDOM'.json, requestDOM'.jsonrpc = "2.0",
             IsNext(output', Len(received)), Len(received) > 0
      PROVE  RegInv'
  <2>1. StartOK'
    BY <1>3, <1>4, <1>8 DEF StartOK, RegInv
  <2>2. FlightOK' /\ OutputOK'
    BY <1>3, <1>4, <1>8 DEF FlightOK, OutputOK, RegInv
  <2>3. NeverAhead' /\ state' # "ACTIVE"
    BY <1>3, <1>8 DEF NeverAhead, Rank
  <2>4. AcksOK'
    BY <1>4, <1>8 DEF AcksOK, NoneAck
  <2> QED
    BY <1>3, <1>8, <2>1, <2>2, <2>3, <2>4 DEF RegInv, DocumentsOK, ReceivedOK
<1>9. CASE AnnounceACK(d)
  <2>1. /\ Ack(dom) /\ dom.result = "announceACK" /\ HasId(dom)
        /\ state' = "ANNOUNCED"
    BY <1>2, <1>9 DEF AnnounceACK, Acked, Refused, Ack
  <2>2. rsd = "ANNOUNCED" /\ Len(received) = 1
    BY <1>4, <2>1 DEF Rank
  <2>3. output' = GenerateRequest(requestDOM, "register", "object", dom.id)
        /\ requestDOM' = output'
    BY <1>2, <1>9 DEF AnnounceACK, Generate
  <2>4. /\ requestDOM'.json /\ requestDOM'.jsonrpc = "2.0"
        /\ requestDOM'.method = "register" /\ requestDOM'.id = dom.id
    BY <1>5, <2>3 DEF GenerateRequest, Document
  <2>5. IsNext(output', 1)
    BY <2>1, <2>3, <2>4 DEF IsNext, IsRequest, Versioned, HasJsonRPCVersion,
         CheckJsonRpcVersion, HasMethod, HasId, Absent, NotString
  <2> QED
    BY <1>8, <2>1, <2>2, <2>4, <2>5
<1>10. CASE RegisterACK(d)
  <2>1. Ack(dom) /\ dom.result = "registerACK" /\ state' = "REGISTERED"
    BY <1>2, <1>10 DEF RegisterACK, Acked, Ack
  <2>2. rsd = "REGISTERED" /\ Len(received) = 2
    BY <1>4, <2>1 DEF Rank
  <2>3. CASE UNCHANGED <<requestDOM, sBuffer, output>>
    BY <1>7, <2>1, <2>2, <2>3
  <2>4. CASE Generate("pluginActive", Absent, Absent) /\ output' = sBuffer'
    <3>1. output' = GenerateRequest(requestDOM, "pluginActive", Absent, Absent)
          /\ requestDOM' = output'
      BY <2>4 DEF Generate
    <3>2. /\ requestDOM'.json /\ requestDOM'.jsonrpc = "2.0"
          /\ requestDOM'.method = "pluginActive" /\ requestDOM'.id = Absent
      BY <1>5, <3>1 DEF GenerateRequest, Document
    <3>3. IsNext(output', 2)
      BY <3>1, <3>2 DEF IsNext, IsNotification, Versioned, HasJsonRPCVersion,
           CheckJsonRpcVersion, HasMethod, HasNoId, Absent, NotString
    <3> QED
      BY <1>8, <2>1, <2>2, <3>2, <3>3
  <2> QED
    BY <1>10, <2>3, <2>4 DEF RegisterACK
<1> QED
  BY <1>2, <1>6, <1>9, <1>10
(* What the worker has in hand is transmitted, or lost.                    *)
LEMMA OutputStep ==
  ASSUME RegInv, TypeOK', TransmitOutput
  PROVE  RegInv'
<1> USE DEF mainVars, regVars, cpVars, rsdVars
<1>1. /\ output # Nothing /\ output' = Nothing
      /\ UNCHANGED <<main, state, requestDOM, sBuffer, queue, toPlugin, rsd,
                     received, responseDOM, errorDOM>>
  BY DEF TransmitOutput
<1>2. /\ toRsd = <<>> /\ NoneAck
      /\ Len(received) > 0 /\ Rank(rsd) = Len(received)
      /\ IsNext(output, Len(received))
  BY <1>1 DEF RegInv, OutputOK
<1>3. toRsd' = <<>> \/ toRsd' = <<output>>
  BY <1>2 DEF TransmitOutput, Transmit
<1>4. Coming' = Coming
  BY <1>1 DEF Coming
<1>5. NoneAck' /\ AcksOK'
  BY <1>2, <1>4 DEF NoneAck, AcksOK
<1>6. FlightOK'
  BY <1>1, <1>2, <1>3, <1>5 DEF FlightOK
<1>7. StartOK' /\ OutputOK'
  BY <1>1 DEF StartOK, OutputOK, RegInv
<1> QED
  BY <1>1, <1>5, <1>6, <1>7 DEF RegInv, DocumentsOK, ReceivedOK, NeverAhead

(* The RSD reads the one message that is on its way to it.                 *)
LEMMA ReadStep ==
  ASSUME RegInv, RsdRead
  PROVE  /\ Head(toRsd) \in Document /\ IsNext(Head(toRsd), Len(received))
         /\ Rank(rsd) = Len(received) /\ Len(received) \in 0 .. 2
         /\ toRsd' = <<>> /\ Len(received') = Len(received) + 1
         /\ \A i \in DOMAIN received' : IsNext(received'[i], i - 1)
         /\ output = Nothing /\ NoneAck
         /\ main \notin {"connect", "announce", "transmit"}
<1>1. /\ toRsd # <<>> /\ toRsd' = Tail(toRsd)
      /\ received' = Append(received, Head(toRsd))
  BY DEF RsdRead
<1>2. toRsd \in Seq(Document) /\ received \in Seq(Document)
  BY DEF RegInv, TypeOK
<1>3. /\ Len(toRsd) = 1 /\ output = Nothing /\ NoneAck
      /\ Rank(rsd) = Len(received) /\ IsNext(toRsd[1], Len(received))
      /\ main \notin {"connect", "announce", "transmit"}
  BY <1>1 DEF RegInv, FlightOK, StartOK
<1>4. Head(toRsd) = toRsd[1] /\ Head(toRsd) \in Document /\ toRsd' = <<>>
  BY <1>1, <1>2, <1>3
<1>5. Len(received) \in 0 .. 2
  BY <1>3 DEF IsNext
<1> DEFINE d == Head(toRsd)
<1> HIDE DEF d
<1>6. /\ Len(received') = Len(received) + 1
      /\ DOMAIN received' = 1 .. Len(received) + 1
      /\ \A i \in 1 .. Len(received) : received'[i] = received[i]
      /\ received'[Len(received) + 1] = d
  BY <1>1, <1>2, <1>4, AppendProperties DEF d
<1>7. \A i \in 1 .. Len(received) : IsNext(received[i], i - 1)
  BY <1>2 DEF RegInv, ReceivedOK
<1>8. IsNext(d, Len(received))
  BY <1>3, <1>4 DEF d
<1>9. ASSUME NEW i \in DOMAIN received'
      PROVE  IsNext(received'[i], i - 1)
  <2>1. CASE i \in 1 .. Len(received)
    BY <1>6, <1>7, <2>1
  <2>2. CASE i = Len(received) + 1
    <3>1. i - 1 = Len(received)
      BY <1>5, <2>2
    <3> QED
      BY <1>6, <1>8, <2>2, <3>1
  <2> QED
    BY <1>5, <1>6, <1>9, <2>1, <2>2
<1> QED
  BY <1>1, <1>3, <1>4, <1>5, <1>6, <1>8, <1>9 DEF d

LEMMA AcceptStep ==
  ASSUME RegInv, TypeOK', RsdAccepts
  PROVE  RegInv'
<1> USE DEF mainVars, regVars, cpVars, rsdVars
<1> DEFINE dom == Head(toRsd)
<1>1. /\ dom \in Document /\ IsNext(dom, Len(received))
      /\ Rank(rsd) = Len(received) /\ Len(received) \in 0 .. 2
      /\ toRsd' = <<>> /\ Len(received') = Len(received) + 1
      /\ \A i \in DOMAIN received' : IsNext(received'[i], i - 1)
      /\ output = Nothing /\ NoneAck
      /\ main \notin {"connect", "announce", "transmit"}
  BY ReadStep DEF RsdAccepts
<1>2. UNCHANGED <<main, state, requestDOM, sBuffer, queue, output, errorDOM>>
  BY DEF RsdAccepts, RsdRead
<1> HIDE DEF dom
<1>3. /\ rsd \in {"NOT_ACTIVE", "ANNOUNCED", "REGISTERED"}
      /\ Rank(rsd') = Rank(rsd) + 1
  BY DEF RsdAccepts, Expects, Rank
<1>4. StartOK' /\ FlightOK' /\ OutputOK'
  BY <1>1, <1>2 DEF StartOK, FlightOK, OutputOK
<1>5. ReceivedOK'
  BY <1>1, <1>3 DEF ReceivedOK
<1>6. NeverAhead' /\ state' # "ACTIVE"
  <2>1. Rank(state) \in 0 .. 3 /\ Rank(rsd) \in 0 .. 3
    BY DEF Rank
  <2> QED
    BY <1>2, <1>3, <2>1 DEF NeverAhead, RegInv
<1>7. DocumentsOK' /\ AcksOK'
  <2>1. CASE rsd = "REGISTERED"
    <3>1. UNCHANGED <<responseDOM, toPlugin>>
      BY <2>1 DEF RsdAccepts
    <3>2. Coming' = Coming
      BY <1>2, <3>1 DEF Coming
    <3> QED
      BY <1>1, <1>2, <3>1, <3>2 DEF RegInv, DocumentsOK, AcksOK, NoneAck
  <2>2. CASE rsd # "REGISTERED"
    <3> DEFINE ack == IF rsd = "NOT_ACTIVE" THEN "announceACK" ELSE "registerACK"
    <3>1. /\ responseDOM' = GenerateResponse(responseDOM, dom.id, ack)
          /\ toPlugin' = Append(toPlugin, responseDOM')
      BY <2>2 DEF RsdAccepts, dom
    <3>2. responseDOM' \in Document
      BY DEF TypeOK
    <3>3. /\ responseDOM \in Document
          /\ responseDOM.jsonrpc = "2.0" /\ responseDOM.error = Absent
      BY DEF RegInv, DocumentsOK, TypeOK
    <3>4. /\ responseDOM'.jsonrpc = "2.0" /\ responseDOM'.error = Absent
          /\ responseDOM'.id = dom.id /\ responseDOM'.result = ack
      BY <3>1, <3>3 DEF GenerateResponse, Document
    <3>5. HasId(dom)
      <4>1. Len(received) # 2
        <5>1. Rank(rsd) = Len(received)
          BY <1>1
        <5>2. rsd \in {"NOT_ACTIVE", "ANNOUNCED"}
          BY <1>3, <2>2
        <5>3. Rank(rsd) # 2
          BY <5>2 DEF Rank
        <5> QED
          BY <5>1, <5>3
      <4>2. IsRequest(dom)
        <5>1. CASE Len(received) = 0
          BY <1>1, <5>1 DEF IsNext
        <5>2. CASE Len(received) = 1
          BY <1>1, <5>2 DEF IsNext
        <5> QED
          BY <1>1, <4>1, <5>1, <5>2
      <4> QED
        BY <4>2 DEF IsRequest
    <3>6. IsResponse(responseDOM') /\ ~IsError(responseDOM')
      BY <3>4, <3>5 DEF IsResponse, IsError, Versioned, HasJsonRPCVersion, HasError,
           CheckJsonRpcVersion, HasResultOrError, HasResult, HasId, Absent, NotString
    <3>7. rsd' = IF ack = "announceACK" THEN "ANNOUNCED" ELSE "REGISTERED"
      BY <1>3, <2>2 DEF RsdAccepts
    <3>8. \A i \in DOMAIN Coming' :
            Ack(Coming'[i]) => i = Len(Coming) + 1 /\ Coming'[i] = responseDOM'
      BY <1>1, <1>2, <3>1, <3>2, AckSent DEF RegInv
    <3>9. responseDOM'.result = "announceACK" <=> ack = "announceACK"
      BY <3>4
    <3> HIDE DEF ack
    <3>10. Rank(rsd') = Len(received')
      BY <1>1, <1>3
    <3>11. AcksOK'
      BY <1>1, <1>2, <3>6, <3>7, <3>8, <3>9, <3>10 DEF AcksOK
    <3> QED
      BY <1>2, <3>4, <3>11 DEF RegInv, DocumentsOK
  <2> QED
    BY <2>1, <2>2
<1> QED
  BY <1>4, <1>5, <1>6, <1>7 DEF RegInv

LEMMA RejectStep ==
  ASSUME RegInv, TypeOK', RsdRejects
  PROVE  RegInv'
<1> USE DEF mainVars, regVars, cpVars, rsdVars
<1>1. /\ Rank(rsd) = Len(received) /\ Len(received) \in 0 .. 2
      /\ toRsd' = <<>> /\ Len(received') = Len(received) + 1
      /\ \A i \in DOMAIN received' : IsNext(received'[i], i - 1)
      /\ output = Nothing /\ NoneAck
      /\ main \notin {"connect", "announce", "transmit"}
  BY ReadStep DEF RsdRejects
<1>2. UNCHANGED <<main, state, requestDOM, sBuffer, queue, output, rsd, responseDOM>>
  BY DEF RsdRejects, RsdRead
<1>3. errorDOM'.result = Absent
  <2>1. errorDOM \in Document /\ errorDOM.result = Absent
    BY DEF RegInv, DocumentsOK, TypeOK
  <2>2. errorDOM' = GenerateResponseError(errorDOM, Head(toRsd).id)
    BY DEF RsdRejects
  <2> QED
    BY <2>1, <2>2 DEF GenerateResponseError, Document
<1>4. ~Ack(errorDOM')
  BY <1>3 DEF Ack, Absent
<1>5. NoneAck'
  BY <1>1, <1>2, <1>4, StraySent DEF RsdRejects, RegInv, TypeOK
<1>6. AcksOK'
  BY <1>5 DEF AcksOK, NoneAck
<1>7. StartOK' /\ FlightOK' /\ OutputOK' /\ ReceivedOK'
  BY <1>1, <1>2 DEF StartOK, FlightOK, OutputOK, ReceivedOK
<1> QED
  BY <1>2, <1>3, <1>6, <1>7 DEF RegInv, DocumentsOK, NeverAhead

LEMMA StrayStep ==
  ASSUME RegInv, TypeOK', RsdStray
  PROVE  RegInv'
<1> USE DEF mainVars, regVars, cpVars, rsdVars
<1>1. UNCHANGED <<main, state, requestDOM, sBuffer, queue, output, rsd, responseDOM,
                  errorDOM, received, toRsd>>
  BY DEF RsdStray
<1>2. PICK d \in Strays : toPlugin' = Append(toPlugin, d)
  BY DEF RsdStray
<1>3. d \in Document /\ ~Ack(d)
  BY <1>2, RegistrationAssumption DEF Ack
<1>4. AcksOK' /\ (NoneAck => NoneAck')
  BY <1>1, <1>2, <1>3, StraySent DEF RegInv
<1>5. StartOK' /\ FlightOK' /\ OutputOK'
  BY <1>1, <1>4 DEF StartOK, FlightOK, OutputOK, RegInv
<1> QED
  BY <1>1, <1>4, <1>5 DEF RegInv, DocumentsOK, ReceivedOK, NeverAhead
-----------------------------------------------------------------------------
LEMMA RegStep == RegInv /\ [Next]_vars => RegInv'
<1> SUFFICES ASSUME RegInv, [Next]_vars
             PROVE  RegInv'
  OBVIOUS
<1> USE DEF mainVars, regVars, cpVars, rsdVars
<1>1. TypeOK'
  BY TypesStep DEF RegInv
<1>2. CASE ConnectToRSD \/ ConnectFails \/ Poll \/ CallRecv \/ ListenerSpins \/ ListenerEnds
             \/ RsdLeaves \/ UNCHANGED vars
  <2>1. /\ UNCHANGED <<state, requestDOM, sBuffer, output, rsd, responseDOM,
                       errorDOM, received, toRsd, queue, toPlugin>>
        /\ main' # main => main' \in {"loop", "ended"}
                             \/ (main' = "announce" /\ main = "connect")
    BY <1>2 DEF ConnectToRSD, ConnectFails, Poll, CallRecv, ListenerSpins,
                ListenerEnds, RecvReturnsEnd, RsdLeaves,
                vars
  <2>2. Coming' = Coming
    BY <2>1 DEF Coming
  <2> QED
    BY <1>1, <2>1, <2>2, IdleStep
<1>3. CASE Receive
  <2>1. UNCHANGED <<main, state, requestDOM, sBuffer, output, rsd, responseDOM,
                    errorDOM, received, toRsd>>
    BY <1>3 DEF Receive
  <2>2. queue \in Seq(Document) /\ toPlugin \in Seq(Document)
    BY DEF RegInv, TypeOK
  <2>3. Append(queue, Head(toPlugin)) \o Tail(toPlugin) = queue \o toPlugin
    BY <1>3, <2>2, Moved, Zenon DEF Receive
  <2>4. Coming' = Coming
    BY <1>3, <2>3, Zenon DEF Receive, Coming
  <2> QED
    BY <1>1, <2>1, <2>4, IdleStep
<1>4. CASE GenerateAnnounce \/ TransmitAnnounce
  BY <1>1, <1>4, AnnounceStep
<1>5. CASE Process
  BY <1>1, <1>5, ProcessStep
<1>6. CASE TransmitOutput
  BY <1>1, <1>6, OutputStep
<1>7. CASE RsdAccepts
  BY <1>1, <1>7, AcceptStep
<1>8. CASE RsdRejects
  BY <1>1, <1>8, RejectStep
<1>9. CASE RsdStray
  BY <1>1, <1>9, StrayStep
<1> QED
  BY <1>2, <1>3, <1>4, <1>5, <1>6, <1>7, <1>8, <1>9
     DEF Next, Main, Listener, Worker, Rsd

(* The invariant: one message at most is under way, and both sides agree   *)
(* on what it is.                                                          *)
THEOREM RegistrationInvariant == Spec => []RegInv
BY RegInit, RegStep, PTL DEF Spec

(* The plugin never believes the registration further than the RSD has     *)
(* taken it, however many other messages the RSD sends (process()).        *)
THEOREM RegistrationNeverAhead == Spec => []NeverAhead
<1>1. RegInv => NeverAhead
  BY DEF RegInv
<1> QED
  BY <1>1, RegistrationInvariant, PTL

(* The RSD reads announce, register and pluginActive, in this order and    *)
(* each once at most, although two threads share one sBuffer.              *)
THEOREM RegistrationInOrder == Spec => []InOrder
<1>1. RegInv => InOrder
  <2> SUFFICES ASSUME RegInv
               PROVE  InOrder
    OBVIOUS
  <2>1. Len(Protocol) = 3 /\ Protocol[1] = "announce" /\ Protocol[2] = "register"
          /\ Protocol[3] = "pluginActive"
    BY DEF Protocol
  <2>2. received \in Seq(Document) /\ Len(received) <= 3
        /\ \A i \in DOMAIN received : IsNext(received[i], i - 1)
    BY DEF RegInv, TypeOK, ReceivedOK
  <2>3. ASSUME NEW i \in DOMAIN received
        PROVE  received[i].method = Protocol[i]
    BY <2>1, <2>2 DEF IsNext
  <2> QED
    BY <2>1, <2>2, <2>3 DEF InOrder
<1> QED
  BY <1>1, RegistrationInvariant, PTL

(* Each message is of the kind the protocol gives it, although one         *)
(* document is edited for all of them (RegClient.hpp:158).                 *)
THEOREM RegistrationClassified == Spec => []Classified
<1>1. RegInv => Classified
  <2> SUFFICES ASSUME RegInv
               PROVE  Classified
    OBVIOUS
  <2>1. ASSUME NEW i \in DOMAIN received
        PROVE  IF received[i].method = "pluginActive"
                 THEN IsNotification(received[i]) ELSE IsRequest(received[i])
    <3>1. IsNext(received[i], i - 1)
      BY <2>1 DEF RegInv, ReceivedOK
    <3> QED
      BY <3>1, Zenon DEF IsNext
  <2>2. ASSUME NEW i \in DOMAIN queue, Ack(queue[i])
        PROVE  IsResponse(queue[i]) /\ ~IsError(queue[i])
    <3>1. queue \in Seq(Document) /\ toPlugin \in Seq(Document)
      BY DEF RegInv, TypeOK
    <3>2. i \in DOMAIN Coming /\ Coming[i] = queue[i]
      BY <3>1, <2>2, ConcatProperties DEF Coming
    <3> QED
      BY <3>2, <2>2 DEF RegInv, AcksOK
  <2> QED
    BY <2>1, <2>2 DEF Classified, Ack
<1> QED
  BY <1>1, RegistrationInvariant, PTL
=============================================================================
