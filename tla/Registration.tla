---------------------------- MODULE Registration ----------------------------
(***************************************************************************)
(* The registration of a plugin with the RSD: RegClient, the part of       *)
(* PluginInterface::start() that drives it, and the RSD at the other end   *)
(* of the connection.                                                      *)
(*                                                                         *)
(* Three threads of the plugin take part: the main thread, and listener    *)
(* and worker of the RegClient's ComPoint, which is reduced to what        *)
(* MsgChannel promises: whole messages, in order, one at a time.           *)
(*                                                                         *)
(* The RSD is not in this repository.  It is modelled from what RegClient  *)
(* expects of it: it answers each message with the acknowledgement or an   *)
(* error response, made by the same class JsonRPC.  It may also send other *)
(* messages and may leave at any time.                                     *)
(***************************************************************************)
EXTENDS JsonRPC, Sequences, Naturals

CONSTANTS Strays,       \* other messages the RSD may send
          MaxStrays     \* bound: how many of them

ASSUME RegistrationAssumption ==
  /\ Strays \subseteq Document
  /\ \A d \in Strays : d.result \notin {"announceACK", "registerACK"}
  /\ MaxStrays \in Nat

VARIABLES
  (* the main thread *)
  main,        \* where start() stands
  (* the RegClient *)
  state,       \* the state of the registration
  fd,          \* connection_socket: "none", "open", or "closed" by process()
  requestDOM,  \* of its JsonRPC object
  sBuffer,     \* the text that object generated last
  (* its ComPoint *)
  listener,    \* "off", "call" (about to call recv()), "recv" (in it or in
               \* select()), "spin" (between the two), "done"
  deletable,   \* the flag the main thread polls
  queue,       \* received, not yet processed
  output,      \* what process() returned and the worker has yet to transmit
  (* the process *)
  alive,
  (* the RSD and the connection *)
  rsd,         \* the registration as the RSD sees it
  rsdEnd,      \* its end of the connection: "open", "closed", or "torn",
               \* closed in the middle of a frame
  responseDOM, errorDOM,
  toRsd, toPlugin,
  strays,      \* how many it has sent
  (* history *)
  received,    \* what the RSD has read
  rejected     \* has the RSD answered with an error?

mainVars == <<main, alive>>
regVars  == <<state, fd, requestDOM, sBuffer>>
cpVars   == <<listener, deletable, queue, output>>
rsdVars  == <<rsd, rsdEnd, responseDOM, errorDOM, strays, received, rejected>>
vars     == <<mainVars, regVars, cpVars, rsdVars, toRsd, toPlugin>>

Nothing == [Blank EXCEPT !.json = FALSE]    \* no message

Init ==
  /\ main = "connect" /\ alive = TRUE
  /\ state = "NOT_ACTIVE" /\ fd = "none"
  /\ requestDOM = RequestDOM /\ sBuffer = Nothing
  /\ listener = "off" /\ deletable = FALSE /\ queue = <<>> /\ output = Nothing
  /\ rsd = "NOT_ACTIVE" /\ rsdEnd = "open"
  /\ responseDOM = ResponseDOM /\ errorDOM = ErrorDOM
  /\ strays = 0 /\ received = <<>> /\ rejected = FALSE
  /\ toRsd = <<>> /\ toPlugin = <<>>

(* send(): a descriptor the process has closed takes nothing; at a peer    *)
(* that has gone SIGPIPE ends a process that does not ignore it.           *)
Transmit(message) ==
  IF fd = "open" /\ rsdEnd = "open"
    THEN toRsd' = Append(toRsd, message) /\ alive' = alive
    ELSE /\ UNCHANGED toRsd
         /\ alive' \in IF fd = "open" THEN BOOLEAN ELSE {alive}

Generate(method, params, id) ==
  /\ requestDOM' = GenerateRequest(requestDOM, method, params, id)
  /\ sBuffer' = requestDOM'

-----------------------------------------------------------------------------
(***************************************************************************)
(* The main thread in start().                                             *)
(***************************************************************************)
ConnectToRSD ==
  /\ main = "connect"
  /\ rsdEnd = "open"
  /\ fd' = "open"
  /\ listener' = "call"
  /\ main' = "announce"
  /\ UNCHANGED <<alive, state, requestDOM, sBuffer, deletable, queue, output,
                 rsdVars, toRsd, toPlugin>>

(* connect() fails: Error, and start() returns.                            *)
ConnectFails ==
  /\ main = "connect"
  /\ main' = "ended"
  /\ UNCHANGED <<alive, regVars, cpVars, rsdVars, toRsd, toPlugin>>

(* sendAnnounceMsg(): generateRequest() returns a pointer into sBuffer...  *)
GenerateAnnounce ==
  /\ main = "announce"
  /\ Generate("announce", "object", "1")
  /\ main' = "transmit"
  /\ UNCHANGED <<alive, state, fd, cpVars, rsdVars, toRsd, toPlugin>>

(* ...which is transmitted: whatever sBuffer holds by then.                *)
TransmitAnnounce ==
  /\ main = "transmit"
  /\ Transmit(sBuffer)
  /\ main' = "loop"
  /\ UNCHANGED <<regVars, cpVars, rsdVars, toPlugin>>

(* A turn of the main loop that finds the RegClient's ComPoint deletable.  *)
Poll ==
  /\ main = "loop"
  /\ deletable
  /\ main' = "ended"
  /\ UNCHANGED <<alive, regVars, cpVars, rsdVars, toRsd, toPlugin>>

Main == ConnectToRSD \/ ConnectFails \/ GenerateAnnounce \/ TransmitAnnounce
          \/ Poll

-----------------------------------------------------------------------------
(***************************************************************************)
(* The listener.  A recv() that is blocked when process() closes the       *)
(* descriptor stays blocked, on the socket it was called with; the next    *)
(* one fails.                                                              *)
(***************************************************************************)
CallRecv ==
  /\ listener = "call"
  /\ fd = "open"
  /\ listener' = "recv"
  /\ UNCHANGED <<mainVars, regVars, deletable, queue, output, rsdVars, toRsd,
                 toPlugin>>

Receive ==
  /\ listener = "recv"
  /\ toPlugin # <<>>
  /\ queue' = Append(queue, Head(toPlugin))
  /\ toPlugin' = Tail(toPlugin)
  /\ listener' = "call"
  /\ UNCHANGED <<mainVars, regVars, deletable, output, rsdVars, toRsd>>

(* The end of the connection inside a frame is no error for                *)
(* waitForFurtherData(): select() and a recv() that returns 0 alternate.   *)
ListenerSpins ==
  /\ listener = "recv"
  /\ toPlugin = <<>> /\ rsdEnd = "torn"
  /\ listener' = "spin"
  /\ UNCHANGED <<mainVars, regVars, deletable, queue, output, rsdVars, toRsd,
                 toPlugin>>

(* recv() fails on a descriptor that process() has closed, or returns 0:   *)
(* between two frames, or behind a piece of one that a timeout dropped.    *)
RecvReturnsEnd ==
  \/ listener \in {"call", "spin"} /\ fd = "closed"
  \/ listener = "recv" /\ toPlugin = <<>> /\ rsdEnd # "open"

(* Mutant of ListenerEnds: deletable is forgotten.                         *)
ListenerEndsSilently ==
  /\ RecvReturnsEnd
  /\ listener' = "done"
  /\ UNCHANGED <<mainVars, regVars, deletable, queue, output, rsdVars, toRsd,
                 toPlugin>>

ListenerEnds ==
  /\ RecvReturnsEnd
  /\ deletable' = TRUE
  /\ listener' = "done"
  /\ UNCHANGED <<mainVars, regVars, queue, output, rsdVars, toRsd, toPlugin>>

Listener == CallRecv \/ Receive \/ ListenerSpins \/ ListenerEnds

-----------------------------------------------------------------------------
(***************************************************************************)
(* The worker in process() with the next message.  parse() and tryTogetId()*)
(* throw an Error, and so does process() itself for an error response.     *)
(***************************************************************************)
Refused(dom) == ~dom.json \/ ~HasId(dom) \/ IsError(dom)

Acked(dom, ack) == ~Refused(dom) /\ dom.result = ack

(* handleAnnounceACKMsg(), handleRegisterACKMsg(): no result, or one that  *)
(* is no string, is an Error.                                              *)
NoAck(dom) == dom.result \in {Absent, NotString}

NextMessage == output = Nothing /\ queue' = Tail(queue)

(* The Error is caught.  close() may close the socket a second time.       *)
ProcessError(dom) ==
  /\ NextMessage
  /\ Refused(dom) \/ (state \in {"NOT_ACTIVE", "ANNOUNCED"} /\ NoAck(dom))
  /\ state' = "BROKEN"
  /\ fd' = "closed"
  /\ UNCHANGED <<mainVars, requestDOM, sBuffer, listener, deletable, output,
                 rsdVars, toRsd, toPlugin>>

(* Mutants of AnnounceACK: any string is an acknowledgement, the state is  *)
(* set for one but the register message sent for any, the state is not     *)
(* advanced at all, and the id is taken from the wrong member.             *)
AnyStringACK(dom) ==
  /\ NextMessage
  /\ state = "NOT_ACTIVE"
  /\ ~Refused(dom) /\ dom.result \in Results
  /\ state' = "ANNOUNCED"
  /\ Generate("register", "object", dom.id)
  /\ output' = sBuffer'
  /\ UNCHANGED <<mainVars, fd, listener, deletable, rsdVars, toRsd, toPlugin>>

RegisterForAny(dom) ==
  /\ NextMessage
  /\ state = "NOT_ACTIVE"
  /\ ~Refused(dom) /\ dom.result \in Results
  /\ state' = IF dom.result = "announceACK" THEN "ANNOUNCED" ELSE state
  /\ Generate("register", "object", dom.id)
  /\ output' = sBuffer'
  /\ UNCHANGED <<mainVars, fd, listener, deletable, rsdVars, toRsd, toPlugin>>

NotAnnounced(dom) ==
  /\ NextMessage
  /\ state = "NOT_ACTIVE"
  /\ Acked(dom, "announceACK")
  /\ Generate("register", "object", dom.id)
  /\ output' = sBuffer'
  /\ UNCHANGED <<mainVars, state, fd, listener, deletable, rsdVars, toRsd,
                 toPlugin>>

RegisterWithResult(dom) ==
  /\ NextMessage
  /\ state = "NOT_ACTIVE"
  /\ Acked(dom, "announceACK")
  /\ state' = "ANNOUNCED"
  /\ Generate("register", "object", dom.result)
  /\ output' = sBuffer'
  /\ UNCHANGED <<mainVars, fd, listener, deletable, rsdVars, toRsd, toPlugin>>

(* createRegisterMsg() with the id of the acknowledgement.                 *)
AnnounceACK(dom) ==
  /\ NextMessage
  /\ state = "NOT_ACTIVE"
  /\ Acked(dom, "announceACK")
  /\ state' = "ANNOUNCED"
  /\ Generate("register", "object", dom.id)
  /\ output' = sBuffer'
  /\ UNCHANGED <<mainVars, fd, listener, deletable, rsdVars, toRsd, toPlugin>>

(* createPluginActiveMsg() passes references to no Value at all: undefined *)
(* behaviour.  Either generateRequest()'s tests of their addresses are     *)
(* kept and leave both members out, or the process ends.                   *)
RegisterACK(dom) ==
  /\ NextMessage
  /\ state = "ANNOUNCED"
  /\ Acked(dom, "registerACK")
  /\ state' = "REGISTERED"
  /\ \/ /\ Generate("pluginActive", Absent, Absent)
        /\ output' = sBuffer'
        /\ UNCHANGED alive
     \/ /\ alive' = FALSE
        /\ UNCHANGED <<requestDOM, sBuffer, output>>
  /\ UNCHANGED <<main, fd, listener, deletable, rsdVars, toRsd, toPlugin>>

(* A string that is not the one awaited is passed over.                    *)
OtherString(dom) ==
  /\ NextMessage
  /\ ~Refused(dom) /\ ~NoAck(dom)
  /\ \/ state = "NOT_ACTIVE" /\ dom.result # "announceACK"
     \/ state = "ANNOUNCED" /\ dom.result # "registerACK"
  /\ UNCHANGED <<mainVars, regVars, listener, deletable, output, rsdVars, toRsd,
                 toPlugin>>

(* case BROKEN, and the default case, which REGISTERED falls into.         *)
Recover(dom) ==
  /\ NextMessage
  /\ ~Refused(dom)
  /\ \/ state = "BROKEN" /\ state' = "NOT_ACTIVE"
     \/ state = "REGISTERED" /\ state' = "BROKEN"
  /\ UNCHANGED <<mainVars, fd, requestDOM, sBuffer, listener, deletable, output,
                 rsdVars, toRsd, toPlugin>>

Process ==
  /\ queue # <<>>
  /\ LET dom == Head(queue)
     IN  \/ ProcessError(dom) \/ AnnounceACK(dom) \/ RegisterACK(dom)
         \/ OtherString(dom) \/ Recover(dom)

(* Back in thread_work, with what process() returned.                      *)
TransmitOutput ==
  /\ output # Nothing
  /\ Transmit(output)
  /\ output' = Nothing
  /\ UNCHANGED <<main, regVars, listener, deletable, queue, rsdVars, toPlugin>>

Worker == Process \/ TransmitOutput

-----------------------------------------------------------------------------
(***************************************************************************)
(* The RSD.                                                                *)
(***************************************************************************)
Expects(dom) ==
  \/ rsd = "NOT_ACTIVE" /\ dom.method = "announce" /\ IsRequest(dom)
  \/ rsd = "ANNOUNCED" /\ dom.method = "register" /\ IsRequest(dom)
  \/ rsd = "REGISTERED" /\ dom.method = "pluginActive" /\ IsNotification(dom)

RsdRead ==
  /\ toRsd # <<>>
  /\ rsdEnd = "open"
  /\ toRsd' = Tail(toRsd)
  /\ received' = Append(received, Head(toRsd))
  /\ UNCHANGED <<mainVars, regVars, cpVars, rsdEnd, strays>>

RsdAccepts ==
  /\ RsdRead
  /\ Expects(Head(toRsd))
  /\ rsd' = IF rsd = "NOT_ACTIVE" THEN "ANNOUNCED"
            ELSE IF rsd = "ANNOUNCED" THEN "REGISTERED" ELSE "ACTIVE"
  /\ IF rsd = "REGISTERED"
       THEN UNCHANGED <<responseDOM, toPlugin>>
       ELSE /\ responseDOM' = GenerateResponse(responseDOM, Head(toRsd).id,
                 IF rsd = "NOT_ACTIVE" THEN "announceACK" ELSE "registerACK")
            /\ toPlugin' = Append(toPlugin, responseDOM')
  /\ UNCHANGED <<errorDOM, rejected>>

RsdRejects ==
  /\ RsdRead
  /\ IsRequest(Head(toRsd))
  /\ errorDOM' = GenerateResponseError(errorDOM, Head(toRsd).id)
  /\ toPlugin' = Append(toPlugin, errorDOM')
  /\ rejected' = TRUE
  /\ UNCHANGED <<rsd, responseDOM>>

RsdStray ==
  /\ fd # "none" /\ rsdEnd = "open"
  /\ strays < MaxStrays
  /\ strays' = strays + 1
  /\ \E dom \in Strays : toPlugin' = Append(toPlugin, dom)
  /\ UNCHANGED <<mainVars, regVars, cpVars, rsd, rsdEnd, responseDOM, errorDOM,
                 received, rejected, toRsd>>

RsdLeaves ==
  /\ rsdEnd = "open"
  /\ rsdEnd' \in {"closed", "torn"}
  /\ UNCHANGED <<mainVars, regVars, cpVars, rsd, responseDOM, errorDOM, strays,
                 received, rejected, toRsd, toPlugin>>

Rsd == RsdAccepts \/ RsdRejects \/ RsdStray \/ RsdLeaves

Next == (alive /\ (Main \/ Listener \/ Worker)) \/ Rsd

Spec == Init /\ [][Next]_vars

(* The plugin's threads are scheduled, and the RSD answers what it reads.  *)
FairSpec ==
  /\ Spec
  /\ WF_vars(alive /\ Main)
  /\ WF_vars(alive /\ Listener)
  /\ WF_vars(alive /\ Worker)
  /\ WF_vars(RsdAccepts \/ RsdRejects)

-----------------------------------------------------------------------------
TypeOK ==
  /\ main \in {"connect", "announce", "transmit", "loop", "ended"}
  /\ state \in {"NOT_ACTIVE", "ANNOUNCED", "REGISTERED", "ACTIVE", "BROKEN"}
  /\ fd \in {"none", "open", "closed"}
  /\ requestDOM \in Document /\ sBuffer \in Document /\ output \in Document
  /\ responseDOM \in Document /\ errorDOM \in Document
  /\ listener \in {"off", "call", "recv", "spin", "done"}
  /\ deletable \in BOOLEAN /\ alive \in BOOLEAN /\ rejected \in BOOLEAN
  /\ rsd \in {"NOT_ACTIVE", "ANNOUNCED", "REGISTERED", "ACTIVE"}
  /\ rsdEnd \in {"open", "closed", "torn"}
  /\ strays \in 0 .. MaxStrays
  /\ queue \in Seq(Document) /\ toRsd \in Seq(Document)
  /\ toPlugin \in Seq(Document) /\ received \in Seq(Document)

Rank(s) == IF s = "ANNOUNCED" THEN 1
           ELSE IF s = "REGISTERED" THEN 2
           ELSE IF s = "ACTIVE" THEN 3 ELSE 0

(* The plugin never believes the registration further than the RSD has     *)
(* taken it, whatever else the RSD sends and however late its answers are  *)
(* processed (the switch in RegClient::process()).                         *)
NeverAhead == Rank(state) <= Rank(rsd)

(* The RSD reads announce, register and pluginActive in this order and     *)
(* each at most once, although the main thread generates the first and the *)
(* worker the others, in one sBuffer.                                      *)
Protocol == <<"announce", "register", "pluginActive">>

InOrder ==
  /\ Len(received) <= Len(Protocol)
  /\ \A i \in DOMAIN received : received[i].method = Protocol[i]

(* RegClient.hpp:158: pluginActive is a notification; the others are       *)
(* requests, although one document is edited for all three.  What answers  *)
(* them is a response, and no error, after any number of error responses.  *)
Classified ==
  /\ \A i \in DOMAIN received :
       IF received[i].method = "pluginActive" THEN IsNotification(received[i])
                                              ELSE IsRequest(received[i])
  /\ \A i \in DOMAIN queue :
       queue[i].result \in {"announceACK", "registerACK"} =>
         IsResponse(queue[i]) /\ ~IsError(queue[i])

(* With an RSD that only acknowledges, the plugin gets registered.         *)
Completes ==
  <>(\/ rsd = "ACTIVE" \/ main = "ended" \/ ~alive
     \/ rsdEnd # "open" \/ rejected \/ strays > 0)

(* A connection the RSD has left shuts the plugin down at whatever point   *)
(* of the registration: the listener ends, and the main loop sees it.  One *)
(* exception: an RSD that leaves inside a frame may leave the listener     *)
(* spinning, which then does not set deletable (module Listener, WaitEnds).*)
GoneEndsPlugin ==
  (rsdEnd # "open") ~> (main = "ended" \/ ~alive \/ listener = "spin")

(* RegClient.hpp:33: "If something goes wrong during the registration, the *)
(* connection_socket will be closed, which results in shutting down the    *)
(* whole plugin".                                                          *)
FailureShutsDown == (state = "BROKEN") ~> (main = "ended" \/ ~alive)
=============================================================================
