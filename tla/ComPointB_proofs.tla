-------------------------- MODULE ComPointB_proofs --------------------------
(***************************************************************************)
(* ComPointB for every size of the parameters and any number of messages   *)
(* and sub-requests: its listener cuts the stream as that of a ComPoint    *)
(* does, nothing but the answers goes past the queue, an answer wakes the  *)
(* worker that waits for it, and what is sent stays framed and in order.   *)
(***************************************************************************)
EXTENDS ComPointB, ComPoint_proofs, SequenceTheorems

(* To the stream the listener of a ComPointB is the one of module          *)
(* Listener: asking whether the worker is busy happens between a message   *)
(* that is complete and its delivery, and what comes after the delivery    *)
(* ends, signal or not, with the rest of msgBuffer.                        *)
ListenerPc ==
  IF lpc \in {"idle", "busy"} THEN "push"
  ELSE IF lpc \in {"kill2", "queued"} THEN "kill"
  ELSE lpc

Framed == INSTANCE Listener_proofs WITH lpc <- ListenerPc

-----------------------------------------------------------------------------
(* The steps that change neither the queue, nor what was delivered, nor    *)
(* how far the worker and its sub-requests are.                            *)
Calm ==
  /\ \/ PeerMoves \/ ListenerLocal \/ SignalWorker \/ AnswerRefused \/ Answered
     \/ UserCall \/ \E t \in Thread : Transmit(t)
  /\ UNCHANGED subVars

(* A message is put into the queue, with or without a signal to follow.    *)
PushB == QueueIdle \/ QueueBusy

(* What a step can be.                                                     *)
LEMMA StepsB ==
  [NextB]_bVars =>
    \/ Calm \/ UNCHANGED bVars \/ PushB
    \/ AskBusy \/ SubResponse \/ SignalAnswer \/ LeaveQueued
    \/ (TakeMessage \/ Transmitted) /\ UNCHANGED subVars
    \/ ProcessB
BY DEF NextB, ListenerThreadB, WorkerB, User, Calm, PushB, Thread

-----------------------------------------------------------------------------
(* The peer's steps do not depend on where the listener stands.            *)
LEMMA PeerMovesB == Peer => Framed!Peer
BY DEF Peer, PeerStart, PeerWrite, PeerLeave, listenerVars, Framed!Peer,
       Framed!PeerStart, Framed!PeerWrite, Framed!PeerLeave, Framed!listenerVars,
       ListenerPc

(* Nor is there a difference in the steps that do not reach the queue.     *)
LEMMA LocalMovesB == LocalStep => Framed!LocalStep
<1> USE DEF ListenerPc, peerVars, Framed!peerVars, Bad, Framed!Bad, NoHeader,
        Framed!NoHeader
<1>1. Recv => Framed!Recv
  BY DEF Recv, Taken, avail, Framed!Recv, Framed!Taken, Framed!avail
<1>2. RecvEnd => Framed!RecvEnd
  BY DEF RecvEnd, avail, Framed!RecvEnd, Framed!avail
<1>3. Decode => Framed!Decode
  <2>1. Header(start) = Framed!Header(Framed!start)
    BY DEF Header, start, Framed!Header, Framed!start
  <2>2. ReadHeader => Framed!ReadHeader
    BY <2>1 DEF ReadHeader, Framed!ReadHeader
  <2>3. NeedHeader => Framed!NeedHeader
    BY DEF NeedHeader, Framed!NeedHeader
  <2>4. BufferEmpty => Framed!BufferEmpty
    BY DEF BufferEmpty, Framed!BufferEmpty
  <2> QED
    BY <2>2, <2>3, <2>4 DEF Decode, Framed!Decode
<1>4. RefuseHeader => Framed!RefuseHeader
  BY DEF RefuseHeader, DropBuffer, Framed!RefuseHeader, Framed!DropBuffer
<1>5. Wait => Framed!Wait
  <2> USE DEF avail, Framed!avail, Readable, Framed!Readable, DropBuffer,
          Framed!DropBuffer, Taken, Framed!Taken
  <2>1. SelectTick => Framed!SelectTick
    BY DEF SelectTick, Framed!SelectTick
  <2>2. SelectReady => Framed!SelectReady
    BY DEF SelectReady, Framed!SelectReady
  <2>3. SelectTimeout => Framed!SelectTimeout
    BY DEF SelectTimeout, Framed!SelectTimeout
  <2>7. SelectFails => Framed!SelectFails
    BY DEF SelectFails, Framed!SelectFails
  <2>4. RecvMore => Framed!RecvMore
    BY DEF RecvMore, Framed!RecvMore
  <2>5. RecvMoreEof => Framed!RecvMoreEof
    BY DEF RecvMoreEof, Framed!RecvMoreEof
  <2>6. RecvMoreError => Framed!RecvMoreError
    BY DEF RecvMoreError, Framed!RecvMoreError
  <2> QED
    BY <2>1, <2>2, <2>3, <2>4, <2>5, <2>6, <2>7 DEF Wait, Framed!Wait
<1> QED
  BY <1>1, <1>2, <1>3, <1>4, <1>5 DEF LocalStep, Framed!LocalStep

(* A delivery is the listener's Push...                                    *)
LEMMA PushMovesB == PushB \/ SubResponse => Framed!Push
BY DEF PushB, QueueIdle, QueueBusy, SubResponse, Framed!Push, msg, start,
       Framed!msg, Framed!start, peerVars, Framed!peerVars, ListenerPc

(* ...and what follows it is its Kill.                                     *)
LEMMA KillMovesB == Kill \/ SignalAnswer \/ LeaveQueued => Framed!Kill
BY DEF Kill, SignalAnswer, LeaveQueued, Advance, Framed!Kill, Framed!Advance,
       peerVars, Framed!peerVars, ListenerPc, NoHeader, Framed!NoHeader

(* To the stream, every step of a ComPointB is a step of the listener of   *)
(* module Listener and its peer, or no step.                               *)
LEMMA ListenerMovesB == [NextB]_bVars => [Framed!NextL]_(Framed!lVars)
<1> USE DEF lVars, listenerVars, peerVars, Framed!lVars, Framed!listenerVars,
        Framed!peerVars, ListenerPc
<1>1. CASE Calm
  <2>1. CASE PeerMoves
    BY <2>1, PeerMovesB DEF PeerMoves, Framed!NextL
  <2>2. CASE ListenerLocal \/ AnswerRefused
    BY <2>2, LocalMovesB DEF ListenerLocal, AnswerRefused, LocalStep,
       Framed!NextL, Framed!ListenerStep
  <2>3. CASE SignalWorker
    BY <2>3, KillMovesB DEF SignalWorker, Framed!NextL, Framed!ListenerStep
  <2>4. CASE Answered
    <3>1. Framed!Reply
      BY <2>4 DEF Answered, Reply, Framed!Reply
    <3> QED
      BY <3>1 DEF Framed!NextL, Framed!ListenerStep
  <2>5. CASE UserCall \/ \E t \in Thread : Transmit(t)
    <3>1. UNCHANGED lVars
      BY <2>5 DEF UserCall, Transmit
    <3> QED
      BY <3>1
  <2> QED
    BY <1>1, <2>1, <2>2, <2>3, <2>4, <2>5 DEF Calm
<1>2. CASE PushB \/ SubResponse
  BY <1>2, PushMovesB DEF Framed!NextL, Framed!ListenerStep
<1>3. CASE SignalAnswer \/ LeaveQueued
  BY <1>3, KillMovesB DEF Framed!NextL, Framed!ListenerStep
<1>4. CASE AskBusy
  BY <1>4 DEF AskBusy
<1>5. CASE (TakeMessage \/ Transmitted) \/ ProcessB \/ UNCHANGED bVars
  <2>1. UNCHANGED lVars
    BY <1>5 DEF TakeMessage, SigWait, CheckQueue, Back, Pop, Transmitted, ProcessB,
       SetBusy, SubRequest, SubRequestSent, AnswerCame, NoSubRequest, SetIdle,
       ReturnSilent, ReturnReply, bVars, cpVars
  <2> QED
    BY <2>1
<1> QED
  BY <1>1, <1>2, <1>3, <1>4, <1>5, StepsB

(* It starts as that listener does.                                        *)
LEMMA ListenerInitB == InitB => Framed!InitL
BY DEF InitB, Init, InitL, Framed!InitL, ListenerPc, NoHeader, Framed!NoHeader

(* The listener of a ComPointB implements the one of module Listener, so   *)
(* what is proved of that one holds of it: asking, signalling and not      *)
(* signalling make no difference to the messages that are cut out of the   *)
(* stream.                                                                 *)
THEOREM ComPointBListens == SpecB => Framed!SpecL
BY ListenerInitB, ListenerMovesB, PTL DEF SpecB, Framed!SpecL

(* The listener's inductive invariant, with lpc as it sees it.             *)
LEMMA ListenerInvariantB == SpecB => []Framed!IInvL
<1>1. Framed!SpecL => []Framed!IInvL
  BY Framed!ListenerInvariant, ListenerAssumption DEF Bad, Framed!Bad
<1> QED
  BY <1>1, ComPointBListens, PTL
(* Until bytes are dropped, what a ComPointB delivers, to the queue or to  *)
(* the worker that waits for an answer, is what the peer sent, in order.   *)
THEOREM ComPointBFraming == SpecB => []Framing
<1>1. Framed!IInvL => Framing
  BY DEF Framed!IInvL, Framed!Framing, Framing
<1> QED
  BY <1>1, ListenerInvariantB, PTL

(* No byte of the stream is part of two messages, whichever way they go,   *)
(* and messages keep the order of the stream, whatever is dropped.         *)
THEOREM ComPointBNoByteTwice == SpecB => []NoByteTwice
<1>1. Framed!SpecL => []Framed!NoByteTwice
  BY Framed!ListenerNoByteTwice, ListenerAssumption DEF Bad, Framed!Bad
<1>2. Framed!NoByteTwice => NoByteTwice
  BY DEF Framed!NoByteTwice, NoByteTwice, EndOf, Framed!EndOf
<1> QED
  BY <1>1, <1>2, ComPointBListens, PTL

(* At its blocking recv() the listener of a ComPointB has delivered all it *)
(* took from the socket, answers included, unless something was dropped.   *)
THEOREM ComPointBNothingKeptBack == SpecB => []NothingKeptBack
<1>1. Framed!SpecL => []Framed!NothingKeptBack
  BY Framed!ListenerNothingKeptBack, ListenerAssumption DEF Bad, Framed!Bad
<1>2. Framed!NothingKeptBack => NothingKeptBack
  BY DEF Framed!NothingKeptBack, NothingKeptBack, EndOf, Framed!EndOf, ListenerPc
<1> QED
  BY <1>1, <1>2, ComPointBListens, PTL

-----------------------------------------------------------------------------
(* The worker's sub-request is the one somebody expects an answer to, and  *)
(* SIGUSR2 is raised once for an answer.                                   *)
WaitOK ==
  /\ expecting => wpc \in {"asking", "waiting"} /\ ~answered
  /\ ~("SIGUSR2" \in signals /\ lpc = "kill2")

IInvB == Framed!IInvL /\ TypeOKB /\ QueueOK /\ WaitOK /\ AnswerWakes /\ ConservationB

(* The message in hand has a place and a length when it is delivered.      *)
LEMMA PushedMessageB == ASSUME Framed!IInvL, lpc \in {"idle", "busy"}
                        PROVE  msg \in Message
BY DEF Framed!IInvL, Framed!TypeOKL, Framed!BufferOK, Message, msg, start, ListenerPc

(* What the calm steps leave alone.                                        *)
LEMMA CalmKeeps ==
  ASSUME Calm
  PROVE  /\ UNCHANGED <<queue, input, processed, wpc, delivered, subVars>>
         /\ signals' \in {signals, signals \cup {"SIGUSR1"}}
         /\ lpc' = "kill2" <=> lpc = "kill2"
<1> USE DEF Calm, queueVars, workerVars, lVars, listenerVars
<1>1. CASE PeerMoves
  BY <1>1 DEF PeerMoves, Peer, PeerStart, PeerWrite, PeerLeave
<1>2. CASE ListenerLocal
  BY <1>2, DeliveredKept DEF ListenerLocal, Recv, RecvEnd, Decode, ReadHeader,
     NeedHeader, BufferEmpty, Wait, SelectTick, SelectReady, SelectTimeout, SelectFails,
     RecvMore, RecvMoreEof, RecvMoreError
<1>3. CASE SignalWorker \/ AnswerRefused \/ Answered
  BY <1>3, DeliveredKept DEF SignalWorker, AnswerRefused, Answered, Kill, Advance,
     RefuseHeader, Reply
<1>4. CASE UserCall \/ \E t \in Thread : Transmit(t)
  BY <1>4 DEF UserCall, Transmit
<1> QED
  BY <1>1, <1>2, <1>3, <1>4

(* Where the listener may stand.                                           *)
ListenerPlaces == {"recv", "decode", "push", "idle", "busy", "kill", "kill2",
                   "queued", "refuse", "reply", "select", "more", "done"}

(* A calm step keeps the listener in one of its places.                    *)
LEMMA CalmPlaces == ASSUME Calm, lpc \in ListenerPlaces PROVE lpc' \in ListenerPlaces
<1> USE DEF Calm, lVars, listenerVars, ListenerPlaces
<1>1. CASE PeerMoves
  BY <1>1 DEF PeerMoves, Peer, PeerStart, PeerWrite, PeerLeave
<1>2. CASE ListenerLocal
  BY <1>2 DEF ListenerLocal, Recv, RecvEnd, Decode, ReadHeader,
     NeedHeader, BufferEmpty, Wait, SelectTick, SelectReady, SelectTimeout, SelectFails,
     RecvMore, RecvMoreEof, RecvMoreError
<1>3. CASE SignalWorker \/ AnswerRefused \/ Answered
  BY <1>3 DEF SignalWorker, AnswerRefused, Answered, Kill, Advance,
     RefuseHeader, Reply
<1>4. CASE UserCall \/ \E t \in Thread : Transmit(t)
  BY <1>4 DEF UserCall, Transmit
<1> QED
  BY <1>1, <1>2, <1>3, <1>4

(* A delivery puts the message at the end of what was delivered, and, if   *)
(* it is not an answer, at the front of the queue.                         *)
LEMMA PushKeeps ==
  ASSUME Framed!IInvL, PushB \/ SubResponse
  PROVE  /\ msg \in Message /\ delivered' = Append(delivered, msg)
         /\ UNCHANGED <<signals, input, processed, wpc, busy, asked>>
         /\ lpc \in {"idle", "busy"}
BY PushedMessageB DEF PushB, QueueIdle, QueueBusy, SubResponse, queueVars,
       workerVars, subVars

-----------------------------------------------------------------------------
(* Types.                                                                  *)
LEMMA TypeStepB == ASSUME IInvB, [NextB]_bVars PROVE TypeOKB'
<1> USE DEF IInvB, TypeOKB
<1>1. CASE Calm
  <2>1. lpc' \in ListenerPlaces
    BY <1>1, CalmPlaces DEF ListenerPlaces
  <2> QED
    BY <1>1, <2>1, CalmKeeps DEF ListenerPlaces, subVars
<1>2. CASE PushB
  <2>1. queue' = <<msg>> \o queue /\ UNCHANGED subVars /\ lpc' \in {"kill", "queued"}
    BY <1>2 DEF PushB, QueueIdle, QueueBusy, PushFront
  <2>2. /\ msg \in Message /\ delivered' = Append(delivered, msg)
        /\ UNCHANGED <<signals, input, processed, wpc>>
    BY <1>2, PushKeeps
  <2>3. queue' \in Seq(Message)
    BY <2>1, <2>2, PushedQueue
  <2>4. delivered' \in Seq(Message) /\ DOMAIN delivered \subseteq DOMAIN delivered'
    BY <2>2
  <2> QED
    BY <2>1, <2>2, <2>3, <2>4 DEF subVars
<1>3. CASE SubResponse
  <2>1. /\ msg \in Message /\ delivered' = Append(delivered, msg)
        /\ UNCHANGED <<signals, input, processed, wpc, busy, asked>>
    BY <1>3, PushKeeps
  <2>2. /\ subs' = subs \cup {Len(delivered')} /\ UNCHANGED queue
        /\ lpc' = "kill2" /\ expecting' = FALSE /\ answered' = TRUE
    BY <1>3 DEF SubResponse, queueVars
  <2>3. /\ delivered' \in Seq(Message) /\ DOMAIN delivered \subseteq DOMAIN delivered'
        /\ Len(delivered') \in DOMAIN delivered'
    BY <2>1
  <2> QED
    BY <2>1, <2>2, <2>3
<1>4. CASE AskBusy \/ SignalAnswer \/ LeaveQueued
  BY <1>4 DEF AskBusy, SignalAnswer, LeaveQueued, Advance, queueVars, workerVars, subVars
<1>5. CASE (TakeMessage \/ Transmitted) /\ UNCHANGED subVars
  <2>1. UNCHANGED <<lpc, delivered>>
    BY <1>5 DEF TakeMessage, SigWait, CheckQueue, Back, Pop, Transmitted, lVars,
       listenerVars
  <2>2. CASE SigWait
    BY <1>5, <2>1, <2>2 DEF SigWait, subVars
  <2>3. CASE CheckQueue \/ Transmitted
    BY <1>5, <2>1, <2>3 DEF CheckQueue, Transmitted, queueVars, subVars
  <2>4. CASE Back
    BY <1>5, <2>1, <2>4, LastMessage DEF Back, QueueOK, queueVars, subVars
  <2>5. CASE Pop
    BY <1>5, <2>1, <2>5, ReversePopped DEF Pop, QueueOK, subVars
  <2> QED
    BY <1>5, <2>2, <2>3, <2>4, <2>5 DEF TakeMessage
<1>6. CASE ProcessB
  <2>1. UNCHANGED <<lpc, delivered, queue, input, subs>>
    BY <1>6 DEF ProcessB, SetBusy, SubRequest, SubRequestSent, AnswerCame,
       NoSubRequest, SetIdle, ReturnSilent, ReturnReply, lVars, listenerVars,
       queueVars, subVars
  <2>2. CASE SetBusy
    BY <2>1, <2>2 DEF SetBusy, queueVars
  <2>3. CASE SubRequest
    <3>1. asked' \in 0 .. MaxSubRequests
      BY <2>3, ComPointBAssumption DEF SubRequest
    <3>2. /\ wpc' = "asking" /\ expecting' = TRUE /\ answered' = FALSE
          /\ UNCHANGED <<processed, signals, busy>>
      BY <2>3 DEF SubRequest, queueVars
    <3> QED
      BY <2>1, <3>1, <3>2
  <2>4. CASE SubRequestSent \/ AnswerCame \/ NoSubRequest
    BY <2>1, <2>4 DEF SubRequestSent, AnswerCame, NoSubRequest, queueVars, subVars
  <2>5. CASE SetIdle \/ ReturnSilent \/ ReturnReply
    BY <2>1, <2>5 DEF SetIdle, ReturnSilent, ReturnReply, queueVars, subVars
  <2> QED
    BY <1>6, <2>2, <2>3, <2>4, <2>5 DEF ProcessB
<1>7. CASE UNCHANGED bVars
  BY <1>7 DEF bVars, cpVars, lVars, listenerVars, queueVars, workerVars, subVars
<1> QED
  BY <1>1, <1>2, <1>3, <1>4, <1>5, <1>6, <1>7, StepsB

(* The worker reads and pops from a queue that only grows at the other end, *)
(* as in ComPoint.                                                          *)
LEMMA QueueOKStepB == ASSUME IInvB, [NextB]_bVars PROVE QueueOK'
<1> USE DEF IInvB, QueueOK
<1>1. CASE Calm
  BY <1>1, CalmKeeps
<1>2. CASE PushB
  <2>1. queue' = <<msg>> \o queue
    BY <1>2 DEF PushB, QueueIdle, QueueBusy, PushFront
  <2>2. msg \in Message /\ queue \in Seq(Message) /\ UNCHANGED <<input, wpc>>
    BY <1>2, PushKeeps DEF TypeOKB
  <2>3. queue' # <<>> /\ (queue # <<>> => Last(queue') = Last(queue))
    BY <2>1, <2>2 DEF Last
  <2> QED
    BY <2>2, <2>3
<1>3. CASE AskBusy \/ SubResponse \/ SignalAnswer \/ LeaveQueued
  BY <1>3 DEF AskBusy, SubResponse, SignalAnswer, LeaveQueued, queueVars, workerVars
<1>4. CASE TakeMessage \/ Transmitted
  BY <1>4 DEF TakeMessage, SigWait, CheckQueue, Back, Pop, Transmitted, queueVars
<1>5. CASE ProcessB
  BY <1>5 DEF ProcessB, SetBusy, SubRequest, SubRequestSent, AnswerCame,
     NoSubRequest, SetIdle, ReturnSilent, ReturnReply
<1>6. CASE UNCHANGED bVars
  BY <1>6 DEF bVars, cpVars, queueVars, workerVars
<1> QED
  BY <1>1, <1>2, <1>3, <1>4, <1>5, <1>6, StepsB

-----------------------------------------------------------------------------
(* An answer and its SIGUSR2 come and go together.                         *)
LEMMA WakesStepB == ASSUME IInvB, [NextB]_bVars PROVE AnswerWakes' /\ WaitOK'
<1> USE DEF IInvB, AnswerWakes, WaitOK
<1>1. CASE Calm
  BY <1>1, CalmKeeps DEF subVars
<1>2. CASE PushB
  <2>1. lpc' # "kill2" /\ UNCHANGED subVars
    BY <1>2 DEF PushB, QueueIdle, QueueBusy
  <2>2. UNCHANGED <<wpc, signals>> /\ lpc # "kill2"
    BY <1>2, PushKeeps
  <2> QED
    BY <2>1, <2>2 DEF subVars
<1>3. CASE SubResponse
  BY <1>3 DEF SubResponse, queueVars, workerVars
<1>4. CASE AskBusy \/ SignalAnswer \/ LeaveQueued
  BY <1>4 DEF AskBusy, SignalAnswer, LeaveQueued, Advance, queueVars, workerVars, subVars
<1>5. CASE (TakeMessage \/ Transmitted) /\ UNCHANGED subVars
  <2>1. UNCHANGED lpc
    BY <1>5 DEF TakeMessage, SigWait, CheckQueue, Back, Pop, Transmitted, lVars,
       listenerVars
  <2> QED
    BY <1>5, <2>1 DEF TakeMessage, SigWait, CheckQueue, Back, Pop, Transmitted,
       queueVars, subVars
<1>6. CASE ProcessB
  <2>1. UNCHANGED lpc
    BY <1>6 DEF ProcessB, SetBusy, SubRequest, SubRequestSent, AnswerCame,
       NoSubRequest, SetIdle, ReturnSilent, ReturnReply, lVars, listenerVars
  <2>2. CASE SetBusy \/ SubRequest \/ SubRequestSent
    BY <2>1, <2>2 DEF SetBusy, SubRequest, SubRequestSent, queueVars, subVars
  <2>3. CASE AnswerCame \/ NoSubRequest \/ SetIdle
    BY <2>1, <2>3 DEF AnswerCame, NoSubRequest, SetIdle, queueVars, subVars
  <2>4. CASE ReturnSilent \/ ReturnReply
    BY <2>1, <2>4 DEF ReturnSilent, ReturnReply, queueVars, subVars
  <2> QED
    BY <1>6, <2>2, <2>3, <2>4 DEF ProcessB
<1>7. CASE UNCHANGED bVars
  BY <1>7 DEF bVars, cpVars, lVars, listenerVars, queueVars, workerVars, subVars
<1> QED
  BY <1>1, <1>2, <1>3, <1>4, <1>5, <1>6, <1>7, StepsB
-----------------------------------------------------------------------------
(* A message that is no answer goes to the end of both sequences...        *)
LEMMA RestGrows ==
  ASSUME NEW rest \in Seq(Message), NEW all \in Seq(Message),
         NEW gone \in SUBSET DOMAIN all, NEW m \in Message,
         IsRest(rest, all, gone)
  PROVE  IsRest(Append(rest, m), Append(all, m), gone)
<1>1. PICK f \in [DOMAIN rest -> DOMAIN all \ gone] :
        /\ \A k \in DOMAIN rest : rest[k] = all[f[k]]
        /\ \A j, k \in DOMAIN rest : j < k => f[j] < f[k]
        /\ \A i \in DOMAIN all \ gone : \E k \in DOMAIN rest : f[k] = i
  BY DEF IsRest
<1>2. PICK n \in Nat, a \in Nat : n = Len(rest) /\ a = Len(all)
  OBVIOUS
<1> DEFINE r == Append(rest, m)
           w == Append(all, m)
           g == [k \in 1 .. n + 1 |-> IF k = n + 1 THEN a + 1 ELSE f[k]]
<1>3. /\ DOMAIN rest = 1 .. n /\ DOMAIN r = 1 .. n + 1
      /\ r[n + 1] = m /\ \A k \in 1 .. n : r[k] = rest[k]
  BY <1>2
<1>4. /\ DOMAIN all = 1 .. a /\ DOMAIN w = 1 .. a + 1
      /\ w[a + 1] = m /\ \A i \in 1 .. a : w[i] = all[i]
  BY <1>2
<1> HIDE DEF r, w
<1>5. \A k \in 1 .. n : f[k] \in 1 .. a /\ f[k] \notin gone
  BY <1>1, <1>3, <1>4
<1>6. /\ g[n + 1] = a + 1 /\ \A k \in 1 .. n : g[k] = f[k] /\ k # n + 1
      /\ n + 1 \in 1 .. n + 1 /\ \A k \in 1 .. n + 1 : k \in 1 .. n \/ k = n + 1
  OBVIOUS
<1>7. g \in [DOMAIN r -> DOMAIN w \ gone]
  <2>1. \A k \in 1 .. n + 1 : g[k] \in DOMAIN w \ gone
    BY <1>3, <1>4, <1>5, <1>6
  <2> QED
    BY <1>3, <2>1
<1> HIDE DEF g
<1>8. ASSUME NEW k \in DOMAIN r
      PROVE  r[k] = w[g[k]]
  <2>1. CASE k = n + 1
    BY <1>3, <1>4, <1>6, <2>1
  <2>2. CASE k \in 1 .. n
    <3>1. r[k] = all[f[k]]
      BY <1>1, <1>3, <2>2
    <3>2. w[f[k]] = all[f[k]]
      BY <1>4, <1>5, <2>2
    <3> QED
      BY <1>6, <2>2, <3>1, <3>2
  <2> QED
    BY <1>3, <1>6, <2>1, <2>2
<1>9. ASSUME NEW j \in DOMAIN r, NEW k \in DOMAIN r, j < k
      PROVE  g[j] < g[k]
  <2>1. j \in 1 .. n /\ g[j] = f[j] /\ f[j] \in 1 .. a
    BY <1>3, <1>5, <1>6, <1>9
  <2>2. CASE k = n + 1
    BY <1>6, <2>1, <2>2
  <2>3. CASE k \in 1 .. n
    BY <1>1, <1>3, <1>6, <1>9, <2>1, <2>3
  <2> QED
    BY <1>3, <1>6, <2>2, <2>3
<1>10. \A i \in DOMAIN w \ gone : \E k \in DOMAIN r : g[k] = i
  <2> TAKE i \in DOMAIN w \ gone
  <2>1. CASE i = a + 1
    BY <1>3, <1>6, <2>1
  <2>2. CASE i # a + 1
    <3>1. i \in DOMAIN all \ gone
      BY <1>4, <2>2
    <3>2. PICK k \in 1 .. n : f[k] = i
      BY <1>1, <1>3, <3>1
    <3> QED
      BY <1>3, <1>6, <3>2
  <2> QED
    BY <2>1, <2>2
<1> QED
  BY <1>7, <1>8, <1>9, <1>10 DEF IsRest, r, w

(* ...and an answer only to that of what was delivered.                    *)
LEMMA RestSkips ==
  ASSUME NEW rest \in Seq(Message), NEW all \in Seq(Message),
         NEW gone \in SUBSET DOMAIN all, NEW m \in Message,
         IsRest(rest, all, gone)
  PROVE  IsRest(rest, Append(all, m), gone \cup {Len(Append(all, m))})
<1>1. PICK f \in [DOMAIN rest -> DOMAIN all \ gone] :
        /\ \A k \in DOMAIN rest : rest[k] = all[f[k]]
        /\ \A j, k \in DOMAIN rest : j < k => f[j] < f[k]
        /\ \A i \in DOMAIN all \ gone : \E k \in DOMAIN rest : f[k] = i
  BY DEF IsRest
<1> DEFINE w == Append(all, m)
           out1 == gone \cup {Len(w)}
<1>2. DOMAIN w \ out1 = DOMAIN all \ gone /\ \A i \in DOMAIN all : w[i] = all[i]
  <2>1. PICK a \in Nat : a = Len(all)
    OBVIOUS
  <2>2. /\ DOMAIN all = 1 .. a /\ DOMAIN w = 1 .. a + 1 /\ Len(w) = a + 1
        /\ \A i \in 1 .. a : w[i] = all[i]
    BY <2>1
  <2>3. a + 1 \notin 1 .. a
    OBVIOUS
  <2> HIDE DEF w
  <2> QED
    BY <2>2, <2>3
<1> HIDE DEF w, out1
<1>3. \A k \in DOMAIN rest : rest[k] = w[f[k]]
  BY <1>1, <1>2
<1>4. IsRest(rest, w, out1)
  BY <1>1, <1>2, <1>3 DEF IsRest
<1> QED
  BY <1>4 DEF w, out1

(* The messages on their way stay the same but for a push.                 *)
LEMMA KeptStep ==
  ASSUME IInvB, [NextB]_bVars
  PROVE  /\ Kept \in Seq(Message)
         /\ IF PushB THEN Kept' = Append(Kept, msg) ELSE Kept' = Kept
<1>0. /\ queue \in Seq(Message) /\ processed \in Seq(Message) /\ input \in Message
      /\ Reverse(queue) \in Seq(Message) /\ InHand \in Seq(Message)
  BY ReverseType DEF IInvB, TypeOKB, InHand
<1>1. Kept \in Seq(Message)
  BY <1>0 DEF Kept
<1>2. CASE PushB
  <2>1. queue' = <<msg>> \o queue
    BY <1>2 DEF PushB, QueueIdle, QueueBusy, PushFront
  <2>2. msg \in Message /\ UNCHANGED <<processed, wpc, input>>
    BY <1>2, PushKeeps DEF IInvB
  <2>3. Reverse(queue') = Append(Reverse(queue), msg) /\ InHand' = InHand
    BY <1>0, <2>1, <2>2, ReversePushed DEF InHand
  <2>4. processed \o InHand \o Append(Reverse(queue), msg)
          = Append(processed \o InHand \o Reverse(queue), msg)
    BY <1>0, <2>2
  <2> QED
    BY <1>1, <1>2, <2>2, <2>3, <2>4 DEF Kept
<1>3. CASE ~PushB /\ UNCHANGED <<queue, processed, wpc, input>>
  BY <1>1, <1>3 DEF Kept, InHand
<1>4. CASE ~PushB /\ Pop
  <2>1. /\ wpc = "pop" /\ wpc' = "process" /\ input' = input /\ input = Last(queue)
        /\ queue # <<>> /\ queue' = Front(queue) /\ processed' = processed
    BY <1>4 DEF Pop, QueueOK, IInvB
  <2>2. /\ Reverse(queue') \in Seq(Message)
        /\ Reverse(queue) = <<input>> \o Reverse(queue')
    BY <1>0, <2>1, ReversePopped, ReverseType
  <2>3. processed \o <<input>> \o Reverse(queue')
          = processed \o <<>> \o (<<input>> \o Reverse(queue'))
    BY <1>0, <2>2
  <2> QED
    BY <1>1, <1>4, <2>1, <2>2, <2>3 DEF Kept, InHand
<1>5. CASE ~PushB /\ SetBusy
  <2>1. /\ wpc = "process" /\ wpc' # "process" /\ queue' = queue
        /\ processed' = Append(processed, input)
    BY <1>5 DEF SetBusy, queueVars
  <2>2. Append(processed, input) \o <<>> \o Reverse(queue)
          = processed \o <<input>> \o Reverse(queue)
    BY <1>0
  <2> QED
    BY <1>1, <1>5, <2>1, <2>2 DEF Kept, InHand
<1>6. CASE /\ ~PushB /\ UNCHANGED <<queue, processed>>
           /\ wpc # "process" /\ wpc' # "process"
  BY <1>1, <1>6 DEF Kept, InHand
<1>7. CASE Calm \/ UNCHANGED bVars
  BY <1>2, <1>3, <1>7, CalmKeeps DEF bVars, cpVars, queueVars, workerVars
<1>8. CASE AskBusy \/ SubResponse \/ SignalAnswer \/ LeaveQueued
  BY <1>2, <1>3, <1>8 DEF AskBusy, SubResponse, SignalAnswer, LeaveQueued,
     queueVars, workerVars
<1>9. CASE TakeMessage \/ Transmitted
  BY <1>2, <1>4, <1>6, <1>9 DEF TakeMessage, SigWait, CheckQueue, Back, Transmitted,
     queueVars
<1>10. CASE ProcessB
  BY <1>2, <1>5, <1>6, <1>10 DEF ProcessB, SubRequest, SubRequestSent, AnswerCame,
     NoSubRequest, SetIdle, ReturnSilent, ReturnReply, queueVars
<1> QED
  BY <1>2, <1>7, <1>8, <1>9, <1>10, StepsB

(* What was delivered only changes with a delivery.                        *)
LEMMA DeliveredKeptB ==
  ASSUME [NextB]_bVars, ~PushB, ~SubResponse
  PROVE  delivered' = delivered /\ subs' = subs
<1> USE DEF subVars
<1>1. CASE Calm
  BY <1>1, CalmKeeps
<1>2. CASE AskBusy \/ SignalAnswer \/ LeaveQueued
  BY <1>2 DEF AskBusy, SignalAnswer, LeaveQueued
<1>3. CASE (TakeMessage \/ Transmitted) /\ UNCHANGED subVars
  BY <1>3 DEF TakeMessage, SigWait, CheckQueue, Back, Pop, Transmitted, lVars,
     listenerVars
<1>4. CASE ProcessB
  BY <1>4 DEF ProcessB, SetBusy, SubRequest, SubRequestSent, AnswerCame,
     NoSubRequest, SetIdle, ReturnSilent, ReturnReply, lVars, listenerVars
<1>5. CASE UNCHANGED bVars
  BY <1>5 DEF bVars, cpVars, lVars, listenerVars
<1> QED
  BY <1>1, <1>2, <1>3, <1>4, <1>5, StepsB

(* Each delivery goes to the end of what is on its way, or is an answer.   *)
LEMMA ConservationStepB == ASSUME IInvB, [NextB]_bVars PROVE ConservationB'
<1> USE DEF ConservationB
<1>0. /\ Kept \in Seq(Message) /\ delivered \in Seq(Message)
      /\ subs \in SUBSET DOMAIN delivered /\ IsRest(Kept, delivered, subs)
  BY KeptStep DEF IInvB, TypeOKB
<1>1. CASE PushB
  <2>1. msg \in Message /\ delivered' = Append(delivered, msg)
    BY <1>1, PushKeeps DEF IInvB
  <2>2. subs' = subs
    BY <1>1 DEF PushB, QueueIdle, QueueBusy, subVars
  <2>3. Kept' = Append(Kept, msg)
    BY <1>1, KeptStep
  <2> QED
    BY <1>0, <2>1, <2>2, <2>3, RestGrows
<1>2. CASE SubResponse /\ ~PushB
  <2>1. msg \in Message /\ delivered' = Append(delivered, msg)
    BY <1>2, PushKeeps DEF IInvB
  <2>2. subs' = subs \cup {Len(delivered')}
    BY <1>2 DEF SubResponse
  <2>3. Kept' = Kept
    BY <1>2, KeptStep
  <2> QED
    BY <1>0, <2>1, <2>2, <2>3, RestSkips
<1>3. CASE ~PushB /\ ~SubResponse
  BY <1>0, <1>3, KeptStep, DeliveredKeptB
<1> QED
  BY <1>1, <1>2, <1>3

-----------------------------------------------------------------------------
(* The initial state has nothing on its way.                               *)
LEMMA ComPointBInit == InitB => IInvB
<1> SUFFICES ASSUME InitB PROVE IInvB
  OBVIOUS
<1>1. Framed!IInvL
  BY ListenerInitB, Framed!ListenerInit, ListenerAssumption DEF Bad, Framed!Bad
<1>2. TypeOKB /\ QueueOK /\ WaitOK /\ AnswerWakes
  <2>1. /\ lpc = "recv" /\ wpc = "sigwait" /\ input = NoInput /\ asked = 0
        /\ queue = <<>> /\ processed = <<>> /\ delivered = <<>> /\ signals = {}
        /\ busy = FALSE /\ expecting = FALSE /\ answered = FALSE /\ subs = {}
    BY DEF InitB, Init, InitL
  <2>2. input \in Message /\ asked \in 0 .. MaxSubRequests
    BY <2>1, ComPointBAssumption DEF NoInput, Message
  <2>3. <<>> \in Seq(Message)
    OBVIOUS
  <2>4. /\ queue \in Seq(Message) /\ processed \in Seq(Message)
        /\ delivered \in Seq(Message) /\ subs \subseteq DOMAIN delivered
        /\ signals \subseteq {"SIGUSR1", "SIGUSR2"}
    BY <2>1, <2>3, Zenon
  <2>5. TypeOKB
    BY <2>1, <2>2, <2>4 DEF TypeOKB
  <2> QED
    BY <2>1, <2>5 DEF QueueOK, WaitOK, AnswerWakes
<1>3. ConservationB
  <2>1. Kept = <<>> /\ delivered = <<>>
    BY DEF InitB, Init, InitL, Kept, InHand, Reverse
  <2>2. DOMAIN Kept = {} /\ DOMAIN delivered = {}
    BY <2>1
  <2>3. [k \in {} |-> 0] \in [DOMAIN Kept -> DOMAIN delivered \ subs]
    BY <2>2
  <2> QED
    BY <2>2, <2>3 DEF ConservationB, IsRest
<1> QED
  BY <1>1, <1>2, <1>3 DEF IInvB

(* Every step keeps the invariant.                                         *)
LEMMA ComPointBNext == IInvB /\ [NextB]_bVars => IInvB'
<1> SUFFICES ASSUME IInvB, [NextB]_bVars PROVE IInvB'
  OBVIOUS
<1>1. Framed!IInvL'
  <2>1. Framed!IInvL /\ [Framed!NextL]_(Framed!lVars)
    BY ListenerMovesB DEF IInvB
  <2> QED
    BY <2>1, Framed!ListenerNext, ListenerAssumption DEF Bad, Framed!Bad
<1> QED
  BY <1>1, TypeStepB, QueueOKStepB, WakesStepB, ConservationStepB DEF IInvB

(* The inductive invariant of a ComPointB.                                 *)
THEOREM ComPointBInvariant == SpecB => []IInvB
BY ComPointBInit, ComPointBNext, PTL DEF SpecB

(* Types: every message has a place and a length, whichever way it goes.   *)
THEOREM ComPointBTypes == SpecB => []TypeOKB
<1>1. IInvB => TypeOKB
  BY DEF IInvB
<1> QED
  BY <1>1, ComPointBInvariant, PTL

(* The answers to sub-requests go past the queue and nothing else does,    *)
(* for any number of messages and sub-requests.                            *)
THEOREM ComPointBConservation == SpecB => []ConservationB
<1>1. IInvB => ConservationB
  BY DEF IInvB
<1> QED
  BY <1>1, ComPointBInvariant, PTL

(* The answer that came has its SIGUSR2 pending or about to be raised, and *)
(* no SIGUSR2 is pending otherwise.                                        *)
THEOREM ComPointBAnswerWakes == SpecB => []AnswerWakes
<1>1. IInvB => AnswerWakes
  BY DEF IInvB
<1> QED
  BY <1>1, ComPointBInvariant, PTL
-----------------------------------------------------------------------------
(* transmit() in a ComPointB: the worker's sub-requests come from within   *)
(* processMsg(), where the listener or the user may be transmitting too.   *)
SendInv == SendTypes /\ MutexOK /\ OutputOpen /\ OutputFramed

(* What a call of transmit() by a thread that is in none does to it all.   *)
LEMMA CallKeepsB ==
  ASSUME SendInv, NEW u \in Thread, NEW c \in Content, Call(u, c), peer' = peer,
         userSends' \in 0 .. MaxUserSends
  PROVE  SendInv'
<1>1. MutexOK' /\ OutputOpen'
  BY CallMutex DEF SendInv
<1>2. OutputFramed'
  BY DEF Call, SendInv, OutputFramed
<1>3. SendTypes'
  BY CallTypes DEF SendInv, SendTypes
<1> QED
  BY <1>1, <1>2, <1>3 DEF SendInv

(* Every step of a ComPointB keeps the output framed.                      *)
LEMMA FramedStepB == ASSUME IInvB, SendInv, [NextB]_bVars PROVE SendInv'
<1>1. ASSUME UNCHANGED sendVars, peer' = "open" => peer = "open"
      PROVE  SendInv'
  <2>1. UNCHANGED <<tpc, job, tmutex, headerOut, userSends, out>>
    BY <1>1 DEF sendVars
  <2>2. SendTypes'
    BY <2>1 DEF SendInv, SendTypes
  <2> QED
    BY <1>1, <2>1, <2>2, SendKept DEF SendInv
<1>2. ASSUME NEW t \in Thread, Transmit(t) PROVE SendInv'
  BY <1>2, TransmitTypes, TransmitFramed DEF SendInv
<1>3. CASE Calm
  <2>1. CASE PeerMoves \/ ListenerLocal \/ SignalWorker \/ Answered
    <3>1. UNCHANGED sendVars
      BY <2>1 DEF PeerMoves, ListenerLocal, SignalWorker, Answered
    <3>2. peer' = "open" => peer = "open"
      BY <2>1 DEF PeerMoves, Peer, PeerStart, PeerWrite, PeerLeave, ListenerLocal,
         SignalWorker, Answered, Kill, Reply, Recv, RecvEnd, Decode, ReadHeader,
         NeedHeader, BufferEmpty, Wait, SelectTick, SelectReady, SelectTimeout, SelectFails,
         RecvMore, RecvMoreEof, RecvMoreError, peerVars
    <3> QED
      BY <1>1, <3>1, <3>2
  <2>2. CASE AnswerRefused
    <3> DEFINE c == [from |-> "listener", n |-> start, len |-> ErrorLen]
    <3>1. start \in Nat
      BY DEF IInvB, Framed!IInvL, Framed!TypeOKL, Framed!BufferOK, start
    <3>2. c \in Content /\ "listener" \in Thread
      BY <3>1 DEF Content, Thread, ErrorLen
    <3>3. Call("listener", c) /\ peer' = peer /\ userSends' = userSends
      BY <2>2 DEF AnswerRefused, RefuseHeader, peerVars
    <3> HIDE DEF c
    <3> QED
      BY <3>2, <3>3, CallKeepsB DEF SendInv, SendTypes
  <2>3. CASE UserCall
    <3>1. PICK len \in OutLens :
            Call("user", [from |-> "user", n |-> userSends + 1, len |-> len])
      BY <2>3 DEF UserCall
    <3> DEFINE c == [from |-> "user", n |-> userSends + 1, len |-> len]
    <3>2. c \in Content /\ "user" \in Thread /\ userSends' \in 0 .. MaxUserSends
      BY <2>3, ComPointAssumption DEF UserCall, Content, Thread, SendInv, SendTypes
    <3>3. peer' = peer
      BY <2>3 DEF UserCall, lVars, peerVars
    <3>4. Call("user", c)
      BY <3>1
    <3> HIDE DEF c
    <3> QED
      BY <3>2, <3>3, <3>4, CallKeepsB
  <2> QED
    BY <1>2, <1>3, <2>1, <2>2, <2>3 DEF Calm
<1>4. CASE SubRequest \/ ReturnReply
  <2>1. PICK len \in OutLens :
          Call("worker", [from |-> "worker", n |-> input.pos, len |-> len])
    BY <1>4 DEF SubRequest, ReturnReply
  <2> DEFINE c == [from |-> "worker", n |-> input.pos, len |-> len]
  <2>2. c \in Content /\ "worker" \in Thread
    BY ComPointAssumption DEF Content, Thread, IInvB, TypeOKB, Message
  <2>3. peer' = peer /\ userSends' = userSends
    BY <1>4 DEF SubRequest, ReturnReply, lVars, peerVars
  <2>4. Call("worker", c)
    BY <2>1
  <2> HIDE DEF c
  <2> QED
    BY <2>2, <2>3, <2>4, CallKeepsB DEF SendInv, SendTypes
<1>5. CASE PushB \/ AskBusy \/ SubResponse \/ SignalAnswer \/ LeaveQueued
  <2>1. UNCHANGED sendVars /\ peer' = peer
    BY <1>5 DEF PushB, QueueIdle, QueueBusy, AskBusy, SubResponse, SignalAnswer,
       LeaveQueued, peerVars
  <2> QED
    BY <1>1, <2>1
<1>6. CASE \/ TakeMessage \/ Transmitted \/ UNCHANGED bVars
           \/ SetBusy \/ SubRequestSent \/ AnswerCame \/ NoSubRequest \/ SetIdle
           \/ ReturnSilent
  <2>1. UNCHANGED sendVars /\ peer' = peer
    BY <1>6 DEF TakeMessage, SigWait, CheckQueue, Back, Pop, Transmitted, SetBusy,
       SubRequestSent, AnswerCame, NoSubRequest, SetIdle, ReturnSilent, bVars,
       cpVars, lVars, peerVars
  <2> QED
    BY <1>1, <2>1
<1> QED
  BY <1>3, <1>4, <1>5, <1>6, StepsB DEF ProcessB

(* Nothing is being sent at the start.                                     *)
LEMMA SendInitB == InitB => SendInv
<1> SUFFICES ASSUME InitB PROVE SendInv
  OBVIOUS
<1>1. IInv
  BY ComPointInit DEF InitB
<1> QED
  BY <1>1 DEF IInv, CPTypes, SendInv

(* So it holds in every reachable state.                                   *)
LEMMA SendInvariantB == SpecB => []SendInv
BY ComPointBInvariant, SendInitB, FramedStepB, PTL DEF SpecB

(* The frames a ComPointB writes stay whole: a sub-request sent from       *)
(* within processMsg(), an answer, the listener's error reply and the      *)
(* user's messages do not mix, whatever throws between lock and unlock.    *)
THEOREM ComPointBOutputFramed == SpecB => []OutputFramed
<1>1. SendInv => OutputFramed
  BY DEF SendInv
<1> QED
  BY <1>1, SendInvariantB, PTL
-----------------------------------------------------------------------------
(* What is sent for a message, its sub-requests and its answer, leaves     *)
(* after what was sent for the messages before it.                         *)
SentInOrder ==
  \A i, j \in DOMAIN out :
    (i < j /\ Answer(i) /\ Answer(j)) => out[i].of.n <= out[j].of.n

(* The worker transmits for the message it processed last, and from two    *)
(* places only.                                                            *)
WorkOK ==
  /\ wpc \in {"working", "asking", "waiting", "done", "return", "transmit"} =>
       processed # <<>> /\ input = processed[Len(processed)]
  /\ \A t \in Thread : tpc[t] # "idle" => job[t].from = t
  /\ tpc["worker"] # "idle" =>
       wpc \in {"asking", "transmit"} /\ job["worker"].n = input.pos

(* What it sent, it sent for messages it processed.                        *)
SentFor ==
  \A i \in DOMAIN out :
    Answer(i) => \E k \in DOMAIN processed : processed[k].pos = out[i].of.n

(* The messages processed lie in the order of the stream.                  *)
LEMMA ProcessedInOrder ==
  ASSUME IInvB
  PROVE  \A j, k \in DOMAIN processed : j < k => processed[j].pos < processed[k].pos
<1> SUFFICES ASSUME NEW j \in DOMAIN processed, NEW k \in DOMAIN processed, j < k
             PROVE  processed[j].pos < processed[k].pos
  OBVIOUS
<1>1. /\ processed \in Seq(Message) /\ Reverse(queue) \in Seq(Message)
      /\ InHand \in Seq(Message) /\ delivered \in Seq(Message)
  BY ReverseType DEF IInvB, TypeOKB, InHand
<1>2. \A i \in DOMAIN processed : i \in DOMAIN Kept /\ Kept[i] = processed[i]
  <2>1. InHand \o Reverse(queue) \in Seq(Message)
    BY <1>1
  <2>2. Kept = processed \o (InHand \o Reverse(queue))
    BY <1>1 DEF Kept
  <2> QED
    BY <1>1, <2>1, <2>2
<1>3. PICK f \in [DOMAIN Kept -> DOMAIN delivered \ subs] :
        /\ \A i \in DOMAIN Kept : Kept[i] = delivered[f[i]]
        /\ \A i, l \in DOMAIN Kept : i < l => f[i] < f[l]
  BY DEF IInvB, ConservationB, IsRest
<1>4. /\ processed[j] = delivered[f[j]] /\ processed[k] = delivered[f[k]]
      /\ f[j] < f[k] /\ f[j] \in DOMAIN delivered /\ f[k] \in DOMAIN delivered
  BY <1>2, <1>3
<1>5. EndOf(processed[j]) <= processed[k].pos
  BY <1>4 DEF IInvB, Framed!IInvL, Framed!InOrder, Framed!EndOf, EndOf
<1>6. processed[j] \in Message /\ processed[k] \in Message
  BY <1>1, ElementOfSeq
<1> QED
  BY <1>5, <1>6, ListenerAssumption DEF EndOf, Message

(* The one processed last lies behind the others.                          *)
LEMMA LastProcessed ==
  ASSUME IInvB, processed # <<>>
  PROVE  \A k \in DOMAIN processed : processed[k].pos <= processed[Len(processed)].pos
<1> SUFFICES ASSUME NEW k \in DOMAIN processed
             PROVE  processed[k].pos <= processed[Len(processed)].pos
  OBVIOUS
<1>1. processed \in Seq(Message)
  BY DEF IInvB, TypeOKB
<1>2. Len(processed) \in DOMAIN processed /\ (k < Len(processed) \/ k = Len(processed))
  BY <1>1
<1>3. processed[k] \in Message
  BY <1>1, ElementOfSeq
<1>4. CASE k < Len(processed)
  <2>1. processed[k].pos < processed[Len(processed)].pos
    BY <1>2, <1>4, ProcessedInOrder
  <2>2. processed[Len(processed)] \in Message
    BY <1>1, <1>2, ElementOfSeq
  <2> QED
    BY <1>3, <2>1, <2>2 DEF Message
<1>5. CASE k = Len(processed)
  BY <1>3, <1>5 DEF Message
<1> QED
  BY <1>2, <1>4, <1>5

(* The worker's steps keep to this.                                        *)
LEMMA WorkStep == ASSUME IInvB, SendInv, WorkOK, [NextB]_bVars PROVE WorkOK'
<1> USE DEF WorkOK, SendInv, SendTypes
<1>0. {"listener", "worker", "user"} = Thread /\ processed \in Seq(Message)
  BY DEF Thread, IInvB, TypeOKB
<1>1. ASSUME UNCHANGED <<tpc, job, wpc, input, processed>> PROVE WorkOK'
  BY <1>1
<1>2. ASSUME NEW u \in Thread, Transmit(u) PROVE WorkOK'
  <2>1. UNCHANGED <<job, wpc, input, processed>> /\ tpc[u] # "idle"
    BY <1>2 DEF Transmit, workerVars, Lock, MakeHeader, LogThrows, SendHeader, SendData
  <2>2. \A t \in Thread : tpc'[t] # "idle" => tpc[t] # "idle"
    BY <1>2 DEF Transmit, Lock, MakeHeader, LogThrows, SendHeader, SendData
  <2> QED
    BY <1>0, <2>1, <2>2
<1>3. ASSUME NEW u \in Thread, NEW c, Call(u, c), c.from = u, u # "worker",
             UNCHANGED <<wpc, input, processed>>
      PROVE  WorkOK'
  BY <1>0, <1>3 DEF Call
<1>4. CASE Calm
  <2>1. CASE PeerMoves \/ ListenerLocal \/ SignalWorker \/ Answered
    BY <1>1, <2>1 DEF PeerMoves, ListenerLocal, SignalWorker, Answered, workerVars, sendVars
  <2>2. CASE AnswerRefused
    <3>1. PICK c : Call("listener", c) /\ c.from = "listener"
      BY <2>2 DEF AnswerRefused
    <3> QED
      BY <1>0, <1>3, <2>2, <3>1 DEF AnswerRefused, workerVars
  <2>3. CASE UserCall
    <3>1. PICK c : Call("user", c) /\ c.from = "user"
      BY <2>3 DEF UserCall
    <3> QED
      BY <1>0, <1>3, <2>3, <3>1 DEF UserCall, workerVars
  <2> QED
    BY <1>2, <1>4, <2>1, <2>2, <2>3 DEF Calm
<1>5. CASE SubRequest \/ ReturnReply
  <2>1. PICK c : Call("worker", c) /\ c.from = "worker" /\ c.n = input.pos
    <3>1. PICK len \in OutLens :
            Call("worker", [from |-> "worker", n |-> input.pos, len |-> len])
      BY <1>5 DEF SubRequest, ReturnReply
    <3> QED
      BY <3>1
  <2>2. /\ UNCHANGED <<input, processed>> /\ wpc \in {"working", "return"}
        /\ wpc' \in {"asking", "transmit"}
    BY <1>5 DEF SubRequest, ReturnReply
  <2>3. /\ job'["worker"] = c
        /\ \A t \in Thread \ {"worker"} : tpc'[t] = tpc[t] /\ job'[t] = job[t]
    BY <1>0, <2>1 DEF Call
  <2> QED
    BY <1>0, <2>1, <2>2, <2>3
<1>6. CASE PushB \/ AskBusy \/ SubResponse \/ SignalAnswer \/ LeaveQueued
             \/ UNCHANGED bVars
  BY <1>1, <1>6 DEF PushB, QueueIdle, QueueBusy, AskBusy, SubResponse, SignalAnswer,
     LeaveQueued, workerVars, sendVars, bVars, cpVars
<1>7. CASE TakeMessage
  <2>1. /\ UNCHANGED <<tpc, job, processed>> /\ wpc \in {"sigwait", "check", "back", "pop"}
        /\ wpc' \in {"sigwait", "check", "back", "pop", "process"}
    BY <1>7 DEF TakeMessage, SigWait, CheckQueue, Back, Pop, sendVars
  <2> QED
    BY <1>0, <2>1
<1>8. CASE Transmitted \/ SubRequestSent \/ ReturnSilent \/ AnswerCame \/ NoSubRequest
             \/ SetIdle
  <2>1. /\ UNCHANGED <<tpc, job, input, processed>>
        /\ tpc["worker"] = "idle" \/ wpc \notin {"asking", "transmit"}
        /\ wpc \in {"working", "asking", "waiting", "done", "return", "transmit"}
    BY <1>8 DEF Transmitted, SubRequestSent, ReturnSilent, AnswerCame, NoSubRequest,
       SetIdle, sendVars
  <2> QED
    BY <1>0, <2>1
<1>9. CASE SetBusy
  <2>1. /\ UNCHANGED <<tpc, job, input>> /\ wpc = "process"
        /\ processed' = Append(processed, input) /\ input \in Message
    BY <1>9 DEF SetBusy, sendVars, IInvB, TypeOKB
  <2>2. processed' # <<>> /\ input = processed'[Len(processed')]
    BY <1>0, <2>1
  <2> QED
    BY <1>0, <2>1, <2>2
<1> QED
  BY <1>4, <1>5, <1>6, <1>7, <1>8, <1>9, StepsB DEF ProcessB

(* Every step keeps the order of what is sent.                             *)
LEMMA SentStep ==
  ASSUME IInvB, SendInv, WorkOK, SentFor, SentInOrder, [NextB]_bVars
  PROVE  SentFor' /\ SentInOrder'
<1>0. processed \in Seq(Message) /\ out \in Seq([part : {"header", "data"}, of : Content])
  BY DEF IInvB, TypeOKB, SendInv, SendTypes
<1>1. \A k \in DOMAIN processed : k \in DOMAIN processed' /\ processed'[k] = processed[k]
  <2>1. CASE processed' = processed
    BY <2>1
  <2>2. CASE SetBusy
    <3>1. processed' = Append(processed, input) /\ input \in Message
      BY <2>2 DEF SetBusy, IInvB, TypeOKB
    <3> QED
      BY <1>0, <3>1
  <2>3. CASE Calm
    BY <2>1, <2>3, CalmKeeps
  <2>4. CASE PushB \/ AskBusy \/ SubResponse \/ SignalAnswer \/ LeaveQueued
               \/ UNCHANGED bVars
    BY <2>1, <2>4 DEF PushB, QueueIdle, QueueBusy, AskBusy, SubResponse,
       SignalAnswer, LeaveQueued, workerVars, bVars, cpVars
  <2>5. CASE TakeMessage \/ Transmitted \/ ProcessB
    BY <2>1, <2>2, <2>5 DEF TakeMessage, SigWait, CheckQueue, Back, Pop, Transmitted,
       ProcessB, SubRequest, SubRequestSent, AnswerCame, NoSubRequest, SetIdle,
       ReturnSilent, ReturnReply
  <2> QED
    BY <2>3, <2>4, <2>5, StepsB
<1>2. CASE out' = out
  BY <1>1, <1>2 DEF SentFor, SentInOrder, Answer
<1>3. ASSUME NEW p \in [part : {"header", "data"}, of : Content],
             out' = Append(out, p),
             (p.part = "data" /\ p.of.from = "worker") =>
               wpc \in {"asking", "transmit"} /\ p.of.n = input.pos
      PROVE  SentFor' /\ SentInOrder'
  <2>1. /\ Len(out) \in Nat /\ DOMAIN out = 1 .. Len(out)
        /\ DOMAIN out' = 1 .. Len(out) + 1 /\ out'[Len(out) + 1] = p
        /\ \A i \in 1 .. Len(out) : out'[i] = out[i]
    BY <1>0, <1>3
  <2>2. \A i \in 1 .. Len(out) + 1 : i \in 1 .. Len(out) \/ i = Len(out) + 1
    BY <2>1
  <2>3. ASSUME p.part = "data", p.of.from = "worker"
        PROVE  /\ \E k \in DOMAIN processed : processed[k].pos = p.of.n
               /\ \A i \in DOMAIN out : Answer(i) => out[i].of.n <= p.of.n
    <3>1. /\ processed # <<>> /\ p.of.n = processed[Len(processed)].pos
      BY <1>3, <2>3 DEF WorkOK
    <3>2. Len(processed) \in DOMAIN processed
      BY <1>0, <3>1
    <3>3. \A k \in DOMAIN processed : processed[k].pos <= p.of.n
      BY <3>1, LastProcessed
    <3> QED
      BY <3>1, <3>2, <3>3 DEF SentFor
  <2>4. SentFor'
    <3> SUFFICES ASSUME NEW i \in 1 .. Len(out) + 1, Answer(i)'
                 PROVE  \E k \in DOMAIN processed' : processed'[k].pos = out'[i].of.n
      BY <2>1 DEF SentFor, Answer
    <3>1. CASE i \in 1 .. Len(out)
      BY <1>1, <2>1, <3>1 DEF SentFor, Answer
    <3>2. CASE i = Len(out) + 1
      BY <1>1, <2>1, <2>3, <3>2 DEF Answer
    <3> QED
      BY <2>2, <3>1, <3>2
  <2>5. SentInOrder'
    <3> SUFFICES ASSUME NEW i \in 1 .. Len(out) + 1, NEW j \in 1 .. Len(out) + 1,
                        i < j, Answer(i)', Answer(j)'
                 PROVE  out'[i].of.n <= out'[j].of.n
      BY <2>1 DEF SentInOrder, Answer
    <3>1. i \in 1 .. Len(out)
      BY <2>1
    <3>2. CASE j \in 1 .. Len(out)
      BY <2>1, <3>1, <3>2 DEF SentInOrder, Answer
    <3>3. CASE j = Len(out) + 1
      BY <2>1, <2>3, <3>1, <3>3 DEF Answer
    <3> QED
      BY <2>2, <3>2, <3>3
  <2> QED
    BY <2>4, <2>5
<1>4. ASSUME NEW u \in Thread, Transmit(u) PROVE SentFor' /\ SentInOrder'
  <2>1. CASE Lock(u) \/ MakeHeader(u) \/ LogThrows(u) \/ peer # "open"
    BY <1>2, <1>4, <2>1 DEF Transmit, Lock, MakeHeader, LogThrows, SendHeader,
       SendData, Send
  <2>2. CASE SendHeader(u) /\ peer = "open"
    <3> DEFINE p == [part |-> "header", of |-> headerOut]
    <3>1. out' = Append(out, p) /\ p \in [part : {"header", "data"}, of : Content]
      BY <2>2 DEF SendHeader, Send, SendInv, SendTypes
    <3>2. p.part # "data"
      OBVIOUS
    <3> HIDE DEF p
    <3> QED
      BY <1>3, <3>1, <3>2
  <2>3. CASE SendData(u) /\ peer = "open"
    <3> DEFINE p == [part |-> "data", of |-> job[u]]
    <3>1. out' = Append(out, p) /\ p \in [part : {"header", "data"}, of : Content]
      BY <2>3 DEF SendData, Send, SendInv, SendTypes
    <3>2. p.of = job[u] /\ job[u].from = u /\ tpc[u] # "idle"
      BY <2>3 DEF SendData, WorkOK
    <3>3. p.of.from = "worker" =>
            wpc \in {"asking", "transmit"} /\ p.of.n = input.pos
      BY <3>2 DEF WorkOK
    <3> HIDE DEF p
    <3> QED
      BY <1>3, <3>1, <3>3
  <2> QED
    BY <1>4, <2>1, <2>2, <2>3 DEF Transmit
<1>5. CASE Calm
  BY <1>2, <1>4, <1>5 DEF Calm, PeerMoves, ListenerLocal, SignalWorker, AnswerRefused,
     Answered, UserCall, Call, sendVars
<1>6. CASE PushB \/ AskBusy \/ SubResponse \/ SignalAnswer \/ LeaveQueued
             \/ UNCHANGED bVars
  BY <1>2, <1>6 DEF PushB, QueueIdle, QueueBusy, AskBusy, SubResponse, SignalAnswer,
     LeaveQueued, sendVars, bVars, cpVars
<1>7. CASE TakeMessage \/ Transmitted \/ ProcessB
  BY <1>2, <1>7 DEF TakeMessage, SigWait, CheckQueue, Back, Pop, Transmitted, ProcessB,
     SetBusy, SubRequest, SubRequestSent, AnswerCame, NoSubRequest, SetIdle,
     ReturnSilent, ReturnReply, Call, sendVars
<1> QED
  BY <1>5, <1>6, <1>7, StepsB

(* Sub-requests and answers leave in the order of the messages they are    *)
(* sent for, for any number of messages and sub-requests: a sub-request    *)
(* from within processMsg() never overtakes the answer to an earlier       *)
(* message, though each waits for tmutex.                                  *)
THEOREM ComPointBSentInOrder == SpecB => []SentInOrder
<1>1. InitB => WorkOK /\ SentFor /\ SentInOrder
  BY DEF InitB, Init, WorkOK, SentFor, SentInOrder, Thread
<1> QED
  BY <1>1, SendInvariantB, ComPointBInvariant, WorkStep, SentStep, PTL DEF SpecB
=============================================================================
