--------------------------- MODULE ComPoint_proofs ---------------------------
(***************************************************************************)
(* The queue, the signals and transmit(), for every size of the parameters *)
(* and any number of messages and of calls by threads of the user.         *)
(***************************************************************************)
EXTENDS ComPoint, Listener_proofs, WellFoundedInduction, TLAPS

-----------------------------------------------------------------------------
(* The steps of a ComPoint are steps of its listener and its peer, or      *)
(* leave both alone.                                                       *)
LEMMA ListenerMoves == [Next]_cpVars => [NextL]_lVars
<1>1. PeerMoves \/ ListenerThread \/ Worker \/ User \/ UNCHANGED cpVars
        => NextL \/ UNCHANGED lVars
  BY DEF PeerMoves, ListenerThread, ListenerLocal, QueueMessage, SignalWorker,
         AnswerRefused, Answered, Transmit, Worker, TakeMessage, SigWait,
         CheckQueue, Back, Pop, Process, ProcessSilent, ProcessReply, Transmitted,
         User, UserCall, NextL, ListenerStep, LocalStep, cpVars
<1> QED
  BY <1>1 DEF Next

(* So what is proved of the listener holds of it in the ComPoint.          *)
THEOREM ComPointListens == Spec => SpecL
<1>1. Init => InitL
  BY DEF Init
<1> QED
  BY <1>1, ListenerMoves, PTL DEF Spec, SpecL

-----------------------------------------------------------------------------
(* Types.  Everything transmitted has a sender, a number and a size...     *)
SendTypes ==
  /\ tpc \in [Thread -> {"idle", "lock", "header", "send", "data"}]
  /\ job \in [Thread -> Content]
  /\ tmutex \in Thread \cup {Nobody}
  /\ headerOut \in Content
  /\ userSends \in 0 .. MaxUserSends
  /\ out \in Seq([part : {"header", "data"}, of : Content])

(* ...and everything that is queued, taken or processed is a message.      *)
CPTypes ==
  /\ queue \in Seq(Message) /\ signals \subseteq {"SIGUSR1", "SIGUSR2"}
  /\ wpc \in {"sigwait", "check", "back", "pop", "process", "transmit"}
  /\ input \in Message /\ processed \in Seq(Message)
  /\ SendTypes

(* Nothing is read from an empty queue, and what the worker is about to    *)
(* pop is what it has read.                                                *)
QueueOK ==
  /\ wpc \in {"back", "pop"} => queue # <<>>
  /\ wpc = "pop" => input = Last(queue)

(* The last of a queue that is not empty is a message.                     *)
LEMMA LastMessage == ASSUME NEW q \in Seq(Message), q # <<>>
                     PROVE  Last(q) \in Message
BY DEF Last

(* The queue stays a queue of messages when one is put to its front.       *)
LEMMA PushedQueue == ASSUME NEW q \in Seq(Message), NEW m \in Message
                     PROVE  <<m>> \o q \in Seq(Message)
OBVIOUS

(* The message at the front of msgBuffer has a place and a length when it  *)
(* is pushed.                                                              *)
LEMMA PushedMessage == ASSUME IInvL, lpc = "push"
                       PROVE  msg \in Message
BY DEF IInvL, TypeOKL, BufferOK, Message, msg, start

(* msgBuffer begins inside the stream.                                     *)
LEMMA StartNat == ASSUME IInvL PROVE start \in Nat
BY DEF IInvL, TypeOKL, BufferOK, start

(* Appending a member of a set keeps a sequence over it one.               *)
LEMMA AppendType == ASSUME NEW S, NEW s \in Seq(S), NEW e \in S
                    PROVE  Append(s, e) \in Seq(S)
OBVIOUS

(* A call of transmit() hands over a sender, a number and a size.          *)
LEMMA CallTypes ==
  ASSUME SendTypes, NEW t \in Thread, NEW c \in Content, Call(t, c)
  PROVE  /\ tpc' \in [Thread -> {"idle", "lock", "header", "send", "data"}]
         /\ job' \in [Thread -> Content]
         /\ tmutex' \in Thread \cup {Nobody}
         /\ headerOut' \in Content
         /\ out' \in Seq([part : {"header", "data"}, of : Content])
BY DEF SendTypes, Call

(* Each step of transmit() keeps the types.                                *)
LEMMA TransmitTypes == ASSUME SendTypes, NEW t \in Thread, Transmit(t)
                       PROVE  SendTypes'
<1> USE DEF SendTypes
<1>1. CASE Lock(t)
  BY <1>1 DEF Lock
<1>2. CASE MakeHeader(t)
  BY <1>2 DEF MakeHeader
<1>3. CASE LogThrows(t)
  BY <1>3 DEF LogThrows
<1>4. CASE SendHeader(t)
  <2>1. [part |-> "header", of |-> headerOut] \in [part : {"header", "data"}, of : Content]
    OBVIOUS
  <2>2. out' \in Seq([part : {"header", "data"}, of : Content])
    BY <1>4, <2>1, AppendType DEF SendHeader, Send
  <2> QED
    BY <1>4, <2>2 DEF SendHeader
<1>5. CASE SendData(t)
  <2>1. [part |-> "data", of |-> job[t]] \in [part : {"header", "data"}, of : Content]
    OBVIOUS
  <2>2. out' \in Seq([part : {"header", "data"}, of : Content])
    BY <1>5, <2>1, AppendType DEF SendData, Send
  <2> QED
    BY <1>5, <2>2 DEF SendData
<1> QED
  BY <1>1, <1>2, <1>3, <1>4, <1>5 DEF Transmit

(* Every step of the ComPoint keeps the types.                             *)
LEMMA CPTypeStep == ASSUME IInvL, CPTypes, QueueOK, [Next]_cpVars
                    PROVE  CPTypes'
<1>1. CASE PeerMoves \/ ListenerLocal
  BY <1>1
  DEF PeerMoves, ListenerLocal, CPTypes, SendTypes, queueVars, workerVars, sendVars
<1>2. CASE QueueMessage
  <2>1. queue' \in Seq(Message)
    BY <1>2, PushedMessage, PushedQueue DEF QueueMessage, Push, PushFront, CPTypes
  <2> QED
    BY <1>2, <2>1 DEF QueueMessage, CPTypes, SendTypes, workerVars, sendVars
<1>3. CASE SignalWorker
  BY <1>3 DEF SignalWorker, CPTypes, SendTypes, workerVars, sendVars
<1>4. CASE AnswerRefused
  <2> DEFINE c == [from |-> "listener", n |-> start, len |-> ErrorLen]
  <2>1. c \in Content /\ "listener" \in Thread
    BY StartNat DEF Content, Thread, ErrorLen
  <2>2. Call("listener", c)
    BY <1>4 DEF AnswerRefused
  <2> HIDE DEF c
  <2> QED
    BY <1>4, <2>1, <2>2, CallTypes
    DEF AnswerRefused, CPTypes, SendTypes, queueVars, workerVars
<1>5. CASE Answered
  BY <1>5 DEF Answered, CPTypes, SendTypes, queueVars, workerVars, sendVars
<1>6. ASSUME NEW t \in Thread, Transmit(t) PROVE CPTypes'
  BY <1>6, TransmitTypes DEF CPTypes, Transmit, queueVars, workerVars
<1>7. CASE UserCall
  <2>1. PICK len \in OutLens :
          Call("user", [from |-> "user", n |-> userSends + 1, len |-> len])
    BY <1>7 DEF UserCall
  <2> DEFINE c == [from |-> "user", n |-> userSends + 1, len |-> len]
  <2>2. c \in Content /\ "user" \in Thread
    BY ComPointAssumption DEF Content, Thread, CPTypes, SendTypes
  <2>3. userSends' \in 0 .. MaxUserSends
    BY <1>7, ComPointAssumption DEF UserCall, CPTypes, SendTypes
  <2> HIDE DEF c
  <2> QED
    BY <1>7, <2>1, <2>2, <2>3, CallTypes
    DEF UserCall, CPTypes, SendTypes, queueVars, workerVars, c
<1>8. CASE SigWait
  BY <1>8 DEF SigWait, CPTypes, SendTypes, sendVars
<1>9. CASE CheckQueue
  BY <1>9 DEF CheckQueue, CPTypes, SendTypes, queueVars, sendVars
<1>10. CASE Back
  BY <1>10, LastMessage DEF Back, CPTypes, SendTypes, QueueOK, queueVars, sendVars
<1>11. CASE Pop
  BY <1>11 DEF Pop, Front, CPTypes, SendTypes, QueueOK, sendVars
<1>12. CASE ProcessSilent
  BY <1>12 DEF ProcessSilent, CPTypes, SendTypes, queueVars, sendVars
<1>13. CASE ProcessReply
  <2>1. PICK len \in OutLens :
          Call("worker", [from |-> "worker", n |-> input.pos, len |-> len])
    BY <1>13 DEF ProcessReply
  <2> DEFINE c == [from |-> "worker", n |-> input.pos, len |-> len]
  <2>2. c \in Content /\ "worker" \in Thread
    BY ComPointAssumption DEF Content, Thread, CPTypes, Message
  <2>3. processed' \in Seq(Message)
    BY <1>13 DEF ProcessReply, CPTypes
  <2> HIDE DEF c
  <2> QED
    BY <1>13, <2>1, <2>2, <2>3, CallTypes
    DEF ProcessReply, CPTypes, SendTypes, queueVars, c
<1>14. CASE Transmitted
  BY <1>14 DEF Transmitted, CPTypes, SendTypes, queueVars, sendVars
<1>15. CASE UNCHANGED cpVars
  BY <1>15 DEF cpVars, CPTypes, SendTypes, queueVars, workerVars, sendVars
<1> QED
  BY <1>1, <1>2, <1>3, <1>4, <1>5, <1>6, <1>7, <1>8, <1>9, <1>10, <1>11, <1>12,
     <1>13, <1>14, <1>15
  DEF Next, ListenerThread, Worker, User, TakeMessage, Process, Thread

(* The worker reads and pops from a queue that only grows at the other end. *)
LEMMA QueueOKStep == ASSUME IInvL, CPTypes, QueueOK, [Next]_cpVars
                     PROVE  QueueOK'
<1> USE DEF QueueOK
<1>1. CASE PeerMoves \/ ListenerLocal \/ Answered
  BY <1>1 DEF PeerMoves, ListenerLocal, Answered, queueVars, workerVars
<1>2. CASE QueueMessage
  <2>1. queue' = <<msg>> \o queue /\ queue \in Seq(Message) /\ msg \in Message
    BY <1>2, PushedMessage DEF QueueMessage, Push, PushFront, CPTypes
  <2>2. queue' # <<>>
    BY <2>1
  <2>3. queue # <<>> => Last(queue') = Last(queue)
    BY <2>1 DEF Last
  <2>4. UNCHANGED <<wpc, input>>
    BY <1>2 DEF QueueMessage, workerVars
  <2> QED
    BY <2>2, <2>3, <2>4
<1>3. CASE SignalWorker \/ AnswerRefused
  BY <1>3 DEF SignalWorker, AnswerRefused, queueVars, workerVars
<1>4. ASSUME NEW t \in Thread, Transmit(t) PROVE QueueOK'
  BY <1>4 DEF Transmit, queueVars, workerVars
<1>5. CASE UserCall
  BY <1>5 DEF UserCall, queueVars, workerVars
<1>6. CASE SigWait \/ CheckQueue \/ Transmitted
  BY <1>6 DEF SigWait, CheckQueue, Transmitted, queueVars
<1>7. CASE Back
  BY <1>7 DEF Back, queueVars
<1>8. CASE Pop
  BY <1>8 DEF Pop
<1>9. CASE Process
  BY <1>9 DEF Process, ProcessSilent, ProcessReply, queueVars
<1>10. CASE UNCHANGED cpVars
  BY <1>10 DEF cpVars, queueVars, workerVars
<1> QED
  BY <1>1, <1>2, <1>3, <1>4, <1>5, <1>6, <1>7, <1>8, <1>9, <1>10
  DEF Next, ListenerThread, Worker, User, TakeMessage, Thread

-----------------------------------------------------------------------------
(* The queue as a FIFO.  A message put to the front is the last of the     *)
(* reversed queue...                                                       *)
LEMMA ReversePushed ==
  ASSUME NEW q \in Seq(Message), NEW m \in Message
  PROVE  Reverse(<<m>> \o q) = Append(Reverse(q), m)
<1>1. PICK n \in Nat : n = Len(q)
  OBVIOUS
<1>2. /\ Len(<<m>> \o q) = n + 1
      /\ (<<m>> \o q)[1] = m
      /\ \A i \in 1 .. n : (<<m>> \o q)[i + 1] = q[i]
  BY <1>1
<1>3. Reverse(q) \in Seq(Message) /\ Len(Reverse(q)) = n
  BY <1>1 DEF Reverse
<1>4. \A i \in 1 .. n : Reverse(q)[i] = q[n - i + 1]
  BY <1>1 DEF Reverse
<1> DEFINE r == Reverse(<<m>> \o q)
<1>5. /\ r \in Seq(Message) /\ Len(r) = n + 1
      /\ \A i \in 1 .. n + 1 : r[i] = (<<m>> \o q)[n + 1 - i + 1]
  BY <1>2, PushedQueue DEF Reverse
<1>6. r[n + 1] = m
  BY <1>2, <1>5
<1>7. \A i \in 1 .. n : r[i] = q[n - i + 1]
  <2> TAKE i \in 1 .. n
  <2>1. n - i + 1 \in 1 .. n /\ (n - i + 1) + 1 = n + 1 - i + 1
    BY <1>1
  <2>2. i \in 1 .. n + 1
    BY <1>1
  <2> QED
    BY <1>2, <1>5, <2>1, <2>2
<1> HIDE DEF r
<1> QED
  BY <1>1, <1>3, <1>4, <1>5, <1>6, <1>7 DEF r

(* ...and the message that is popped is its first.                         *)
LEMMA ReversePopped ==
  ASSUME NEW q \in Seq(Message), q # <<>>
  PROVE  /\ Front(q) \in Seq(Message)
         /\ Reverse(q) = <<Last(q)>> \o Reverse(Front(q))
<1>1. PICK n \in Nat : Len(q) = n + 1
  <2>1. Len(q) \in Nat /\ Len(q) # 0
    OBVIOUS
  <2>2. Len(q) - 1 \in Nat /\ Len(q) = (Len(q) - 1) + 1
    BY <2>1
  <2> QED
    BY <2>2
<1>2. /\ Front(q) \in Seq(Message) /\ Len(Front(q)) = n
      /\ \A i \in 1 .. n : Front(q)[i] = q[i]
  BY <1>1 DEF Front
<1>3. /\ Reverse(q) \in Seq(Message) /\ Len(Reverse(q)) = n + 1
      /\ \A i \in 1 .. n + 1 : Reverse(q)[i] = q[n + 1 - i + 1]
  BY <1>1 DEF Reverse
<1>4. /\ Reverse(Front(q)) \in Seq(Message) /\ Len(Reverse(Front(q))) = n
      /\ \A i \in 1 .. n : Reverse(Front(q))[i] = Front(q)[n - i + 1]
  BY <1>2 DEF Reverse
<1> DEFINE r == <<Last(q)>> \o Reverse(Front(q))
<1>5. /\ r \in Seq(Message) /\ Len(r) = n + 1
      /\ r[1] = q[n + 1]
      /\ \A i \in 2 .. n + 1 : r[i] = Reverse(Front(q))[i - 1]
  BY <1>1, <1>4, LastMessage DEF Last
<1>6. \A i \in 1 .. n + 1 : r[i] = Reverse(q)[i]
  <2> TAKE i \in 1 .. n + 1
  <2>1. CASE i = 1
    BY <1>3, <1>5, <2>1
  <2>2. CASE i # 1
    <3>1. i - 1 \in 1 .. n /\ i \in 2 .. n + 1
      BY <2>2
    <3>2. n - (i - 1) + 1 \in 1 .. n /\ n - (i - 1) + 1 = n + 1 - i + 1
      BY <3>1
    <3>3. r[i] = Front(q)[n - (i - 1) + 1]
      BY <1>4, <1>5, <3>1
    <3> QED
      BY <1>2, <1>3, <3>1, <3>2, <3>3
  <2> QED
    BY <2>1, <2>2
<1> HIDE DEF r
<1> QED
  BY <1>2, <1>3, <1>5, <1>6 DEF r

(* The reversed queue is a sequence of messages.                           *)
LEMMA ReverseType == ASSUME NEW q \in Seq(Message) PROVE Reverse(q) \in Seq(Message)
BY DEF Reverse

(* Only the listener's push changes what has been delivered.               *)
LEMMA DeliveredKept ==
  ASSUME PeerMoves \/ ListenerLocal \/ Answered \/ SignalWorker \/ AnswerRefused
  PROVE  delivered' = delivered
BY DEF PeerMoves, Peer, PeerStart, PeerWrite, PeerLeave, ListenerLocal, Answered,
       SignalWorker, AnswerRefused, Recv, RecvEnd, Decode, ReadHeader, NeedHeader,
       BufferEmpty, RefuseHeader, DropBuffer, Kill, Advance, Reply, Wait, SelectTick,
       SelectReady, SelectTimeout, SelectFails, RecvMore, RecvMoreEof, RecvMoreError,
       listenerVars

(* Every step hands each message on, to the end or to the next place.      *)
LEMMA ConservationStep ==
  ASSUME IInvL, CPTypes, QueueOK, Conservation, [Next]_cpVars
  PROVE  Conservation'
<1> USE DEF Conservation, InHand
<1>0. /\ queue \in Seq(Message) /\ processed \in Seq(Message) /\ input \in Message
      /\ Reverse(queue) \in Seq(Message)
  BY ReverseType DEF CPTypes
<1>1. CASE PeerMoves \/ ListenerLocal \/ Answered \/ SignalWorker \/ AnswerRefused
  <2>1. UNCHANGED <<queue, processed, wpc, input>>
    BY <1>1 DEF PeerMoves, ListenerLocal, Answered, SignalWorker, AnswerRefused,
                queueVars, workerVars
  <2> QED
    BY <1>1, <2>1, DeliveredKept
<1>2. CASE QueueMessage
  <2>1. /\ queue' = <<msg>> \o queue /\ delivered' = Append(delivered, msg)
        /\ msg \in Message /\ UNCHANGED <<processed, wpc, input>>
    BY <1>2, PushedMessage DEF QueueMessage, Push, PushFront, workerVars
  <2>2. Reverse(queue') = Append(Reverse(queue), msg)
    BY <1>0, <2>1, ReversePushed
  <2>3. ASSUME NEW h \in Seq(Message)
        PROVE  processed \o h \o Append(Reverse(queue), msg)
                 = Append(processed \o h \o Reverse(queue), msg)
    BY <1>0, <2>1
  <2>4. InHand \in Seq(Message) /\ InHand' = InHand
    BY <1>0, <2>1
  <2> HIDE DEF InHand
  <2> QED
    BY <2>1, <2>2, <2>3, <2>4
<1>3. CASE SigWait \/ CheckQueue \/ Back \/ Transmitted
  <2>1. UNCHANGED <<queue, processed, delivered>>
    BY <1>3 DEF SigWait, CheckQueue, Back, Transmitted, queueVars, lVars,
                listenerVars
  <2>2. wpc # "process" /\ wpc' # "process"
    BY <1>3 DEF SigWait, CheckQueue, Back, Transmitted
  <2> QED
    BY <2>1, <2>2
<1>4. CASE Pop
  <2>1. /\ wpc = "pop" /\ wpc' = "process" /\ input' = input /\ input = Last(queue)
        /\ queue # <<>> /\ queue' = Front(queue)
        /\ UNCHANGED <<processed, delivered>>
    BY <1>4 DEF Pop, QueueOK, lVars, listenerVars
  <2>2. /\ Reverse(queue') \in Seq(Message)
        /\ Reverse(queue) = <<input>> \o Reverse(queue')
    BY <1>0, <2>1, ReversePopped, ReverseType
  <2>3. processed \o <<input>> \o Reverse(queue')
          = processed \o <<>> \o (<<input>> \o Reverse(queue'))
    BY <1>0, <2>2
  <2> QED
    BY <2>1, <2>2, <2>3
<1>5. CASE Process
  <2>1. /\ wpc = "process" /\ wpc' # "process"
        /\ processed' = Append(processed, input)
        /\ UNCHANGED <<queue, delivered>>
    BY <1>5 DEF Process, ProcessSilent, ProcessReply, queueVars, lVars, listenerVars
  <2>2. Append(processed, input) \o <<>> \o Reverse(queue)
          = processed \o <<input>> \o Reverse(queue)
    BY <1>0
  <2> QED
    BY <2>1, <2>2
<1>6. ASSUME NEW t \in Thread, Transmit(t) PROVE Conservation'
  BY <1>6 DEF Transmit, queueVars, workerVars, lVars, listenerVars
<1>7. CASE UserCall \/ UNCHANGED cpVars
  BY <1>7 DEF UserCall, cpVars, queueVars, workerVars, lVars, listenerVars
<1> QED
  BY <1>1, <1>2, <1>3, <1>4, <1>5, <1>6, <1>7
  DEF Next, ListenerThread, Worker, User, TakeMessage, Thread

-----------------------------------------------------------------------------
(* The worker sleeps beside a queued message only with a signal on its way: *)
(* a push is followed by the signal, and the worker looks before it sleeps. *)
LEMMA WakeupStep == ASSUME CPTypes, NoLostWakeup, [Next]_cpVars
                    PROVE  NoLostWakeup'
<1> USE DEF NoLostWakeup
<1>1. CASE PeerMoves
  BY <1>1 DEF PeerMoves, Peer, PeerStart, PeerWrite, PeerLeave, queueVars,
              workerVars, listenerVars
<1>2. CASE ListenerLocal \/ AnswerRefused \/ Answered
  <2>1. lpc # "kill"
    BY <1>2 DEF ListenerLocal, AnswerRefused, Answered, Recv, RecvEnd, Decode,
                ReadHeader, NeedHeader, BufferEmpty, RefuseHeader, Reply, Wait,
                SelectTick, SelectReady, SelectTimeout, SelectFails, RecvMore, RecvMoreEof,
                RecvMoreError
  <2>2. UNCHANGED <<queue, signals, wpc>>
    BY <1>2 DEF ListenerLocal, AnswerRefused, Answered, queueVars, workerVars
  <2> QED
    BY <2>1, <2>2
<1>3. CASE QueueMessage
  BY <1>3 DEF QueueMessage, Push
<1>4. CASE SignalWorker
  BY <1>4 DEF SignalWorker
<1>5. CASE SigWait
  BY <1>5 DEF SigWait, CPTypes, lVars, listenerVars
<1>6. CASE CheckQueue
  BY <1>6 DEF CheckQueue, queueVars
<1>7. CASE Back \/ Pop \/ Process \/ Transmitted
  BY <1>7 DEF Back, Pop, Process, ProcessSilent, ProcessReply, Transmitted
<1>8. ASSUME NEW t \in Thread, Transmit(t) PROVE NoLostWakeup'
  BY <1>8 DEF Transmit, queueVars, workerVars, lVars, listenerVars
<1>9. CASE UserCall \/ UNCHANGED cpVars
  BY <1>9 DEF UserCall, cpVars, queueVars, workerVars, lVars, listenerVars
<1> QED
  BY <1>1, <1>2, <1>3, <1>4, <1>5, <1>6, <1>7, <1>8, <1>9
  DEF Next, ListenerThread, Worker, User, TakeMessage, Thread

-----------------------------------------------------------------------------
(* A thread between lock and unlock holds tmutex, and what it has put into *)
(* headerOut stays there.                                                  *)
MutexOK ==
  \A t \in Thread :
    /\ tpc[t] \in {"header", "send", "data"} => tmutex = t
    /\ tpc[t] \in {"send", "data"} => headerOut = job[t]

(* While the peer is there, the output ends with a header just when a      *)
(* thread is between its two send()s, and it is that thread's header.      *)
OutputOpen ==
  peer = "open" =>
    /\ Len(out) % 2 = 1 => \E t \in Thread : tpc[t] = "data"
    /\ \A t \in Thread : tpc[t] = "data" =>
         Len(out) % 2 = 1 /\ out[Len(out)].of = job[t]

(* A call of transmit() by a thread that is in none.                       *)
LEMMA CallMutex ==
  ASSUME SendTypes, MutexOK, OutputOpen, NEW u \in Thread, NEW c, Call(u, c),
         peer' = peer
  PROVE  MutexOK' /\ OutputOpen'
<1>1. /\ tpc[u] = "idle" /\ tpc'[u] = "lock"
      /\ \A t \in Thread \ {u} : tpc'[t] = tpc[t] /\ job'[t] = job[t]
      /\ UNCHANGED <<tmutex, headerOut, out>>
  BY DEF Call, SendTypes
<1>2. \A t \in Thread : tpc'[t] = "data" <=> tpc[t] = "data"
  BY <1>1
<1> QED
  BY <1>1, <1>2 DEF MutexOK, OutputOpen

(* A step that leaves transmit() alone.                                    *)
LEMMA SendKept ==
  ASSUME UNCHANGED <<tpc, job, tmutex, headerOut, out>>, peer' = "open" => peer = "open",
         MutexOK, OutputOpen, OutputFramed
  PROVE  MutexOK' /\ OutputOpen' /\ OutputFramed'
BY DEF MutexOK, OutputOpen, OutputFramed

(* Each step of transmit() keeps its thread to itself and the output       *)
(* framed.                                                                 *)
LEMMA TransmitFramed ==
  ASSUME SendTypes, MutexOK, OutputOpen, OutputFramed, NEW u \in Thread, Transmit(u)
  PROVE  MutexOK' /\ OutputOpen' /\ OutputFramed'
<1>0. /\ peer' = peer /\ Len(out) \in Nat /\ DOMAIN out = 1 .. Len(out)
      /\ Nobody \notin Thread
      /\ tpc \in [Thread -> {"idle", "lock", "header", "send", "data"}]
  BY DEF Transmit, lVars, peerVars, SendTypes, Nobody, Thread
<1>1. CASE Lock(u)
  <2>1. /\ tpc[u] = "lock" /\ tmutex = Nobody /\ tmutex' = u /\ tpc'[u] = "header"
        /\ \A t \in Thread \ {u} : tpc'[t] = tpc[t]
        /\ UNCHANGED <<job, headerOut, out>>
    BY <1>0, <1>1 DEF Lock
  <2>2. \A t \in Thread : tpc[t] \notin {"header", "send", "data"}
    BY <1>0, <2>1 DEF MutexOK
  <2>3. \A t \in Thread : tpc'[t] \notin {"send", "data"}
    BY <2>1, <2>2
  <2> QED
    BY <1>0, <2>1, <2>2, <2>3 DEF MutexOK, OutputOpen, OutputFramed
<1>2. CASE MakeHeader(u) \/ LogThrows(u)
  <2>1. /\ tpc[u] = "header" /\ tpc'[u] \in {"send", "idle"}
        /\ tpc'[u] = "send" => headerOut' = job[u]
        /\ \A t \in Thread \ {u} : tpc'[t] = tpc[t]
        /\ UNCHANGED <<job, tmutex, out>>
    BY <1>0, <1>2 DEF MakeHeader, LogThrows
  <2>2. \A t \in Thread \ {u} : tpc[t] \notin {"header", "send", "data"}
    BY <2>1 DEF MutexOK
  <2>3. \A t \in Thread : tpc[t] # "data" /\ tpc'[t] # "data"
    BY <2>1, <2>2
  <2> QED
    BY <1>0, <2>1, <2>2, <2>3 DEF MutexOK, OutputOpen, OutputFramed
<1>3. CASE SendHeader(u)
  <2> DEFINE p == [part |-> "header", of |-> headerOut]
  <2>1. /\ tpc[u] = "send" /\ tpc'[u] = "data" /\ headerOut = job[u]
        /\ \A t \in Thread \ {u} : tpc'[t] = tpc[t]
        /\ out' = IF peer = "open" THEN Append(out, p) ELSE out
        /\ UNCHANGED <<job, tmutex, headerOut>>
    BY <1>0, <1>3 DEF SendHeader, Send, MutexOK
  <2>2. \A t \in Thread \ {u} : tpc[t] \notin {"header", "send", "data"}
    BY <2>1 DEF MutexOK
  <2>3. MutexOK'
    BY <2>1, <2>2 DEF MutexOK
  <2>4. CASE peer # "open"
    BY <1>0, <2>1, <2>3, <2>4 DEF OutputOpen, OutputFramed
  <2>5. CASE peer = "open"
    <3>1. Len(out) % 2 # 1
      BY <2>1, <2>2, <2>5 DEF OutputOpen
    <3>2. /\ Len(out') = Len(out) + 1 /\ out'[Len(out) + 1] = p
          /\ \A i \in 1 .. Len(out) : out'[i] = out[i]
          /\ DOMAIN out' = 1 .. Len(out) + 1
      BY <2>1, <2>5, AppendType DEF SendTypes
    <3>3. Len(out') % 2 = 1
      BY <1>0, <3>1, <3>2
    <3>4. OutputOpen'
      <4>1. /\ \A t \in Thread : tpc'[t] = "data" => t = u
            /\ tpc'[u] = "data"
        BY <2>1, <2>2
      <4>2. out'[Len(out')].of = job'[u]
        BY <2>1, <3>2
      <4> QED
        BY <3>3, <4>1, <4>2 DEF OutputOpen
    <3>5. OutputFramed'
      <4> SUFFICES ASSUME NEW i \in 1 .. Len(out) + 1
                   PROVE  IF i % 2 = 1 THEN out'[i].part = "header"
                          ELSE out'[i].part = "data" /\ out'[i].of = out'[i - 1].of
        BY <3>2 DEF OutputFramed
      <4>1. CASE i \in 1 .. Len(out)
        <5>1. i % 2 # 1 => i - 1 \in 1 .. Len(out)
          BY <1>0, <4>1
        <5> QED
          BY <1>0, <3>2, <4>1, <5>1 DEF OutputFramed
      <4>2. CASE i = Len(out) + 1
        BY <3>2, <3>3, <4>2
      <4> QED
        BY <1>0, <4>1, <4>2
    <3> QED
      BY <2>3, <3>4, <3>5
  <2> QED
    BY <2>4, <2>5
<1>4. CASE SendData(u)
  <2> DEFINE p == [part |-> "data", of |-> job[u]]
  <2>1. /\ tpc[u] = "data" /\ tpc'[u] = "idle" /\ tmutex' = Nobody
        /\ \A t \in Thread \ {u} : tpc'[t] = tpc[t]
        /\ out' = IF peer = "open" THEN Append(out, p) ELSE out
        /\ UNCHANGED <<job, headerOut>>
    BY <1>0, <1>4 DEF SendData, Send
  <2>2. \A t \in Thread \ {u} : tpc[t] \notin {"header", "send", "data"}
    BY <2>1 DEF MutexOK
  <2>3. MutexOK' /\ \A t \in Thread : tpc'[t] # "data"
    BY <2>1, <2>2 DEF MutexOK
  <2>4. CASE peer # "open"
    BY <1>0, <2>1, <2>3, <2>4 DEF OutputOpen, OutputFramed
  <2>5. CASE peer = "open"
    <3>1. Len(out) % 2 = 1 /\ out[Len(out)].of = job[u]
      BY <2>1, <2>5 DEF OutputOpen
    <3>2. /\ Len(out') = Len(out) + 1 /\ out'[Len(out) + 1] = p
          /\ \A i \in 1 .. Len(out) : out'[i] = out[i]
          /\ DOMAIN out' = 1 .. Len(out) + 1
      BY <2>1, <2>5, AppendType DEF SendTypes
    <3>3. Len(out') % 2 # 1 /\ Len(out) \in 1 .. Len(out)
      BY <1>0, <3>1, <3>2
    <3>4. OutputOpen'
      BY <2>3, <3>3 DEF OutputOpen
    <3>5. OutputFramed'
      <4> SUFFICES ASSUME NEW i \in 1 .. Len(out) + 1
                   PROVE  IF i % 2 = 1 THEN out'[i].part = "header"
                          ELSE out'[i].part = "data" /\ out'[i].of = out'[i - 1].of
        BY <3>2 DEF OutputFramed
      <4>1. CASE i \in 1 .. Len(out)
        <5>1. i % 2 # 1 => i - 1 \in 1 .. Len(out)
          BY <1>0, <4>1
        <5> QED
          BY <1>0, <3>2, <4>1, <5>1 DEF OutputFramed
      <4>2. CASE i = Len(out) + 1
        <5>1. i % 2 # 1 /\ i - 1 = Len(out)
          BY <1>0, <3>2, <3>3, <4>2
        <5> QED
          BY <3>1, <3>2, <3>3, <4>2, <5>1
      <4> QED
        BY <1>0, <4>1, <4>2
    <3> QED
      BY <2>3, <3>4, <3>5
  <2> QED
    BY <2>4, <2>5
<1> QED
  BY <1>1, <1>2, <1>3, <1>4 DEF Transmit

(* Every step of the ComPoint keeps the output framed.                     *)
LEMMA FramedStep ==
  ASSUME IInvL, CPTypes, MutexOK, OutputOpen, OutputFramed, [Next]_cpVars
  PROVE  MutexOK' /\ OutputOpen' /\ OutputFramed'
<1>0. SendTypes
  BY DEF CPTypes
<1>1. CASE PeerMoves \/ ListenerLocal \/ QueueMessage \/ SignalWorker \/ Answered
  <2>1. UNCHANGED <<tpc, job, tmutex, headerOut, out>>
    BY <1>1 DEF PeerMoves, ListenerLocal, QueueMessage, SignalWorker, Answered,
                sendVars
  <2>2. peer' = "open" => peer = "open"
    BY <1>1 DEF PeerMoves, Peer, PeerStart, PeerWrite, PeerLeave, ListenerLocal,
                QueueMessage, SignalWorker, Answered, Push, Kill, Reply, Recv,
                RecvEnd, Decode, ReadHeader, NeedHeader, BufferEmpty, Wait,
                SelectTick, SelectReady, SelectTimeout, SelectFails, RecvMore, RecvMoreEof,
                RecvMoreError, peerVars
  <2> QED
    BY <2>1, <2>2, SendKept
<1>2. CASE AnswerRefused
  <2>1. PICK c : Call("listener", c)
    BY <1>2 DEF AnswerRefused
  <2>2. peer' = peer /\ out' = out
    BY <1>2 DEF AnswerRefused, RefuseHeader, peerVars, Call
  <2> QED
    BY <1>0, <2>1, <2>2, CallMutex DEF Thread, OutputFramed
<1>3. CASE UserCall
  <2>1. PICK c : Call("user", c)
    BY <1>3 DEF UserCall
  <2>2. peer' = peer /\ out' = out
    BY <1>3 DEF UserCall, lVars, peerVars, Call
  <2> QED
    BY <1>0, <2>1, <2>2, CallMutex DEF Thread, OutputFramed
<1>4. CASE ProcessReply
  <2>1. PICK c : Call("worker", c)
    BY <1>4 DEF ProcessReply
  <2>2. peer' = peer /\ out' = out
    BY <1>4 DEF ProcessReply, lVars, peerVars, Call
  <2> QED
    BY <1>0, <2>1, <2>2, CallMutex DEF Thread, OutputFramed
<1>5. CASE TakeMessage \/ ProcessSilent \/ Transmitted \/ UNCHANGED cpVars
  <2>1. UNCHANGED <<tpc, job, tmutex, headerOut, out, peer>>
    BY <1>5 DEF TakeMessage, SigWait, CheckQueue, Back, Pop, ProcessSilent,
                Transmitted, cpVars, sendVars, lVars, peerVars
  <2> QED
    BY <2>1, SendKept
<1>6. ASSUME NEW t \in Thread, Transmit(t)
      PROVE  MutexOK' /\ OutputOpen' /\ OutputFramed'
  BY <1>0, <1>6, TransmitFramed
<1> QED
  BY <1>1, <1>2, <1>3, <1>4, <1>5, <1>6
  DEF Next, ListenerThread, Worker, User, Process, Thread

-----------------------------------------------------------------------------
Answer(i) == out[i].part = "data" /\ out[i].of.from = "worker"

(* Answers carry the place of a processed message, and the one being sent  *)
(* answers a later message than all that were sent.                        *)
AnswersOK ==
  /\ \A t \in Thread : tpc[t] # "idle" => job[t].from = t
  /\ \A i \in DOMAIN out :
       Answer(i) => \E k \in DOMAIN processed : processed[k].pos = out[i].of.n
  /\ tpc["worker"] # "idle" =>
       /\ \E k \in DOMAIN processed : processed[k].pos = job["worker"].n
       /\ \A i \in DOMAIN out : Answer(i) => out[i].of.n < job["worker"].n

(* The message in the worker's hand lies behind all it processed.          *)
LEMMA InputLater ==
  ASSUME IInvL, CPTypes, Conservation, wpc = "process"
  PROVE  \A k \in DOMAIN processed : processed[k].pos < input.pos
<1> SUFFICES ASSUME NEW k \in DOMAIN processed
             PROVE  processed[k].pos < input.pos
  OBVIOUS
<1>1. /\ processed \in Seq(Message) /\ input \in Message
      /\ Reverse(queue) \in Seq(Message) /\ delivered \in Seq(Message)
  BY ReverseType DEF CPTypes, IInvL, TypeOKL
<1>2. processed \o <<input>> \o Reverse(queue) = delivered
  BY DEF Conservation, InHand
<1> DEFINE n == Len(processed)
<1>3. n \in Nat /\ k \in 1 .. n
  BY <1>1
<1>4. /\ delivered[k] = processed[k] /\ delivered[n + 1] = input
      /\ k \in DOMAIN delivered /\ n + 1 \in DOMAIN delivered
  <2> DEFINE taken == processed \o <<input>>
  <2>1. /\ taken \in Seq(Message) /\ Len(taken) = n + 1
        /\ taken[k] = processed[k] /\ taken[n + 1] = input
    BY <1>1, <1>3
  <2>2. taken \o Reverse(queue) = delivered
    BY <1>2
  <2>3. n + 1 \in Nat /\ k \in 1 .. n + 1 /\ n + 1 \in 1 .. n + 1
    BY <1>3
  <2> HIDE DEF taken, n
  <2>4. \A i \in 1 .. n + 1 : i \in DOMAIN delivered /\ delivered[i] = taken[i]
    BY <1>1, <2>1, <2>2, <2>3
  <2> QED
    BY <2>1, <2>3, <2>4
<1>5. EndOf(delivered[k]) <= delivered[n + 1].pos
  BY <1>3, <1>4 DEF IInvL, InOrder
<1>6. /\ delivered[k].pos \in Nat /\ delivered[k].len \in Nat
      /\ delivered[n + 1].pos \in Nat
  <2>1. delivered[k] \in Message /\ delivered[n + 1] \in Message
    <3> HIDE DEF n
    <3> QED
      BY <1>1, <1>4, ElementAt
  <2> QED
    BY <2>1 DEF Message
<1> QED
  BY <1>4, <1>5, <1>6, ListenerAssumption DEF EndOf

(* What is appended to the output keeps the order of the answers.          *)
LEMMA AnswersAppended ==
  ASSUME CPTypes, AnswersOK, AnswersInOrder,
         NEW p \in [part : {"header", "data"}, of : Content], out' = Append(out, p),
         processed' = processed,
         (p.part = "data" /\ p.of.from = "worker") =>
           /\ \E k \in DOMAIN processed : processed[k].pos = p.of.n
           /\ \A i \in DOMAIN out : Answer(i) => out[i].of.n < p.of.n
  PROVE  /\ AnswersInOrder'
         /\ \A i \in DOMAIN out' :
              Answer(i)' => \E k \in DOMAIN processed' : processed'[k].pos = out'[i].of.n
<1>1. /\ Len(out) \in Nat /\ DOMAIN out = 1 .. Len(out)
      /\ DOMAIN out' = 1 .. Len(out) + 1 /\ out'[Len(out) + 1] = p
      /\ \A i \in 1 .. Len(out) : out'[i] = out[i]
  BY DEF CPTypes, SendTypes
<1>2. \A i \in 1 .. Len(out) + 1 : i \in 1 .. Len(out) \/ i = Len(out) + 1
  BY <1>1
<1>3. AnswersInOrder'
  <2> SUFFICES ASSUME NEW i \in 1 .. Len(out) + 1, NEW j \in 1 .. Len(out) + 1,
                      i < j, Answer(i)', Answer(j)'
               PROVE  out'[i].of.n < out'[j].of.n
    BY <1>1 DEF AnswersInOrder, Answer
  <2>1. i \in 1 .. Len(out)
    BY <1>1
  <2>2. CASE j \in 1 .. Len(out)
    BY <1>1, <2>1, <2>2 DEF AnswersInOrder, Answer
  <2>3. CASE j = Len(out) + 1
    BY <1>1, <2>1, <2>3 DEF Answer
  <2> QED
    BY <1>2, <2>2, <2>3
<1>4. ASSUME NEW i \in 1 .. Len(out) + 1, Answer(i)'
      PROVE  \E k \in DOMAIN processed : processed[k].pos = out'[i].of.n
  <2>1. CASE i \in 1 .. Len(out)
    BY <1>1, <1>4, <2>1 DEF AnswersOK, Answer
  <2>2. CASE i = Len(out) + 1
    BY <1>1, <1>4, <2>2 DEF Answer
  <2> QED
    BY <1>2, <2>1, <2>2
<1> QED
  BY <1>1, <1>3, <1>4

(* transmit() keeps the order of the answers.                              *)
LEMMA TransmitAnswers ==
  ASSUME CPTypes, AnswersOK, AnswersInOrder, NEW u \in Thread, Transmit(u)
  PROVE  AnswersOK' /\ AnswersInOrder'
<1>0. /\ processed' = processed
      /\ job' = job
      /\ \A t \in Thread \ {u} : tpc'[t] = tpc[t]
      /\ tpc[u] # "idle"
      /\ "worker" \in Thread
  BY DEF Transmit, workerVars, Lock, MakeHeader, LogThrows, SendHeader, SendData,
         CPTypes, SendTypes, Thread
<1>1. CASE out' = out
  BY <1>0, <1>1 DEF AnswersOK, AnswersInOrder, Answer
<1>2. CASE SendHeader(u) /\ peer = "open"
  <2> DEFINE p == [part |-> "header", of |-> headerOut]
  <2>1. out' = Append(out, p) /\ p \in [part : {"header", "data"}, of : Content]
    BY <1>2 DEF SendHeader, Send, CPTypes, SendTypes
  <2>2. /\ AnswersInOrder'
        /\ \A i \in DOMAIN out' :
             Answer(i)' => \E k \in DOMAIN processed' : processed'[k].pos = out'[i].of.n
    BY <1>0, <2>1, AnswersAppended
  <2>3. \A i \in DOMAIN out' : Answer(i)' => i \in DOMAIN out /\ out'[i] = out[i]
    BY <2>1 DEF CPTypes, SendTypes, Answer
  <2>4. tpc["worker"] # "idle" =>
          \A i \in DOMAIN out' : Answer(i)' => out'[i].of.n < job'["worker"].n
    BY <1>0, <2>3 DEF AnswersOK, Answer
  <2> QED
    BY <1>0, <2>2, <2>4 DEF AnswersOK
<1>3. CASE SendData(u) /\ peer = "open"
  <2> DEFINE p == [part |-> "data", of |-> job[u]]
  <2>1. /\ out' = Append(out, p) /\ p \in [part : {"header", "data"}, of : Content]
        /\ p.of.from = u /\ tpc'[u] = "idle"
    BY <1>0, <1>3 DEF SendData, Send, CPTypes, SendTypes, AnswersOK
  <2>2. p.of.from = "worker" =>
          /\ \E k \in DOMAIN processed : processed[k].pos = p.of.n
          /\ \A i \in DOMAIN out : Answer(i) => out[i].of.n < p.of.n
    BY <1>0, <2>1 DEF AnswersOK
  <2>3. /\ AnswersInOrder'
        /\ \A i \in DOMAIN out' :
             Answer(i)' => \E k \in DOMAIN processed' : processed'[k].pos = out'[i].of.n
    BY <1>0, <2>1, <2>2, AnswersAppended
  <2>4. u # "worker" =>
          \A i \in DOMAIN out' : Answer(i)' => i \in DOMAIN out /\ out'[i] = out[i]
    BY <2>1 DEF CPTypes, SendTypes, Answer
  <2>5. tpc'["worker"] # "idle" =>
          \A i \in DOMAIN out' : Answer(i)' => out'[i].of.n < job'["worker"].n
    BY <1>0, <2>1, <2>4 DEF AnswersOK, Answer
  <2> QED
    BY <1>0, <2>1, <2>3, <2>5 DEF AnswersOK
<1>4. CASE Lock(u) \/ MakeHeader(u) \/ LogThrows(u)
  BY <1>1, <1>4 DEF Lock, MakeHeader, LogThrows
<1>5. CASE (SendHeader(u) \/ SendData(u)) /\ peer # "open"
  BY <1>1, <1>5 DEF SendHeader, SendData, Send
<1> QED
  BY <1>2, <1>3, <1>4, <1>5 DEF Transmit

(* Every step of the ComPoint keeps the order of the answers.              *)
LEMMA AnswersStep ==
  ASSUME IInvL, CPTypes, Conservation, AnswersOK, AnswersInOrder, [Next]_cpVars
  PROVE  AnswersOK' /\ AnswersInOrder'
<1>0. {"listener", "worker", "user"} = Thread /\ processed \in Seq(Message)
  BY DEF Thread, CPTypes, SendTypes
<1>1. CASE PeerMoves \/ ListenerLocal \/ QueueMessage \/ SignalWorker \/ Answered
           \/ TakeMessage \/ Transmitted \/ UNCHANGED cpVars
  <2>1. UNCHANGED <<tpc, job, out, processed>>
    BY <1>1 DEF PeerMoves, ListenerLocal, QueueMessage, SignalWorker, Answered,
                TakeMessage, SigWait, CheckQueue, Back, Pop, Transmitted, cpVars,
                sendVars, workerVars
  <2> QED
    BY <2>1 DEF AnswersOK, AnswersInOrder, Answer
<1>2. CASE AnswerRefused
  <2>1. PICK c : Call("listener", c) /\ c.from = "listener"
    BY <1>2 DEF AnswerRefused
  <2>2. processed' = processed
    BY <1>2 DEF AnswerRefused, workerVars
  <2> QED
    BY <1>0, <2>1, <2>2 DEF Call, CPTypes, SendTypes, AnswersOK, AnswersInOrder, Answer
<1>3. CASE UserCall
  <2>1. PICK c : Call("user", c) /\ c.from = "user"
    BY <1>3 DEF UserCall
  <2>2. processed' = processed
    BY <1>3 DEF UserCall, workerVars
  <2> QED
    BY <1>0, <2>1, <2>2 DEF Call, CPTypes, SendTypes, AnswersOK, AnswersInOrder, Answer
<1>4. CASE Process
  <2>1. /\ wpc = "process" /\ processed' = Append(processed, input)
        /\ input \in Message /\ out' = out
    BY <1>4 DEF Process, ProcessSilent, ProcessReply, Call, CPTypes, SendTypes, sendVars
  <2>2. /\ \A k \in DOMAIN processed :
             k \in DOMAIN processed' /\ processed'[k] = processed[k]
        /\ Len(processed) + 1 \in DOMAIN processed'
        /\ processed'[Len(processed) + 1] = input
    BY <1>0, <2>1
  <2>3. /\ AnswersInOrder'
        /\ \A i \in DOMAIN out' :
             Answer(i)' => \E k \in DOMAIN processed' : processed'[k].pos = out'[i].of.n
    BY <2>1, <2>2 DEF AnswersOK, AnswersInOrder, Answer
  <2>4. CASE ProcessSilent
    BY <2>1, <2>2, <2>3, <2>4 DEF ProcessSilent, sendVars, AnswersOK, Answer
  <2>5. CASE ProcessReply
    <3>1. PICK c : /\ Call("worker", c) /\ c.from = "worker" /\ c.n = input.pos
      BY <2>5 DEF ProcessReply
    <3>2. /\ job'["worker"] = c
          /\ \A t \in Thread \ {"worker"} : tpc'[t] = tpc[t] /\ job'[t] = job[t]
      BY <1>0, <3>1 DEF Call, CPTypes, SendTypes
    <3>3. \A i \in DOMAIN out : Answer(i) => out[i].of.n < input.pos
      BY <2>1, InputLater DEF AnswersOK
    <3> QED
      BY <2>1, <2>2, <2>3, <3>1, <3>2, <3>3 DEF AnswersOK, Answer
  <2> QED
    BY <1>4, <2>4, <2>5 DEF Process
<1>5. ASSUME NEW t \in Thread, Transmit(t) PROVE AnswersOK' /\ AnswersInOrder'
  BY <1>5, TransmitAnswers
<1> QED
  BY <1>0, <1>1, <1>2, <1>3, <1>4, <1>5
  DEF Next, ListenerThread, Worker, User

-----------------------------------------------------------------------------
(* The inductive invariant of the ComPoint.                                *)
IInv ==
  /\ IInvL /\ CPTypes
  /\ QueueOK /\ Conservation /\ NoLostWakeup
  /\ MutexOK /\ OutputOpen /\ OutputFramed
  /\ AnswersOK /\ AnswersInOrder

(* It holds at the start...                                                *)
LEMMA ComPointInit == Init => IInv
<1> SUFFICES ASSUME Init PROVE IInv
  OBVIOUS
<1>1. IInvL
  BY ListenerInit DEF Init
<1>2. CPTypes
  <2>1. Nothing \in Content /\ NoInput \in Message /\ 0 \in 0 .. MaxUserSends
    BY ComPointAssumption DEF Nothing, Content, Thread, NoInput, Message
  <2>2. /\ <<>> \in Seq(Message)
        /\ <<>> \in Seq([part : {"header", "data"}, of : Content])
    OBVIOUS
  <2> QED
    BY <2>1, <2>2 DEF Init, CPTypes, SendTypes
<1>3. QueueOK /\ NoLostWakeup
  BY DEF Init, QueueOK, NoLostWakeup
<1>4. Conservation
  <2>1. delivered = <<>> /\ queue = <<>> /\ processed = <<>> /\ InHand = <<>>
    BY DEF Init, InitL, InHand
  <2>2. Reverse(<<>>) = <<>>
    BY DEF Reverse
  <2> QED
    BY <2>1, <2>2 DEF Conservation
<1>5. MutexOK /\ OutputOpen /\ OutputFramed
  BY DEF Init, MutexOK, OutputOpen, OutputFramed
<1>6. AnswersOK /\ AnswersInOrder
  BY DEF Init, AnswersOK, AnswersInOrder, Thread
<1> QED
  BY <1>1, <1>2, <1>3, <1>4, <1>5, <1>6 DEF IInv

(* ...and every step keeps it.                                             *)
LEMMA ComPointNext == IInv /\ [Next]_cpVars => IInv'
<1> SUFFICES ASSUME IInv, [Next]_cpVars PROVE IInv'
  OBVIOUS
<1>1. IInvL'
  BY ListenerMoves, ListenerNext DEF IInv
<1> QED
  BY <1>1, CPTypeStep, QueueOKStep, ConservationStep, WakeupStep, FramedStep,
     AnswersStep
  DEF IInv

(* The inductive invariant holds in every reachable state.                 *)
THEOREM ComPointInvariant == Spec => []IInv
BY ComPointInit, ComPointNext, PTL DEF Spec

(* The variables of listener, worker, queue and transmit() keep their      *)
(* types; nothing is read from an empty receiveQueue.                      *)
THEOREM ComPointTypes == Spec => []TypeOK
<1>1. IInv => TypeOK
  BY DEF IInv, IInvL, CPTypes, SendTypes, TypeOK
<1> QED
  BY <1>1, ComPointInvariant, PTL

(* No message is lost, doubled or reordered between push_front() and       *)
(* processMsg(), although size(), back() and pop_back() are three steps.   *)
THEOREM ComPointConservation == Spec => []Conservation
<1>1. IInv => Conservation
  BY DEF IInv
<1> QED
  BY <1>1, ComPointInvariant, PTL

(* The worker does not sleep in sigwait() beside a queued message without  *)
(* a SIGUSR1 pending or about to be raised.                                *)
THEOREM ComPointNoLostWakeup == Spec => []NoLostWakeup
<1>1. IInv => NoLostWakeup
  BY DEF IInv
<1> QED
  BY <1>1, ComPointInvariant, PTL

(* The frames of worker, listener and user threads do not mix, even when   *)
(* log() throws between lock and unlock of tmutex.                         *)
THEOREM ComPointOutputFramed == Spec => []OutputFramed
<1>1. IInv => OutputFramed
  BY DEF IInv
<1> QED
  BY <1>1, ComPointInvariant, PTL

(* The worker's answers leave in the order of the messages they answer.    *)
THEOREM ComPointAnswersInOrder == Spec => []AnswersInOrder
<1>1. IInv => AnswersInOrder
  BY DEF IInv
<1> QED
  BY <1>1, ComPointInvariant, PTL

-----------------------------------------------------------------------------
(* The ComPoint implements the safety of MsgChannel.                       *)
Sent == [i \in Arrived |-> [pos |-> frames[i].pos, len |-> frames[i].len]]

(* A set of naturals that is not empty has a least member.                 *)
LEMMA LeastNatural == ASSUME NEW T \in SUBSET Nat, T # {}
                      PROVE  \E x \in T : \A y \in T : x <= y
<1>1. PICK x \in T : \A y \in T : ~ (<<y, x>> \in OpToRel(<, Nat))
  BY NatLessThanWellFounded, WFMin
<1>2. \A y \in T : ~ (y < x)
  BY <1>1 DEF OpToRel
<1> QED
  BY <1>2

(* The frames that have arrived are the first ones of the stream.          *)
LEMMA ArrivedFirst == ASSUME TypeOKL, StreamOK
                      PROVE  \E n \in 0 .. Len(frames) : Arrived = 1 .. n
<1>1. /\ Len(frames) \in Nat /\ DOMAIN frames = 1 .. Len(frames)
      /\ Arrived \subseteq 1 .. Len(frames)
      /\ wire \in Nat
  BY DEF TypeOKL, Arrived
<1> DEFINE missing == {i \in 1 .. Len(frames) + 1 : i \notin Arrived}
<1>2. missing \in SUBSET Nat /\ missing # {}
  <2>1. Len(frames) + 1 \in missing
    BY <1>1
  <2> QED
    BY <2>1
<1>3. PICK m \in missing : \A i \in missing : m <= i
  <2> HIDE DEF missing
  <2> QED
    BY <1>2, LeastNatural
<1>4. /\ m \in 1 .. Len(frames) + 1 /\ m \notin Arrived
      /\ \A i \in 1 .. Len(frames) + 1 : i \notin Arrived => m <= i
  BY <1>3
<1> HIDE DEF missing
<1>5. \A i \in 1 .. m - 1 : i \in Arrived
  <2> TAKE i \in 1 .. m - 1
  <2>1. i \in 1 .. Len(frames) + 1 /\ ~ (m <= i)
    BY <1>1, <1>4
  <2> QED
    BY <1>4, <2>1
<1>6. \A i \in Arrived : i \in 1 .. m - 1
  <2> SUFFICES ASSUME NEW i \in Arrived, i \notin 1 .. m - 1
               PROVE  FALSE
    OBVIOUS
  <2>1. i \in 1 .. Len(frames) /\ m \in 1 .. Len(frames) /\ m < i
    BY <1>1, <1>4
  <2>2. EndOf(frames[m]) <= frames[i].pos /\ EndOf(frames[i]) <= wire
    BY <1>1, <2>1 DEF StreamOK, Arrived
  <2>3. /\ frames[m].pos \in Nat /\ frames[m].len \in Nat
        /\ frames[i].pos \in Nat /\ frames[i].len \in Nat
    BY <1>1, <2>1, FrameAt DEF Frame
  <2>4. EndOf(frames[m]) <= wire
    <3>1. /\ EndOf(frames[m]) \in Nat /\ EndOf(frames[i]) \in Nat
          /\ frames[i].pos <= EndOf(frames[i])
      BY <2>3, ListenerAssumption DEF EndOf
    <3>2. wire \in Nat
      BY <1>1
    <3> QED
      BY <2>2, <2>3, <3>1, <3>2
  <2> QED
    BY <1>1, <1>4, <2>1, <2>4 DEF Arrived
<1>7. m - 1 \in 0 .. Len(frames)
  BY <1>1, <1>4
<1>8. Arrived = 1 .. m - 1
  BY <1>5, <1>6
<1> QED
  BY <1>7, <1>8

(* What has arrived is a sequence of messages.                             *)
SentOK == Sent \in Seq(Message) /\ Arrived = 1 .. Len(Sent)

(* It is one in every state of the stream.                                 *)
LEMMA SentType == ASSUME TypeOKL, StreamOK PROVE SentOK
<1>1. PICK n \in 0 .. Len(frames) : Arrived = 1 .. n
  BY ArrivedFirst
<1>2. \A i \in 1 .. n : [pos |-> frames[i].pos, len |-> frames[i].len] \in Message
  <2> TAKE i \in 1 .. n
  <2>1. i \in DOMAIN frames
    BY <1>1 DEF Arrived
  <2> QED
    BY <2>1, FrameAt DEF Frame, Message
<1>3. n \in Nat
  BY DEF TypeOKL
<1>4. Sent = [i \in 1 .. n |-> [pos |-> frames[i].pos, len |-> frames[i].len]]
  BY <1>1 DEF Sent
<1>5. Sent \in Seq(Message) /\ Len(Sent) = n
  BY <1>2, <1>3, <1>4
<1> QED
  BY <1>1, <1>5 DEF SentOK

(* Only a write of the peer adds to what has arrived, at its end.          *)
LEMMA SentGrows ==
  ASSUME IInvL, SentOK, SentOK', [NextL]_lVars
  PROVE  /\ Len(Sent) <= Len(Sent')
         /\ \A i \in 1 .. Len(Sent) : Sent'[i] = Sent[i]
         /\ ~PeerWrite => Sent' = Sent
<1>1. /\ Sent \in Seq(Message) /\ Arrived = 1 .. Len(Sent) /\ Len(Sent) \in Nat
      /\ Sent' \in Seq(Message) /\ Arrived' = 1 .. Len(Sent') /\ Len(Sent') \in Nat
  BY DEF SentOK
<1>2. \A i \in Arrived : i \in Arrived' /\ frames'[i] = frames[i]
  <2> TAKE i \in Arrived
  <2>1. i \in DOMAIN frames /\ EndOf(frames[i]) <= wire
    BY DEF Arrived
  <2>2. i \in DOMAIN frames' /\ frames'[i] = frames[i]
    BY <2>1, FramesKept DEF IInvL
  <2>3. wire <= wire' /\ wire \in Nat /\ wire' \in Nat
    <3>1. CASE PeerWrite
      BY <3>1 DEF PeerWrite, IInvL, TypeOKL
    <3>2. CASE UNCHANGED wire
      BY <3>2 DEF IInvL, TypeOKL
    <3> QED
      BY <3>1, <3>2, StreamKept
      DEF NextL, Peer, PeerStart, PeerLeave, lVars, peerVars
  <2>4. EndOf(frames[i]) \in Nat
    BY <2>1, FrameAt, ListenerAssumption DEF IInvL, Frame, EndOf
  <2>5. EndOf(frames'[i]) <= wire'
    BY <2>1, <2>2, <2>3, <2>4 DEF EndOf
  <2> QED
    BY <2>2, <2>5 DEF Arrived
<1>3. \A i \in 1 .. Len(Sent) : i \in 1 .. Len(Sent') /\ Sent'[i] = Sent[i]
  BY <1>1, <1>2 DEF Sent
<1>4. Len(Sent) <= Len(Sent')
  <2>1. CASE Len(Sent) = 0
    BY <1>1, <2>1
  <2>2. CASE Len(Sent) # 0
    <3>1. Len(Sent) \in 1 .. Len(Sent)
      BY <1>1, <2>2
    <3> QED
      BY <1>1, <1>3, <3>1
  <2> QED
    BY <2>1, <2>2
<1>5. ASSUME ~PeerWrite PROVE Sent' = Sent
  <2>1. ASSUME NEW len \in Lens, NEW ok \in {TRUE, ~MayCorrupt}, PeerStart(len, ok)
        PROVE  Arrived' \subseteq Arrived
    <3>1. /\ Len(frames') = Len(frames) + 1 /\ Len(frames) \in Nat /\ wire' = wire
          /\ frames'[Len(frames) + 1] = [pos |-> sentEnd, len |-> len, ok |-> ok]
          /\ \A i \in 1 .. Len(frames) : frames'[i] = frames[i]
          /\ DOMAIN frames' = 1 .. Len(frames) + 1
      BY <2>1 DEF PeerStart, IInvL, TypeOKL
    <3>2. EndOf(frames'[Len(frames) + 1]) > wire'
      BY <3>1, ListenerAssumption DEF EndOf, IInvL, StreamOK, TypeOKL
    <3> SUFFICES ASSUME NEW i \in Arrived' PROVE i \in Arrived
      OBVIOUS
    <3>3. i \in 1 .. Len(frames) + 1 /\ EndOf(frames'[i]) <= wire'
      BY <3>1 DEF Arrived
    <3>4. i # Len(frames) + 1
      <4>1. EndOf(frames'[Len(frames) + 1]) \in Int /\ wire' \in Int
        BY <3>1, ListenerAssumption DEF EndOf, IInvL, TypeOKL
      <4> QED
        BY <3>2, <3>3, <4>1
    <3>5. i \in 1 .. Len(frames)
      BY <3>1, <3>3, <3>4
    <3> QED
      BY <3>1, <3>3, <3>5 DEF Arrived, EndOf, IInvL, TypeOKL
  <2>2. CASE UNCHANGED <<frames, wire>>
    BY <2>2 DEF Sent, Arrived
  <2>3. ASSUME Arrived' \subseteq Arrived PROVE Sent' = Sent
    <3>1. Arrived' = Arrived
      BY <1>2, <2>3
    <3> QED
      BY <1>2, <3>1 DEF Sent
  <2> QED
    BY <1>5, <2>1, <2>2, <2>3, StreamKept
    DEF NextL, Peer, PeerLeave, lVars, peerVars
<1> QED
  BY <1>3, <1>4, <1>5

(* What is delivered has arrived, so until a drop the next message to be   *)
(* handled is the next that was sent.                                      *)
LEMMA InputIsNext ==
  ASSUME IInvL, CPTypes, Conservation, SentOK, wpc = "process", ~dropped
  PROVE  Len(processed) < Len(Sent) /\ input = Sent[Len(processed) + 1]
<1>1. /\ processed \in Seq(Message) /\ input \in Message
      /\ Reverse(queue) \in Seq(Message) /\ delivered \in Seq(Message)
  BY ReverseType DEF CPTypes, IInvL, TypeOKL
<1> DEFINE n == Len(processed)
           taken == processed \o <<input>>
<1>2. n \in Nat /\ taken \in Seq(Message) /\ Len(taken) = n + 1 /\ taken[n + 1] = input
  BY <1>1
<1>3. taken \o Reverse(queue) = delivered
  BY DEF Conservation, InHand
<1> HIDE DEF taken, n
<1>4. n + 1 \in DOMAIN delivered /\ delivered[n + 1] = input
  <2>1. \A i \in 1 .. n + 1 : i \in DOMAIN delivered /\ delivered[i] = taken[i]
    BY <1>1, <1>2, <1>3
  <2>2. n + 1 \in 1 .. n + 1
    BY <1>2
  <2> QED
    BY <1>2, <2>1, <2>2
<1>5. /\ n + 1 \in DOMAIN frames
      /\ input = [pos |-> frames[n + 1].pos, len |-> frames[n + 1].len]
  BY <1>1, <1>4 DEF IInvL, Framing, TypeOKL
<1>6. EndOf(frames[n + 1]) <= wire
  <2>1. EndOf(delivered[n + 1]) <= NextPos
    BY <1>4 DEF IInvL, Behind
  <2>2. NextPos <= rcvd /\ rcvd <= wire /\ rcvd \in Nat /\ wire \in Nat /\ NextPos \in Int
    BY ListenerAssumption
    DEF IInvL, TypeOKL, BufferOK, NextPos, EndOf, msg, start, Bad, NoHeader
  <2>3. EndOf(delivered[n + 1]) = EndOf(frames[n + 1])
    BY <1>4, <1>5 DEF EndOf
  <2>4. EndOf(delivered[n + 1]) \in Nat
    BY <1>1, <1>4, ListenerAssumption DEF Message, EndOf
  <2> QED
    BY <2>1, <2>2, <2>3, <2>4
<1>7. n + 1 \in Arrived
  BY <1>5, <1>6 DEF Arrived
<1> QED
  BY <1>2, <1>5, <1>7 DEF SentOK, Sent, n

(* Bytes once thrown away stay so.                                         *)
LEMMA CutForEver == ASSUME [NextL]_lVars, dropped \in BOOLEAN
                    PROVE  dropped' = dropped \/ (~dropped /\ dropped')
BY DEF NextL, Peer, PeerStart, PeerWrite, PeerLeave, ListenerStep, LocalStep,
       Decode, Wait, Recv, RecvEnd, ReadHeader, NeedHeader, BufferEmpty,
       RefuseHeader, DropBuffer, Push, Kill, Advance, Reply, SelectTick, SelectReady,
       SelectTimeout, SelectFails, RecvMore, RecvMoreEof, RecvMoreError, lVars,
       listenerVars

(* Every step of the ComPoint is one of the channel, or none.              *)
LEMMA ChannelStep ==
  ASSUME IInv, SentOK, SentOK', [Next]_cpVars
  PROVE  [Channel!Next]_(Channel!vars)
<1> USE DEF Channel!vars, Channel!Next
<1>0. /\ IInvL /\ CPTypes /\ Conservation /\ [NextL]_lVars /\ dropped \in BOOLEAN
      /\ Sent \in Seq(Message) /\ Sent' \in Seq(Message)
      /\ Len(Sent) \in Nat /\ Len(Sent') \in Nat
      /\ processed \in Seq(Message) /\ input \in Message
  BY ListenerMoves DEF IInv, IInvL, TypeOKL, CPTypes, SentOK
<1>1. /\ Len(Sent) <= Len(Sent')
      /\ \A i \in 1 .. Len(Sent) : Sent'[i] = Sent[i]
      /\ ~PeerWrite => Sent' = Sent
  BY <1>0, SentGrows
<1>2. CASE PeerMoves
  <2>1. UNCHANGED <<processed, dropped>>
    BY <1>2 DEF PeerMoves, Peer, PeerStart, PeerWrite, PeerLeave, workerVars,
                listenerVars
  <2>2. CASE Len(Sent') = Len(Sent)
    <3>1. Sent' = Sent
      BY <1>0, <1>1, <2>2
    <3> QED
      BY <2>1, <3>1 DEF Sent
  <2>3. CASE Len(Sent') > Len(Sent)
    <3>1. SubSeq(Sent', 1, Len(Sent)) = Sent
      BY <1>0, <1>1, <2>3
    <3> QED
      BY <2>1, <2>3, <3>1 DEF Sent, Channel!Send
  <2> QED
    BY <1>0, <1>1, <2>2, <2>3
<1>3. CASE Process
  <2>1. /\ wpc = "process" /\ processed' = Append(processed, input)
        /\ UNCHANGED lVars
    BY <1>3 DEF Process, ProcessSilent, ProcessReply
  <2>2. dropped' = dropped /\ Sent' = Sent
    BY <2>1 DEF lVars, listenerVars, peerVars, Sent, Arrived
  <2>3. CASE ~dropped
    <3>1. Len(processed) < Len(Sent) /\ input = Sent[Len(processed) + 1]
      BY <1>0, <2>1, <2>3, InputIsNext
    <3> QED
      BY <2>1, <2>2, <2>3, <3>1 DEF Sent, Channel!Handle
  <2>4. CASE dropped
    <3>1. /\ Len(processed') = Len(processed) + 1
          /\ SubSeq(processed', 1, Len(processed)) = processed
      BY <1>0, <2>1
    <3> QED
      BY <2>2, <2>4, <3>1 DEF Sent, Channel!HandleAfterCut
  <2> QED
    BY <2>3, <2>4
<1>4. CASE ListenerThread
  <2>1. processed' = processed
    BY <1>4 DEF ListenerThread, ListenerLocal, QueueMessage, SignalWorker,
                AnswerRefused, Answered, Transmit, workerVars
  <2>2. Sent' = Sent
    <3>1. UNCHANGED <<frames, wire>>
      BY <1>4, StreamKept
      DEF ListenerThread, ListenerLocal, QueueMessage, SignalWorker, AnswerRefused,
          Answered, Transmit, ListenerStep, LocalStep, lVars, peerVars
    <3> QED
      BY <3>1 DEF Sent, Arrived
  <2> QED
    BY <1>0, <2>1, <2>2, CutForEver DEF Sent, Channel!Cut
<1>5. CASE TakeMessage \/ Transmitted \/ Transmit("worker") \/ User \/ UNCHANGED cpVars
  <2>1. UNCHANGED <<processed, lVars>>
    BY <1>5 DEF TakeMessage, SigWait, CheckQueue, Back, Pop, Transmitted, Transmit,
                User, UserCall, cpVars, workerVars
  <2>2. dropped' = dropped /\ Sent' = Sent
    BY <2>1 DEF lVars, listenerVars, peerVars, Sent, Arrived
  <2> QED
    BY <2>1, <2>2 DEF Sent
<1> QED
  BY <1>2, <1>3, <1>4, <1>5 DEF Next, Worker

(* The ComPoint implements the channel it promises to be: the messages of  *)
(* the peer, each once and in order, until received bytes are dropped, and *)
(* what was handled stays (the safety part of ImplementsChannel).          *)
THEOREM ComPointImplementsChannel == Spec => Channel!Spec
<1>1. Init => Channel!Init
  <2> SUFFICES ASSUME Init PROVE Channel!Init
    OBVIOUS
  <2>1. Sent = <<>>
    <3>1. Arrived = {}
      BY DEF Init, InitL, Arrived
    <3> QED
      BY <3>1 DEF Sent
  <2> QED
    BY <2>1 DEF Init, InitL, Sent, Channel!Init
<1>2. IInv => SentOK
  BY SentType DEF IInv, IInvL
<1>3. IInv /\ SentOK /\ SentOK' /\ [Next]_cpVars => [Channel!Next]_(Channel!vars)
  BY ChannelStep
<1> QED
  BY <1>1, <1>2, <1>3, ComPointInvariant, PTL DEF Spec, Channel!Spec
=============================================================================
