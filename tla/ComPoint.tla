------------------------------ MODULE ComPoint ------------------------------
(***************************************************************************)
(* A ComPoint at work: the listener of module Listener, the worker         *)
(* (thread_work), the receive queue and the signals between them, and      *)
(* transmit(), which the worker, the listener and the threads that use the *)
(* ComPoint from outside call concurrently.                                *)
(*                                                                         *)
(* Each step is what a thread does between two points where another thread *)
(* can see it: one access to the queue, one system call, one mutex         *)
(* operation.  Message contents are reduced to their size.                 *)
(***************************************************************************)
EXTENDS Listener, SequencesExt

CONSTANTS OutLens,      \* sizes of what is transmitted
          Unloggable,   \* sizes for which LogUnit::log() throws out_of_range
          MaxUserSends  \* bound: calls of transmit() by threads of the user

ASSUME ComPointAssumption ==
  /\ OutLens \subseteq Nat
  /\ Unloggable \subseteq Nat
  /\ MaxUserSends \in Nat

VARIABLES
  queue,      \* receiveQueue, its front first
  signals,    \* the signals pending for the worker's thread
  wpc,        \* where the worker stands
  input,      \* the message it took from the queue
  tpc,        \* where each thread stands in transmit()
  job,        \* what each thread transmits
  tmutex,     \* the thread that holds tmutex
  headerOut,  \* the header in the buffer the threads share
  userSends,  \* calls of transmit() by the user so far
  (* history *)
  processed,  \* the messages processMsg() was called with
  out         \* what was written to the socket, a send() each

queueVars  == <<queue, signals>>
workerVars == <<wpc, input, processed>>
sendVars   == <<tpc, job, tmutex, headerOut, userSends, out>>
cpVars     == <<lVars, queueVars, workerVars, sendVars>>

Thread  == {"listener", "worker", "user"}
Nobody  == "nobody"
Content == [from : Thread, n : Nat, len : Nat]
Nothing == [from |-> "user", n |-> 0, len |-> 0]
NoInput == [pos |-> 0, len |-> 0]

ErrorLen == 0           \* the fixed JSON error; its log line never throws

Init ==
  /\ InitL
  /\ queue = <<>> /\ signals = {}
  /\ wpc = "sigwait" /\ input = NoInput /\ processed = <<>>
  /\ tpc = [t \in Thread |-> "idle"] /\ job = [t \in Thread |-> Nothing]
  /\ tmutex = Nobody /\ headerOut = Nothing /\ userSends = 0 /\ out = <<>>

-----------------------------------------------------------------------------
(***************************************************************************)
(* transmit() by thread t: lock tmutex, log, fill headerOut, send the      *)
(* header, send the data, unlock.                                          *)
(***************************************************************************)
Call(t, c) ==
  /\ tpc[t] = "idle"
  /\ tpc' = [tpc EXCEPT ![t] = "lock"]
  /\ job' = [job EXCEPT ![t] = c]
  /\ UNCHANGED <<tmutex, headerOut, out>>

(* Mutant of Lock: tmutex is taken whoever holds it.                       *)
LockAnyway(t) ==
  /\ tpc[t] = "lock"
  /\ tmutex' = t
  /\ tpc' = [tpc EXCEPT ![t] = "header"]
  /\ UNCHANGED <<job, headerOut, out, userSends>>

Lock(t) ==
  /\ tpc[t] = "lock"
  /\ tmutex = Nobody
  /\ tmutex' = t
  /\ tpc' = [tpc EXCEPT ![t] = "header"]
  /\ UNCHANGED <<job, headerOut, out, userSends>>

MakeHeader(t) ==
  /\ tpc[t] = "header"
  /\ t = "listener" \/ job[t].len \notin Unloggable
  /\ headerOut' = job[t]
  /\ tpc' = [tpc EXCEPT ![t] = "send"]
  /\ UNCHANGED <<job, tmutex, out, userSends>>

(* Mutant of LogThrows: the exception is swallowed before createHeader().  *)
LogSkipsHeader(t) ==
  /\ tpc[t] = "header"
  /\ t # "listener" /\ job[t].len \in Unloggable
  /\ tpc' = [tpc EXCEPT ![t] = "send"]
  /\ UNCHANGED <<job, tmutex, headerOut, out, userSends>>

(* log() throws between lock and unlock: the call ends, tmutex stays held. *)
LogThrows(t) ==
  /\ tpc[t] = "header"
  /\ t # "listener" /\ job[t].len \in Unloggable
  /\ tpc' = [tpc EXCEPT ![t] = "idle"]
  /\ UNCHANGED <<job, tmutex, headerOut, out, userSends>>

(* Nothing reaches a peer that has gone.  send() then raises SIGPIPE, whose *)
(* default action ends the process, or fails where the user ignores it.    *)
Send(part, c) ==
  out' = IF peer = "open" THEN Append(out, [part |-> part, of |-> c]) ELSE out

SendHeader(t) ==
  /\ tpc[t] = "send"
  /\ Send("header", headerOut)
  /\ tpc' = [tpc EXCEPT ![t] = "data"]
  /\ UNCHANGED <<job, tmutex, headerOut, userSends>>

(* Mutant of SendData: tmutex is not unlocked.                             *)
SendDataKeepsLock(t) ==
  /\ tpc[t] = "data"
  /\ Send("data", job[t])
  /\ tpc' = [tpc EXCEPT ![t] = "idle"]
  /\ UNCHANGED <<job, tmutex, headerOut, userSends>>

SendData(t) ==
  /\ tpc[t] = "data"
  /\ Send("data", job[t])
  /\ tmutex' = Nobody
  /\ tpc' = [tpc EXCEPT ![t] = "idle"]
  /\ UNCHANGED <<job, headerOut, userSends>>

Transmit(t) ==
  /\ Lock(t) \/ MakeHeader(t) \/ LogThrows(t) \/ SendHeader(t) \/ SendData(t)
  /\ UNCHANGED <<lVars, queueVars, workerVars>>

(* A thread of the user, RegClient::sendAnnounceMsg() for one, calls it.   *)
UserCall ==
  /\ userSends < MaxUserSends
  /\ \E len \in OutLens :
       Call("user", [from |-> "user", n |-> userSends + 1, len |-> len])
  /\ userSends' = userSends + 1
  /\ UNCHANGED <<lVars, queueVars, workerVars>>

-----------------------------------------------------------------------------
(***************************************************************************)
(* The listener's steps that touch the rest of the ComPoint.               *)
(***************************************************************************)
(* Mutant of PushFront: push_back().                                       *)
PushBack(m) == queue' = Append(queue, m)

PushFront(m) == queue' = <<m>> \o queue

QueueMessage ==
  /\ Push
  /\ PushFront(msg)
  /\ UNCHANGED <<signals, workerVars, sendVars>>

(* pthread_kill(worker_thread, SIGUSR1): a signal already pending is not   *)
(* queued a second time.                                                   *)
SignalWorker ==
  /\ Kill
  /\ signals' = signals \cup {"SIGUSR1"}
  /\ UNCHANGED <<queue, workerVars, sendVars>>

AnswerRefused ==
  /\ RefuseHeader
  /\ Call("listener", [from |-> "listener", n |-> start, len |-> ErrorLen])
  /\ UNCHANGED <<queueVars, workerVars, userSends>>

Answered ==
  /\ Reply
  /\ tpc["listener"] = "idle"
  /\ UNCHANGED <<queueVars, workerVars, sendVars>>

ListenerLocal ==
  /\ Recv \/ RecvEnd \/ Decode \/ Wait
  /\ UNCHANGED <<queueVars, workerVars, sendVars>>

PeerMoves == Peer /\ UNCHANGED <<queueVars, workerVars, sendVars>>

-----------------------------------------------------------------------------
(***************************************************************************)
(* The worker.                                                             *)
(***************************************************************************)
SigWait ==
  /\ wpc = "sigwait"
  /\ \E s \in signals :
       /\ signals' = signals \ {s}
       /\ wpc' = IF s = "SIGUSR1" THEN "check" ELSE "sigwait"
  /\ UNCHANGED <<lVars, queue, input, processed, sendVars>>

(* Mutant of CheckQueue: > 1 for > 0.                                      *)
CheckQueueForTwo ==
  /\ wpc = "check"
  /\ wpc' = IF Len(queue) < 2 THEN "sigwait" ELSE "back"
  /\ UNCHANGED <<lVars, queueVars, input, processed, sendVars>>

(* while(getReceiveQueueSize() > 0)                                        *)
CheckQueue ==
  /\ wpc = "check"
  /\ wpc' = IF queue = <<>> THEN "sigwait" ELSE "back"
  /\ UNCHANGED <<lVars, queueVars, input, processed, sendVars>>

(* Mutant of Back: front() for back().                                     *)
BackReadsFront ==
  /\ wpc = "back"
  /\ input' = Head(queue)
  /\ wpc' = IF input'.len \in Unloggable THEN "check" ELSE "pop"
  /\ UNCHANGED <<lVars, queueVars, processed, sendVars>>

(* receiveQueue.back(), without rQmutex, and log(): when it throws, the    *)
(* catch(...) clause goes back to the test with the message still queued.  *)
Back ==
  /\ wpc = "back"
  /\ input' = Last(queue)
  /\ wpc' = IF input'.len \in Unloggable THEN "check" ELSE "pop"
  /\ UNCHANGED <<lVars, queueVars, processed, sendVars>>

(* Mutant of Pop: pop_front() for pop_back().                              *)
PopFront ==
  /\ wpc = "pop"
  /\ queue' = Tail(queue)
  /\ wpc' = "process"
  /\ UNCHANGED <<lVars, signals, input, processed, sendVars>>

Pop ==
  /\ wpc = "pop"
  /\ queue' = Front(queue)
  /\ wpc' = "process"
  /\ UNCHANGED <<lVars, signals, input, processed, sendVars>>

(* Mutant of ProcessSilent: one message for each signal.                   *)
ProcessOne ==
  /\ wpc = "process"
  /\ processed' = Append(processed, input)
  /\ wpc' = "sigwait"
  /\ UNCHANGED <<lVars, queueVars, input, sendVars>>

(* processMsg() returns NULL or throws an Error, and the loop goes on...   *)
ProcessSilent ==
  /\ wpc = "process"
  /\ processed' = Append(processed, input)
  /\ wpc' = "check"
  /\ UNCHANGED <<lVars, queueVars, input, sendVars>>

(* ... or it returns an OutgoingMsg, which is transmitted.                 *)
ProcessReply ==
  /\ wpc = "process"
  /\ processed' = Append(processed, input)
  /\ \E len \in OutLens :
       Call("worker", [from |-> "worker", n |-> input.pos, len |-> len])
  /\ wpc' = "transmit"
  /\ UNCHANGED <<lVars, queueVars, input, userSends>>

(* transmit() returned or threw; both ways the loop goes on.               *)
Transmitted ==
  /\ wpc = "transmit"
  /\ tpc["worker"] = "idle"
  /\ wpc' = "check"
  /\ UNCHANGED <<lVars, queueVars, input, processed, sendVars>>

TakeMessage == SigWait \/ CheckQueue \/ Back \/ Pop
Process     == ProcessSilent \/ ProcessReply
Worker      == TakeMessage \/ Process \/ Transmitted \/ Transmit("worker")

ListenerThread ==
  ListenerLocal \/ QueueMessage \/ SignalWorker \/ AnswerRefused \/ Answered
    \/ Transmit("listener")

User == UserCall \/ Transmit("user")

Next == PeerMoves \/ ListenerThread \/ Worker \/ User

Spec == Init /\ [][Next]_cpVars

(* A thread in send() to a peer that is there, which may not be reading:   *)
(* the call blocks while the socket's buffer is full, tmutex held.         *)
MayHang(t) == tpc[t] \in {"send", "data"} /\ peer = "open"

(* The three threads are scheduled and processMsg() returns; a user that   *)
(* called transmit() goes on with it, but need not call it.  No send() is  *)
(* assumed to return before the peer has gone.                             *)
Fairness ==
  /\ WF_cpVars(ListenerThread /\ ~MayHang("listener"))
  /\ WF_cpVars(Worker /\ ~MayHang("worker"))
  /\ WF_cpVars(Transmit("user") /\ ~MayHang("user"))

FairSpec == Spec /\ Fairness

-----------------------------------------------------------------------------
TypeOK ==
  /\ TypeOKL
  /\ queue \in Seq(Message)
  /\ signals \subseteq {"SIGUSR1", "SIGUSR2"}
  /\ wpc \in {"sigwait", "check", "back", "pop", "process", "transmit"}
  /\ input \in Message
  /\ tpc \in [Thread -> {"idle", "lock", "header", "send", "data"}]
  /\ job \in [Thread -> Content]
  /\ tmutex \in Thread \cup {Nobody}
  /\ headerOut \in Content
  /\ userSends \in 0 .. MaxUserSends
  /\ processed \in Seq(Message)
  /\ out \in Seq([part : {"header", "data"}, of : Content])

(* Every message the listener delivered is processed, in the worker's hand *)
(* or queued, once and in the order of delivery: push_front with           *)
(* back()/pop_back() is a FIFO although back() is called without rQmutex   *)
(* and the size, the element and the pop are three separate steps.         *)
InHand == IF wpc = "process" THEN <<input>> ELSE <<>>

Conservation == processed \o InHand \o Reverse(queue) = delivered

(* The worker does not sleep beside a queued message: when it waits in     *)
(* sigwait() and the queue is not empty, a SIGUSR1 is pending or the       *)
(* listener is about to send one, although pending signals coalesce.       *)
NoLostWakeup ==
  (wpc = "sigwait" /\ queue # <<>>) => ("SIGUSR1" \in signals \/ lpc = "kill")

(* What the peer reads is a sequence of frames: each header is followed by *)
(* the data it was made for, whichever threads transmit at the same time   *)
(* (tmutex, and headerOut shared by all of them).                          *)
OutputFramed ==
  \A i \in DOMAIN out :
    IF i % 2 = 1 THEN out[i].part = "header"
                 ELSE out[i].part = "data" /\ out[i].of = out[i - 1].of

(* The answers leave in the order of the messages they answer, at most one *)
(* for each.                                                               *)
AnswersInOrder ==
  \A i, j \in DOMAIN out :
    (i < j /\ out[i].part = "data" /\ out[j].part = "data"
       /\ out[i].of.from = "worker" /\ out[j].of.from = "worker")
    => out[i].of.n < out[j].of.n

(* What stops a ComPoint for good: a send() that never returns, and a call *)
(* of transmit() that log() left, by an exception, between lock and unlock *)
(* (such a call is over, or it is the thread's next one that waits).       *)
Hung == [](\E t \in Thread : MayHang(t))

LeftLocked ==
  \E t \in {"worker", "user"} :
    /\ tmutex = t
    /\ tpc[t] = "lock" \/ (tpc[t] = "idle" /\ job[t].len \in Unloggable)

(* A message delivered is processed in the end, unless tmutex was left     *)
(* locked or a send() does not return: ComPoint.hpp:184, the worker        *)
(* "processes all messages of the receiveQueue".  A message that cannot be *)
(* logged either is never processed, Lifecycle's ProcessedUnlessStuck.     *)
EveryMessageProcessed ==
  \A i \in 1 .. MaxFrames :
    (Len(delivered) >= i) ~> (Len(processed) >= i \/ LeftLocked \/ Hung)

(* A call of transmit() returns, whoever else transmits, with two          *)
(* exceptions: log() threw between lock and unlock in an earlier call, so  *)
(* that nobody takes tmutex again, or the send() of the thread that holds  *)
(* tmutex never returns because the peer does not read.                    *)
TransmitReturns ==
  \A t \in Thread : (tpc[t] # "idle") ~> (tpc[t] = "idle" \/ LeftLocked \/ Hung)

(* The ComPoint is a channel: what the peer sent in whole frames is what   *)
(* processMsg() is called with, and it is called for all of it unless      *)
(* tmutex is left locked or a send() does not return.                      *)
Arrived == {i \in DOMAIN frames : EndOf(frames[i]) <= wire}

Channel == INSTANCE MsgChannel WITH
  sent    <- [i \in Arrived |-> [pos |-> frames[i].pos, len |-> frames[i].len]],
  handled <- processed,
  cut     <- dropped

ImplementsChannel ==
  /\ Channel!Spec
  /\ ([]~LeftLocked /\ []<>(\A t \in Thread : ~MayHang(t))) => Channel!Fairness
=============================================================================
