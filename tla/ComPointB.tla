------------------------------ MODULE ComPointB ------------------------------
(***************************************************************************)
(* ComPointB: a ComPoint whose ProcessInterfaceB can send a sub-request    *)
(* while it processes a message, and wait for the answer.  Its             *)
(* thread_listen differs in what it does with a complete message: the      *)
(* answer goes to the waiting worker by SIGUSR2, past the queue.           *)
(*                                                                         *)
(* setBusy() and the waiting are in the classes that implement             *)
(* ProcessInterfaceB; they are modelled from how ComPointB and             *)
(* ProcessInterface use them, and marked external.                         *)
(***************************************************************************)
EXTENDS ComPoint

CONSTANT MaxSubRequests    \* bound: sub-requests sent

ASSUME ComPointBAssumption == MaxSubRequests \in Nat

VARIABLES
  busy,       \* ProcessInterface::busy
  asked,      \* sub-requests sent so far
  expecting,  \* is isSubResponse() waiting for the answer?
  answered,   \* has it seen the answer?
  subs        \* history: where in delivered the answers are

subVars == <<busy, asked, expecting, answered, subs>>
bVars   == <<cpVars, subVars>>

InitB ==
  /\ Init
  /\ busy = FALSE /\ asked = 0 /\ expecting = FALSE /\ answered = FALSE
  /\ subs = {}

-----------------------------------------------------------------------------
(***************************************************************************)
(* The listener with a complete message in hand.  isBusy() returns, and    *)
(* busyMutex is released, before anything is done about the answer.        *)
(***************************************************************************)
AskBusy ==
  /\ lpc = "push"
  /\ lpc' = IF busy THEN "busy" ELSE "idle"
  /\ UNCHANGED <<peerVars, rcvd, bufSize, hdr, armed, tleft, deletable,
                 delivered, dropped, waited>>
  /\ UNCHANGED <<queueVars, workerVars, sendVars, subVars>>

(* Not busy: queue it, then (SignalWorker) raise SIGUSR1.                  *)
QueueIdle ==
  /\ lpc = "idle"
  /\ delivered' = Append(delivered, msg)
  /\ PushFront(msg)
  /\ lpc' = "kill"
  /\ UNCHANGED <<peerVars, rcvd, bufSize, hdr, armed, tleft, deletable,
                 dropped, waited, signals, workerVars, sendVars, subVars>>

(* Mutant of SubResponse: the answer is queued as well.                    *)
SubResponseQueued ==
  /\ lpc = "busy"
  /\ expecting
  /\ delivered' = Append(delivered, msg)
  /\ PushFront(msg)
  /\ subs' = subs \cup {Len(delivered')}
  /\ expecting' = FALSE
  /\ answered' = TRUE
  /\ lpc' = "kill2"
  /\ UNCHANGED <<peerVars, rcvd, bufSize, hdr, armed, tleft, deletable,
                 dropped, waited, signals, workerVars, sendVars, busy, asked>>

(* Busy, and isSubResponse() accepts it: the answer is the worker's.       *)
SubResponse ==
  /\ lpc = "busy"
  /\ expecting
  /\ delivered' = Append(delivered, msg)
  /\ subs' = subs \cup {Len(delivered')}
  /\ expecting' = FALSE
  /\ answered' = TRUE
  /\ lpc' = "kill2"
  /\ UNCHANGED <<peerVars, rcvd, bufSize, hdr, armed, tleft, deletable,
                 dropped, waited, queueVars, workerVars, sendVars, busy, asked>>

(* Mutant of SignalAnswer: SIGUSR1 for SIGUSR2.                            *)
SignalAnswerUSR1 ==
  /\ lpc = "kill2"
  /\ Advance
  /\ signals' = signals \cup {"SIGUSR1"}
  /\ UNCHANGED <<peerVars, rcvd, armed, tleft, deletable, delivered, dropped,
                 queue, workerVars, sendVars, subVars>>

(* pthread_kill(worker_thread, SIGUSR2); delete tempMsg.                   *)
SignalAnswer ==
  /\ lpc = "kill2"
  /\ Advance
  /\ signals' = signals \cup {"SIGUSR2"}
  /\ UNCHANGED <<peerVars, rcvd, armed, tleft, deletable, delivered, dropped,
                 queue, workerVars, sendVars, subVars>>

(* Busy, and not an answer: queue it.  "TODO: send signal sigusr1 ?"       *)
QueueBusy ==
  /\ lpc = "busy"
  /\ delivered' = Append(delivered, msg)
  /\ PushFront(msg)
  /\ lpc' = "queued"
  /\ UNCHANGED <<peerVars, rcvd, bufSize, hdr, armed, tleft, deletable,
                 dropped, waited, signals, workerVars, sendVars, subVars>>

(* It goes on with the rest of msgBuffer, as after a signal.               *)
LeaveQueued ==
  /\ lpc = "queued"
  /\ Advance
  /\ UNCHANGED <<peerVars, rcvd, armed, tleft, deletable, delivered, dropped,
                 queueVars, workerVars, sendVars, subVars>>

ListenerThreadB ==
  \/ AskBusy \/ QueueIdle \/ SubResponse \/ SignalAnswer \/ QueueBusy
  \/ LeaveQueued
  \/ (ListenerLocal \/ SignalWorker \/ AnswerRefused \/ Answered
        \/ Transmit("listener")) /\ UNCHANGED subVars

-----------------------------------------------------------------------------
(***************************************************************************)
(* processMsg() of a class that implements ProcessInterfaceB.              *)
(***************************************************************************)
SetBusy ==
  /\ wpc = "process"
  /\ processed' = Append(processed, input)
  /\ busy' = TRUE
  /\ wpc' = "working"
  /\ UNCHANGED <<lVars, queueVars, input, sendVars, asked, expecting, answered,
                 subs>>

SubRequest ==
  /\ wpc = "working"
  /\ asked < MaxSubRequests
  /\ asked' = asked + 1
  /\ expecting' = TRUE
  /\ answered' = FALSE
  /\ \E len \in OutLens :
       Call("worker", [from |-> "worker", n |-> input.pos, len |-> len])
  /\ wpc' = "asking"
  /\ UNCHANGED <<lVars, queueVars, input, processed, userSends, busy, subs>>

SubRequestSent ==
  /\ wpc = "asking"
  /\ tpc["worker"] = "idle"
  /\ wpc' = "waiting"
  /\ UNCHANGED <<lVars, queueVars, input, processed, sendVars, subVars>>

(* "The worker, which just waits for this signal within processMsg()".     *)
AnswerCame ==
  /\ wpc = "waiting"
  /\ "SIGUSR2" \in signals
  /\ signals' = signals \ {"SIGUSR2"}
  /\ wpc' = "done"
  /\ UNCHANGED <<lVars, queue, input, processed, sendVars, subVars>>

NoSubRequest ==
  /\ wpc = "working"
  /\ wpc' = "done"
  /\ UNCHANGED <<lVars, queueVars, input, processed, sendVars, subVars>>

SetIdle ==
  /\ wpc = "done"
  /\ busy' = FALSE
  /\ wpc' = "return"
  /\ UNCHANGED <<lVars, queueVars, input, processed, sendVars, asked, expecting,
                 answered, subs>>

(* Mutant of ReturnSilent: one message for each signal.                    *)
ReturnToSleep ==
  /\ wpc = "return"
  /\ wpc' = "sigwait"
  /\ UNCHANGED <<lVars, queueVars, input, processed, sendVars, subVars>>

(* Back in thread_work, without and with an OutgoingMsg.                   *)
ReturnSilent ==
  /\ wpc = "return"
  /\ wpc' = "check"
  /\ UNCHANGED <<lVars, queueVars, input, processed, sendVars, subVars>>

ReturnReply ==
  /\ wpc = "return"
  /\ \E len \in OutLens :
       Call("worker", [from |-> "worker", n |-> input.pos, len |-> len])
  /\ wpc' = "transmit"
  /\ UNCHANGED <<lVars, queueVars, input, processed, userSends, subVars>>

ProcessB ==
  SetBusy \/ SubRequest \/ SubRequestSent \/ AnswerCame \/ NoSubRequest
    \/ SetIdle \/ ReturnSilent \/ ReturnReply

WorkerB ==
  \/ ProcessB
  \/ (TakeMessage \/ Transmitted \/ Transmit("worker")) /\ UNCHANGED subVars

NextB ==
  \/ ListenerThreadB
  \/ WorkerB
  \/ (PeerMoves \/ User) /\ UNCHANGED subVars

SpecB == InitB /\ [][NextB]_bVars

FairSpecB ==
  /\ SpecB
  /\ WF_bVars(ListenerThreadB /\ ~MayHang("listener"))
  /\ WF_bVars(WorkerB /\ ~MayHang("worker"))
  /\ WF_bVars(Transmit("user") /\ UNCHANGED subVars /\ ~MayHang("user"))

-----------------------------------------------------------------------------
TypeOKB ==
  /\ lpc \in {"recv", "decode", "push", "idle", "busy", "kill", "kill2",
              "queued", "refuse", "reply", "select", "more", "done"}
  /\ wpc \in {"sigwait", "check", "back", "pop", "process", "working", "asking",
              "waiting", "done", "return", "transmit"}
  /\ queue \in Seq(Message) /\ processed \in Seq(Message)
  /\ input \in Message /\ delivered \in Seq(Message)
  /\ signals \subseteq {"SIGUSR1", "SIGUSR2"}
  /\ busy \in BOOLEAN /\ expecting \in BOOLEAN /\ answered \in BOOLEAN
  /\ asked \in 0 .. MaxSubRequests
  /\ subs \subseteq DOMAIN delivered

(* rest is the sequence all without the elements at the positions gone.    *)
IsRest(rest, all, gone) ==
  \E f \in [DOMAIN rest -> DOMAIN all \ gone] :
    /\ \A k \in DOMAIN rest : rest[k] = all[f[k]]
    /\ \A j, k \in DOMAIN rest : j < k => f[j] < f[k]
    /\ \A i \in DOMAIN all \ gone : \E k \in DOMAIN rest : f[k] = i

(* The answers to sub-requests go past the queue and nothing else does:    *)
(* the other messages are processed once each and in the order they were   *)
(* delivered in, whichever branch of the listener handled them.            *)
Kept == processed \o InHand \o Reverse(queue)

ConservationB == IsRest(Kept, delivered, subs)

(* A worker that waits for an answer is woken by it, and by nothing else:  *)
(* the answer that came is never without its SIGUSR2, although the main    *)
(* loop of the worker takes SIGUSR2 from the same set and drops it         *)
(* (thread_work's default branch), and no SIGUSR2 is left behind for the   *)
(* next message or the next answer.                                        *)
AnswerWakes ==
  (wpc \in {"asking", "waiting"} /\ answered) <=>
    ("SIGUSR2" \in signals \/ lpc = "kill2")

(* One SIGUSR1 is enough for any number of messages, those queued without  *)
(* a signal included: the worker empties the queue before it sleeps,       *)
(* unless it waits for an answer that did not come, or a send() does not   *)
(* return.                                                                 *)
SignalDrains ==
  ("SIGUSR1" \in signals) ~>
     \/ queue = <<>>
     \/ wpc \in {"asking", "waiting"} /\ ~answered
     \/ Hung

(* ComPointB.hpp:47-48, a message that is no answer is "queued like any    *)
(* other message", and ComPoint.hpp:185, "as long as new messages arrives  *)
(* during a processing, the worker will automatically process the next     *)
(* message": a queued message is processed unless the worker waits for an  *)
(* answer, or a send() does not return.                                    *)
QueuedIsProcessed ==
  \A i \in 1 .. MaxFrames :
    (Len(delivered) >= i /\ i \notin subs) ~>
       \/ Len(processed) + Cardinality(subs) >= i
       \/ wpc \in {"asking", "waiting"}
       \/ Hung
=============================================================================
