-------------------------- MODULE Lifecycle_proofs --------------------------
(***************************************************************************)
(* The life of a ComPoint, for every size of the parameters: what is       *)
(* proved of a ComPoint at work holds while its threads start, are         *)
(* cancelled and are joined, and after a destruction nothing of it moves.  *)
(***************************************************************************)
EXTENDS Lifecycle, ComPoint_proofs

-----------------------------------------------------------------------------
(* Every step of a life is a step of the ComPoint, or leaves its state     *)
(* alone.                                                                  *)
LEMMA LifeMoves == [NextLife]_allVars => [Next]_cpVars
<1>1. OwnerActs \/ BootWorker \/ ProcessEnds => UNCHANGED cpVars
  BY DEF OwnerActs, BootWorker, ConfigSignals, StartListenerThread, ProcessEnds
<1>2. EndsAtPoint("listener") \/ EndsAtPoint("worker")
        \/ EndsElsewhere("listener") \/ EndsElsewhere("worker")
          => UNCHANGED cpVars
  BY DEF EndsAtPoint, EndsElsewhere, End, ProcessEnds
<1>3. ListenerRuns \/ WorkerRuns \/ UserCalls \/ UserGoesOn => Next
  BY DEF ListenerRuns, WorkerRuns, UserCalls, UserGoesOn, Next, User
<1>4. UseAfterFree => UNCHANGED cpVars
  BY DEF UseAfterFree, ProcessEnds
<1> QED
  BY <1>1, <1>2, <1>3, <1>4
     DEF NextLife, ListenerLives, WorkerLives, Next, allVars

(* So a ComPoint that is started, cancelled and destroyed is one of those  *)
(* module ComPoint describes, whose theorems hold of it.                   *)
THEOREM LifecycleIsComPoint == SpecLife => Spec
<1>1. InitLife => Init
  BY DEF InitLife
<1> QED
  BY <1>1, LifeMoves, PTL DEF SpecLife, Spec

(* Messages are conserved on their way to processMsg() when threads end    *)
(* and throw where they stand.                                             *)
THEOREM LifecycleConservation == SpecLife => []Conservation
BY LifecycleIsComPoint, ComPointConservation, PTL

(* Answers leave in the order of the messages they answer, at most one for *)
(* each, whatever is cancelled on the way.                                 *)
THEOREM LifecycleAnswersInOrder == SpecLife => []AnswersInOrder
BY LifecycleIsComPoint, ComPointAnswersInOrder, PTL

(* A ComPoint from its constructor to its destructor is the channel that   *)
(* ComPoint promises: nothing it does while threads start, end or leak     *)
(* hands over a message twice, out of order or before it was sent.         *)
THEOREM LifecycleImplementsChannel == SpecLife => Channel!Spec
BY LifecycleIsComPoint, ComPointImplementsChannel, PTL

-----------------------------------------------------------------------------
(* A header goes wrong in a step of one of the ComPoint's threads, after   *)
(* headerOut was freed.                                                    *)
LEMMA SpoiltStep ==
  [NextLife]_allVars =>
    spoilt' = spoilt \/ (HeaderFreed /\ UNCHANGED life /\ spoilt' = TRUE)
<1>1. OwnerActs \/ BootWorker \/ UseAfterFree \/ UserCalls \/ UserGoesOn
        \/ UNCHANGED allVars => spoilt' = spoilt
  BY DEF OwnerActs, BootWorker, ConfigSignals, StartListenerThread, UseAfterFree,
         ProcessEnds, UserCalls, UserGoesOn, allVars
<1>2. EndsAtPoint("listener") \/ EndsAtPoint("worker")
        \/ EndsElsewhere("listener") \/ EndsElsewhere("worker")
          => spoilt' = spoilt
  BY DEF EndsAtPoint, EndsElsewhere, End, ProcessEnds
<1>3. ListenerRuns \/ WorkerRuns =>
        spoilt' = spoilt \/ (HeaderFreed /\ UNCHANGED life /\ spoilt' = TRUE)
  BY DEF ListenerRuns, WorkerRuns, ReadsHeader, lifeVars
<1> QED
  BY <1>1, <1>2, <1>3 DEF NextLife, ListenerLives, WorkerLives

-----------------------------------------------------------------------------
(* Type correctness.                                                       *)
LEMMA LifeTypesInit == InitLife => TypeOKLife
<1> SUFFICES ASSUME InitLife PROVE TypeOKLife
  OBVIOUS
<1>1. run \in [Own -> {"none", "created", "masked", "running", "ended"}]
  BY DEF InitLife
<1>2. run["listener"] = "none"
  BY DEF InitLife, Own
<1>3. clock \in 0 .. WT_TIMEOUT
  BY LifecycleAssumption DEF InitLife
<1> QED
  BY <1>1, <1>2, <1>3 DEF InitLife, TypeOKLife

LEMMA LifeTypesStep == TypeOKLife /\ [NextLife]_allVars => TypeOKLife'
<1> SUFFICES ASSUME TypeOKLife, [NextLife]_allVars PROVE TypeOKLife'
  OBVIOUS
<1> USE LifecycleAssumption DEF TypeOKLife, Own
<1>0. spoilt' \in BOOLEAN
  BY SpoiltStep
<1>1. CASE Create
  <2>1. CASE Construct
    BY <1>0, <2>1 DEF Construct, StartWorkerThread
  <2>2. CASE StartWorking
    BY <1>0, <2>2 DEF StartWorking, StartWorkerThread
  <2>3. CASE Tick
    BY <1>0, <2>3 DEF Tick
  <2>4. CASE ListenerUp
    BY <1>0, <2>4 DEF ListenerUp
  <2>5. CASE WaitFails
    BY <1>0, <2>5 DEF WaitFails
  <2> QED
    BY <1>1, <2>1, <2>2, <2>3, <2>4, <2>5 DEF Create, WaitForListenerUp
<1>2. CASE Destroy
  BY <1>0, <1>2 DEF Destroy, Dying
<1>3. CASE Destruct
  <2>1. CASE CancelListener \/ CancelWorker
    BY <1>0, <2>1 DEF CancelListener, CancelWorker, Cancel, Dying
  <2>2. CASE JoinListener \/ JoinWorker
    BY <1>0, <2>2 DEF JoinListener, JoinWorker, Join, Dying
  <2> QED
    BY <1>3, <2>1, <2>2 DEF Destruct
<1>4. CASE BootWorker
  BY <1>0, <1>4 DEF BootWorker, ConfigSignals, StartListenerThread
<1>5. ASSUME NEW t \in Own, End(t) PROVE TypeOKLife'
  BY <1>0, <1>5 DEF End
<1>6. CASE ProcessEnds
  BY <1>0, <1>6 DEF ProcessEnds
<1>7. CASE UNCHANGED lifeVars
  BY <1>0, <1>7 DEF lifeVars
<1>8. OwnerActs => Create \/ Destroy \/ Destruct
  BY DEF OwnerActs
<1>9. EndsAtPoint("listener") \/ EndsElsewhere("listener") => End("listener") \/ ProcessEnds
  BY DEF EndsAtPoint, EndsElsewhere
<1>10. EndsAtPoint("worker") \/ EndsElsewhere("worker") => End("worker") \/ ProcessEnds
  BY DEF EndsAtPoint, EndsElsewhere
<1>11. UseAfterFree => ProcessEnds
  BY DEF UseAfterFree
<1>12. ListenerRuns \/ WorkerRuns \/ UserCalls \/ UserGoesOn => UNCHANGED lifeVars
  BY DEF ListenerRuns, WorkerRuns, UserCalls, UserGoesOn
<1> QED
  BY <1>1, <1>2, <1>3, <1>4, <1>5, <1>6, <1>7, <1>8, <1>9, <1>10, <1>11, <1>12
     DEF NextLife, ListenerLives, WorkerLives, allVars

(* Type correctness of the ComPoint's life: the wait for the listener ends *)
(* at its limit, and only the worker has a state before it runs.           *)
THEOREM LifecycleTypes == SpecLife => []TypeOKLife
BY LifeTypesInit, LifeTypesStep, PTL DEF SpecLife

-----------------------------------------------------------------------------
(* A listener that has ended its loop is not in transmit(): it calls it    *)
(* from its state "reply" only, and stays there until the call returns.    *)
ListenerSends == tpc["listener"] # "idle" => lpc = "reply"

LEMMA ListenerSendsStep ==
  ASSUME CPTypes, ListenerSends, [Next]_cpVars
  PROVE  ListenerSends'
<1> USE DEF CPTypes, SendTypes, ListenerSends, Thread
<1>1. CASE PeerMoves
  BY <1>1 DEF PeerMoves, Peer, PeerStart, PeerWrite, PeerLeave, listenerVars, sendVars
<1>2. CASE ListenerThread
  <2>1. CASE ListenerLocal
    BY <2>1 DEF ListenerLocal, Recv, RecvEnd, Decode, ReadHeader, NeedHeader,
                BufferEmpty, Wait, SelectTick, SelectReady, SelectTimeout, SelectFails,
                RecvMore, RecvMoreEof, RecvMoreError, sendVars
  <2>2. CASE QueueMessage \/ SignalWorker
    BY <2>2 DEF QueueMessage, SignalWorker, Push, Kill, sendVars
  <2>3. CASE AnswerRefused
    BY <2>3 DEF AnswerRefused, RefuseHeader
  <2>4. CASE Answered
    BY <2>4 DEF Answered, sendVars
  <2>5. CASE Transmit("listener")
    BY <2>5 DEF Transmit, Lock, MakeHeader, LogThrows, SendHeader, SendData,
                lVars, listenerVars
  <2> QED
    BY <1>2, <2>1, <2>2, <2>3, <2>4, <2>5 DEF ListenerThread
<1>3. CASE Transmit("worker") \/ Transmit("user")
  BY <1>3 DEF Transmit, Lock, MakeHeader, LogThrows, SendHeader, SendData,
              lVars, listenerVars
<1>4. CASE TakeMessage \/ ProcessSilent \/ Transmitted
  BY <1>4 DEF TakeMessage, SigWait, CheckQueue, Back, Pop, ProcessSilent,
              Transmitted, sendVars, lVars, listenerVars
<1>5. CASE ProcessReply \/ UserCall
  BY <1>5 DEF ProcessReply, UserCall, Call, lVars, listenerVars
<1>6. CASE UNCHANGED cpVars
  BY <1>6 DEF cpVars, sendVars, lVars, listenerVars
<1> QED
  BY <1>1, <1>2, <1>3, <1>4, <1>5, <1>6 DEF Next, Worker, User, Process

(* The end of the listener's loop is for ever, and leaves nothing to do.   *)
LEMMA ListenerStops ==
  ASSUME ListenerSends, lpc = "done"
  PROVE  ~ListenerThread
<1>1. tpc["listener"] = "idle"
  BY DEF ListenerSends
<1>2. ~ListenerLocal
  BY DEF ListenerLocal, Recv, RecvEnd, Decode, ReadHeader, NeedHeader,
         BufferEmpty, Wait, SelectTick, SelectReady, SelectTimeout, SelectFails,
         RecvMore, RecvMoreEof, RecvMoreError
<1>3. ~QueueMessage /\ ~SignalWorker /\ ~AnswerRefused /\ ~Answered
  BY DEF QueueMessage, SignalWorker, AnswerRefused, Answered, Push, Kill,
         RefuseHeader, Reply
<1>4. ~Transmit("listener")
  BY <1>1 DEF Transmit, Lock, MakeHeader, LogThrows, SendHeader, SendData
<1> QED
  BY <1>2, <1>3, <1>4 DEF ListenerThread

(* Nobody but the listener moves it.                                       *)
LEMMA OthersLeaveListener ==
  ASSUME PeerMoves \/ Worker \/ User
  PROVE  UNCHANGED listenerVars
<1>1. CASE PeerMoves
  BY <1>1 DEF PeerMoves, Peer, PeerStart, PeerWrite, PeerLeave
<1>2. CASE Worker \/ User
  BY <1>2 DEF Worker, TakeMessage, SigWait, CheckQueue, Back, Pop, Process,
              ProcessSilent, ProcessReply, Transmitted, User, UserCall,
              Transmit, lVars
<1> QED
  BY <1>1, <1>2

-----------------------------------------------------------------------------
(* The threads start in turn, and the destructor ends them in turn unless  *)
(* it missed the listener: what it did not find is never started, and what *)
(* it found is cancelled.                                                  *)
StartOrder ==
  /\ run["listener"] # "none" => run["worker"] \in {"running", "ended"}
  /\ life \in {"none", "idle"} => run["worker"] = "none"

BeingDestroyed == life \in Dying \cup {"destroyed"}

Reached(t) == run[t] = "none" \/ t \in cancelled

EndOrder ==
  /\ BeingDestroyed => tpc["user"] = "idle"
  /\ (BeingDestroyed /\ life # "cancel listener" /\ ~missed) =>
       /\ run["listener"] # "none" \/ run["worker"] = "none"
       /\ Reached("listener")
       /\ life # "cancel worker" => Reached("worker")
  /\ (life \in {"join worker", "destroyed"} /\ ~missed) =>
       run["worker"] = "none" \/ Ended("listener")
  /\ (life = "destroyed" /\ ~missed) => run["worker"] \in {"none", "ended"}

SpoiltLate == spoilt => HeaderFreed

LifeInv ==
  TypeOKLife /\ CPTypes /\ ListenerSends /\ StartOrder /\ EndOrder /\ SpoiltLate

LEMMA LifeInvInit == IInv /\ InitLife => LifeInv
<1> SUFFICES ASSUME IInv, InitLife PROVE LifeInv
  OBVIOUS
<1>1. TypeOKLife
  BY LifeTypesInit
<1>2. CPTypes
  BY DEF IInv
<1>3. ListenerSends
  BY DEF InitLife, Init, ListenerSends, Thread
<1>4. StartOrder /\ EndOrder /\ SpoiltLate
  BY DEF InitLife, SpoiltLate, StartOrder, EndOrder, BeingDestroyed, Reached, Own, Dying
<1> QED
  BY <1>1, <1>2, <1>3, <1>4 DEF LifeInv

(* The owner's steps, which leave the state of the threads alone.          *)
LEMMA OwnerKeepsOrder ==
  ASSUME LifeInv, OwnerActs
  PROVE  StartOrder' /\ EndOrder'
<1> USE DEF LifeInv, TypeOKLife, StartOrder, EndOrder, BeingDestroyed, Reached, Own, Dying
<1>1. UNCHANGED lpc /\ UNCHANGED tpc
  BY DEF OwnerActs, cpVars, lVars, listenerVars, sendVars
<1>2. CASE Construct
  BY <1>1, <1>2 DEF Construct, StartWorkerThread
<1>3. CASE StartWorking
  BY <1>1, <1>3 DEF StartWorking, StartWorkerThread
<1>4. CASE WaitForListenerUp
  BY <1>1, <1>4 DEF WaitForListenerUp, Waiting, Tick, ListenerUp, WaitFails
<1>5. CASE Destroy
  BY <1>1, <1>5 DEF Destroy
<1>6. CASE CancelListener \/ CancelWorker
  BY <1>1, <1>6 DEF CancelListener, CancelWorker, Cancel, Ended
<1>7. CASE JoinListener
  BY <1>1, <1>7 DEF JoinListener, Join, Ended
<1>8. CASE JoinWorker
  BY <1>1, <1>8 DEF JoinWorker, Join, Ended
<1> QED
  BY <1>2, <1>3, <1>4, <1>5, <1>6, <1>7, <1>8 DEF OwnerActs, Create, Destruct

(* The threads start and end, or the process does.                         *)
LEMMA ThreadsKeepOrder ==
  ASSUME LifeInv,
         BootWorker \/ ProcessEnds
           \/ \E t \in Own : run[t] = "running" /\ End(t)
  PROVE  StartOrder' /\ EndOrder'
<1> USE DEF LifeInv, TypeOKLife, StartOrder, EndOrder, BeingDestroyed, Reached, Own
<1>1. UNCHANGED lpc /\ UNCHANGED tpc
  BY DEF BootWorker, ConfigSignals, StartListenerThread, ProcessEnds, End,
         cpVars, lVars, listenerVars, sendVars
<1>2. CASE ConfigSignals
  BY <1>1, <1>2 DEF ConfigSignals, Ended
<1>3. CASE StartListenerThread
  BY <1>1, <1>3 DEF StartListenerThread, Ended
<1>4. CASE ProcessEnds
  BY <1>1, <1>4 DEF ProcessEnds, Ended
<1>5. ASSUME run["listener"] = "running", End("listener")
      PROVE  StartOrder' /\ EndOrder'
  BY <1>1, <1>5 DEF End, Ended
<1>6. ASSUME run["worker"] = "running", End("worker")
      PROVE  StartOrder' /\ EndOrder'
  BY <1>1, <1>6 DEF End, Ended
<1> QED
  BY <1>2, <1>3, <1>4, <1>5, <1>6 DEF BootWorker

(* The steps of the ComPoint at work.                                      *)
LEMMA WorkKeepsOrder ==
  ASSUME LifeInv, UNCHANGED lifeVars,
         ListenerRuns \/ WorkerRuns \/ UserCalls \/ UserGoesOn \/ PeerMoves
  PROVE  StartOrder' /\ EndOrder'
<1> USE DEF LifeInv, StartOrder, EndOrder, BeingDestroyed, Reached, lifeVars
<1>1. lpc = "done" => lpc' = "done"
  <2>1. CASE ListenerRuns
    BY <2>1, ListenerStops DEF ListenerRuns
  <2>2. CASE WorkerRuns \/ UserCalls \/ UserGoesOn \/ PeerMoves
    BY <2>2, OthersLeaveListener
       DEF WorkerRuns, UserCalls, UserGoesOn, User, listenerVars
  <2> QED
    BY <2>1, <2>2
<1>2. BeingDestroyed => tpc'["user"] = tpc["user"]
  <2> USE DEF CPTypes, SendTypes, Thread
  <2>1. CASE ListenerRuns
    BY <2>1 DEF ListenerRuns, ListenerThread, ListenerLocal, QueueMessage,
                SignalWorker, AnswerRefused, Answered, Call, Transmit, Lock,
                MakeHeader, LogThrows, SendHeader, SendData, sendVars
  <2>2. CASE WorkerRuns
    BY <2>2 DEF WorkerRuns, Worker, TakeMessage, SigWait, CheckQueue, Back, Pop,
                Process, ProcessSilent, ProcessReply, Transmitted, Call,
                Transmit, Lock, MakeHeader, LogThrows, SendHeader, SendData,
                sendVars
  <2>3. CASE UserCalls
    BY <2>3 DEF UserCalls, Dying
  <2>4. CASE UserGoesOn
    BY <2>4 DEF UserGoesOn, Transmit, Lock, MakeHeader, LogThrows, SendHeader,
                SendData
  <2>5. CASE PeerMoves
    BY <2>5 DEF PeerMoves, sendVars
  <2> QED
    BY <2>1, <2>2, <2>3, <2>4, <2>5
<1> QED
  BY <1>1, <1>2 DEF Ended

(* A cancelled thread that ends was running.                               *)
LEMMA CancelledEnds ==
  ASSUME NEW t \in Own, EndsAtPoint(t) \/ EndsElsewhere(t)
  PROVE  ProcessEnds \/ (run[t] = "running" /\ End(t))
BY DEF EndsAtPoint, EndsElsewhere, Pending

(* headerOut is not allocated again.                                       *)
LEMMA FreedForEver == HeaderFreed /\ [NextLife]_allVars => HeaderFreed'
<1> SUFFICES ASSUME HeaderFreed, [NextLife]_allVars PROVE HeaderFreed'
  OBVIOUS
<1> USE DEF HeaderFreed, Dying
<1>1. CASE OwnerActs
  BY <1>1 DEF OwnerActs, Create, Construct, StartWorking, WaitForListenerUp,
              Waiting, Tick, ListenerUp, WaitFails, Destroy, Destruct,
              CancelListener, CancelWorker, JoinListener, JoinWorker, Cancel, Join
<1>2. ~OwnerActs => UNCHANGED life
  BY DEF NextLife, ListenerLives, WorkerLives, ListenerRuns, WorkerRuns,
         UserCalls, UserGoesOn, BootWorker, ConfigSignals, StartListenerThread,
         EndsAtPoint, EndsElsewhere, End, ProcessEnds, UseAfterFree, lifeVars,
         allVars
<1> QED
  BY <1>1, <1>2

LEMMA LifeInvStep == IInv' /\ LifeInv /\ [NextLife]_allVars => LifeInv'
<1> SUFFICES ASSUME IInv', LifeInv, [NextLife]_allVars PROVE LifeInv'
  OBVIOUS
<1>1. TypeOKLife'
  BY LifeTypesStep DEF LifeInv
<1>2. CPTypes'
  BY DEF IInv
<1>3. ListenerSends'
  BY LifeMoves, ListenerSendsStep DEF LifeInv
<1>4. StartOrder' /\ EndOrder'
  <2>1. CASE OwnerActs
    BY <2>1, OwnerKeepsOrder
  <2>2. CASE BootWorker \/ UseAfterFree
    BY <2>2, ThreadsKeepOrder DEF UseAfterFree
  <2>3. ASSUME NEW t \in Own, EndsAtPoint(t) \/ EndsElsewhere(t)
        PROVE  StartOrder' /\ EndOrder'
    BY <2>3, CancelledEnds, ThreadsKeepOrder
  <2>4. CASE ListenerRuns \/ WorkerRuns \/ UserCalls \/ UserGoesOn
               \/ (PeerMoves /\ UNCHANGED lifeVars)
    <3>1. UNCHANGED lifeVars
      BY <2>4 DEF ListenerRuns, WorkerRuns, UserCalls, UserGoesOn
    <3> QED
      BY <2>4, <3>1, WorkKeepsOrder
  <2>5. CASE UNCHANGED allVars
    BY <2>5 DEF allVars, cpVars, lVars, listenerVars, sendVars, lifeVars, LifeInv,
                StartOrder, EndOrder, BeingDestroyed, Reached, Ended
  <2> QED
    BY <2>1, <2>2, <2>3, <2>4, <2>5 DEF NextLife, ListenerLives, WorkerLives, Own
<1>5. SpoiltLate'
  BY SpoiltStep, FreedForEver DEF LifeInv, SpoiltLate
<1> QED
  BY <1>1, <1>2, <1>3, <1>4, <1>5 DEF LifeInv

(* The invariant of a ComPoint's life, on top of the ComPoint's own.       *)
THEOREM LifecycleInvariant == SpecLife => []LifeInv
<1>1. SpecLife => []IInv
  BY LifecycleIsComPoint, ComPointInvariant, PTL
<1> QED
  BY <1>1, LifeInvInit, LifeInvStep, PTL DEF SpecLife

(* A listener that raises SIGUSR1 has a worker with the signal blocked to  *)
(* raise it for, and not a joined one, but where the destructor ran after  *)
(* a start that timed out and missed a listener that was still to come.    *)
THEOREM LifecycleSignalHasTarget == SpecLife => []SignalHasTarget
<1>1. LifeInv => SignalHasTarget
  BY DEF LifeInv, SignalHasTarget, StartOrder, EndOrder, BeingDestroyed, Reached, Ended
<1> QED
  BY <1>1, LifecycleInvariant, PTL

(* The peer reads whole frames, and half a frame at the end at most, while *)
(* threads throw in transmit() and are cancelled in it; a header that is   *)
(* not the one made is sent after headerOut was freed only.                *)
THEOREM LifecycleHalfFrameIsLast == SpecLife => []HalfFrameIsLast
<1>1. SpecLife => []OutputFramed
  BY LifecycleIsComPoint, ComPointOutputFramed, PTL
<1>2. OutputFramed /\ LifeInv => HalfFrameIsLast
  BY DEF LifeInv, SpoiltLate, HalfFrameIsLast
<1> QED
  BY <1>1, <1>2, LifecycleInvariant, PTL

(* Once both threads are cancelled, nothing is written to the connection.  *)
LEMMA SilentStep ==
  LifeInv /\ [NextLife]_allVars =>
    [(life \in {"join listener", "join worker"} /\ ~missed) => UNCHANGED out]_allVars
<1> SUFFICES ASSUME LifeInv, NextLife, life \in {"join listener", "join worker"},
                    ~missed
             PROVE  UNCHANGED out
  BY DEF allVars
<1>1. tpc["user"] = "idle" /\ Reached("listener") /\ Reached("worker")
  BY DEF LifeInv, EndOrder, BeingDestroyed, Dying
<1>2. CASE ListenerRuns
  <2>1. ~Sending("listener")
    BY <1>1, <1>2 DEF ListenerRuns, Runs, Reached, AtCancellationPoint
  <2> QED
    BY <1>2, <2>1 DEF ListenerRuns, ListenerThread, ListenerLocal, QueueMessage,
       SignalWorker, AnswerRefused, Call, Answered, Transmit, Lock, MakeHeader,
       LogThrows, SendHeader, SendData, Sending, sendVars
<1>3. CASE WorkerRuns
  <2>1. ~Sending("worker")
    BY <1>1, <1>3 DEF WorkerRuns, Runs, Reached, AtCancellationPoint
  <2> QED
    BY <1>3, <2>1 DEF WorkerRuns, Worker, TakeMessage, SigWait, CheckQueue, Back,
       Pop, Process, ProcessSilent, ProcessReply, Transmitted, Call, Transmit,
       Lock, MakeHeader, LogThrows, SendHeader, SendData, Sending, sendVars
<1>4. ~UserCalls /\ ~UserGoesOn
  BY <1>1 DEF UserCalls, UserGoesOn, Transmit, Lock, MakeHeader, LogThrows,
              SendHeader, SendData
<1>5. CASE PeerMoves
  BY <1>5 DEF PeerMoves, sendVars
<1>6. OwnerActs \/ BootWorker \/ UseAfterFree => UNCHANGED cpVars
  BY DEF OwnerActs, BootWorker, ConfigSignals, StartListenerThread,
         UseAfterFree, ProcessEnds
<1>7. ASSUME NEW t \in Own, EndsAtPoint(t) \/ EndsElsewhere(t)
      PROVE  UNCHANGED cpVars
  BY <1>7, CancelledEnds DEF End, ProcessEnds
<1>8. UNCHANGED cpVars => UNCHANGED out
  BY DEF cpVars, sendVars
<1> QED
  BY <1>2, <1>3, <1>4, <1>5, <1>6, <1>7, <1>8
     DEF NextLife, ListenerLives, WorkerLives, Own

(* Nothing of a destroyed ComPoint moves.                                  *)
LEMMA QuietStep ==
  LifeInv /\ [NextLife]_allVars =>
    [(life = "destroyed" /\ ~missed) =>
       UNCHANGED <<listenerVars, queueVars, workerVars, sendVars>>]_allVars
<1> SUFFICES ASSUME LifeInv, NextLife, life = "destroyed", ~missed
             PROVE  UNCHANGED <<listenerVars, queueVars, workerVars, sendVars>>
  BY DEF allVars
<1>1. run["worker"] # "running" /\ (run["listener"] = "running" => lpc = "done")
  BY DEF LifeInv, StartOrder, EndOrder, BeingDestroyed, Reached, Ended
<1>2. tpc["user"] = "idle"
  BY DEF LifeInv, EndOrder, BeingDestroyed, Reached
<1>3. ~ListenerRuns
  BY <1>1, ListenerStops DEF ListenerRuns, Runs, LifeInv
<1>4. ~WorkerRuns
  BY <1>1 DEF WorkerRuns, Runs
<1>5. ~UserCalls
  BY DEF UserCalls
<1>6. ~UserGoesOn
  BY <1>2 DEF UserGoesOn, Transmit, Lock, MakeHeader, LogThrows, SendHeader,
              SendData
<1>7. CASE PeerMoves
  BY <1>7, OthersLeaveListener DEF PeerMoves
<1>8. CASE UNCHANGED cpVars
  BY <1>8 DEF cpVars, lVars
<1>9. OwnerActs \/ BootWorker \/ UseAfterFree => UNCHANGED cpVars
  BY DEF OwnerActs, BootWorker, ConfigSignals, StartListenerThread,
         UseAfterFree, ProcessEnds
<1>10. ASSUME NEW t \in Own, EndsAtPoint(t) \/ EndsElsewhere(t)
       PROVE  UNCHANGED cpVars
  BY <1>10, CancelledEnds DEF End, ProcessEnds
<1> QED
  BY <1>3, <1>4, <1>5, <1>6, <1>7, <1>8, <1>9, <1>10
     DEF NextLife, ListenerLives, WorkerLives, Own

(* A ComPoint whose listener the destructor found sends nothing once both  *)
(* threads are cancelled, and does nothing once it is destroyed.           *)
THEOREM LifecycleQuiet == SpecLife => QuietAfterDestruction
<1>1. LifeInv /\ [NextLife]_allVars =>
        [/\ (life \in {"join listener", "join worker"} /\ ~missed) => UNCHANGED out
         /\ (life = "destroyed" /\ ~missed) =>
              UNCHANGED <<listenerVars, queueVars, workerVars, sendVars>>]_allVars
  BY SilentStep, QuietStep
<1> QED
  BY <1>1, LifecycleInvariant, PTL DEF SpecLife, QuietAfterDestruction

-----------------------------------------------------------------------------
(* Between its push and its pthread_kill() a listener runs: neither is a   *)
(* cancellation point, so no cancellation ends it there.                   *)
KillRuns == lpc = "kill" => run["listener"] = "running"

LEMMA KillRunsStep == LifeInv /\ KillRuns /\ [NextLife]_allVars => KillRuns'
<1> SUFFICES ASSUME LifeInv, KillRuns, [NextLife]_allVars PROVE KillRuns'
  OBVIOUS
<1> USE DEF KillRuns
<1>0. run \in [Own -> {"none", "created", "masked", "running", "ended"}]
  BY DEF LifeInv, TypeOKLife
<1>1. CASE OwnerActs
  <2>1. lpc' = lpc
    BY <1>1 DEF OwnerActs, cpVars, lVars, listenerVars
  <2>2. run'["listener"] = run["listener"]
    BY <1>0, <1>1 DEF OwnerActs, Create, Construct, StartWorking, StartWorkerThread,
       WaitForListenerUp, Tick, ListenerUp, WaitFails, Destroy, Destruct, CancelListener,
       JoinListener, CancelWorker, JoinWorker, Cancel, Join, Own
  <2> QED
    BY <2>1, <2>2
<1>2. CASE BootWorker
  BY <1>0, <1>2 DEF BootWorker, ConfigSignals, StartListenerThread, Own, cpVars, lVars,
     listenerVars
<1>3. CASE ListenerRuns
  BY <1>3 DEF ListenerRuns, Runs, lifeVars
<1>4. CASE WorkerRuns \/ UserCalls \/ UserGoesOn \/ (PeerMoves /\ UNCHANGED lifeVars)
  BY <1>4, OthersLeaveListener DEF WorkerRuns, UserCalls, UserGoesOn, User,
     listenerVars, lifeVars
<1>5. CASE EndsAtPoint("listener") \/ EndsElsewhere("listener")
  <2>1. lpc # "kill"
    BY <1>5 DEF EndsAtPoint, EndsElsewhere, AtCancellationPoint, Sending, MayEnd,
       MayAbort, LifeInv, ListenerSends
  <2>2. lpc' = lpc
    BY <1>5 DEF EndsAtPoint, EndsElsewhere, End, ProcessEnds, cpVars, lVars,
       listenerVars
  <2> QED
    BY <2>1, <2>2
<1>6. CASE EndsAtPoint("worker") \/ EndsElsewhere("worker")
  BY <1>0, <1>6 DEF EndsAtPoint, EndsElsewhere, End, ProcessEnds, Own, cpVars, lVars,
     listenerVars
<1>7. CASE UseAfterFree \/ UNCHANGED allVars
  BY <1>7 DEF UseAfterFree, ProcessEnds, allVars, lifeVars, cpVars, lVars, listenerVars
<1> QED
  BY <1>1, <1>2, <1>3, <1>4, <1>5, <1>6, <1>7 DEF NextLife, ListenerLives, WorkerLives

(* A worker that sleeps beside a message has its SIGUSR1 pending, or there *)
(* is a listener that is about to raise it and still runs: a cancellation  *)
(* between the push and the signal loses neither (NoLostWakeup, which      *)
(* alone does not tell a listener from one that ended).                    *)
THEOREM LifecycleNoLostWakeup ==
  SpecLife => [](/\ NoLostWakeup
                 /\ lpc = "kill" => run["listener"] = "running")
<1>1. InitLife => KillRuns
  BY DEF InitLife, Init, InitL, KillRuns
<1>2. SpecLife => []KillRuns
  BY <1>1, LifecycleInvariant, KillRunsStep, PTL DEF SpecLife
<1>3. SpecLife => []NoLostWakeup
  BY LifecycleIsComPoint, ComPointNoLostWakeup, PTL
<1>4. KillRuns /\ NoLostWakeup =>
        NoLostWakeup /\ (lpc = "kill" => run["listener"] = "running")
  BY DEF KillRuns
<1> QED
  BY <1>2, <1>3, <1>4, PTL
=============================================================================
