----------------------------- MODULE Lifecycle -----------------------------
(***************************************************************************)
(* The life of a ComPoint: its constructor and startWorking(), the start   *)
(* of the two threads of class WorkerThreads, its destructor, and what     *)
(* pthread_cancel() does to threads that may be anywhere in the code of    *)
(* module ComPoint.                                                        *)
(*                                                                         *)
(* A cancelled thread goes on until it calls a function that is a          *)
(* cancellation point: recv(), select(), send() and sigwait() are, the     *)
(* printf() of log() and what processMsg() calls may be, and locking a     *)
(* mutex is not.  The unwinding of a cancelled thread is a C++ exception:  *)
(* the catch(...) clause of thread_work(), which does not rethrow, ends    *)
(* the process.                                                            *)
(***************************************************************************)
EXTENDS ComPoint

CONSTANT WT_TIMEOUT       \* how long wait_for_listener_up() waits, 2 in the code

ASSUME LifecycleAssumption == WT_TIMEOUT \in Nat

VARIABLES
  life,       \* where the owner stands, in the ComPoint's life
  run,        \* where each of its threads stands
  cancelled,  \* the threads pthread_cancel() was called for
  clock,      \* time spent in wait_for_listener_up()
  missed,     \* history: did the destructor find no id of a listener to come?
  alive,      \* is the process still there?
  spoilt      \* history: was a header sent that is not the one made?

lifeVars == <<life, run, cancelled, clock, missed, alive>>
allVars  == <<cpVars, lifeVars, spoilt>>

Own == {"listener", "worker"}   \* the threads a ComPoint has of its own

(* The steps of the destructor, headerOut being freed before the first.    *)
Dying == {"cancel listener", "cancel worker", "join listener", "join worker"}

InitLife ==
  /\ Init
  /\ life = "none" /\ run = [t \in Own |-> "none"] /\ cancelled = {}
  /\ clock = 0 /\ missed = FALSE /\ alive = TRUE /\ spoilt = FALSE

-----------------------------------------------------------------------------
(***************************************************************************)
(* Creation.                                                               *)
(***************************************************************************)
StartWorkerThread == run' = [run EXCEPT !["worker"] = "created"]

Construct ==
  /\ life = "none"
  /\ \/ life' = "constructing" /\ StartWorkerThread
     \/ life' = "idle" /\ UNCHANGED run
  /\ UNCHANGED <<cancelled, clock, missed, alive>>

StartWorking ==
  /\ life \in {"idle", "up", "failed"} /\ tpc["user"] = "idle"
  /\ life' = "starting" /\ clock' = 0
  /\ IF \A t \in Own : run[t] = "none" THEN StartWorkerThread ELSE UNCHANGED run
  /\ UNCHANGED <<cancelled, missed, alive>>

(* wait_for_listener_up(), called by both.                                 *)
Waiting == life \in {"constructing", "starting"}

(* Mutant of Tick: the time that has passed is not looked at.              *)
TickOn ==
  /\ Waiting
  /\ clock' = clock + 1
  /\ UNCHANGED <<life, run, cancelled, missed, alive>>

Tick ==
  /\ Waiting /\ clock < WT_TIMEOUT
  /\ clock' = clock + 1
  /\ UNCHANGED <<life, run, cancelled, missed, alive>>

ListenerUp ==
  /\ Waiting /\ run["listener"] # "none"
  /\ life' = "up" /\ clock' = 0
  /\ UNCHANGED <<run, cancelled, missed, alive>>

(* The Error of the constructor frees the ComPoint without its destructor. *)
WaitFails ==
  /\ Waiting /\ clock = WT_TIMEOUT
  /\ life' = IF life = "constructing" THEN "abandoned" ELSE "failed"
  /\ clock' = 0
  /\ UNCHANGED <<run, cancelled, missed, alive>>

WaitForListenerUp == Tick \/ ListenerUp \/ WaitFails

Create == Construct \/ StartWorking \/ WaitForListenerUp

-----------------------------------------------------------------------------
(***************************************************************************)
(* Destruction, by an owner that is not in transmit() itself.  To          *)
(* cancel or join a thread that was never started, whose id is 0, is       *)
(* undefined: the call returns, or the process ends.                       *)
(***************************************************************************)
Destroy ==
  /\ life \in {"idle", "up", "failed"}
  /\ tpc["user"] = "idle"
  /\ life' = "cancel listener"
  /\ UNCHANGED <<run, cancelled, clock, missed, alive>>

Cancel(t, next) ==
  /\ life' = next
  /\ IF run[t] = "none"
       THEN alive' \in BOOLEAN /\ UNCHANGED cancelled
       ELSE cancelled' = cancelled \cup {t} /\ UNCHANGED alive
  /\ UNCHANGED <<run, clock>>

Ended(t) == run[t] = "ended" \/ (t = "listener" /\ lpc = "done")

Join(t, next) ==
  /\ life' = next
  /\ \/ run[t] = "none" /\ alive' \in BOOLEAN
     \/ Ended(t) /\ UNCHANGED alive
  /\ UNCHANGED <<run, cancelled, clock, missed>>

(* After a start that timed out the worker may still be to start it.       *)
CancelListener ==
  /\ life = "cancel listener" /\ Cancel("listener", "cancel worker")
  /\ missed' = (run["listener"] = "none" /\ run["worker"] # "none")

(* Mutant of CancelWorker: only the listener is cancelled.                 *)
CancelNoWorker ==
  /\ life = "cancel worker"
  /\ life' = "join listener"
  /\ UNCHANGED <<run, cancelled, clock, missed, alive>>

CancelWorker ==
  /\ life = "cancel worker" /\ Cancel("worker", "join listener")
  /\ UNCHANGED missed

JoinListener == life = "join listener" /\ Join("listener", "join worker")

(* Mutant of JoinWorker: the worker is not waited for.                     *)
JoinNoWorker ==
  /\ life = "join worker"
  /\ life' = "destroyed"
  /\ UNCHANGED <<run, cancelled, clock, missed, alive>>

JoinWorker == life = "join worker" /\ Join("worker", "destroyed")

Destruct == CancelListener \/ CancelWorker \/ JoinListener \/ JoinWorker

-----------------------------------------------------------------------------
(***************************************************************************)
(* The threads.                                                            *)
(***************************************************************************)
ConfigSignals ==
  /\ run["worker"] = "created"
  /\ run' = [run EXCEPT !["worker"] = "masked"]
  /\ UNCHANGED <<cpVars, life, cancelled, clock, missed, alive, spoilt>>

(* Mutant of StartListenerThread: it comes before configSignals().         *)
StartListenerFirst ==
  /\ run["worker"] \in {"created", "masked"}
  /\ run' = [run EXCEPT !["listener"] = "running",
                        !["worker"] = IF @ = "masked" THEN "running" ELSE @]
  /\ UNCHANGED <<cpVars, life, cancelled, clock, missed, alive, spoilt>>

StartListenerThread ==
  /\ run["worker"] = "masked"
  /\ run' = [t \in Own |-> "running"]
  /\ UNCHANGED <<cpVars, life, cancelled, clock, missed, alive, spoilt>>

Sending(t) == tpc[t] \in {"send", "data"}
Stuck(len) == len \in Unloggable

(* Where a thread whose cancellation is pending ends for certain...        *)
AtCancellationPoint(t) ==
  \/ Sending(t)
  \/ t = "listener" /\ lpc \in {"recv", "select", "more"}
  \/ t = "worker" /\ wpc = "sigwait"

(* ... where it may end or not, the stack unwinding to its entry function  *)
(* (the handlers of thread_work() log too, behind the try block) ...       *)
MayEnd(t) ==
  \/ t = "listener" /\ tpc[t] = "header"
  \/ t = "worker" /\ tpc[t] = "header" /\ Stuck(job[t].len)
  \/ t = "worker" /\ wpc = "back" /\ Stuck(Last(queue).len)
  \/ t = "worker" /\ wpc = "process"

(* ... and where it may meet catch(...), inside the try block.             *)
MayAbort(t) ==
  /\ t = "worker"
  /\ \/ tpc[t] = "header" /\ ~Stuck(job[t].len)
     \/ wpc = "back" /\ ~Stuck(Last(queue).len)
     \/ wpc = "process"

Pending(t) == run[t] = "running" /\ t \in cancelled /\ ~Ended(t)

(* Mutant of End: the unwinding unlocks tmutex, as a lock_guard would do.  *)
EndUnlocks(t) ==
  /\ run' = [run EXCEPT ![t] = "ended"]
  /\ tmutex' = IF tmutex = t THEN Nobody ELSE tmutex
  /\ UNCHANGED <<lVars, queueVars, workerVars, tpc, job, headerOut, userSends>>
  /\ UNCHANGED <<out, life, cancelled, clock, missed, alive, spoilt>>

(* Nothing is unlocked on the way out.                                     *)
End(t) ==
  /\ run' = [run EXCEPT ![t] = "ended"]
  /\ UNCHANGED <<cpVars, life, cancelled, clock, missed, alive, spoilt>>

ProcessEnds ==
  /\ alive' = FALSE
  /\ UNCHANGED <<cpVars, life, run, cancelled, clock, missed, spoilt>>

EndsAtPoint(t) ==
  /\ Pending(t) /\ AtCancellationPoint(t)
  /\ IF t = "worker" /\ Sending(t) THEN ProcessEnds ELSE End(t)

EndsElsewhere(t) ==
  /\ Pending(t)
  /\ (MayEnd(t) /\ End(t)) \/ (MayAbort(t) /\ ProcessEnds)

(* What is left of a thread's code when it is not cancelled.  The user who *)
(* transmits is the owner, once startWorking() has returned                *)
(* (RegClient.cpp:54, 137).                                                *)
Runs(t) == run[t] = "running" /\ ~(t \in cancelled /\ AtCancellationPoint(t))

(* headerOut is freed before the threads are cancelled.  What send() reads *)
(* there afterwards is the header just made, or anything.                  *)
HeaderFreed == life \in Dying \cup {"abandoned", "destroyed"}

ReadsHeader(t) ==
  \/ spoilt' = spoilt
  \/ /\ HeaderFreed /\ tpc[t] = "send" /\ peer = "open"
     /\ spoilt' = TRUE

ListenerRuns ==
  /\ Runs("listener") /\ ListenerThread /\ ReadsHeader("listener")
  /\ UNCHANGED lifeVars

WorkerRuns ==
  /\ Runs("worker") /\ Worker /\ ReadsHeader("worker")
  /\ UNCHANGED lifeVars

UserCalls  == life = "up" /\ UserCall /\ UNCHANGED <<lifeVars, spoilt>>
UserGoesOn == Transmit("user") /\ UNCHANGED <<lifeVars, spoilt>>

(* A thread that works in memory which was freed, all of the ComPoint or   *)
(* headerOut only, may end the process; or it does not notice, and goes on *)
(* as ListenerRuns and WorkerRuns say.                                     *)
UseAfterFree ==
  /\ \E t \in Own :
       /\ run[t] \notin {"none", "ended"}
       /\ \/ life \in {"abandoned", "destroyed"} /\ ~Ended(t)
          \/ life \in Dying /\ tpc[t] \in {"header", "send"}
  /\ ProcessEnds

-----------------------------------------------------------------------------
OwnerActs     == (Create \/ Destroy \/ Destruct) /\ UNCHANGED <<cpVars, spoilt>>
BootWorker    == ConfigSignals \/ StartListenerThread
ListenerLives == ListenerRuns \/ EndsAtPoint("listener")
WorkerLives   == WorkerRuns \/ BootWorker \/ EndsAtPoint("worker")

NextLife ==
  /\ alive
  /\ \/ OwnerActs
     \/ ListenerLives \/ EndsElsewhere("listener")
     \/ WorkerLives \/ EndsElsewhere("worker")
     \/ UserCalls \/ UserGoesOn
     \/ UseAfterFree
     \/ PeerMoves /\ UNCHANGED <<lifeVars, spoilt>>

SpecLife == InitLife /\ [][NextLife]_allVars

(* The threads are scheduled, and a cancelled one ends at a cancellation   *)
(* point, a send() that hangs included; of the owner, that a wait and a    *)
(* destructor it has begun go on.  Nobody has to destroy a ComPoint, a     *)
(* thread need not end where it only may, and a send() that is not         *)
(* cancelled need not return before the peer has gone.                     *)
FairSpecLife ==
  /\ SpecLife
  /\ WF_allVars(alive /\ (EndsAtPoint("listener")
                          \/ (ListenerRuns /\ ~MayHang("listener"))))
  /\ WF_allVars(alive /\ (BootWorker \/ EndsAtPoint("worker")
                          \/ (WorkerRuns /\ ~MayHang("worker"))))
  /\ WF_allVars(alive /\ UserGoesOn /\ ~MayHang("user"))
  /\ WF_allVars(alive /\ (WaitForListenerUp \/ Destruct)
                      /\ UNCHANGED <<cpVars, spoilt>>)

-----------------------------------------------------------------------------
TypeOKLife ==
  /\ life \in {"none", "constructing", "idle", "starting", "up", "failed",
               "abandoned", "destroyed"} \cup Dying
  /\ run \in [Own -> {"none", "created", "masked", "running", "ended"}]
  /\ run["listener"] \notin {"created", "masked"}
  /\ cancelled \subseteq Own
  /\ clock \in 0 .. WT_TIMEOUT
  /\ missed \in BOOLEAN /\ alive \in BOOLEAN /\ spoilt \in BOOLEAN

(* A listener about to raise SIGUSR1 has a worker to raise it for: one     *)
(* that has blocked the signal, whose default action would end the         *)
(* process (thread_work() starts the listener after configSignals()), and  *)
(* that is not joined yet (the destructor joins the listener first).  With *)
(* one exception, which the code does not rule out: the destructor that    *)
(* runs after a start that timed out may miss the listener, which then     *)
(* starts late and signals a worker that was joined.                       *)
SignalHasTarget ==
  (lpc = "kill" /\ run["listener"] = "running") =>
    /\ run["worker"] \in {"running", "ended"}
    /\ life = "destroyed" => missed

(* What the peer reads stays a sequence of whole frames while threads      *)
(* throw out of transmit() and are cancelled in it, between its two        *)
(* send()s too: half a frame is the last thing on the connection, because  *)
(* the tmutex of a cancelled thread stays locked.  Only the header of a    *)
(* frame sent after the destructor has freed headerOut, or the             *)
(* constructor's Error the ComPoint, may be anything.                      *)
HalfFrameIsLast ==
  /\ OutputFramed
  /\ spoilt => HeaderFreed

(* Of a ComPoint whose listener the destructor did not miss no thread      *)
(* writes to the connection any more when both are cancelled, before       *)
(* either is joined, which bounds the time in which freed memory can be    *)
(* sent; and when it is destroyed, none touches the socket, the queue, the *)
(* mutexes or the buffers.                                                 *)
QuietAfterDestruction ==
  [][/\ (life \in {"join listener", "join worker"} /\ ~missed) =>
          UNCHANGED out
     /\ (life = "destroyed" /\ ~missed) =>
          UNCHANGED <<listenerVars, queueVars, workerVars, sendVars>>]_allVars

(* tmutex is held by a thread that will not unlock it: it was cancelled in *)
(* send(), or log() threw between lock and unlock.                         *)
Orphaned ==
  \E t \in Thread :
    /\ tmutex = t
    /\ tpc[t] \notin {"header", "send", "data"} \/ (t \in Own /\ Ended(t))

(* The worker goes round its loop with a message log() throws for.         *)
Spinning ==
  wpc \in {"check", "back"} /\ queue # <<>> /\ Stuck(Last(queue).len)

(* The destructor returns, or the process ends, unless one of three things *)
(* keeps a thread from ending: an orphaned tmutex, a message that cannot   *)
(* be logged, or a listener that started after the destructor missed it.   *)
DestructionEnds ==
  (life = "cancel listener") ~>
    (life = "destroyed" \/ ~alive \/ Orphaned \/ Spinning \/ missed)

(* ComPoint.hpp:184 as far as the code keeps it: the worker catches up     *)
(* with the listener, unless the message whose turn it is cannot be        *)
(* logged, tmutex is orphaned, a send() does not return, or the ComPoint   *)
(* is destroyed first.                                                     *)
ProcessedUnlessStuck ==
  (Len(processed) < Len(delivered)) ~>
    \/ Len(processed) = Len(delivered)
    \/ Spinning \/ Orphaned \/ Hung
    \/ life \in Dying \cup {"destroyed"} \/ ~alive
=============================================================================
