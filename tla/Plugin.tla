------------------------------- MODULE Plugin -------------------------------
(***************************************************************************)
(* A plugin's ComPoints from their creation by the accept thread to their  *)
(* destruction by the main thread: PluginInterface, and of ComPoint the    *)
(* destructor and what listener and worker have to do with it.             *)
(*                                                                         *)
(* Of the frames and of the queue, which ComPoint and Lifecycle have in    *)
(* full, what matters here is left: where a thread can be kept from ending *)
(* or the end of a connection from being noticed.                          *)
(*                                                                         *)
(* thread_accept() is in the classes that implement PluginInterface; it is *)
(* modelled from PluginInterface.hpp:113 and marked external, and so is    *)
(* the client at the other end of a ComPoint.                              *)
(***************************************************************************)
EXTENDS Naturals, Sequences, SequencesExt

CONSTANT MaxClients    \* bound: clients that connect

ASSUME PluginAssumption == MaxClients \in Nat

VARIABLES
  main,         \* where the main thread stands
  at,           \* the iterator of checkForDeleteableComPoints()
  regGone,      \* regClient->isDeletable()
  accepter,     \* "accept", "push" (a ComPoint in hand) or "gone"
  made,         \* ComPoints created so far
  comPointList,
  cpLMutex,     \* is it locked?
  handler,      \* the ProcessInterface of each ComPoint
  point,        \* the ComPoint itself
  client,       \* "none" yet, "here" or "gone", its last byte received
  deletable,
  listener, worker,
  tmutex,       \* of each ComPoint: its holder, "free", or "lost" when the
                \* holder will not unlock it any more
  alive         \* the process

mainVars   == <<main, at, regGone, comPointList, cpLMutex>>
acceptVars == <<accepter, made>>
threadVars == <<client, listener, worker, tmutex, deletable>>
objectVars == <<handler, point>>
vars == <<mainVars, acceptVars, threadVars, objectVars, alive>>

Client == 1 .. MaxClients

Init ==
  /\ main = "sleep" /\ at = 1 /\ regGone = FALSE
  /\ accepter = "accept" /\ made = 0
  /\ comPointList = <<>> /\ cpLMutex = FALSE
  /\ handler = [c \in Client |-> "none"] /\ point = [c \in Client |-> "none"]
  /\ client = [c \in Client |-> "none"] /\ tmutex = [c \in Client |-> "free"]
  /\ deletable = [c \in Client |-> FALSE]
  /\ listener = [c \in Client |-> "off"] /\ worker = [c \in Client |-> "off"]
  /\ alive = TRUE

-----------------------------------------------------------------------------
(***************************************************************************)
(* The accept thread.  accept() is where the destructor cancels it.        *)
(***************************************************************************)
Accept ==
  /\ accepter = "accept" /\ main # "join accepter"
  /\ made < MaxClients
  /\ made' = made + 1
  /\ handler' = [handler EXCEPT ![made'] = "alive"]
  /\ point' = [point EXCEPT ![made'] = "alive"]
  /\ client' = [client EXCEPT ![made'] = "here"]
  /\ listener' = [listener EXCEPT ![made'] = "recv"]
  /\ worker' = [worker EXCEPT ![made'] = "sigwait"]
  /\ accepter' = "push"
  /\ UNCHANGED <<mainVars, tmutex, deletable, alive>>

PushComPointList ==
  /\ accepter = "push"
  /\ ~cpLMutex
  /\ comPointList' = Append(comPointList, made)
  /\ accepter' = "accept"
  /\ UNCHANGED <<main, at, regGone, cpLMutex, made, threadVars, objectVars, alive>>

Accepter == Accept \/ PushComPointList

-----------------------------------------------------------------------------
(***************************************************************************)
(* transmit() by one of a ComPoint's threads.  log() may throw for the     *)
(* worker's answers, with tmutex locked.                                   *)
(***************************************************************************)
Back(t) == IF t = "listener" THEN "recv" ELSE "sigwait"

(* Thread t of ComPoint c goes from one place to another.                  *)
At(c, t) == IF t = "listener" THEN listener[c] ELSE worker[c]

Goes(c, t, next) ==
  IF t = "listener"
    THEN listener' = [listener EXCEPT ![c] = next] /\ UNCHANGED worker
    ELSE worker' = [worker EXCEPT ![c] = next] /\ UNCHANGED listener

Lock(c, t) ==
  /\ At(c, t) = "lock" /\ tmutex[c] = "free"
  /\ \/ /\ tmutex' = [tmutex EXCEPT ![c] = t]
        /\ Goes(c, t, "send")
     \/ /\ t = "worker"
        /\ tmutex' = [tmutex EXCEPT ![c] = "lost"]
        /\ Goes(c, t, "sigwait")
  /\ UNCHANGED <<mainVars, acceptVars, objectVars, client, deletable, alive>>

(* Both send()s and the unlock.  The process may end: of SIGPIPE, when the *)
(* client has left, or of a headerOut that is freed already.               *)
Sent(c, t) ==
  /\ At(c, t) = "send"
  /\ tmutex' = [tmutex EXCEPT ![c] = "free"]
  /\ Goes(c, t, Back(t))
  /\ alive' \in IF point[c] = "alive" /\ client[c] = "here" THEN {TRUE} ELSE BOOLEAN
  /\ UNCHANGED <<mainVars, acceptVars, objectVars, client, deletable>>

-----------------------------------------------------------------------------
(***************************************************************************)
(* The client and the listener.  Once the destructor has begun, neither    *)
(* thread goes on from where it is cancelled for certain, recv() and       *)
(* sigwait(); transmit() may still be on its way.                          *)
(***************************************************************************)
Leave(c) ==
  /\ client[c] = "here"
  /\ client' = [client EXCEPT ![c] = "gone"]
  /\ UNCHANGED <<mainVars, acceptVars, objectVars, listener, worker, tmutex,
                 deletable, alive>>

(* A header is refused, and the error is transmitted.  Messages for the    *)
(* queue are left to Work.                                                 *)
Receive(c) ==
  /\ listener[c] = "recv" /\ point[c] = "alive" /\ client[c] = "here"
  /\ listener' = [listener EXCEPT ![c] = "lock"]
  /\ UNCHANGED <<mainVars, acceptVars, objectVars, client, worker, tmutex,
                 deletable, alive>>

(* The end of the connection.  recv() returns 0 to thread_listen(), or,    *)
(* the client having left inside a frame, to waitForFurtherData(), which   *)
(* takes it for data: the listener then goes round for ever.               *)
ListenerEnds(c) ==
  /\ listener[c] = "recv" /\ point[c] = "alive" /\ client[c] = "gone"
  /\ listener' = [listener EXCEPT ![c] = "done"]
  /\ deletable' = [deletable EXCEPT ![c] = TRUE]
  /\ UNCHANGED <<mainVars, acceptVars, objectVars, client, worker, tmutex,
                 alive>>

ListenerSpins(c) ==
  /\ listener[c] = "recv" /\ point[c] = "alive" /\ client[c] = "gone"
  /\ listener' = [listener EXCEPT ![c] = "spin"]
  /\ UNCHANGED <<mainVars, acceptVars, objectVars, client, worker, tmutex,
                 deletable, alive>>

Listen(c) ==
  \/ Receive(c) \/ ListenerEnds(c) \/ ListenerSpins(c)
  \/ Lock(c, "listener") \/ Sent(c, "listener")

-----------------------------------------------------------------------------
(***************************************************************************)
(* The worker.                                                             *)
(***************************************************************************)
(* A message is taken from the queue, in which there may be one whenever   *)
(* the worker looks, or log() throws for it before the pop, this time and  *)
(* every time.                                                             *)
Work(c) ==
  /\ worker[c] = "sigwait" /\ point[c] = "alive"
  /\ worker' \in {[worker EXCEPT ![c] = next] : next \in {"process", "spin"}}
  /\ UNCHANGED <<mainVars, acceptVars, objectVars, client, listener, tmutex,
                 deletable, alive>>

(* processMsg() of the handler returns, with or without an answer.  Of a   *)
(* handler that is freed anything may come, the process's end included.    *)
Processed(c) ==
  /\ worker[c] = "process"
  /\ worker' \in {[worker EXCEPT ![c] = next] : next \in {"lock", "sigwait"}}
  /\ alive' \in IF handler[c] = "alive" THEN {TRUE} ELSE BOOLEAN
  /\ UNCHANGED <<mainVars, acceptVars, objectVars, client, listener, tmutex,
                 deletable>>

WorkerOf(c) == Work(c) \/ Processed(c) \/ Lock(c, "worker") \/ Sent(c, "worker")

-----------------------------------------------------------------------------
(***************************************************************************)
(* What pthread_cancel() does at the next cancellation point; the wait for *)
(* tmutex is none.  Nothing is unlocked on the way out.  The worker in     *)
(* processMsg() and in transmit() is inside the try block, whose           *)
(* catch(...) takes the cancellation and does not rethrow: that ends the   *)
(* process.                                                                *)
(***************************************************************************)
ListenerCancelled(c) ==
  /\ point[c] = "cancelled"
  /\ listener[c] \in {"recv", "spin", "send"}
  /\ listener' = [listener EXCEPT ![c] = "done"]
  /\ tmutex' = IF listener[c] = "send" THEN [tmutex EXCEPT ![c] = "lost"] ELSE tmutex
  /\ UNCHANGED <<mainVars, acceptVars, objectVars, client, worker, deletable,
                 alive>>

WorkerCancelled(c) ==
  /\ point[c] = "cancelled"
  /\ \/ /\ worker[c] = "sigwait"
        /\ worker' = [worker EXCEPT ![c] = "done"]
        /\ UNCHANGED alive
     \/ /\ worker[c] \in {"process", "send"}
        /\ alive' = FALSE
        /\ UNCHANGED worker
  /\ UNCHANGED <<mainVars, acceptVars, objectVars, client, listener, tmutex,
                 deletable>>

(* The worker that goes round with a message log() throws for meets a      *)
(* cancellation point only if the log() behind the try block is one.       *)
SpinnerCancelled(c) ==
  /\ point[c] = "cancelled" /\ worker[c] = "spin"
  /\ worker' = [worker EXCEPT ![c] = "done"]
  /\ UNCHANGED <<mainVars, acceptVars, objectVars, client, listener, tmutex,
                 deletable, alive>>

Cancelled(c) == ListenerCancelled(c) \/ WorkerCancelled(c) \/ SpinnerCancelled(c)

-----------------------------------------------------------------------------
(***************************************************************************)
(* The main loop: every WAIT_TIME seconds checkForDeleteableComPoints(),   *)
(* with cpLMutex locked throughout.                                        *)
(***************************************************************************)
(* Mutant of CheckForDeletable: the scan starts before the list's begin(). *)
CheckFromZero ==
  /\ main = "sleep"
  /\ ~cpLMutex
  /\ cpLMutex' = TRUE
  /\ at' = 0
  /\ main' = "scan"
  /\ UNCHANGED <<regGone, comPointList, acceptVars, threadVars, objectVars, alive>>

CheckForDeletable ==
  /\ main = "sleep"
  /\ ~cpLMutex
  /\ cpLMutex' = TRUE
  /\ at' = 1
  /\ main' = "scan"
  /\ UNCHANGED <<regGone, comPointList, acceptVars, threadVars, objectVars, alive>>

(* Mutant of SkipActive: the scan ends at the first active ComPoint.       *)
StopAtActive ==
  /\ main = "scan"
  /\ at <= Len(comPointList)
  /\ ~deletable[comPointList[at]]
  /\ at' = Len(comPointList) + 1
  /\ UNCHANGED <<main, regGone, comPointList, cpLMutex, acceptVars, threadVars,
                 objectVars, alive>>

SkipActive ==
  /\ main = "scan"
  /\ at <= Len(comPointList)
  /\ ~deletable[comPointList[at]]
  /\ at' = at + 1
  /\ UNCHANGED <<main, regGone, comPointList, cpLMutex, acceptVars, threadVars,
                 objectVars, alive>>

(* Mutant of DeleteHandler: isDeletable() is not asked.                    *)
DeleteAnyHandler ==
  /\ main = "scan"
  /\ at <= Len(comPointList)
  /\ handler' = [handler EXCEPT ![comPointList[at]] = "deleted"]
  /\ main' = "reap"
  /\ UNCHANGED <<at, regGone, comPointList, cpLMutex, acceptVars, threadVars,
                 point, alive>>

DeleteHandler ==
  /\ main = "scan"
  /\ at <= Len(comPointList)
  /\ deletable[comPointList[at]]
  /\ handler' = [handler EXCEPT ![comPointList[at]] = "deleted"]
  /\ main' = "reap"
  /\ UNCHANGED <<at, regGone, comPointList, cpLMutex, acceptVars, threadVars,
                 point, alive>>

(* ~ComPoint() up to the pthread_cancel()s, and from the joins on.         *)
Cancel(c) == point' = [point EXCEPT ![c] = "cancelled"]

Joined(c) ==
  /\ listener[c] = "done" /\ worker[c] = "done"
  /\ point' = [point EXCEPT ![c] = "deleted"]

Reap ==
  /\ main = "reap"
  /\ Cancel(comPointList[at])
  /\ main' = "join"
  /\ UNCHANGED <<at, regGone, comPointList, cpLMutex, acceptVars, threadVars,
                 handler, alive>>

(* Mutant of Reaped: the ComPoint is deleted but not erased from the list. *)
ReapedNotErased ==
  /\ main = "join"
  /\ Joined(comPointList[at])
  /\ at' = at + 1
  /\ main' = "scan"
  /\ UNCHANGED <<comPointList, regGone, cpLMutex, acceptVars, threadVars,
                 handler, alive>>

Reaped ==
  /\ main = "join"
  /\ Joined(comPointList[at])
  /\ comPointList' = RemoveAt(comPointList, at)
  /\ main' = "scan"
  /\ UNCHANGED <<at, regGone, cpLMutex, acceptVars, threadVars, handler, alive>>

(* Mutant of CheckEnds: cpLMutex stays locked when the plugin is to end.   *)
CheckEndsLocked ==
  /\ main = "scan"
  /\ at > Len(comPointList)
  /\ cpLMutex' = regGone
  /\ main' = IF regGone THEN "join accepter" ELSE "sleep"
  /\ at' = 1
  /\ UNCHANGED <<regGone, comPointList, acceptVars, threadVars, objectVars,
                 alive>>

(* Unlock, and look at the RegClient.                                      *)
CheckEnds ==
  /\ main = "scan"
  /\ at > Len(comPointList)
  /\ cpLMutex' = FALSE
  /\ main' = IF regGone THEN "join accepter" ELSE "sleep"
  /\ at' = 1
  /\ UNCHANGED <<regGone, comPointList, acceptVars, threadVars, objectVars,
                 alive>>

-----------------------------------------------------------------------------
(***************************************************************************)
(* ~PluginInterface(): cancel and join the accept thread, then delete what *)
(* is in the list, without cpLMutex, and without the ProcessInterfaces.    *)
(***************************************************************************)
(* Mutant of AccepterJoined: the accept thread is cancelled, not joined.   *)
AccepterNotJoined ==
  /\ main = "join accepter"
  /\ main' = "empty"
  /\ UNCHANGED <<at, regGone, comPointList, cpLMutex, acceptVars, threadVars,
                 objectVars, alive>>

AccepterJoined ==
  /\ main = "join accepter"
  /\ accepter = "accept"
  /\ accepter' = "gone"
  /\ main' = "empty"
  /\ UNCHANGED <<at, regGone, comPointList, cpLMutex, made, threadVars,
                 objectVars, alive>>

DeleteFirst ==
  /\ main = "empty"
  /\ comPointList # <<>>
  /\ Cancel(Head(comPointList))
  /\ main' = "empty join"
  /\ UNCHANGED <<at, regGone, comPointList, cpLMutex, acceptVars, threadVars,
                 handler, alive>>

FirstDeleted ==
  /\ main = "empty join"
  /\ Joined(Head(comPointList))
  /\ comPointList' = Tail(comPointList)
  /\ main' = "empty"
  /\ UNCHANGED <<at, regGone, cpLMutex, acceptVars, threadVars, handler, alive>>

ListDeleted ==
  /\ main = "empty"
  /\ comPointList = <<>>
  /\ main' = "ended"
  /\ UNCHANGED <<at, regGone, comPointList, cpLMutex, acceptVars, threadVars,
                 objectVars, alive>>

CheckForDeleteableComPoints ==
  CheckForDeletable \/ SkipActive \/ DeleteHandler \/ Reap \/ Reaped \/ CheckEnds

Destructor == AccepterJoined \/ DeleteFirst \/ FirstDeleted \/ ListDeleted

Main == CheckForDeleteableComPoints \/ Destructor

(* The RSD leaves: RegClient's ComPoint becomes deletable.                 *)
RegClientGone ==
  /\ ~regGone
  /\ regGone' = TRUE
  /\ UNCHANGED <<main, at, comPointList, cpLMutex, acceptVars, threadVars,
                 objectVars, alive>>

Next ==
  /\ alive
  /\ \/ Main \/ Accepter \/ RegClientGone
     \/ \E c \in Client : Leave(c) \/ Listen(c) \/ WorkerOf(c) \/ Cancelled(c)

Spec == Init /\ [][Next]_vars

(* The plugin's threads are scheduled, processMsg() returns, and a thread  *)
(* that is cancelled ends where it must.  Clients and the RSD need do      *)
(* nothing, so a send() need not return before the client has left.  The   *)
(* accept thread gets cpLMutex in the end, which is free for WAIT_TIME     *)
(* seconds between two scans, and a listener tmutex, which the worker      *)
(* leaves free while it processes: strong fairness.                        *)
MayHang(c, t) == At(c, t) = "send" /\ client[c] = "here"

ListenerGoesOn(c) ==
  \/ ListenerEnds(c) \/ ListenerSpins(c) \/ ListenerCancelled(c)
  \/ Lock(c, "listener")
  \/ Sent(c, "listener") /\ ~MayHang(c, "listener")

WorkerGoesOn(c) ==
  \/ Processed(c) \/ WorkerCancelled(c)
  \/ Lock(c, "worker")
  \/ Sent(c, "worker") /\ ~MayHang(c, "worker")

FairSpec ==
  /\ Spec
  /\ WF_vars(alive /\ Main)
  /\ SF_vars(alive /\ PushComPointList)
  /\ \A c \in Client : SF_vars(alive /\ ListenerGoesOn(c))
                       /\ WF_vars(alive /\ WorkerGoesOn(c))

-----------------------------------------------------------------------------
TypeOK ==
  /\ main \in {"sleep", "scan", "reap", "join", "join accepter", "empty",
               "empty join", "ended"}
  /\ at \in 1 .. MaxClients + 1
  /\ comPointList \in Seq(Client)
  /\ accepter \in {"accept", "push", "gone"} /\ made \in 0 .. MaxClients
  /\ regGone \in BOOLEAN /\ cpLMutex \in BOOLEAN /\ alive \in BOOLEAN
  /\ handler \in [Client -> {"none", "alive", "deleted"}]
  /\ point \in [Client -> {"none", "alive", "cancelled", "deleted"}]
  /\ deletable \in [Client -> BOOLEAN]
  /\ client \in [Client -> {"none", "here", "gone"}]
  /\ listener \in [Client -> {"off", "recv", "lock", "send", "spin", "done"}]
  /\ worker \in [Client -> {"off", "sigwait", "process", "lock", "send", "spin",
                            "done"}]
  /\ tmutex \in [Client -> {"free", "listener", "worker", "lost"}]

(* Who holds cpLMutex finds whole ComPoints in the list: none is deleted   *)
(* or being deleted but the one the main thread is at, and none is listed  *)
(* twice (pushComPointList against the erase in the scan).                 *)
ListIsLive ==
  /\ \A i, j \in DOMAIN comPointList : i # j => comPointList[i] # comPointList[j]
  /\ main \in {"sleep", "scan", "join accepter", "empty"} =>
       \A i \in DOMAIN comPointList : point[comPointList[i]] = "alive"

(* The main loop destroys no ComPoint, and no ProcessInterface, of a       *)
(* client that is still connected (isDeletable() is set by the listener,   *)
(* read by the scan, and the delete comes two steps later).                *)
ActiveIsKept ==
  main \in {"sleep", "scan", "reap", "join"} =>
    \A c \in Client : "deleted" \in {handler[c], point[c]} => client[c] = "gone"

(* The plugin ends with every ComPoint it ever accepted destroyed, the one *)
(* the accept thread had in hand when it was cancelled included.           *)
NoneForgotten ==
  main = "ended" => \A c \in Client : point[c] \in {"none", "deleted"}

(* A thread of ComPoint c that no cancellation ends: the worker goes round *)
(* with a message that cannot be logged, or a thread waits for a tmutex    *)
(* that a throw of log() or a cancellation in send() has left locked.      *)
Endless(c) ==
  \/ worker[c] = "spin"
  \/ tmutex[c] = "lost" /\ "lock" \in {listener[c], worker[c]}

(* The main thread may wait for ever in a ~ComPoint(), in the scan with    *)
(* cpLMutex locked.                                                        *)
KeptWaiting == \E c \in Client : point[c] = "cancelled" /\ Endless(c)

(* The listener of c does not see that its client has left.                *)
Unnoticed(c) ==
  listener[c] = "spin" \/ (listener[c] = "lock" /\ tmutex[c] = "lost")

(* A ComPoint whose client has left, in whatever state that finds it, is   *)
(* destroyed, whatever else is in the list and whoever comes, or the       *)
(* process ends: unless its listener does not notice (it spins, the client *)
(* having left inside a frame, or waits for a tmutex left locked), or the  *)
(* destructor of a ComPoint, this one or another, keeps waiting.           *)
GoneIsReaped ==
  \A c \in Client :
    client[c] = "gone" ~>
      (point[c] = "deleted" \/ ~alive \/ Unnoticed(c) \/ KeptWaiting)

(* The RSD's leaving, once noticed, ends the plugin: neither the accept    *)
(* thread nor a client that is connected, hangs or has left inside a frame *)
(* keeps the destructor waiting.  What can is a thread that no             *)
(* cancellation ends.                                                      *)
PluginEnds == regGone ~> (main = "ended" \/ ~alive \/ KeptWaiting)

(* PluginInterface.hpp:56, checkForDeleteableComPoints() "searches for     *)
(* inactive ComPoints and deletes them", and ComPoint.hpp:112, isDeletable *)
(* "if this ComPoint is not active anymore": no processMsg() runs in a     *)
(* ProcessInterface that is deleted.                                       *)
HandlerOutlivesWork ==
  \A c \in Client : worker[c] = "process" => handler[c] = "alive"
=============================================================================
