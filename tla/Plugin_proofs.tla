---------------------------- MODULE Plugin_proofs ----------------------------
(***************************************************************************)
(* The life of a plugin's ComPoints, for any number of clients.            *)
(***************************************************************************)
EXTENDS Plugin, Integers, SequenceTheorems, TLAPS

(* The list holds ComPoints in the order in which they were made, none of  *)
(* them twice and not the one the accept thread has in hand.               *)
ListOK ==
  /\ \A i \in DOMAIN comPointList : comPointList[i] \in i .. made
  /\ \A i, j \in DOMAIN comPointList : i < j => comPointList[i] < comPointList[j]
  /\ accepter = "push" =>
       /\ made # 0
       /\ \A i \in DOMAIN comPointList : comPointList[i] # made

(* A ComPoint that was made is listed, in the accept thread's hand or      *)
(* deleted.                                                                *)
MadeOK ==
  \A c \in Client :
    /\ c > made => point[c] = "none"
    /\ c <= made => \/ point[c] = "deleted"
                    \/ \E i \in DOMAIN comPointList : comPointList[i] = c
                    \/ accepter = "push" /\ c = made

(* Listed ComPoints are whole, but for the one that is being deleted.      *)
Dying(i) == (main = "join" /\ i = at) \/ (main = "empty join" /\ i = 1)

LiveOK ==
  /\ \A i \in DOMAIN comPointList :
       point[comPointList[i]] = IF Dying(i) THEN "cancelled" ELSE "alive"
  /\ accepter = "push" => point[made] = "alive"

(* Where the main thread stands and what it knows there.                   *)
MainOK ==
  /\ cpLMutex <=> (main \in {"scan", "reap", "join"})
  /\ main \in {"scan", "reap", "join"} => at \in 1 .. Len(comPointList) + 1
  /\ main \in {"reap", "join"} =>
       at \in DOMAIN comPointList /\ deletable[comPointList[at]]
  /\ accepter = "gone" <=> main \in {"empty", "empty join", "ended"}
  /\ main = "empty join" => comPointList # <<>>
  /\ main = "ended" => comPointList = <<>>

(* What the main loop has destroyed was deletable.                         *)
ReapedOK ==
  main \in {"sleep", "scan", "reap", "join"} =>
    \A c \in Client : "deleted" \in {handler[c], point[c]} => deletable[c]

(* Only a client that has gone makes its ComPoint deletable, and one that  *)
(* is not there yet has no listener to do so.                              *)
GoneOK ==
  \A c \in Client : /\ deletable[c] => client[c] = "gone"
                    /\ c > made => listener[c] = "off" /\ ~deletable[c]

IInv == TypeOK /\ ListOK /\ MadeOK /\ LiveOK /\ MainOK /\ ReapedOK /\ GoneOK

-----------------------------------------------------------------------------
(* Taking the k-th element out of a list keeps the others in their order.  *)
LEMMA Removed ==
  ASSUME NEW S, NEW s \in Seq(S), NEW k \in 1 .. Len(s)
  PROVE  /\ RemoveAt(s, k) \in Seq(S)
         /\ Len(RemoveAt(s, k)) = Len(s) - 1
         /\ \A i \in 1 .. Len(s) - 1 :
              RemoveAt(s, k)[i] = IF i < k THEN s[i] ELSE s[i + 1]
<1> DEFINE a == SubSeq(s, 1, k - 1)
           b == SubSeq(s, k + 1, Len(s))
<1>1. Len(s) \in Nat /\ k \in Int
  OBVIOUS
<1>2. \A i \in 1 .. Len(s) : s[i] \in S
  OBVIOUS
<1>3. /\ a \in Seq(S) /\ Len(a) = k - 1
      /\ \A i \in 1 .. k - 1 : a[i] = s[i]
  <2>1. \A i \in 1 .. k - 1 : s[i] \in S
    BY <1>1, <1>2
  <2> QED
    BY <1>1, <2>1, SubSeqProperties
<1>4. /\ b \in Seq(S) /\ Len(b) = Len(s) - k
      /\ \A i \in 1 .. Len(s) - k : b[i] = s[k + i]
  <2>1. \A i \in k + 1 .. Len(s) : s[i] \in S
    BY <1>1, <1>2
  <2>2. /\ b \in Seq(S)
        /\ Len(b) = IF k + 1 <= Len(s) THEN Len(s) - (k + 1) + 1 ELSE 0
        /\ \A i \in 1 .. Len(s) - (k + 1) + 1 : b[i] = s[k + 1 + i - 1]
    BY <1>1, <2>1, SubSeqProperties
  <2> QED
    BY <1>1, <2>2
<1>5. RemoveAt(s, k) = a \o b
  BY DEF RemoveAt
<1> HIDE DEF a, b
<1>6. /\ a \o b \in Seq(S)
      /\ Len(a \o b) = Len(a) + Len(b)
      /\ \A i \in 1 .. Len(a) + Len(b) :
           (a \o b)[i] = IF i <= Len(a) THEN a[i] ELSE b[i - Len(a)]
  BY <1>3, <1>4, ConcatProperties
<1>7. ASSUME NEW i \in 1 .. Len(s) - 1
      PROVE  (a \o b)[i] = IF i < k THEN s[i] ELSE s[i + 1]
  <2>1. CASE i < k
    BY <1>1, <1>3, <1>4, <1>6, <2>1
  <2>2. CASE ~(i < k)
    <3>1. i - (k - 1) \in 1 .. Len(s) - k /\ k + (i - (k - 1)) = i + 1
      BY <1>1, <2>2
    <3>2. (a \o b)[i] = b[i - (k - 1)]
      BY <1>1, <1>3, <1>4, <1>6, <2>2
    <3> QED
      BY <1>4, <2>2, <3>1, <3>2
  <2> QED
    BY <2>1, <2>2
<1>8. Len(a \o b) = Len(s) - 1
  BY <1>1, <1>3, <1>4, <1>6
<1> QED
  BY <1>5, <1>6, <1>7, <1>8

(* A list of ComPoints is no longer than there are clients.                *)
LEMMA ListBounded == ASSUME TypeOK, ListOK
                     PROVE  /\ Len(comPointList) \in 0 .. MaxClients
                            /\ DOMAIN comPointList = 1 .. Len(comPointList)
<1>0. comPointList \in Seq(Client) /\ made \in 0 .. MaxClients
  BY DEF TypeOK
<1>1. Len(comPointList) \in Nat /\ DOMAIN comPointList = 1 .. Len(comPointList)
  BY <1>0
<1>2. MaxClients \in Nat /\ made \in Nat /\ made <= MaxClients
  BY <1>0, PluginAssumption
<1>3. CASE Len(comPointList) = 0
  BY <1>1, <1>2, <1>3
<1>4. CASE Len(comPointList) # 0
  <2>1. Len(comPointList) \in DOMAIN comPointList
    BY <1>1, <1>4
  <2>2. comPointList[Len(comPointList)] \in Len(comPointList) .. made
    BY <2>1 DEF ListOK
  <2> QED
    BY <1>1, <1>2, <2>2
<1> QED
  BY <1>3, <1>4

-----------------------------------------------------------------------------
(* The threads of the ComPoints and the RSD touch neither list nor objects, *)
(* and a ComPoint that is deletable stays so.                              *)
OfPoint(c) == Leave(c) \/ Listen(c) \/ WorkerOf(c) \/ Cancelled(c)

Quiet == RegClientGone \/ \E c \in Client : OfPoint(c)

LEMMA QuietKeeps ==
  ASSUME TypeOK, Quiet
  PROVE  /\ UNCHANGED <<main, at, comPointList, cpLMutex, acceptVars, objectVars>>
         /\ \A c \in Client : deletable[c] => deletable'[c]
<1>1. CASE RegClientGone
  BY <1>1 DEF RegClientGone, threadVars
<1>2. ASSUME NEW c \in Client, OfPoint(c)
      PROVE  /\ UNCHANGED <<main, at, comPointList, cpLMutex, acceptVars, objectVars>>
             /\ \A d \in Client : deletable[d] => deletable'[d]
  BY <1>2 DEF OfPoint, Leave, Listen, Receive, ListenerEnds, ListenerSpins, Lock,
              Sent, WorkerOf, Work, Processed, Cancelled, ListenerCancelled,
              WorkerCancelled, SpinnerCancelled, mainVars, TypeOK
<1> QED
  BY <1>1, <1>2 DEF Quiet

(* What the steps of one ComPoint do to its own state.                     *)
LEMMA GoesTypes ==
  ASSUME TypeOK, NEW c \in Client, NEW t \in {"listener", "worker"},
         NEW next \in {"recv", "sigwait", "lock", "send"},
         t = "listener" => next # "sigwait", t = "worker" => next # "recv",
         Goes(c, t, next)
  PROVE  /\ listener' \in [Client -> {"off", "recv", "lock", "send", "spin", "done"}]
         /\ worker' \in [Client -> {"off", "sigwait", "process", "lock", "send",
                                    "spin", "done"}]
<1>1. /\ listener \in [Client -> {"off", "recv", "lock", "send", "spin", "done"}]
      /\ worker \in [Client -> {"off", "sigwait", "process", "lock", "send",
                                "spin", "done"}]
  BY DEF TypeOK
<1>2. CASE t = "listener"
  <2>1. listener' = [listener EXCEPT ![c] = next] /\ worker' = worker
    BY <1>2 DEF Goes
  <2>2. next \in {"recv", "lock", "send"}
    BY <1>2
  <2> QED
    BY <1>1, <2>1, <2>2
<1>3. CASE t = "worker"
  <2>1. worker' = [worker EXCEPT ![c] = next] /\ listener' = listener
    BY <1>3 DEF Goes
  <2>2. next \in {"sigwait", "lock", "send"}
    BY <1>3
  <2> QED
    BY <1>1, <2>1, <2>2
<1> QED
  BY <1>2, <1>3

(* They keep their types.                                                  *)
LEMMA QuietTypes == ASSUME TypeOK, Quiet PROVE TypeOK'
<1> USE DEF acceptVars, objectVars, mainVars, threadVars
<1>1. CASE RegClientGone
  BY <1>1 DEF RegClientGone, TypeOK
<1>2. ASSUME NEW c \in Client, Leave(c) PROVE TypeOK'
  BY <1>2 DEF Leave, TypeOK
<1>3. ASSUME NEW c \in Client, Receive(c) \/ ListenerSpins(c) PROVE TypeOK'
  BY <1>3 DEF Receive, ListenerSpins, TypeOK
<1>4. ASSUME NEW c \in Client, ListenerEnds(c) PROVE TypeOK'
  <2>1. deletable' \in [Client -> BOOLEAN]
    <3>1. deletable' = [deletable EXCEPT ![c] = TRUE]
      BY <1>4 DEF ListenerEnds
    <3>2. deletable \in [Client -> BOOLEAN]
      BY DEF TypeOK
    <3> QED
      BY <3>1, <3>2
  <2>2. listener' \in [Client -> {"off", "recv", "lock", "send", "spin", "done"}]
    BY <1>4 DEF ListenerEnds, TypeOK
  <2>3. UNCHANGED <<mainVars, acceptVars, objectVars, client, worker, tmutex, alive>>
    BY <1>4 DEF ListenerEnds
  <2> QED
    BY <2>1, <2>2, <2>3 DEF TypeOK
<1>5. ASSUME NEW c \in Client, NEW t \in {"listener", "worker"}, Lock(c, t)
      PROVE  TypeOK'
  <2>1. tmutex' \in [Client -> {"free", "listener", "worker", "lost"}]
    BY <1>5 DEF Lock, TypeOK
  <2>2. Goes(c, t, "send") \/ (t = "worker" /\ Goes(c, t, "sigwait"))
    BY <1>5 DEF Lock
  <2>3. UNCHANGED <<mainVars, acceptVars, objectVars, client, deletable, alive>>
    BY <1>5 DEF Lock
  <2>4. /\ listener' \in [Client -> {"off", "recv", "lock", "send", "spin", "done"}]
        /\ worker' \in [Client -> {"off", "sigwait", "process", "lock", "send",
                                   "spin", "done"}]
    BY <2>2, GoesTypes
  <2> QED
    BY <2>1, <2>3, <2>4 DEF TypeOK
<1>6. ASSUME NEW c \in Client, NEW t \in {"listener", "worker"}, Sent(c, t)
      PROVE  TypeOK'
  <2>1. tmutex' \in [Client -> {"free", "listener", "worker", "lost"}]
    BY <1>6 DEF Sent, TypeOK
  <2>2. alive' \in BOOLEAN
    BY <1>6 DEF Sent
  <2>3. UNCHANGED <<mainVars, acceptVars, objectVars, client, deletable>>
    BY <1>6 DEF Sent
  <2>4. /\ listener' \in [Client -> {"off", "recv", "lock", "send", "spin", "done"}]
        /\ worker' \in [Client -> {"off", "sigwait", "process", "lock", "send",
                                   "spin", "done"}]
    BY <1>6, GoesTypes DEF Sent, Back
  <2> QED
    BY <2>1, <2>2, <2>3, <2>4 DEF TypeOK
<1>7. ASSUME NEW c \in Client, Work(c) PROVE TypeOK'
  <2>1. PICK next \in {"process", "spin"} : worker' = [worker EXCEPT ![c] = next]
    BY <1>7 DEF Work
  <2>2. worker \in [Client -> {"off", "sigwait", "process", "lock", "send", "spin",
                              "done"}]
    BY DEF TypeOK
  <2>3. worker' \in [Client -> {"off", "sigwait", "process", "lock", "send", "spin",
                               "done"}]
    BY <2>1, <2>2
  <2> QED
    BY <1>7, <2>3 DEF Work, TypeOK
<1>8. ASSUME NEW c \in Client, Processed(c) PROVE TypeOK'
  <2>1. worker' \in [Client -> {"off", "sigwait", "process", "lock", "send", "spin",
                               "done"}]
    <3>1. PICK next \in {"lock", "sigwait"} : worker' = [worker EXCEPT ![c] = next]
      BY <1>8 DEF Processed
    <3>2. worker \in [Client -> {"off", "sigwait", "process", "lock", "send", "spin",
                                "done"}]
      BY DEF TypeOK
    <3> QED
      BY <3>1, <3>2
  <2>2. alive' \in BOOLEAN
    BY <1>8 DEF Processed
  <2>3. UNCHANGED <<mainVars, acceptVars, objectVars, client, listener, tmutex,
                    deletable>>
    BY <1>8 DEF Processed
  <2> QED
    BY <2>1, <2>2, <2>3 DEF TypeOK
<1>9. ASSUME NEW c \in Client, Cancelled(c) PROVE TypeOK'
  <2>1. CASE ListenerCancelled(c)
    BY <2>1 DEF ListenerCancelled, TypeOK
  <2>2. CASE WorkerCancelled(c)
    BY <2>2 DEF WorkerCancelled, TypeOK
  <2>3. CASE SpinnerCancelled(c)
    BY <2>3 DEF SpinnerCancelled, TypeOK
  <2> QED
    BY <1>9, <2>1, <2>2, <2>3 DEF Cancelled
<1> QED
  BY <1>1, <1>2, <1>3, <1>4, <1>5, <1>6, <1>7, <1>8, <1>9
     DEF Quiet, OfPoint, Listen, WorkerOf

-----------------------------------------------------------------------------
(* Types of the accept thread's and the main thread's steps.               *)
LEMMA AccepterTypes == ASSUME TypeOK, ListOK, Accepter PROVE TypeOK'
<1> USE DEF acceptVars, objectVars, mainVars, threadVars
<1>1. /\ made \in 0 .. MaxClients /\ MaxClients \in Nat
      /\ comPointList \in Seq(Client)
  BY PluginAssumption DEF TypeOK
<1>2. CASE Accept
  <2>1. made < MaxClients /\ made' = made + 1
    BY <1>2 DEF Accept
  <2>2. made' \in 0 .. MaxClients
    BY <1>1, <2>1
  <2> QED
    BY <1>2, <2>2 DEF Accept, TypeOK
<1>3. CASE PushComPointList
  <2>1. made \in Client
    BY <1>1, <1>3 DEF PushComPointList, ListOK, Client
  <2>2. comPointList' \in Seq(Client)
    BY <1>1, <1>3, <2>1, AppendProperties DEF PushComPointList
  <2> QED
    BY <1>3, <2>2 DEF PushComPointList, TypeOK
<1> QED
  BY <1>2, <1>3 DEF Accepter

(* What the main thread does to the list: it takes the k-th out.           *)
Erased(k) ==
  /\ k \in 1 .. Len(comPointList)
  /\ comPointList' \in Seq(Client)
  /\ Len(comPointList') = Len(comPointList) - 1
  /\ \A i \in 1 .. Len(comPointList) - 1 :
       comPointList'[i] = IF i < k THEN comPointList[i] ELSE comPointList[i + 1]

LEMMA ReapedErases == ASSUME IInv, Reaped PROVE Erased(at)
<1>1. comPointList \in Seq(Client)
  BY DEF IInv, TypeOK
<1>2. at \in 1 .. Len(comPointList)
  BY <1>1 DEF IInv, MainOK, Reaped
<1> QED
  BY <1>1, <1>2, Removed DEF Reaped, Erased

LEMMA FirstDeletedErases == ASSUME IInv, FirstDeleted PROVE Erased(1)
<1>1. comPointList \in Seq(Client) /\ comPointList # <<>>
  BY DEF IInv, TypeOK, MainOK, FirstDeleted
<1>2. /\ comPointList' \in Seq(Client)
      /\ Len(comPointList') = Len(comPointList) - 1
      /\ \A i \in 1 .. Len(comPointList') : comPointList'[i] = comPointList[i + 1]
  BY <1>1, HeadTailProperties DEF FirstDeleted
<1>3. Len(comPointList) \in Nat \ {0}
  BY <1>1
<1> QED
  BY <1>2, <1>3 DEF Erased

LEMMA MainTypes == ASSUME IInv, Main PROVE TypeOK'
<1> USE DEF acceptVars, objectVars, mainVars, threadVars
<1>1. /\ TypeOK /\ Len(comPointList) \in 0 .. MaxClients
      /\ MaxClients \in Nat /\ comPointList \in Seq(Client)
      /\ DOMAIN comPointList = 1 .. Len(comPointList)
  BY ListBounded, PluginAssumption DEF IInv, TypeOK
<1>2. ASSUME NEW i \in 1 .. Len(comPointList) PROVE comPointList[i] \in Client
  BY <1>1
<1>3. CASE CheckForDeletable
  BY <1>1, <1>3 DEF CheckForDeletable, TypeOK
<1>4. CASE SkipActive
  <2>1. at \in 1 .. MaxClients + 1 /\ at <= Len(comPointList) /\ at' = at + 1
    BY <1>4 DEF SkipActive, IInv, TypeOK
  <2>2. at' \in 1 .. MaxClients + 1
    BY <1>1, <2>1
  <2> QED
    BY <1>1, <1>4, <2>2 DEF SkipActive, TypeOK
<1>5. CASE DeleteHandler
  BY <1>1, <1>5 DEF DeleteHandler, TypeOK
<1>6. CASE Reap \/ DeleteFirst
  BY <1>1, <1>6 DEF Reap, DeleteFirst, Cancel, TypeOK
<1>7. CASE Reaped
  <2>1. comPointList' \in Seq(Client)
    BY <1>7, ReapedErases DEF Erased
  <2> QED
    BY <1>1, <1>7, <2>1 DEF Reaped, Joined, TypeOK
<1>8. CASE FirstDeleted
  <2>1. comPointList' \in Seq(Client)
    BY <1>8, FirstDeletedErases DEF Erased
  <2> QED
    BY <1>1, <1>8, <2>1 DEF FirstDeleted, Joined, TypeOK
<1>9. CASE CheckEnds
  <2>1. at' \in 1 .. MaxClients + 1
    <3>1. at' = 1
      BY <1>9 DEF CheckEnds
    <3>2. 1 \in 1 .. MaxClients + 1
      BY PluginAssumption
    <3> QED
      BY <3>1, <3>2
  <2>2. main' \in {"sleep", "join accepter"} /\ cpLMutex' = FALSE
    BY <1>9 DEF CheckEnds
  <2>3. UNCHANGED <<regGone, comPointList, acceptVars, threadVars, objectVars, alive>>
    BY <1>9 DEF CheckEnds
  <2> QED
    BY <1>1, <2>1, <2>2, <2>3 DEF TypeOK
<1>10. CASE AccepterJoined
  BY <1>1, <1>10 DEF AccepterJoined, TypeOK
<1>11. CASE ListDeleted
  BY <1>1, <1>11 DEF ListDeleted, TypeOK
<1> QED
  BY <1>3, <1>4, <1>5, <1>6, <1>7, <1>8, <1>9, <1>10, <1>11
     DEF Main, CheckForDeleteableComPoints, Destructor

-----------------------------------------------------------------------------
(* The order of the list, and what has become of each ComPoint.            *)
Kept == UNCHANGED <<comPointList, accepter, made>>

LEMMA EraseKeepsOrder ==
  ASSUME IInv, NEW k \in 1 .. Len(comPointList), Erased(k),
         UNCHANGED <<accepter, made>>
  PROVE  ListOK'
<1>1. /\ comPointList \in Seq(Client) /\ made \in Nat
      /\ Len(comPointList) \in Nat /\ k \in Nat
  <2>1. comPointList \in Seq(Client) /\ made \in 0 .. MaxClients
    BY DEF IInv, TypeOK
  <2> QED
    BY <2>1
<1>2. /\ DOMAIN comPointList = 1 .. Len(comPointList)
      /\ DOMAIN comPointList' = 1 .. Len(comPointList) - 1
  BY <1>1 DEF Erased
<1>3. ASSUME NEW i \in 1 .. Len(comPointList) - 1
      PROVE  \E j \in 1 .. Len(comPointList) :
               /\ comPointList'[i] = comPointList[j]
               /\ j = IF i < k THEN i ELSE i + 1
  BY <1>1, <1>3 DEF Erased
<1>4. ASSUME NEW i \in 1 .. Len(comPointList) - 1
      PROVE  comPointList'[i] \in i .. made
  <2>1. PICK j \in 1 .. Len(comPointList) :
               comPointList'[i] = comPointList[j] /\ j = IF i < k THEN i ELSE i + 1
    BY <1>3
  <2>2. comPointList[j] \in j .. made
    BY <1>2 DEF IInv, ListOK
  <2> QED
    BY <1>1, <2>1, <2>2
<1>5. ASSUME NEW i \in 1 .. Len(comPointList) - 1,
             NEW j \in 1 .. Len(comPointList) - 1, i < j
      PROVE  comPointList'[i] < comPointList'[j]
  <2>1. PICK m \in 1 .. Len(comPointList) :
               comPointList'[i] = comPointList[m] /\ m = IF i < k THEN i ELSE i + 1
    BY <1>3
  <2>2. PICK n \in 1 .. Len(comPointList) :
               comPointList'[j] = comPointList[n] /\ n = IF j < k THEN j ELSE j + 1
    BY <1>3
  <2>3. m < n
    BY <1>1, <1>5, <2>1, <2>2
  <2> QED
    BY <1>2, <2>1, <2>2, <2>3 DEF IInv, ListOK
<1>6. accepter' = "push" =>
        made' # 0 /\ \A i \in 1 .. Len(comPointList) - 1 : comPointList'[i] # made'
  BY <1>2, <1>3 DEF IInv, ListOK
<1> QED
  BY <1>2, <1>4, <1>5, <1>6 DEF ListOK

LEMMA ListOKStep == ASSUME IInv, Next PROVE ListOK'
<1>1. CASE Kept
  BY <1>1 DEF Kept, IInv, ListOK
<1>2. /\ comPointList \in Seq(Client) /\ made \in 0 .. MaxClients /\ MaxClients \in Nat
  BY PluginAssumption DEF IInv, TypeOK
<1>3. /\ Len(comPointList) \in Nat /\ DOMAIN comPointList = 1 .. Len(comPointList)
  BY <1>2
<1>4. CASE Accept
  <2>1. /\ made' = made + 1 /\ accepter' = "push" /\ comPointList' = comPointList
    BY <1>4 DEF Accept, mainVars
  <2>2. \A i \in DOMAIN comPointList : comPointList[i] \in i .. made
    BY DEF IInv, ListOK
  <2>3. ASSUME NEW i \in DOMAIN comPointList
        PROVE  comPointList[i] \in i .. made + 1 /\ comPointList[i] # made + 1
    BY <1>2, <1>3, <2>2
  <2> QED
    BY <1>2, <2>1, <2>3 DEF IInv, ListOK
<1>5. CASE PushComPointList
  <2>1. /\ comPointList' = Append(comPointList, made) /\ accepter' = "accept"
        /\ made' = made /\ accepter = "push"
    BY <1>5 DEF PushComPointList
  <2>2. made \in 1 .. MaxClients
    BY <1>2, <2>1 DEF IInv, ListOK
  <2>3. /\ DOMAIN comPointList' = 1 .. Len(comPointList) + 1
        /\ \A i \in 1 .. Len(comPointList) : comPointList'[i] = comPointList[i]
        /\ comPointList'[Len(comPointList) + 1] = made
    BY <1>2, <1>3, <2>1
  <2>4. \A i \in 1 .. Len(comPointList) :
          comPointList[i] \in i .. made /\ comPointList[i] # made
    BY <1>3, <2>1 DEF IInv, ListOK
  <2>5. Len(comPointList) + 1 <= made
    <3>1. CASE Len(comPointList) = 0
      BY <2>2, <3>1
    <3>2. CASE Len(comPointList) \in 1 .. Len(comPointList)
      BY <1>2, <2>4, <3>2
    <3> QED
      BY <1>3, <3>1, <3>2
  <2>6. ASSUME NEW i \in 1 .. Len(comPointList) + 1
        PROVE  comPointList'[i] \in i .. made
    <3>1. CASE i = Len(comPointList) + 1
      BY <1>3, <2>2, <2>3, <2>5, <3>1
    <3>2. CASE i \in 1 .. Len(comPointList)
      BY <2>3, <2>4, <3>2
    <3> QED
      BY <1>3, <3>1, <3>2
  <2>7. ASSUME NEW i \in 1 .. Len(comPointList) + 1,
               NEW j \in 1 .. Len(comPointList) + 1, i < j
        PROVE  comPointList'[i] < comPointList'[j]
    <3>0. i \in 1 .. Len(comPointList)
      BY <1>3, <2>7
    <3>1. CASE j = Len(comPointList) + 1
      BY <1>2, <2>3, <2>4, <3>0, <3>1
    <3>2. CASE j \in 1 .. Len(comPointList)
      BY <1>3, <2>3, <2>7, <3>0, <3>2 DEF IInv, ListOK
    <3> QED
      BY <1>3, <3>1, <3>2
  <2> QED
    BY <2>1, <2>3, <2>6, <2>7 DEF ListOK
<1>6. CASE Reaped
  BY <1>6, ReapedErases, EraseKeepsOrder DEF Reaped, acceptVars, Erased
<1>7. CASE FirstDeleted
  BY <1>7, FirstDeletedErases, EraseKeepsOrder DEF FirstDeleted, acceptVars, Erased
<1>8. CASE AccepterJoined
  BY <1>8 DEF AccepterJoined, IInv, ListOK
<1>9. Quiet => Kept
  BY QuietKeeps DEF IInv, Kept, acceptVars
<1>10. CheckForDeletable \/ SkipActive \/ DeleteHandler \/ Reap \/ CheckEnds
         \/ DeleteFirst \/ ListDeleted => Kept
  BY DEF CheckForDeletable, SkipActive, DeleteHandler, Reap, CheckEnds,
         DeleteFirst, ListDeleted, Kept, acceptVars
<1> QED
  BY <1>1, <1>4, <1>5, <1>6, <1>7, <1>8, <1>9, <1>10
     DEF Next, Main, CheckForDeleteableComPoints, Destructor, Accepter, Quiet, OfPoint

(* The steps that change neither the list nor who is made or destroyed.    *)
ObjectsKept == UNCHANGED <<comPointList, accepter, made, point>>

LEMMA MostKeepObjects ==
  ASSUME IInv,
         Quiet \/ CheckForDeletable \/ SkipActive \/ DeleteHandler \/ CheckEnds
           \/ ListDeleted
  PROVE  ObjectsKept
<1>1. CASE Quiet
  BY <1>1, QuietKeeps DEF IInv, ObjectsKept, acceptVars, objectVars
<1> QED
  BY <1>1 DEF CheckForDeletable, SkipActive, DeleteHandler, CheckEnds,
              ListDeleted, ObjectsKept, acceptVars, objectVars

(* What is known of the list and the objects in every step.                *)
LEMMA ListFacts ==
  ASSUME IInv
  PROVE  /\ comPointList \in Seq(Client) /\ Len(comPointList) \in Nat
         /\ DOMAIN comPointList = 1 .. Len(comPointList)
         /\ \A i \in 1 .. Len(comPointList) : comPointList[i] \in Client
         /\ \A i, j \in 1 .. Len(comPointList) :
              comPointList[i] = comPointList[j] => i = j
         /\ point \in [Client -> {"none", "alive", "cancelled", "deleted"}]
         /\ made \in 0 .. MaxClients
<1>1. /\ comPointList \in Seq(Client) /\ made \in 0 .. MaxClients
      /\ point \in [Client -> {"none", "alive", "cancelled", "deleted"}]
  BY DEF IInv, TypeOK
<1>2. /\ Len(comPointList) \in Nat /\ DOMAIN comPointList = 1 .. Len(comPointList)
      /\ \A i \in 1 .. Len(comPointList) : comPointList[i] \in Client
  BY <1>1
<1>3. ASSUME NEW i \in 1 .. Len(comPointList), NEW j \in 1 .. Len(comPointList),
             comPointList[i] = comPointList[j]
      PROVE  i = j
  <2>1. comPointList[i] \in i .. made /\ comPointList[j] \in j .. made
    BY <1>2 DEF IInv, ListOK
  <2>2. i < j => comPointList[i] < comPointList[j]
    BY <1>2 DEF IInv, ListOK
  <2>3. j < i => comPointList[j] < comPointList[i]
    BY <1>2 DEF IInv, ListOK
  <2> QED
    BY <1>1, <1>2, <1>3, <2>1, <2>2, <2>3
<1> QED
  BY <1>1, <1>2, <1>3

(* Erasing the k-th leaves the others listed, and it is deleted.           *)
LEMMA ErasedMade ==
  ASSUME IInv, NEW k \in 1 .. Len(comPointList), Erased(k),
         UNCHANGED <<accepter, made>>,
         point' = [point EXCEPT ![comPointList[k]] = "deleted"]
  PROVE  MadeOK'
<1>1. /\ comPointList \in Seq(Client) /\ Len(comPointList) \in Nat
      /\ \A i \in 1 .. Len(comPointList) : comPointList[i] \in Client
      /\ DOMAIN comPointList = 1 .. Len(comPointList)
      /\ point \in [Client -> {"none", "alive", "cancelled", "deleted"}]
  BY ListFacts
<1>2. DOMAIN comPointList' = 1 .. Len(comPointList) - 1
  BY <1>1 DEF Erased
<1>3. ASSUME NEW i \in 1 .. Len(comPointList), i # k
      PROVE  \E j \in DOMAIN comPointList' : comPointList'[j] = comPointList[i]
  <2>1. CASE i < k
    <3>1. i \in 1 .. Len(comPointList) - 1
      BY <1>1, <2>1
    <3> QED
      BY <1>2, <2>1, <3>1 DEF Erased
  <2>2. CASE i > k
    <3>1. i - 1 \in 1 .. Len(comPointList) - 1 /\ ~(i - 1 < k) /\ (i - 1) + 1 = i
      BY <1>1, <2>2
    <3> QED
      BY <1>2, <3>1 DEF Erased
  <2> QED
    BY <1>1, <1>3, <2>1, <2>2
<1>4. ASSUME NEW c \in Client
      PROVE  /\ c > made => point'[c] = "none"
             /\ c <= made => \/ point'[c] = "deleted"
                             \/ \E i \in DOMAIN comPointList' : comPointList'[i] = c
                             \/ accepter = "push" /\ c = made
  <2>1. CASE c = comPointList[k]
    <3>1. c \in k .. made
      BY <1>1, <2>1 DEF IInv, ListOK
    <3>2. made \in Nat /\ point'[c] = "deleted"
      BY <1>1, <2>1, ListFacts
    <3> QED
      BY <1>1, <3>1, <3>2
  <2>2. CASE c # comPointList[k]
    <3>1. point'[c] = point[c]
      BY <1>1, <2>2
    <3>2. ASSUME NEW i \in DOMAIN comPointList, comPointList[i] = c
          PROVE  \E j \in DOMAIN comPointList' : comPointList'[j] = c
      BY <1>1, <1>3, <2>2, <3>2
    <3> QED
      BY <3>1, <3>2 DEF IInv, MadeOK
  <2> QED
    BY <2>1, <2>2
<1> QED
  BY <1>4 DEF MadeOK

(* The first of the list.                                                  *)
LEMMA FirstOfList ==
  ASSUME IInv, comPointList # <<>>
  PROVE  Head(comPointList) = comPointList[1] /\ 1 \in 1 .. Len(comPointList)
<1>1. comPointList \in Seq(Client)
  BY ListFacts
<1> QED
  BY <1>1

LEMMA MadeOKStep == ASSUME IInv, Next PROVE MadeOK'
<1>0. /\ comPointList \in Seq(Client) /\ Len(comPointList) \in Nat
      /\ DOMAIN comPointList = 1 .. Len(comPointList)
      /\ \A i \in 1 .. Len(comPointList) : comPointList[i] \in Client
      /\ point \in [Client -> {"none", "alive", "cancelled", "deleted"}]
      /\ made \in Nat
  BY ListFacts
<1>1. CASE ObjectsKept
  BY <1>1 DEF ObjectsKept, IInv, MadeOK
<1>2. CASE Accept
  <2>1. /\ made' = made + 1 /\ accepter' = "push" /\ accepter = "accept"
        /\ comPointList' = comPointList /\ point' = [point EXCEPT ![made'] = "alive"]
    BY <1>2 DEF Accept, mainVars
  <2>2. ASSUME NEW c \in Client
        PROVE  /\ c > made + 1 => point'[c] = "none"
               /\ c <= made + 1 => \/ point'[c] = "deleted"
                                   \/ \E i \in DOMAIN comPointList : comPointList[i] = c
                                   \/ c = made + 1
    <3>1. c \in Nat /\ (c # made + 1 => point'[c] = point[c])
      BY <1>0, <2>1 DEF Client
    <3>2. CASE c > made + 1
      BY <1>0, <3>1, <3>2 DEF IInv, MadeOK
    <3>3. CASE c <= made
      BY <1>0, <2>1, <3>1, <3>3 DEF IInv, MadeOK
    <3> QED
      BY <1>0, <3>1, <3>2, <3>3
  <2> QED
    BY <2>1, <2>2 DEF MadeOK
<1>3. CASE PushComPointList
  <2>1. /\ comPointList' = Append(comPointList, made) /\ UNCHANGED <<made, point>>
    BY <1>3 DEF PushComPointList, objectVars
  <2>2. /\ DOMAIN comPointList' = 1 .. Len(comPointList) + 1
        /\ \A i \in 1 .. Len(comPointList) : comPointList'[i] = comPointList[i]
        /\ comPointList'[Len(comPointList) + 1] = made
    BY <1>0, <2>1
  <2>3. Len(comPointList) + 1 \in DOMAIN comPointList'
    BY <1>0, <2>2
  <2>4. \A i \in DOMAIN comPointList : i \in DOMAIN comPointList'
    BY <1>0, <2>2
  <2> QED
    BY <1>0, <2>1, <2>2, <2>3, <2>4 DEF IInv, MadeOK
<1>4. CASE Reap
  BY <1>0, <1>4 DEF Reap, Cancel, IInv, MadeOK, MainOK, LiveOK, acceptVars
<1>5. CASE DeleteFirst
  <2>1. /\ point' = [point EXCEPT ![comPointList[1]] = "cancelled"]
        /\ UNCHANGED <<comPointList, accepter, made>>
        /\ comPointList[1] \in Client /\ 1 \in DOMAIN comPointList
    BY <1>0, <1>5, FirstOfList DEF DeleteFirst, Cancel, acceptVars
  <2>2. comPointList[1] <= made
    BY <1>0, <2>1 DEF IInv, ListOK
  <2>3. ASSUME NEW c \in Client, c # comPointList[1] PROVE point'[c] = point[c]
    BY <1>0, <2>1, <2>3
  <2> QED
    BY <1>0, <2>1, <2>2, <2>3 DEF IInv, MadeOK, Client
<1>6. CASE Reaped
  BY <1>6, ReapedErases, ErasedMade DEF Reaped, Joined, acceptVars, Erased
<1>7. CASE FirstDeleted
  <2>1. Head(comPointList) = comPointList[1]
    BY <1>7, FirstOfList DEF FirstDeleted, IInv, MainOK
  <2> QED
    BY <1>7, <2>1, FirstDeletedErases, ErasedMade
       DEF FirstDeleted, Joined, acceptVars, Erased
<1>8. CASE AccepterJoined
  BY <1>8 DEF AccepterJoined, objectVars, IInv, MadeOK
<1> QED
  BY <1>1, <1>2, <1>3, <1>4, <1>5, <1>6, <1>7, <1>8, MostKeepObjects
     DEF Next, Main, CheckForDeleteableComPoints, Destructor, Accepter, Quiet, OfPoint

-----------------------------------------------------------------------------
(* Erasing the one that was being deleted leaves whole ones.               *)
WholeBut(k) ==
  /\ main' \notin {"join", "empty join"}
  /\ \A i \in 1 .. Len(comPointList) : i # k => point[comPointList[i]] = "alive"

LEMMA ErasedLive ==
  ASSUME IInv, NEW k \in 1 .. Len(comPointList), Erased(k),
         UNCHANGED <<accepter, made>>,
         WholeBut(k),
         point' = [point EXCEPT ![comPointList[k]] = "deleted"]
  PROVE  LiveOK'
<1>1. /\ comPointList \in Seq(Client) /\ Len(comPointList) \in Nat
      /\ \A i \in 1 .. Len(comPointList) : comPointList[i] \in Client
      /\ DOMAIN comPointList = 1 .. Len(comPointList)
      /\ point \in [Client -> {"none", "alive", "cancelled", "deleted"}]
  BY ListFacts
<1>2. DOMAIN comPointList' = 1 .. Len(comPointList) - 1
  BY <1>1 DEF Erased
<1>2a. \A i, j \in 1 .. Len(comPointList) : comPointList[i] = comPointList[j] => i = j
  BY ListFacts
<1>3. ASSUME NEW i \in 1 .. Len(comPointList), i # k
      PROVE  point'[comPointList[i]] = "alive"
  BY <1>1, <1>2a, <1>3 DEF WholeBut
<1>4. ASSUME NEW i \in 1 .. Len(comPointList) - 1
      PROVE  point'[comPointList'[i]] = "alive"
  <2>1. CASE i < k
    BY <1>1, <1>3, <2>1 DEF Erased
  <2>2. CASE ~(i < k)
    <3>1. i + 1 \in 1 .. Len(comPointList) /\ i + 1 # k
      BY <1>1, <2>2
    <3> QED
      BY <1>3, <2>2, <3>1 DEF Erased
  <2> QED
    BY <2>1, <2>2
<1>5. accepter' = "push" => point'[made'] = "alive"
  <2>1. accepter = "push" => made # comPointList[k] /\ point[made] = "alive" /\ made \in Client
    BY <1>1, ListFacts DEF IInv, ListOK, LiveOK, Client
  <2>2. UNCHANGED <<accepter, made>> /\ point' = [point EXCEPT ![comPointList[k]] = "deleted"]
    OBVIOUS
  <2> QED
    BY <1>1, <2>1, <2>2
<1>6. ASSUME NEW i PROVE ~Dying(i)'
  BY DEF Dying, WholeBut
<1> QED
  BY <1>2, <1>4, <1>5, <1>6 DEF LiveOK

LEMMA LiveOKStep == ASSUME IInv, Next PROVE LiveOK'
<1>0. /\ comPointList \in Seq(Client) /\ Len(comPointList) \in Nat
      /\ DOMAIN comPointList = 1 .. Len(comPointList)
      /\ \A i \in 1 .. Len(comPointList) : comPointList[i] \in Client
      /\ \A i, j \in 1 .. Len(comPointList) : comPointList[i] = comPointList[j] => i = j
      /\ point \in [Client -> {"none", "alive", "cancelled", "deleted"}]
      /\ made \in Nat
  BY ListFacts
<1>1. CASE Quiet
  BY <1>1, QuietKeeps DEF IInv, LiveOK, Dying, acceptVars, objectVars
<1>2. CASE Accept
  <2>1. /\ made' = made + 1 /\ made' \in Client /\ UNCHANGED <<comPointList, main, at>>
        /\ point' = [point EXCEPT ![made'] = "alive"]
    <3>1. made < MaxClients /\ MaxClients \in Nat /\ made' = made + 1
      BY <1>2, PluginAssumption DEF Accept
    <3>2. made' \in Client
      BY <1>0, <3>1 DEF Client
    <3> QED
      BY <1>2, <3>1, <3>2 DEF Accept, mainVars
  <2>2. ASSUME NEW i \in DOMAIN comPointList
        PROVE  point'[comPointList[i]] = point[comPointList[i]]
    <3>1. comPointList[i] \in i .. made
      BY DEF IInv, ListOK
    <3>2. comPointList[i] # made + 1
      BY <1>0, <3>1
    <3> QED
      BY <1>0, <2>1, <3>2
  <2>3. point'[made'] = "alive"
    BY <1>0, <2>1
  <2> QED
    BY <2>1, <2>2, <2>3 DEF IInv, LiveOK, Dying
<1>3. CASE PushComPointList
  <2>1. /\ comPointList' = Append(comPointList, made) /\ accepter' = "accept"
        /\ accepter = "push" /\ ~cpLMutex /\ UNCHANGED <<point, main, at>>
    BY <1>3 DEF PushComPointList, objectVars
  <2>2. main \notin {"join", "empty join"}
    BY <2>1 DEF IInv, MainOK
  <2>3. /\ DOMAIN comPointList' = 1 .. Len(comPointList) + 1
        /\ \A i \in 1 .. Len(comPointList) : comPointList'[i] = comPointList[i]
        /\ comPointList'[Len(comPointList) + 1] = made
    BY <1>0, <2>1
  <2>4. /\ point[made] = "alive"
        /\ \A i \in 1 .. Len(comPointList) : point[comPointList[i]] = "alive"
    BY <1>0, <2>1, <2>2 DEF IInv, LiveOK, Dying
  <2>5. \A i \in 1 .. Len(comPointList) + 1 : point[comPointList'[i]] = "alive"
    BY <1>0, <2>3, <2>4
  <2> QED
    BY <2>1, <2>2, <2>3, <2>5 DEF LiveOK, Dying
<1>4. CASE CheckForDeletable \/ SkipActive \/ DeleteHandler \/ CheckEnds \/ ListDeleted
  <2>1. /\ UNCHANGED <<comPointList, accepter, made, point>>
        /\ main \notin {"join", "empty join"} /\ main' \notin {"join", "empty join"}
    BY <1>4 DEF CheckForDeletable, SkipActive, DeleteHandler, CheckEnds, ListDeleted,
                acceptVars, objectVars
  <2> QED
    BY <2>1 DEF IInv, LiveOK, Dying
<1>5. CASE AccepterJoined
  BY <1>5 DEF AccepterJoined, objectVars, IInv, LiveOK, Dying
<1>6. CASE Reap
  <2>1. /\ point' = [point EXCEPT ![comPointList[at]] = "cancelled"]
        /\ UNCHANGED <<comPointList, accepter, made, at>>
        /\ main = "reap" /\ main' = "join"
    BY <1>6 DEF Reap, Cancel, acceptVars
  <2>2. at \in DOMAIN comPointList
    BY <2>1 DEF IInv, MainOK
  <2>3. accepter = "push" => made # comPointList[at] /\ made \in Client
    BY <2>2, ListFacts DEF IInv, ListOK, Client
  <2> QED
    BY <1>0, <2>1, <2>2, <2>3 DEF IInv, LiveOK, Dying
<1>7. CASE DeleteFirst
  <2>1. /\ point' = [point EXCEPT ![comPointList[1]] = "cancelled"]
        /\ UNCHANGED <<comPointList, accepter, made, at>>
        /\ main = "empty" /\ main' = "empty join" /\ 1 \in DOMAIN comPointList
    BY <1>0, <1>7, FirstOfList DEF DeleteFirst, Cancel, acceptVars
  <2>2. accepter # "push"
    BY <2>1 DEF IInv, MainOK
  <2> QED
    BY <1>0, <2>1, <2>2 DEF IInv, LiveOK, Dying
<1>8. CASE Reaped
  <2>1. WholeBut(at)
    BY <1>0, <1>8 DEF Reaped, WholeBut, Dying, IInv, LiveOK
  <2> QED
    BY <1>8, <2>1, ReapedErases, ErasedLive DEF Reaped, Joined, acceptVars, Erased
<1>9. CASE FirstDeleted
  <2>1. Head(comPointList) = comPointList[1]
    BY <1>9, FirstOfList DEF FirstDeleted, IInv, MainOK
  <2>2. WholeBut(1)
    BY <1>0, <1>9 DEF FirstDeleted, WholeBut, Dying, IInv, LiveOK
  <2> QED
    BY <1>9, <2>1, <2>2, FirstDeletedErases, ErasedLive
       DEF FirstDeleted, Joined, acceptVars, Erased
<1> QED
  BY <1>1, <1>2, <1>3, <1>4, <1>5, <1>6, <1>7, <1>8, <1>9
     DEF Next, Main, CheckForDeleteableComPoints, Destructor, Accepter, Quiet, OfPoint

-----------------------------------------------------------------------------
LEMMA MainOKStep == ASSUME IInv, Next PROVE MainOK'
<1>0. /\ comPointList \in Seq(Client) /\ Len(comPointList) \in Nat
      /\ DOMAIN comPointList = 1 .. Len(comPointList)
      /\ \A i \in 1 .. Len(comPointList) : comPointList[i] \in Client
  BY ListFacts
<1>1. CASE Quiet
  <2>1. /\ UNCHANGED <<main, at, comPointList, cpLMutex, accepter>>
        /\ \A c \in Client : deletable[c] => deletable'[c]
    BY <1>1, QuietKeeps DEF IInv, acceptVars
  <2>2. at \in DOMAIN comPointList => comPointList[at] \in Client
    BY <1>0
  <2> QED
    BY <2>1, <2>2 DEF IInv, MainOK
<1>2. CASE Accept
  BY <1>2 DEF Accept, mainVars, IInv, MainOK
<1>3. CASE PushComPointList
  <2>1. /\ accepter' = "accept" /\ accepter = "push" /\ ~cpLMutex
        /\ UNCHANGED <<main, at, cpLMutex>>
    BY <1>3 DEF PushComPointList
  <2>2. main \notin {"scan", "reap", "join", "empty", "empty join", "ended"}
    BY <2>1 DEF IInv, MainOK
  <2> QED
    BY <2>1, <2>2 DEF IInv, MainOK
<1>4. CASE CheckForDeletable
  BY <1>0, <1>4 DEF CheckForDeletable, acceptVars, IInv, MainOK
<1>5. CASE SkipActive
  <2>1. /\ main = "scan" /\ at <= Len(comPointList) /\ at' = at + 1
        /\ UNCHANGED <<main, comPointList, cpLMutex, accepter>>
    BY <1>5 DEF SkipActive, acceptVars
  <2>2. at' \in 1 .. Len(comPointList) + 1
    BY <1>0, <2>1 DEF IInv, MainOK
  <2> QED
    BY <2>1, <2>2 DEF IInv, MainOK
<1>6. CASE DeleteHandler
  BY <1>0, <1>6 DEF DeleteHandler, acceptVars, threadVars, IInv, MainOK
<1>7. CASE Reap
  BY <1>7 DEF Reap, acceptVars, threadVars, IInv, MainOK
<1>8. CASE Reaped
  <2>1. /\ main = "join" /\ main' = "scan" /\ UNCHANGED <<at, cpLMutex, accepter>>
    BY <1>8 DEF Reaped, acceptVars
  <2>2. at \in 1 .. Len(comPointList') + 1
    BY <1>0, <1>8, ReapedErases DEF Erased
  <2> QED
    BY <2>1, <2>2 DEF IInv, MainOK
<1>9. CASE CheckEnds
  BY <1>9 DEF CheckEnds, acceptVars, IInv, MainOK
<1>10. CASE AccepterJoined
  BY <1>10 DEF AccepterJoined, IInv, MainOK
<1>11. CASE DeleteFirst
  BY <1>11 DEF DeleteFirst, acceptVars, IInv, MainOK
<1>12. CASE FirstDeleted
  BY <1>12 DEF FirstDeleted, acceptVars, IInv, MainOK
<1>13. CASE ListDeleted
  BY <1>13 DEF ListDeleted, acceptVars, IInv, MainOK
<1> QED
  BY <1>1, <1>2, <1>3, <1>4, <1>5, <1>6, <1>7, <1>8, <1>9, <1>10, <1>11, <1>12,
     <1>13 DEF Next, Main, CheckForDeleteableComPoints, Destructor, Accepter, Quiet, OfPoint

(* What the main loop deletes was deletable.                               *)
LEMMA ReapedOKStep == ASSUME IInv, Next PROVE ReapedOK'
<1>0. /\ \A i \in 1 .. Len(comPointList) : comPointList[i] \in Client
      /\ point \in [Client -> {"none", "alive", "cancelled", "deleted"}]
      /\ handler \in [Client -> {"none", "alive", "deleted"}]
      /\ at \in DOMAIN comPointList => comPointList[at] \in Client
  BY ListFacts DEF IInv, TypeOK
<1>1. CASE Quiet
  <2>1. UNCHANGED <<main, point, handler>> /\ \A c \in Client : deletable[c] => deletable'[c]
    BY <1>1, QuietKeeps DEF IInv, objectVars
  <2> QED
    BY <2>1 DEF IInv, ReapedOK
<1>2. CASE Accept
  <2>1. UNCHANGED <<main, deletable>>
    BY <1>2 DEF Accept, mainVars
  <2>2. ASSUME NEW c \in Client, "deleted" \in {handler'[c], point'[c]}
        PROVE  "deleted" \in {handler[c], point[c]}
    BY <1>0, <1>2, <2>2 DEF Accept
  <2> QED
    BY <2>1, <2>2 DEF IInv, ReapedOK
<1>3. CASE CheckForDeletable \/ SkipActive \/ CheckEnds \/ PushComPointList
  BY <1>3 DEF CheckForDeletable, SkipActive, CheckEnds, PushComPointList,
              threadVars, objectVars, IInv, ReapedOK
<1>4. CASE DeleteHandler
  <2>1. /\ main = "scan" /\ at <= Len(comPointList) /\ deletable[comPointList[at]]
        /\ handler' = [handler EXCEPT ![comPointList[at]] = "deleted"]
        /\ UNCHANGED <<point, deletable>>
    BY <1>4 DEF DeleteHandler, threadVars
  <2>2. ASSUME NEW c \in Client, c # comPointList[at] PROVE handler'[c] = handler[c]
    BY <1>0, <2>1, <2>2
  <2> QED
    BY <2>1, <2>2 DEF IInv, ReapedOK
<1>5. CASE Reap
  <2>1. ASSUME NEW c \in Client, "deleted" \in {handler'[c], point'[c]}
        PROVE  "deleted" \in {handler[c], point[c]}
    BY <1>0, <1>5, <2>1 DEF Reap, Cancel
  <2>2. main = "reap" /\ UNCHANGED deletable
    BY <1>5 DEF Reap, threadVars
  <2> QED
    BY <2>1, <2>2 DEF IInv, ReapedOK
<1>6. CASE Reaped
  <2>1. /\ main = "join" /\ UNCHANGED <<handler, deletable>>
        /\ point' = [point EXCEPT ![comPointList[at]] = "deleted"]
    BY <1>6 DEF Reaped, Joined, threadVars
  <2>2. deletable[comPointList[at]]
    BY <2>1 DEF IInv, MainOK
  <2>3. ASSUME NEW c \in Client, c # comPointList[at] PROVE point'[c] = point[c]
    BY <1>0, <2>1, <2>3
  <2> QED
    BY <2>1, <2>2, <2>3 DEF IInv, ReapedOK
<1>7. CASE Destructor
  BY <1>7 DEF Destructor, AccepterJoined, DeleteFirst, FirstDeleted, ListDeleted,
              ReapedOK
<1> QED
  BY <1>1, <1>2, <1>3, <1>4, <1>5, <1>6, <1>7
     DEF Next, Main, CheckForDeleteableComPoints, Accepter, Quiet, OfPoint

(* A ComPoint is deletable only after its client has left.                 *)
LEMMA GoneOKStep == ASSUME IInv, Next PROVE GoneOK'
<1>0. /\ made \in 0 .. MaxClients /\ MaxClients \in Nat
      /\ listener \in [Client -> {"off", "recv", "lock", "send", "spin", "done"}]
      /\ client \in [Client -> {"none", "here", "gone"}]
      /\ deletable \in [Client -> BOOLEAN]
  BY PluginAssumption DEF IInv, TypeOK
<1>1. CASE UNCHANGED <<client, listener, deletable, made>>
  BY <1>1 DEF IInv, GoneOK
<1>2. CASE Accept
  <2>1. /\ made' = made + 1 /\ deletable' = deletable
        /\ client' = [client EXCEPT ![made'] = "here"]
        /\ listener' = [listener EXCEPT ![made'] = "recv"]
    BY <1>2 DEF Accept
  <2>2. ASSUME NEW c \in Client
        PROVE  /\ deletable[c] => client'[c] = "gone"
               /\ c > made + 1 => listener'[c] = "off" /\ ~deletable[c]
    <3>1. c \in Nat
      BY DEF Client
    <3>2. CASE c = made + 1
      BY <1>0, <3>1, <3>2 DEF IInv, GoneOK
    <3>3. CASE c # made + 1
      <4>1. client'[c] = client[c] /\ listener'[c] = listener[c]
        BY <1>0, <2>1, <3>3
      <4> QED
        BY <1>0, <3>1, <3>3, <4>1 DEF IInv, GoneOK
    <3> QED
      BY <3>2, <3>3
  <2> QED
    BY <2>1, <2>2 DEF GoneOK
<1>3. ASSUME NEW c \in Client, OfPoint(c) PROVE GoneOK'
  <2>1. made' = made
    BY <1>3, QuietKeeps DEF Quiet, IInv, acceptVars
  <2>2. ASSUME NEW d \in Client
        PROVE  /\ d # c => /\ client'[d] = client[d] /\ listener'[d] = listener[d]
                           /\ deletable'[d] = deletable[d]
               /\ client[d] = "gone" => client'[d] = "gone"
               /\ listener[d] = "off" => listener'[d] = "off"
               /\ deletable'[d] =>
                     deletable[d] \/ (client'[d] = "gone" /\ listener[d] # "off")
    <3>1. CASE Leave(c)
      BY <1>0, <3>1 DEF Leave
    <3>2. CASE Receive(c) \/ ListenerEnds(c) \/ ListenerSpins(c)
      BY <1>0, <3>2 DEF Receive, ListenerEnds, ListenerSpins
    <3>3. ASSUME NEW t \in {"listener", "worker"}, Lock(c, t) \/ Sent(c, t)
          PROVE  /\ UNCHANGED <<client, deletable>>
                 /\ d # c => listener'[d] = listener[d]
                 /\ listener[d] = "off" => listener'[d] = "off"
      BY <1>0, <3>3 DEF Lock, Sent, Goes, At
    <3>4. CASE Work(c) \/ Processed(c)
      BY <3>4 DEF Work, Processed
    <3>5. CASE Cancelled(c)
      BY <1>0, <3>5 DEF Cancelled, ListenerCancelled, WorkerCancelled, SpinnerCancelled
    <3> QED
      BY <1>3, <3>1, <3>2, <3>3, <3>4, <3>5 DEF OfPoint, Listen, WorkerOf
  <2> QED
    BY <2>1, <2>2 DEF IInv, GoneOK
<1>4. Main \/ PushComPointList \/ RegClientGone =>
        UNCHANGED <<client, listener, deletable, made>>
  BY DEF Main, CheckForDeleteableComPoints, Destructor, CheckForDeletable,
         SkipActive, DeleteHandler, Reap, Reaped, CheckEnds, AccepterJoined,
         DeleteFirst, FirstDeleted, ListDeleted, PushComPointList, RegClientGone,
         acceptVars, threadVars
<1> QED
  BY <1>1, <1>2, <1>3, <1>4 DEF Next, Accepter, OfPoint

-----------------------------------------------------------------------------
LEMMA PluginInit == Init => IInv
<1> SUFFICES ASSUME Init PROVE IInv
  OBVIOUS
<1> USE DEF Init
<1>1. TypeOK
  <2>1. at \in 1 .. MaxClients + 1 /\ made \in 0 .. MaxClients
    BY PluginAssumption
  <2>2. comPointList \in Seq(Client)
    OBVIOUS
  <2>3. deletable \in [Client -> BOOLEAN]
    OBVIOUS
  <2> QED
    BY <2>1, <2>2, <2>3 DEF TypeOK
<1>2. comPointList = <<>> /\ made = 0 /\ accepter = "accept" /\ main = "sleep"
  OBVIOUS
<1>3. ListOK
  BY <1>2 DEF ListOK
<1>4. MadeOK
  BY <1>2 DEF MadeOK, Client
<1>5. LiveOK
  BY <1>2 DEF LiveOK
<1>6. MainOK
  BY <1>2 DEF MainOK
<1>7. ReapedOK /\ GoneOK
  BY DEF ReapedOK, GoneOK
<1> QED
  BY <1>1, <1>3, <1>4, <1>5, <1>6, <1>7 DEF IInv

LEMMA PluginNext == IInv /\ [Next]_vars => IInv'
<1> SUFFICES ASSUME IInv, [Next]_vars PROVE IInv'
  OBVIOUS
<1>1. CASE Next
  <2>1. TypeOK'
    BY <1>1, QuietTypes, AccepterTypes, MainTypes DEF IInv, Next, Quiet, OfPoint
  <2> QED
    BY <1>1, <2>1, ListOKStep, MadeOKStep, LiveOKStep, MainOKStep,
       ReapedOKStep, GoneOKStep DEF IInv
<1>2. CASE UNCHANGED vars
  <2> USE DEF vars, mainVars, acceptVars, threadVars, objectVars
  <2>1. TypeOK'
    BY <1>2 DEF IInv, TypeOK
  <2>2. ListOK' /\ MadeOK'
    BY <1>2 DEF IInv, ListOK, MadeOK
  <2>3. LiveOK' /\ MainOK'
    BY <1>2 DEF IInv, LiveOK, Dying, MainOK
  <2>4. ReapedOK' /\ GoneOK'
    BY <1>2 DEF IInv, ReapedOK, GoneOK
  <2> QED
    BY <2>1, <2>2, <2>3, <2>4 DEF IInv
<1> QED
  BY <1>1, <1>2

(* The plugin's invariant holds for any number of clients and messages.    *)
THEOREM PluginInvariant == Spec => []IInv
BY PluginInit, PluginNext, PTL DEF Spec

(* Type correctness: nothing is read outside the list.                     *)
THEOREM PluginTypes == Spec => []TypeOK
<1>1. IInv => TypeOK
  BY DEF IInv
<1> QED
  BY <1>1, PluginInvariant, PTL

(* No ComPoint is listed twice, and a listed one is whole unless the main  *)
(* thread is deleting it.                                                  *)
THEOREM PluginListIsLive == Spec => []ListIsLive
<1>1. ASSUME IInv PROVE ListIsLive
  <2>1. \A i, j \in DOMAIN comPointList : i # j => comPointList[i] # comPointList[j]
    BY <1>1, ListFacts
  <2>2. main \in {"sleep", "scan", "join accepter", "empty"} =>
          \A i \in DOMAIN comPointList : point[comPointList[i]] = "alive"
    BY <1>1 DEF IInv, LiveOK, Dying
  <2> QED
    BY <2>1, <2>2 DEF ListIsLive
<1> QED
  BY <1>1, PluginInvariant, PTL

(* The main loop destroys no ComPoint and no ProcessInterface of a client  *)
(* that is connected.                                                      *)
THEOREM PluginActiveIsKept == Spec => []ActiveIsKept
<1>1. IInv => ActiveIsKept
  BY DEF IInv, ReapedOK, GoneOK, ActiveIsKept
<1> QED
  BY <1>1, PluginInvariant, PTL

(* The plugin ends with every ComPoint destroyed.                          *)
THEOREM PluginNoneForgotten == Spec => []NoneForgotten
<1>1. ASSUME IInv PROVE NoneForgotten
  <2>1. SUFFICES ASSUME main = "ended", NEW c \in Client
                 PROVE  point[c] \in {"none", "deleted"}
    BY DEF NoneForgotten
  <2>2. comPointList = <<>> /\ accepter # "push"
    BY <1>1, <2>1 DEF IInv, MainOK
  <2>3. c \in Nat /\ made \in Nat
    BY <1>1, ListFacts DEF Client
  <2> QED
    BY <1>1, <2>2, <2>3 DEF IInv, MadeOK
<1> QED
  BY <1>1, PluginInvariant, PTL
=============================================================================
