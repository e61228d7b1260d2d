# rpcUtils in TLA+

rpcUtils is a small C++ library for plugins that talk JSON-RPC 2.0 over UNIX
domain sockets. A plugin registers with a central daemon (the *RSD*), accepts
clients, and serves each of them with a *ComPoint*: a socket, a listener thread,
a worker thread and a queue between them. This directory models that library,
checks the models with TLC on small instances, and proves with TLAPS, for all
instances, every safety property that is checked: the framing of the byte
stream, the queue and its signals, `transmit()`, the start and end of the
threads, the answers to sub-requests, the registration, the list of ComPoints,
which request an answer is taken for, and that a ComPoint implements an abstract
channel.

`PROJECT.json` holds the same in tables: components, runs, one mutant for each
property, the map from definitions to source lines, findings, hazards, theorems.

    tlc -config MCListener.cfg MCListener     # any run of the table below
    tlapm Listener_proofs.tla                 # the proofs, a minute or two
    tlapm ComPoint_proofs.tla                 # for each *_proofs module

## 1. The system

### Components

| Component | State it keeps | Operations | Model |
|---|---|---|---|
| **ComPoint, listener** (`ComPoint.cpp:151-359`) | `msgBuffer`/`msgBufferSize`, `messageSize`, `rfds`, `timeout`, `deletable` | `thread_listen`, `readHeader`, `waitForFurtherData` | `Listener` |
| **ComPoint, worker and queue** (`ComPoint.cpp:93-148`) | `receiveQueue` (under `rQmutex`), the signals pending for the worker | `thread_work`, `push_frontReceiveQueue`, `popReceiveQueueWithoutDelete`, `getReceiveQueueSize` | `ComPoint` |
| **ComPoint, sender** (`ComPoint.cpp:252-293`) | `headerOut`, `tmutex` | `transmit` (two overloads), `createHeader` | `ComPoint` |
| **ComPoint, header** (`ComPoint.cpp:280-325`) | — | `createHeader`, `readHeader` | `Header`, used by `Exchange` |
| **ComPoint, life** (`ComPoint.cpp:3-77`, `WorkerThreads.hpp`) | the thread ids and ready flags of `WorkerThreads` | constructor, `startWorking`, `wait_for_listener_up`, destructor | `Lifecycle`; for a list of ComPoints `Plugin` |
| **ComPointB** (`ComPointB.cpp`) | — (`ProcessInterface::busy`) | its own `thread_listen`: an answer to a sub-request goes past the queue | `ComPointB` |
| **ProcessInterface(B)** (headers) | `busy`, the message in work | `processMsg`, `isBusy`, `setBusy`, `isSubResponse` | as the calls `ComPoint(B)` makes |
| **RegClient** (`RegClient.cpp`) | `state`, `connection_socket`, its `JsonRPC` object | `connectToRSD`, `sendAnnounceMsg`, `process` | `Registration` |
| **PluginInterface** (`PluginInterface.cpp`) | `comPointList` (under `cpLMutex`), `pluginActive` | `start`, `checkForDeleteableComPoints`, `pushComPointList`, destructor | `Plugin`; the part of `start()` that registers in `Registration` |
| **JsonRPC** (`JsonRPC.cpp`) | the DOMs it edits for each message, `sBuffer` | `parse`, `has*`/`is*`/`tryToget*`, `find*Member`, `generate*` | `JsonRPC`; at work in `Registration` and `Exchange` |
| **LogUnit** (`LogUnit.cpp/.hpp`) | level masks | `log`, `setGlobalLogLevel`, `formatString` | `LogUnit`, used by `Exchange`; a set of sizes `Unloggable` in `ComPoint` and `Lifecycle` |
| **RPCInterface** (`RPCInterface.hpp`) | map of names to functions | `executeFunction`, `getAllFunctionNames` | `RPCInterface`, used by `Exchange` |
| **messages, Error, PluginInfo** | values | getters | not modelled |

### How they interact

    client --bytes--> listener --push_front, SIGUSR1--> worker --processMsg--> ProcessInterface
       ^                  |                               |
       |                  +--transmit() of a JSON error   +--transmit() of the answer
       +------------------+-------------------------------+---- transmit() by any user thread

- **Listener → worker.** The listener puts a message at the front of
  `receiveQueue` and raises SIGUSR1 for the worker's thread. The worker sleeps in
  `sigwait()`, and when woken takes messages from the back until the size is 0.
  Pending signals do not queue.
- **Listener → worker in ComPointB.** While the worker is busy and waits for the
  answer to a sub-request, the listener gives it the answer and raises SIGUSR2.
- **Senders.** Worker, listener (JSON errors) and threads of the user share one
  socket and one `headerOut`; `tmutex` keeps their frames apart.
- **Start.** The constructor or `startWorking()` starts the worker, the worker
  starts the listener once it has blocked the signals, and the owner polls for
  the listener's id, for WT_TIMEOUT seconds.
- **Data.** A client's `JsonRPC` generates a request, `transmit()` puts a header
  before it, the server's listener reads the header, its worker logs the text,
  `processMsg()` parses and executes it through an RPCInterface, and its
  answer goes the same way back.
- **Owner.** `PluginInterface` polls `isDeletable()`, which the listener sets
  when the connection ends, and deletes first the ProcessInterface, then the
  ComPoint, whose destructor cancels and joins both threads.
- **Registration.** `PluginInterface::start()` connects the RegClient and makes
  it announce; every further step is taken by the worker of the RegClient's
  ComPoint. Both use one JsonRPC object.

### What is hard in it

Byte streams cut anywhere; three threads and two mutexes for each ComPoint;
signals used as condition variables; C++ exceptions between lock and unlock;
flags read before and used after a mutex is released; cancellation of threads
that may be anywhere; sockets closed by one thread while another is blocked on
them; one DOM edited for messages of different kinds; map keys that point into
documents long gone; a formatter that inserts behind the end of a text for some
lengths only; undefined behaviour (`RegClient.cpp:244`). `PROJECT.json` lists
these as hazards, each at its line, with the properties that watch it.

What makes each part correct: the listener cuts the frames the peer sent,
whatever `recv()` returns; no message is lost, doubled, reordered or slept upon;
the frames of different senders do not interleave and no sender is locked out;
an answer reaches what it answers; a ComPoint starts with its worker ready for
signals and is quiet when destroyed; plugin and RSD agree on how far the
registration is, and it completes or ends; a ComPoint is destroyed once, only
after its client has gone, and all of them in the end.

## 2. The modules

`ComPoint` extends `Listener`, and `ComPointB` and `Lifecycle` extend `ComPoint`.
`MsgChannel` is the abstract specification `ComPoint` implements. `Registration`
(over `JsonRPC`), `Exchange` (over `JsonRPC`, `Header`, `LogUnit` and
`RPCInterface`) and `Plugin` stand beside them: they take a ComPoint for what the
first group establishes. A module `X_proofs` holds the theorems about `X`. `MC*`
modules only give constants their values. Operators that begin with "Mutant of"
in their comment are not part of a model: they are the bugs each property is
shown to catch.

### Listener

Bytes are positions in the peer's stream. `msgBuffer` is always the last
`bufSize` of the `rcvd` bytes taken, so a message is an interval
`[pos, len]`, and equality of intervals says that exactly the right bytes were
delivered. A header read at a frame's start decodes to what the peer wrote (or
is refused); one read anywhere else decodes to any member of `Garbage`.

| Action | Code |
|---|---|
| `Recv`, `RecvEnd` | the blocking `recv()` of the outer loop of `thread_listen`; its end sets `deletable` |
| `ReadHeader`, `NeedHeader`, `BufferEmpty` | one test of `while(msgBufferSize > 0)`, the strict `> HEADER_SIZE`, `readHeader()` |
| `Push`, `Kill` | `push_frontReceiveQueue()`; then `pthread_kill()` and the move of the rest to the buffer's front |
| `RefuseHeader`, `Reply` | `messageSize == -1`: drop all, `transmit()` the JSON error |
| `SelectTick`, `SelectReady`, `SelectTimeout` | `select()` in `waitForFurtherData()` with the members `rfds` and `timeout` it writes to |
| `SelectFails` | `select()` = -1: an `Error`, the buffer is dropped |
| `RecvMore`, `RecvMoreEof`, `RecvMoreError` | the `recv()` after it: data, 0 (no error in the code), negative (`Error`) |
| `PeerStart`, `PeerWrite`, `PeerLeave` | the peer: frames, whole or not, of good or corrupt headers, then a close or reset at any byte |

### ComPoint

Extends `Listener`; `lpc = "push"` and `"kill"` become the two accesses to the
queue and the signal set. `transmit()` is five steps (`Lock`, `MakeHeader`,
`LogThrows`, `SendHeader`, `SendData`) of each of three threads. The worker is
`SigWait`, `CheckQueue`, `Back`, `Pop`, `Process*`, `Transmitted`: size, element
and pop are three steps, as in the code, between which the listener pushes.
`Unloggable` are the sizes for which `LogUnit::formatString()` throws
`std::out_of_range`: one of the two sizes that are transmitted in the runs of
`ComPoint` and `Lifecycle`, any set in the proofs. A call of `transmit()` it ends
between lock and unlock leaves `tmutex` locked (`LeftLocked`). A `send()` to a
peer that is there may block (`MayHang`), for ever if the peer does not read
(`Hung`).

### MsgChannel

What a user of `processMsg()` may rely on: the peer's messages, each once and in
order, until bytes are dropped (`cut`); what was handled stays. `ComPoint`
implements `MsgChannel!FairSpec` under `handled <- processed`, `cut <- dropped`
and `sent <-` the frames of which the last byte is written: safety always, and
that each message is handled in the end (`MsgChannel`'s `Fairness`) in every
behaviour in which `tmutex` is not left locked and no `send()` blocks for ever.

### ComPointB

Extends `ComPoint` and replaces what happens to a complete message:
`AskBusy` (`isBusy()` locks, reads, unlocks), then `QueueIdle` + `SignalWorker`,
or `SubResponse` + `SignalAnswer`, or `QueueBusy` + `LeaveQueued`, which do not
signal.
The classes that implement `ProcessInterfaceB` are users of the library; their
`processMsg()` (`SetBusy`, `SubRequest`, ..., `SetIdle`) is external, modelled
from what `ComPointB.cpp` and the headers expect of it.

### Lifecycle

Extends `ComPoint` by its owner. `run` says for each thread whether it was
created, runs or has ended, `life` where the owner stands.

| Action | Code |
|---|---|
| `Construct`, `StartWorking`, `StartWorkerThread` | the constructor with and without `startInstant`, `startWorking()`, `pthread_create()` of the worker |
| `ConfigSignals`, `StartListenerThread` | the first lines of `thread_work()`: block SIGUSR1/2, then create the listener |
| `Tick`, `ListenerUp`, `WaitFails` | `wait_for_listener_up()`: its time, its success, the `Error` it throws |
| `Destroy`, `CancelListener`, `CancelWorker`, `JoinListener`, `JoinWorker` | `~ComPoint()`, statement by statement |
| `EndsAtPoint`, `EndsElsewhere` | a thread whose cancellation is pending meets a function that is a cancellation point: it ends, or, inside the `try` block of `thread_work()`, `catch(...)` ends the process |
| `UseAfterFree` | a thread works on after a start that failed (the constructor threw) or with a `headerOut` that is freed: the process may end |
| `ReadsHeader` | or it does not, and `send()` finds the header there or anything (`spoilt`): `delete[] headerOut` comes before both `pthread_cancel()`s |

Locking a mutex is no cancellation point, so a thread blocked on a `tmutex`
nobody will unlock is never joined. `missed` remembers that the destructor ran
after a start that timed out and found no listener to cancel or join although
the worker was still to create it.

### Header, LogUnit, RPCInterface and Exchange

`Header` has the five bytes of a header, what `createHeader()` writes into them
and what `readHeader()` makes of them, in 32 bits with the conversion to `int`.
`LogUnit` has the level test and, for a length, a prefix and a line size,
whether `formatString()` throws. `RPCInterface` has the map: `executeFunction()`
looks names up with `operator[]`, which inserts a name it does not know, with a
key that points into the request's document. `Exchange` puts these and
`JsonRPC` together over a connection that keeps messages whole and in order:
`Request` and `TakeAnswer` are a client that matches answers by id,
`TakeRequest` and `TransmitAnswer` the server's worker, whose `Process` executes,
refuses, or only notifies. `Lookup` has the three ways a function may ask for
its parameter (`tryTogetParam`, `findObjectMember` with and without a type). The
class that implements `ProcessInterface` is the library's user; it keeps one
document for each message.

### JsonRPC and Registration

`JsonRPC` reduces a parsed document to what the class asks of each member and
has an operator for each predicate and generator. The generators take the
document the *last* message left, because the class edits one DOM again and
again. `Registration` has the main thread of `start()` (`ConnectToRSD`,
`GenerateAnnounce`, `TransmitAnnounce` — two steps around the shared `sBuffer` —
and `Poll`), the listener in and out of `recv()`, the worker in `process()`
(one action for each way through the switch) and the RSD. The RSD is external:
it accepts, rejects, sends strays or leaves, between two frames (`"closed"`) or
inside one (`"torn"`); from the latter the listener may end or spin
(`ListenerSpins`), as in `Listener`. `createPluginActiveMsg()` dereferences
null pointers to form references: `RegisterACK` chooses between a compiler that
keeps the later tests of their addresses and the end of the process.

### Plugin

The main loop's scan, one step for each ComPoint looked at or deleted; the accept
thread (external, from `PluginInterface.hpp:113`); for each client the
ProcessInterface (`handler`), the ComPoint (`point`), its listener, its worker and
its `tmutex`. The threads are those of `Lifecycle` with all left out that neither
keeps a thread from ending nor hides the end of a connection:

| Action | Code |
|---|---|
| `Accept`, `PushComPointList` | a ComPoint is made, and listed under `cpLMutex` |
| `Receive`, `Work`, `Processed` | the listener refuses a header; the worker takes a message (there may be one whenever it looks), or spins with one that cannot be logged; `processMsg()` returns |
| `Lock`, `Sent` | `transmit()` of either thread: `tmutex` is taken, and lost if `log()` throws; both `send()`s and the unlock |
| `Leave`, `ListenerEnds`, `ListenerSpins` | the client leaves at any moment; the listener sets `deletable`, or spins, the client having left inside a frame |
| `ListenerCancelled`, `WorkerCancelled`, `SpinnerCancelled` | what `pthread_cancel()` does to each place; a listener cancelled in `send()` takes `tmutex` with it |
| `CheckForDeletable` ... `CheckEnds` | `checkForDeleteableComPoints()`, with `cpLMutex` locked throughout |
| `AccepterJoined` ... `ListDeleted` | `~PluginInterface()` |

Work with a deleted object may end the process (`alive`), so may a `send()` to a
client that has left (SIGPIPE), and so does the cancellation of a worker inside
the `try` block of `thread_work`, whose `catch(...)` does not rethrow. A worker
that waits for a `tmutex` lost, or spins, is not joined, and `~ComPoint()` does
not return (`KeptWaiting`).

## 3. What is checked

| Run | What it asks | Result |
|---|---|---|
| `listener` | types, `Framing`, `NoByteTwice`, `NothingKeptBack`, `WholeFrameDelivered`, `CleanEnd` for every way `recv()` splits and joins three frames | hold, 814k states, two minutes |
| `listener_timeout` | does a timeout mean that RECV_TIMEOUT was spent on *this* message? (`ComPoint.hpp:29`) | **violated** |
| `listener_eof` | does a wait end with the connection? (`ComPoint.hpp:197`) | **violated** |
| `compoint` | `Conservation`, `NoLostWakeup`, `OutputFramed`, `AnswersInOrder`, `EveryMessageProcessed`, `TransmitReturns`, the refinement of `MsgChannel`, with a `log()` that throws and a `send()` that may hang | hold, 160k states |
| `lifecycle` | with threads started late and cancelled anywhere and a `log()` that throws for one size: `SignalHasTarget`, `HalfFrameIsLast`, `QuietAfterDestruction`, `DestructionEnds`, `ProcessedUnlessStuck` | hold, 542k states, three minutes |
| `exchange` | three requests through both ends: `AnswersMatch`, `KnownIsCalled`, `AnswerComes` | hold, 181k states |
| `compointb` | answers past the queue, nothing else past it (`ConservationB`), SIGUSR2 exactly for an answer that came (`AnswerWakes`), `SignalDrains` | hold, 157k states |
| `compointb_wakeup` | is a message queued while busy processed? (`ComPointB.hpp:47-48`) | **violated** |
| `registration` | `NeverAhead`, `InOrder`, `Classified`, `Completes`, `GoneEndsPlugin` with an RSD that may also misbehave | hold, 19k states |
| `registration_shutdown` | does a failed registration shut the plugin down? (`RegClient.hpp:32`) | **violated** |
| `plugin` | `ListIsLive`, `ActiveIsKept`, `NoneForgotten`, `GoneIsReaped`, `PluginEnds` with two clients, `log()` throwing, `send()` hanging and connections torn | hold, 106k states |
| `plugin_busy` | is a ProcessInterface alive while its `processMsg()` runs? (`PluginInterface.hpp:56`) | **violated** |

Every property that holds has a mutant of the code that breaks it under the same
configuration (`PROJECT.json`, "mutants"): a size off by one, a strict
comparison, `push_back` for `push_front`, a lock not taken, a list entry not
erased.

Deadlock is not checked: the peers may stop sending, and a ComPoint, a
registration and a plugin all come to an end.

### The disagreements

1. **The time of a message** (`listener_timeout`). `select()` writes the time
   left to the member `timeout`, which is never reset: the three seconds are
   spent over the life of the connection, after which any message that arrives
   in two pieces is dropped at once.
2. **End of file in a frame** (`listener_eof`). `recv()` returning 0 in
   `waitForFurtherData()` counts as data: the listener spins and the ComPoint
   never becomes deletable. In a plugin the ComPoint of such a client stays
   in the list, and if it is the RSD that leaves so, the plugin goes on
   (`Unnoticed` in `Plugin`, `"spin"` in `Registration`).
3. **A message that cannot be logged.** `formatString()` throws for some
   lengths: with lines of 80 and a prefix of 7 characters for some from 876 and
   for every length from 1679, with 8 from 1440, with 6 from 1998. For no length
   with a prefix of 0 or 1, and for every length from 12948 with one of 2 to 77
   (proved: `NoPrefixIsFormatted`, `OneCharacterIsFormatted`,
   `LongIsNeverFormatted`). In the worker this happens before `pop`,
   and the worker takes the same message for ever, although `ComPoint.hpp:184`
   says it processes all; in `transmit()` it leaves `tmutex` locked, and no other
   call of `transmit()` returns, nor does the destructor of the ComPoint, which
   the main loop calls with `cpLMutex` held. No run is spent on the violation:
   the properties it touches name its outcomes as exceptions, `LeftLocked` in
   `EveryMessageProcessed`, `TransmitReturns` and `ImplementsChannel`, `Spinning`
   and `Orphaned` in `ProcessedUnlessStuck` and `DestructionEnds`, `KeptWaiting`
   and `Unnoticed` in `GoneIsReaped` and `PluginEnds`, a text that cannot be
   logged in `AnswerComes`.
4. **A message behind a busy worker** (`compointb_wakeup`). `isBusy()` is stale
   when used: the worker finishes and sleeps, the message is queued without a
   signal.
5. **A failed registration** (`registration_shutdown`). `close()` does not wake
   the listener blocked in `recv()`: nothing sets `deletable` and the plugin
   goes on.
6. **A handler deleted at work** (`plugin_busy`). `isDeletable()` says that the
   listener ended, not that the worker did.

Five more were met while modelling, and are part of the models without a run
of their own: `setGlobalLogLevel()` accepts any level, since its test is a
disjunction of inequalities that always holds (`LogUnit.hpp:85` says it throws);
an error in answer to a string id carries id 0 (`JsonRPC.cpp:571`), which
`AnswersMatch` excepts by name (`Misled`); a name no function has is inserted
into the RPCInterface's map (`RPCInterface.hpp:58`), which `KnownIsCalled` excepts;
the destructor frees `headerOut` before it cancels the threads that send it
(`ComPoint.cpp:62`), so the header of a frame sent then may be anything
(`spoilt` in `HalfFrameIsLast`); and a destructor that runs after a start that
timed out can miss the listener (`missed`), which then comes up, works in freed
memory and signals a worker that was joined.

The passing properties are stated so that these do not hide them, and no more.
Each exception is a named operator or a condition the property's comment gives:

| Exception | Stands for | In |
|---|---|---|
| `LeftLocked`; `Orphaned`; `tmutex` `"lost"` | nobody unlocks `tmutex` any more: `log()` threw, or the holder was cancelled in `send()` | `EveryMessageProcessed`, `TransmitReturns`, `ImplementsChannel`; `DestructionEnds`, `ProcessedUnlessStuck`; `GoneIsReaped`, `PluginEnds` |
| `Hung` | a `send()` to a peer that does not read never returns | `EveryMessageProcessed`, `TransmitReturns`, `ImplementsChannel`, `ProcessedUnlessStuck`, `SignalDrains` |
| `Spinning`; worker `"spin"` | the worker goes round with a message that cannot be logged | `DestructionEnds`, `ProcessedUnlessStuck`; `GoneIsReaped`, `PluginEnds` |
| listener `"spin"` | a peer that left inside a frame is not noticed | `GoneEndsPlugin`, `GoneIsReaped` |
| `missed` | a listener created after the destructor looked for it | `SignalHasTarget`, `QuietAfterDestruction`, `DestructionEnds` |
| `spoilt` | a header sent from the freed `headerOut` | `HalfFrameIsLast` |
| `~alive` | the process has ended | all that speak of an end or an answer |

Besides, `Framing` speaks of the stream until something is dropped,
`WholeFrameDelivered` excepts an empty payload alone in the buffer (the strict
`> HEADER_SIZE` of `ComPoint.cpp:176` leaves it there until more arrives),
`CleanEnd` speaks of a peer that leaves between frames, `SignalDrains` of messages
somebody signals, and `Completes` of an RSD that acknowledges.

### Bounds, and why they are enough

- **`MCListener`**: a two-byte header (so that `recv()` can cut it, and a buffer
  can hold exactly a header), a receive size of 3 (a frame of 4 bytes never
  arrives at once, and 3 is no multiple of 2 or 4), payloads of 0 and 2,
  timeout 1 (a wait that ends with data, one that times out, and one that has no
  time left), three frames (one before, at and behind each boundary); headers may
  be corrupt and the connection reset at any byte. The proofs
  remove all these bounds for the safety properties, here and in every other
  passing run.
- **`MCComPoint`**: two messages suffice for a reordering, a coalesced signal and
  a push between size and pop; one user call meets both the worker's and the
  listener's call on `tmutex`. Corrupt headers are on, so that the listener
  transmits too. Of the two sizes a thread may transmit, one cannot be logged, so
  that each call may go through or leave `tmutex` locked; what is received can
  always be logged (the other case is `MCLifecycle`'s). The framing itself has small parameters here: it is the
  business of `MCListener`.
- **`MCComPointB`**: three frames and two sub-requests: an answer before, between
  and behind ordinary messages, and two answers in one processing chain. Any
  frame may be the answer.
- **`MCLifecycle`**: a one-byte header, a receive size of 2, no select timeout to
  spend: the stream is the business of `MCListener`. Payloads of 0 and 1, in and
  out, of which 1 cannot be logged, so that each of the worker, the listener and
  one user call can throw or not; two messages, so that one can be behind the
  one that is stuck; one tick of `wait_for_listener_up()`, so that a start can be
  in time and too late. Headers may be corrupt, so that the transmit of a
  refusal meets the worker's and the user's, and the connection ends without
  resets, which are `MCListener`'s. Every step of the destructor meets every place of both
  threads.
- **`MCExchange`**: three requests: one that disturbs, one that is disturbed and
  one behind; ids `"0"` (the one an error may carry by mistake), two that are
  strings of digits and of letters, and none; lengths 60 and 1700 with prefixes 7
  and 8, so that each side can and cannot be logged; one known function and one
  unknown, parameters that fit and that have another type.
- **`MCRegistration`**: two strays out of four kinds (a response that
  acknowledges nothing, a notification, a result that is no string, a text that
  does not parse): enough to go REGISTERED → BROKEN → NOT_ACTIVE.
- **`MCPlugin`**: two clients: one to be skipped and one erased, in either order,
  and one whose destructor waits while the other is connected, gone or in the
  accept thread's hand. Nothing else in the module is bounded: a worker may take
  messages and a listener refuse headers without end.
- In the models, counters such as `MaxFrames`, `MaxUserSends`, `MaxSubRequests`,
  `MaxStrays`, `MaxClients`, `MaxRequests` only bound what the
  *environment* sends; no step of the library is bounded.

### Fairness

Weak fairness of each thread of the library: threads are scheduled, system calls
other than those that wait for a peer return, time passes in `select()`, and
`processMsg()` returns. A `send()` is one of those that wait: it blocks while the
peer does not read, so no thread is assumed to go on from it while the peer is
there (`~MayHang` in every fairness condition of `ComPoint`, `ComPointB`,
`Lifecycle` and `Plugin`); when the peer has gone it returns. The actions are enabled only where the thread is not
blocked, so a thread waiting for `tmutex` or a signal is assumed nothing beyond
the release or the signal. Nothing is assumed of a peer, client or user of
`transmit()`, except that the RSD answers a request it has received
(`Registration`) and that a thread inside `transmit()` goes on (`ComPoint`).
Strong fairness is used twice, in `Plugin`: for the accept thread's lock of
`cpLMutex` (`PushComPointList`), which the main loop leaves free for WAIT_TIME
seconds between two scans, and for a listener's lock of `tmutex`, which a worker
leaves free while it processes the messages of a queue that may never be empty. In `ComPoint` the three threads contend for `tmutex` under
weak fairness only; each calls boundedly often.

In `Lifecycle` the threads are scheduled as in `ComPoint` once they exist, a
thread that has been cancelled ends where it *must* (`EndsAtPoint`) but need not
where it only may (`EndsElsewhere`), and the owner goes on with a wait and a
destructor it has begun. Nobody must create, start or destroy a ComPoint. In
`Exchange` only the server is fair: a request is answered whatever its client
does.

## 4. What is proved

`Listener_proofs` proves, for **every** header size, buffer size, timeout, set of
payload sizes, `Garbage` and number of frames:

| Theorem | Says |
|---|---|
| `ListenerInvariant` | `SpecL => []IInvL` |
| `ListenerTypes` | `SpecL => []TypeOKL` |
| `ListenerFraming` | `SpecL => []Framing`: until bytes are dropped, what is delivered is what was sent |
| `ListenerNoByteTwice` | `SpecL => []NoByteTwice`: whatever is dropped, no byte is in two messages and the stream's order is kept |
| `ListenerNothingKeptBack` | `SpecL => []NothingKeptBack`: the listener does not go back to `recv()` with a message in its buffer |

The only assumption is `ListenerAssumption` (sizes are positive naturals, the
sets are sets of sizes), which TLC evaluates in every run of `MCListener`,
`MCComPoint` and `MCComPointB`.

**The argument.** `Framing` is not inductive: it does not say where the next
message begins. `IInvL` adds
`StreamOK` (the peer's frames lie end to end),
`BufferOK` (`msgBuffer` is within what was received, is empty at the blocking
`recv()`, and holds the whole of a message about to be pushed),
`InSync` (with nothing dropped, the buffer begins at the start of the next
frame, and the decoded header is that frame's — the heart of the proof), and,
for what must survive a drop, `Behind` and `InOrder` (delivered messages end
where the buffer begins). Each part has a lemma that a step preserves it, with a
case for each action; `HeaderAtBoundary` is the step that uses that frames
start at different places, and `BoundaryKept` that the peer only appends.

`ComPoint_proofs` proves, in addition for **every** number of messages, of calls
of `transmit()` by the user's threads, and set of sizes that can be sent or make
`log()` throw:

| Theorem | Says |
|---|---|
| `ComPointListens` | `Spec => SpecL`: a ComPoint's listener is the one of `Listener`, so all of the above holds of it |
| `ComPointInvariant` | `Spec => []IInv` |
| `ComPointTypes` | `Spec => []TypeOK` |
| `ComPointConservation` | `Spec => []Conservation`: between `push_front()` and `processMsg()` nothing is lost, doubled or reordered |
| `ComPointNoLostWakeup` | `Spec => []NoLostWakeup`: the worker does not sleep beside a queued message with no signal pending or about to be raised |
| `ComPointOutputFramed` | `Spec => []OutputFramed`: header and data of two threads' messages do not mix |
| `ComPointAnswersInOrder` | `Spec => []AnswersInOrder`: answers leave in the order of what they answer |
| `ComPointImplementsChannel` | `Spec => Channel!Spec`: the safety part of the refinement of `MsgChannel` |

It assumes `ListenerAssumption` and `ComPointAssumption` (sizes and the bound on
calls are naturals), both evaluated by the runs of `MCComPoint` and
`MCComPointB`.

**The argument.** Every step of the ComPoint is one of its listener and peer or
leaves their variables alone (`ListenerMoves`), which transfers the listener's
invariant. `IInv` conjoins to it what the properties need and do not say:

- `QueueOK`: between `back()` and `pop_back()` the queue is not empty and its
  last message is the one the worker read. The listener only adds at the other
  end (`ReversePushed`, `ReversePopped` say so of the reversed queue), so the
  element popped is the one read; `Conservation` is inductive with it.
- `MutexOK` and `OutputOpen`: who is between lock and unlock holds `tmutex`, and
  while the peer is there the output ends in a header without data only if a
  thread stands between its two `send()`s, and it is that thread's header.
- `AnswersOK`: the worker's answers belong to messages it has processed, and the
  one in its hand comes after all that left; `InputLater` gets the order of
  positions from the listener's `InOrder`.

For the refinement, what the peer has *sent* is what has arrived whole.
`ArrivedFirst` shows that these are the first frames of the stream (there is a
least frame that has not arrived, and all behind it end later), `SentGrows` that
it only gets longer, and `InputIsNext` that the message processed is the next
one of it, by `Framing` and `Conservation`.

`Lifecycle_proofs` proves, for every time-out and all the constants of
`ComPoint`:

| Theorem | Says |
|---|---|
| `LifecycleIsComPoint` | `SpecLife => Spec`: threads that start late and end anywhere do nothing a ComPoint may not do |
| `LifecycleConservation` | `SpecLife => []Conservation`: cancellation loses no message and doubles none |
| `LifecycleHalfFrameIsLast` | `SpecLife => []HalfFrameIsLast`: a thread that throws or is cancelled between its two `send()`s leaves half a frame as the *last* thing on the connection; headers are spoilt only after `headerOut` was freed |
| `LifecycleTypes`, `LifecycleInvariant` | `[]TypeOKLife`, `[]LifeInv` |
| `LifecycleSignalHasTarget` | `SpecLife => []SignalHasTarget`: the worker has blocked SIGUSR1 before the listener exists, and is joined after it unless the destructor of a start that timed out missed the listener |
| `LifecycleNoLostWakeup` | `[]NoLostWakeup`, and a listener between its push and its signal still runs: no cancellation comes between the two |
| `LifecycleAnswersInOrder` | `[]AnswersInOrder`, whatever is cancelled in `transmit()` |
| `LifecycleImplementsChannel` | `SpecLife => Channel!Spec`: the refinement of `MsgChannel` from constructor to destructor |
| `LifecycleQuiet` | `SpecLife => QuietAfterDestruction`, an action property: unless the listener was missed, nothing is written once both threads are cancelled, and no thread touches the ComPoint once it is destroyed |

**The argument.** What is proved of the messages and the frames follows from
`ComPoint_proofs` by `LifecycleIsComPoint`. `LifeInv` adds to the types `ListenerSends` (the listener
transmits only in `"reply"`, so one that ended at `recv()` is not in `transmit()`),
`StartOrder` (the listener is created by a worker that has its signals blocked),
`EndOrder` (in which step of the destructor which thread has been cancelled
and has ended) and `SpoiltLate` (no header is spoilt before `headerOut` is freed). `KillRuns` adds that a listener which has pushed and not yet
signalled runs: it ends only at cancellation points or in `transmit()`, and
neither the queue nor `pthread_kill()` is one. For `HalfFrameIsLast`, `SpoiltStep`
says that a header is spoilt only when `headerOut` is freed and `FreedForEver`
that it then stays so; that half a frame is followed by nothing is `OutputFramed`
of `ComPoint`, which `LifecycleIsComPoint` brings to behaviours with cancellation.
For `QuietAfterDestruction`, `SilentStep` says that a cancelled thread which may
write has nowhere to go but its end, since `send()` is a cancellation point.

`ComPointB_proofs` proves, for any number of messages and sub-requests:

| Theorem | Says |
|---|---|
| `ComPointBListens` | `SpecB => Framed!SpecL`: under a mapping of `lpc` (`ListenerPc`) its listener implements that of `Listener` |
| `ComPointBFraming` | `SpecB => []Framing`: so the theorem of the listener holds of it |
| `ComPointBNoByteTwice`, `ComPointBNothingKeptBack` | `[]NoByteTwice`, `[]NothingKeptBack`, likewise |
| `ComPointBTypes`, `ComPointBInvariant` | `[]TypeOKB`, `[]IInvB` |
| `ComPointBConservation` | `SpecB => []ConservationB`: answers go past the queue and nothing else does |
| `ComPointBAnswerWakes` | `SpecB => []AnswerWakes`: SIGUSR2 is there exactly while a worker waits whose answer came |
| `ComPointBOutputFramed` | `SpecB => []OutputFramed`: sub-requests sent from within `processMsg()` do not mix with what the listener and the user send |
| `ComPointBSentInOrder` | `SpecB => []SentInOrder`: sub-requests and answers leave in the order of the messages they are for |

**The argument.** The listener's invariant is instantiated with `lpc <- ListenerPc`
and gives the place and length of each message. `IInvB` adds `QueueOK`, as in
`ComPoint_proofs`, and `WaitOK` (somebody expects an answer only while the worker
waits without one, and SIGUSR2 is raised once). `RestGrows` and `RestSkips` say
what appending does to "the sequence without these positions" (`IsRest`). The
lemmas about `transmit()` are those of `ComPoint_proofs`, which ask only for
`SendTypes`; `SentInOrder` needs with them that the worker transmits for the
message it processed last (`WorkOK`, `SentFor`) and that this one lies behind the
others in the stream (`ProcessedInOrder`, from `ConservationB` and the listener's
`InOrder`).

`Registration_proofs` proves, for any number of stray messages from the RSD:

| Theorem | Says |
|---|---|
| `RegistrationTypes`, `RegistrationInvariant` | `[]TypeOK`, `[]RegInv` |
| `RegistrationNeverAhead` | `Spec => []NeverAhead`: the plugin does not believe itself further than the RSD |
| `RegistrationInOrder` | `Spec => []InOrder`: announce, register, pluginActive, each at most once |
| `RegistrationClassified` | `Spec => []Classified`: the edited documents are of the kind they are meant to be |

**The argument.** None of the three is inductive. `RegInv` says that at most one
message that moves the registration on is under way, whether in the worker's
hand (`OutputOK`), on its way to the RSD (`FlightOK`) or, as an acknowledgement,
on its way back (`AcksOK`), that the number of messages the RSD has received
says what it is (`IsNext`), that the main thread is out of `start()` before the worker can
generate (`StartOK`), and which members the three documents never lose or gain
(`DocumentsOK`).

`Plugin_proofs` proves, for any number of clients,
`PluginTypes`, `PluginListIsLive`, `PluginActiveIsKept` and `PluginNoneForgotten`
(`Spec => []TypeOK`, `[]ListIsLive`, `[]ActiveIsKept`, `[]NoneForgotten`) from the
invariant `IInv`: `ListOK` (no ComPoint twice in the list, none destroyed),
`MadeOK` (each ComPoint that was made is in the list, in the accept thread's
hand or deleted), `LiveOK` (those in the list are whole, but for the one whose
threads are being joined),
`MainOK` (what the scan may assume at each of its steps, with and without
`cpLMutex`), `ReapedOK` (what the main loop destroyed was deletable) and `GoneOK`
(only the end of its connection makes a ComPoint deletable). The last two carry
`ActiveIsKept`, which does not mention `deletable`: it says that the *client* of
what was destroyed had gone.

`Exchange_proofs` proves, for any number of requests, any set of ids,
parameters, lengths and functions, and any two prefixes shorter than a line:

| Theorem | Says |
|---|---|
| `ExchangeTypes`, `ExchangeInvariant` | `[]TypeOK`, `[]ExInv` |
| `ExchangeAnswersMatch` | `Spec => []AnswersMatch`: an answer is taken for the request it answers, but for the error with id 0; none is answered twice, a notification never |
| `ExchangeKnownIsCalled` | `Spec => []KnownIsCalled`: a registered function is called while nobody has asked for one that is none |
| `IntegerIdsMatch` | with integer ids only, *no* answer is ever taken for another request's |
| `KnownNeverDies` | if all functions asked for are registered, the map stays as filled and the server lives |
| `ShortIsFormatted` | a message shorter than a line less its prefix never makes `formatString()` throw |
| `NoPrefixIsFormatted`, `OneCharacterIsFormatted` | nor does any message without a prefix or with one of a single character |
| `LongIsNeverFormatted` | every message of 12948 characters or more does, with any prefix from 2 to 77 |

**The argument.** `AnswersMatch` excepts an answer taken while a string id is about
(`Misled`), and is not inductive: nothing in it says why the client's table of
open requests and the connection fit together. `ExInv` adds
`DocumentsOK` (what each of the four edited documents keeps),
`RequestsOK` (the requests under way are the next ones the server will take, in
order),
`AnswersOK` (each answer is a response with its request's id, or an error that
carries 0 when that is no integer),
`FlightOK` and `OutputOK` (answers come in the order they were made, the last one
possibly still to be transmitted, or lost with `tmutex`),
`OpenOK` (an id is open for one request at a time, and stays so until something
is taken for its answer), `TakenOK`, and
`MapOK` (every registered function stays in the map; what else is in it was
inserted for an earlier request that asked for none of them). The heart is
`TakeAnswerKeeps`: if an answer to request *n* is taken for *w*, then *w* was made
later than *n* with the same id, so the client had taken something else for the
answer to *n* before; that is an earlier mis-taking, which the invariant already
explains by a string id. `Whole` uses `RoundTrip`, so the headers of `Header` are
part of this proof. `ExInv` was checked on the bounds of `MCExchange` first.

`Header_proofs` is about `createHeader()` and `readHeader()`: `HeaderIsBytes` (what
is written fits its bytes) and `RoundTrip` (what is read is the value, for
every `int` that is not negative). How long a text `formatString()` can format is
arithmetic on its two loops: the number of line breaks it makes room for is
computed from the room left beside a prefix, and the place of the last one
compared with the length the text has by then.

The assumptions are the named ASSUMEs of the modules (sizes and bounds are
naturals, sets are sets of what they should be), which TLC evaluates in the runs.

### What stays with TLC

- Liveness and everything under fairness (`WholeFrameDelivered`, `CleanEnd`,
  `EveryMessageProcessed`, `TransmitReturns`, `DestructionEnds`,
  `ProcessedUnlessStuck`, `SignalDrains`, `Completes`, `GoneEndsPlugin`,
  `GoneIsReaped`, `PluginEnds`, `AnswerComes`, and the liveness of the channel in
  `ImplementsChannel`): the prover does neither fairness nor ENABLED.
- Induction over data and RECURSIVE operators are out of the prover's reach; no
  module here has one.

## 5. What is not modelled, and why

- **Lengths near 2^31**, where `messageSize+HEADER_SIZE` overflows `int`: `Header`
  says for which lengths the test for a complete message is arbitrary
  (`IsComplete`), but no peer of the models sends one.
- **SIGPIPE and short `send()`s**: what is written to a peer that left vanishes
  in `ComPoint`; `Registration` and `Plugin` have the end of the process as a
  choice. Partial writes are not modelled.
- **`std::out_of_range` leaving ComPointB's listener** (`ComPointB.cpp:60`), which
  ends the process: `log()` is taken not to throw there.
- **The number of a closed descriptor reused** by the accept thread before the
  RegClient's second `close()`: it would take `Registration` and `Plugin` over
  one table of descriptors.
- **An RSD that does not wait**: the RSD of `Registration` answers what it has
  received, and repeats no acknowledgement (its strays acknowledge nothing). That
  it must wait for the plugin's next message is an assumption on it; what the
  plugin does with a registration message out of turn is not explored.
- **A `processMsg()` that gives up waiting** for the answer to its sub-request:
  the one of `ComPointB` waits, and clears `busy` when it is done. An answer that
  comes to one that has given up would leave SIGUSR2 behind.
- **ACTIVE** is a state of RegClient no code sets, and `unregisterFromRSD()` is
  empty: nothing to model.
- **`processMutex`** of a ProcessInterface shared by several ComPoints, and an
  answer that `processMsg()` addresses to another ComPoint than the one the
  message came from: `ComPoint` is one ComPoint, whose worker answers on it.
- **rapidjson and its allocators**, and the assertion it fails on a text that is
  JSON but no object: documents are reduced to what the class asks of them.
- **Time stamps, syslog and what a log line looks like**, `dlog()`'s buffer.
- **Socket set-up**, value classes (`RPCMsg`, `IncomingMsg`, `OutgoingMsg`,
  `Error`, `PluginInfo`), mocks and tests.

## 6. What could come next

1. `Registration` and `Plugin` over one table of descriptors, for the second
   `close()` of the RegClient.
2. A ProcessInterface shared by several ComPoints, with `processMutex`, and
   answers that go to another ComPoint.
3. `transmit()` with short `send()`s and a peer that is gone, as outcomes of
   `Send`.
4. An RSD that repeats acknowledgements or does not wait, and a `processMsg()`
   that gives up waiting for its answer.
