------------------------------ MODULE Listener ------------------------------
(***************************************************************************)
(* The receiving half of a ComPoint: thread_listen(), readHeader() and     *)
(* waitForFurtherData() of ComPoint.cpp, and the peer at the other end of  *)
(* the stream socket.                                                      *)
(*                                                                         *)
(* Bytes are abstracted to positions in the peer's byte stream.  A frame   *)
(* is a header of HEADER_SIZE bytes and a payload of len bytes; msgBuffer  *)
(* is always a contiguous piece of the stream, the last bufSize of the     *)
(* rcvd bytes taken from the socket, so a message is the interval of the   *)
(* stream it was cut from.  What a header read in the middle of a frame    *)
(* decodes to depends on payload bytes and is any member of Garbage.       *)
(***************************************************************************)
EXTENDS Integers, Sequences

CONSTANTS HEADER_SIZE,    \* TAG_LENGTH + LENGTH_LENGTH, 5 in the code
          BUFFER_SIZE,    \* most bytes one recv() returns, 2048 in the code
          RECV_TIMEOUT,   \* the initial timeout.tv_sec, 3 in the code
          Lens,           \* payload sizes the peer sends
          Garbage,        \* what readHeader() makes of bytes inside a frame
          MayCorrupt,     \* may the peer send a header readHeader() refuses?
          MayReset,       \* may the connection fail, or does it only end?
          MaxFrames       \* bound: how many frames the peer starts

Bad == -1                 \* readHeader(): not a header

ASSUME ListenerAssumption ==
  /\ HEADER_SIZE \in Nat \ {0}
  /\ BUFFER_SIZE \in Nat \ {0}
  /\ RECV_TIMEOUT \in Nat
  /\ Lens \subseteq Nat
  /\ Garbage \subseteq Nat \cup {Bad}
  /\ MayCorrupt \in BOOLEAN
  /\ MayReset \in BOOLEAN
  /\ MaxFrames \in Nat

NoHeader == -2            \* no header of the message at the front is decoded yet

VARIABLES
  (* the peer and the socket *)
  frames,     \* the frames the peer has started, with their place in the stream
  sentEnd,    \* the position at which the last of them ends
  wire,       \* bytes of the stream written so far
  peer,       \* "open", "closed" (recv() returns 0) or "reset" (it fails once)
  (* the listener *)
  lpc,        \* where the listener stands
  rcvd,       \* bytes of the stream taken from the socket
  bufSize,    \* msgBufferSize
  hdr,        \* messageSize, once decoded for the current front of msgBuffer
  armed,      \* is currentSocket still in rfds?
  tleft,      \* what select() left in timeout
  deletable,  \* the flag the owner of the ComPoint polls
  (* history *)
  delivered,  \* the messages handed to the receive queue
  dropped,    \* has the listener thrown received bytes away?
  waited      \* time select() has waited for the message at the front

peerVars     == <<frames, sentEnd, wire, peer>>
listenerVars == <<lpc, rcvd, bufSize, hdr, armed, tleft, deletable,
                  delivered, dropped, waited>>
lVars        == <<peerVars, listenerVars>>

Frame   == [pos : Nat, len : Nat, ok : BOOLEAN]
Message == [pos : Nat, len : Nat]

(***************************************************************************)
(* The message at the front of msgBuffer.                                  *)
(***************************************************************************)
start == rcvd - bufSize
avail == wire - rcvd
msg   == [pos |-> start, len |-> hdr]

EndOf(m) == m.pos + HEADER_SIZE + m.len

InitL ==
  /\ frames = <<>> /\ sentEnd = 0 /\ wire = 0 /\ peer = "open"
  /\ lpc = "recv" /\ rcvd = 0 /\ bufSize = 0 /\ hdr = NoHeader
  /\ armed = TRUE /\ tleft = RECV_TIMEOUT /\ deletable = FALSE
  /\ delivered = <<>> /\ dropped = FALSE /\ waited = 0

-----------------------------------------------------------------------------
(***************************************************************************)
(* The peer.  It starts frames, writes their bytes in pieces of any size,  *)
(* and may close or reset the connection at any byte.                      *)
(***************************************************************************)
PeerStart(len, ok) ==
  /\ peer = "open"
  /\ Len(frames) < MaxFrames
  /\ frames' = Append(frames, [pos |-> sentEnd, len |-> len, ok |-> ok])
  /\ sentEnd' = sentEnd + HEADER_SIZE + len
  /\ UNCHANGED <<wire, peer, listenerVars>>

PeerWrite ==
  /\ peer = "open"
  /\ \E n \in wire + 1 .. sentEnd : wire' = n
  /\ UNCHANGED <<frames, sentEnd, peer, listenerVars>>

PeerLeave ==
  /\ peer = "open"
  /\ peer' \in IF MayReset THEN {"closed", "reset"} ELSE {"closed"}
  /\ UNCHANGED <<frames, sentEnd, wire, listenerVars>>

Peer ==
  \/ \E len \in Lens, ok \in {TRUE, ~MayCorrupt} : PeerStart(len, ok)
  \/ PeerWrite
  \/ PeerLeave

-----------------------------------------------------------------------------
(***************************************************************************)
(* recv() in the outer loop of thread_listen(): the bytes it returns are   *)
(* the whole of msgBuffer.                                                 *)
(***************************************************************************)
Taken(n) == n \in 1 .. BUFFER_SIZE /\ n <= avail

Recv ==
  /\ lpc = "recv"
  /\ \E n \in 1 .. BUFFER_SIZE :
       /\ Taken(n)
       /\ rcvd' = rcvd + n
       /\ bufSize' = n
  /\ hdr' = NoHeader
  /\ waited' = 0
  /\ lpc' = "decode"
  /\ UNCHANGED <<peerVars, armed, tleft, deletable, delivered, dropped>>

(* Mutant of RecvEnd: recvSize < 0 where the code tests recvSize <= 0.     *)
RecvEndOnErrorOnly ==
  /\ lpc = "recv"
  /\ avail = 0
  /\ peer = "reset"
  /\ deletable' = TRUE
  /\ lpc' = "done"
  /\ UNCHANGED <<peerVars, rcvd, bufSize, hdr, armed, tleft, delivered,
                 dropped, waited>>

(* recv() returned 0 or -1: the listener thread ends.                      *)
RecvEnd ==
  /\ lpc = "recv"
  /\ avail = 0
  /\ peer # "open"
  /\ deletable' = TRUE
  /\ lpc' = "done"
  /\ UNCHANGED <<peerVars, rcvd, bufSize, hdr, armed, tleft, delivered,
                 dropped, waited>>

(***************************************************************************)
(* One turn of while(msgBufferSize > 0).  A header at a frame's start is   *)
(* read as the peer wrote it; elsewhere it is payload, and reads the same  *)
(* each time.                                                              *)
(***************************************************************************)
Header(p) ==
  IF \E i \in DOMAIN frames : frames[i].pos = p
    THEN {IF frames[i].ok THEN frames[i].len ELSE Bad :
            i \in {j \in DOMAIN frames : frames[j].pos = p}}
    ELSE Garbage

(* Mutant of ReadHeader: a complete message needs one byte more.           *)
ReadHeaderStrict ==
  /\ lpc = "decode"
  /\ bufSize > HEADER_SIZE
  /\ \E h \in IF hdr = NoHeader THEN Header(start) ELSE {hdr} :
       /\ hdr' = h
       /\ lpc' = IF h = Bad THEN "refuse"
                 ELSE IF bufSize > h + HEADER_SIZE THEN "push" ELSE "select"
  /\ UNCHANGED <<peerVars, rcvd, bufSize, armed, tleft, deletable, delivered,
                 dropped, waited>>

(* Mutant of ReadHeader: messageSize is used without the test for -1.      *)
ReadHeaderUnchecked ==
  /\ lpc = "decode"
  /\ bufSize > HEADER_SIZE
  /\ \E h \in IF hdr = NoHeader THEN Header(start) ELSE {hdr} :
       /\ hdr' = h
       /\ lpc' = IF bufSize >= h + HEADER_SIZE THEN "push" ELSE "select"
  /\ UNCHANGED <<peerVars, rcvd, bufSize, armed, tleft, deletable, delivered,
                 dropped, waited>>

(* "not even the header was complete": the test is strict, so a buffer of  *)
(* exactly HEADER_SIZE bytes is not decoded either.                        *)
ReadHeader ==
  /\ lpc = "decode"
  /\ bufSize > HEADER_SIZE
  /\ \E h \in IF hdr = NoHeader THEN Header(start) ELSE {hdr} :
       /\ hdr' = h
       /\ lpc' = IF h = Bad THEN "refuse"
                 ELSE IF bufSize >= h + HEADER_SIZE THEN "push" ELSE "select"
  /\ UNCHANGED <<peerVars, rcvd, bufSize, armed, tleft, deletable, delivered,
                 dropped, waited>>

NeedHeader ==
  /\ lpc = "decode"
  /\ bufSize \in 1 .. HEADER_SIZE
  /\ lpc' = "select"
  /\ UNCHANGED <<peerVars, rcvd, bufSize, hdr, armed, tleft, deletable,
                 delivered, dropped, waited>>

BufferEmpty ==
  /\ lpc = "decode"
  /\ bufSize = 0
  /\ lpc' = "recv"
  /\ UNCHANGED <<peerVars, rcvd, bufSize, hdr, armed, tleft, deletable,
                 delivered, dropped, waited>>

(***************************************************************************)
(* A complete message: push_frontReceiveQueue(), then pthread_kill() and   *)
(* the rest of msgBuffer is moved to its front.                            *)
(***************************************************************************)
Push ==
  /\ lpc = "push"
  /\ delivered' = Append(delivered, msg)
  /\ lpc' = "kill"
  /\ UNCHANGED <<peerVars, rcvd, bufSize, hdr, armed, tleft, deletable,
                 dropped, waited>>

(* Mutants of Advance: one byte too few kept, the header forgotten in the  *)
(* size of what is cut off, and the rest behind the message lost.          *)
AdvanceTooFar ==
  /\ bufSize' = bufSize - (hdr + HEADER_SIZE) - 1
  /\ hdr' = NoHeader
  /\ waited' = 0
  /\ lpc' = "decode"

AdvanceWithoutHeader ==
  /\ bufSize' = bufSize - hdr
  /\ hdr' = NoHeader
  /\ waited' = 0
  /\ lpc' = "decode"

AdvanceToEmpty ==
  /\ bufSize' = 0
  /\ hdr' = NoHeader
  /\ waited' = 0
  /\ lpc' = "decode"

Advance ==
  /\ bufSize' = bufSize - (hdr + HEADER_SIZE)
  /\ hdr' = NoHeader
  /\ waited' = 0
  /\ lpc' = "decode"

Kill ==
  /\ lpc = "kill"
  /\ Advance
  /\ UNCHANGED <<peerVars, rcvd, armed, tleft, deletable, delivered, dropped>>

(***************************************************************************)
(* Throwing msgBuffer away, whole messages behind the front included.      *)
(***************************************************************************)
DropBuffer ==
  /\ bufSize' = 0
  /\ hdr' = NoHeader
  /\ dropped' = TRUE
  /\ waited' = 0

(* "Decoding the header failed": drop, then transmit() the JSON error.     *)
RefuseHeader ==
  /\ lpc = "refuse"
  /\ DropBuffer
  /\ lpc' = "reply"
  /\ UNCHANGED <<peerVars, rcvd, armed, tleft, deletable, delivered>>

Reply ==
  /\ lpc = "reply"
  /\ lpc' = "decode"
  /\ UNCHANGED <<peerVars, rcvd, bufSize, hdr, armed, tleft, deletable,
                 delivered, dropped, waited>>

-----------------------------------------------------------------------------
(***************************************************************************)
(* waitForFurtherData().  rfds and timeout are members of the ComPoint     *)
(* that select() writes to: it leaves the rest of the time in timeout, and *)
(* after a timeout an empty rfds.  Nothing sets either of them again.      *)
(***************************************************************************)
Readable == armed /\ (avail > 0 \/ peer # "open")

SelectTick ==
  /\ lpc = "select"
  /\ ~Readable
  /\ tleft > 0
  /\ tleft' = tleft - 1
  /\ waited' = waited + 1
  /\ UNCHANGED <<peerVars, lpc, rcvd, bufSize, hdr, armed, deletable,
                 delivered, dropped>>

SelectReady ==
  /\ lpc = "select"
  /\ Readable
  /\ lpc' = "more"
  /\ UNCHANGED <<peerVars, rcvd, bufSize, hdr, armed, tleft, deletable,
                 delivered, dropped, waited>>

SelectTimeout ==
  /\ lpc = "select"
  /\ ~Readable
  /\ tleft = 0
  /\ armed' = FALSE
  /\ DropBuffer
  /\ lpc' = "recv"
  /\ UNCHANGED <<peerVars, rcvd, tleft, deletable, delivered>>

(* select() failed: Error is thrown and caught in thread_listen(), which    *)
(* drops the buffer.                                                       *)
SelectFails ==
  /\ lpc = "select"
  /\ DropBuffer
  /\ lpc' = "recv"
  /\ UNCHANGED <<peerVars, rcvd, armed, tleft, deletable, delivered>>

(* Mutant of RecvMore: the bytes replace msgBuffer.                        *)
RecvMoreOverwrites ==
  /\ lpc = "more"
  /\ \E n \in 1 .. BUFFER_SIZE :
       /\ Taken(n)
       /\ rcvd' = rcvd + n
       /\ bufSize' = n
  /\ lpc' = "decode"
  /\ UNCHANGED <<peerVars, hdr, armed, tleft, deletable, delivered, dropped,
                 waited>>

(* The recv() after select(): the bytes are appended to msgBuffer.         *)
RecvMore ==
  /\ lpc = "more"
  /\ \E n \in 1 .. BUFFER_SIZE :
       /\ Taken(n)
       /\ rcvd' = rcvd + n
       /\ bufSize' = bufSize + n
  /\ lpc' = "decode"
  /\ UNCHANGED <<peerVars, hdr, armed, tleft, deletable, delivered, dropped,
                 waited>>

(* It returned 0: only a negative result is an error, so nothing is        *)
(* appended and the loop goes round.                                       *)
RecvMoreEof ==
  /\ lpc = "more"
  /\ avail = 0
  /\ peer = "closed"
  /\ lpc' = "decode"
  /\ UNCHANGED <<peerVars, rcvd, bufSize, hdr, armed, tleft, deletable,
                 delivered, dropped, waited>>

(* It failed: Error is thrown and caught in thread_listen(), and the error *)
(* of the socket is consumed.                                              *)
RecvMoreError ==
  /\ lpc = "more"
  /\ avail = 0
  /\ peer = "reset"
  /\ peer' = "closed"
  /\ DropBuffer
  /\ lpc' = "recv"
  /\ UNCHANGED <<frames, sentEnd, wire, rcvd, armed, tleft, deletable,
                 delivered>>

-----------------------------------------------------------------------------
Decode == ReadHeader \/ NeedHeader \/ BufferEmpty
Wait   == SelectTick \/ SelectReady \/ SelectTimeout \/ SelectFails
            \/ RecvMore \/ RecvMoreEof \/ RecvMoreError

(* Every step of the listener but the three that touch the rest of the     *)
(* ComPoint: Push (the queue), Kill (the worker) and Reply (transmit()).   *)
LocalStep == Recv \/ RecvEnd \/ Decode \/ RefuseHeader \/ Wait

ListenerStep == LocalStep \/ Push \/ Kill \/ Reply

NextL == Peer \/ ListenerStep

SpecL == InitL /\ [][NextL]_lVars

(* The listener's thread is scheduled, its system calls return, and time   *)
(* passes in select().  Nothing is assumed of the peer.                    *)
FairSpecL == SpecL /\ WF_lVars(ListenerStep)

-----------------------------------------------------------------------------
TypeOKL ==
  /\ frames \in Seq(Frame)
  /\ sentEnd \in Nat /\ wire \in Nat
  /\ peer \in {"open", "closed", "reset"}
  /\ lpc \in {"recv", "decode", "push", "kill", "refuse", "reply", "select",
              "more", "done"}
  /\ rcvd \in Nat /\ bufSize \in Nat
  /\ hdr \in Nat \cup {Bad, NoHeader}
  /\ armed \in BOOLEAN /\ tleft \in 0 .. RECV_TIMEOUT
  /\ deletable \in BOOLEAN
  /\ delivered \in Seq(Message)
  /\ dropped \in BOOLEAN /\ waited \in Nat

(* Until received bytes are thrown away, the messages delivered are the    *)
(* frames the peer sent, in order, none missing, merged or cut, however    *)
(* recv() splits and joins them (thread_listen's msgBuffer handling).      *)
Framing ==
  ~dropped =>
    /\ Len(delivered) <= Len(frames)
    /\ \A i \in DOMAIN delivered :
         delivered[i] = [pos |-> frames[i].pos, len |-> frames[i].len]

(* Whatever is dropped, no byte of the stream becomes part of two          *)
(* messages, messages keep the order of the stream, and none holds a byte  *)
(* that was not received.                                                  *)
NoByteTwice ==
  /\ \A i, j \in DOMAIN delivered :
       i < j => EndOf(delivered[i]) <= delivered[j].pos
  /\ \A i \in DOMAIN delivered : EndOf(delivered[i]) <= rcvd

(* When the listener goes back to its blocking recv() it keeps no byte     *)
(* back: with nothing dropped, everything it took from the socket is in    *)
(* the messages it delivered (the "rest of data" branch of thread_listen). *)
NothingKeptBack ==
  (lpc \in {"recv", "done"} /\ ~dropped) =>
    rcvd = IF delivered = <<>> THEN 0 ELSE EndOf(delivered[Len(delivered)])

(* A frame that came in whole is delivered, or bytes are dropped first: no *)
(* sequence of partial reads leaves a complete message in msgBuffer.  A    *)
(* frame without payload is excepted: the strict test on HEADER_SIZE waits *)
(* for a byte of the next one.                                             *)
CameIn(i) == i \in DOMAIN frames /\ frames[i].len > 0 /\ wire >= EndOf(frames[i])

WholeFrameDelivered ==
  \A i \in 1 .. MaxFrames :
    CameIn(i) ~> (Len(delivered) >= i \/ dropped)

(* A peer that leaves between two frames ends the listener, which then     *)
(* marks the ComPoint deletable (recvSize <= 0 in thread_listen).          *)
LeftBetweenFrames ==
  /\ peer # "open"
  /\ wire = sentEnd
  /\ frames = <<>> \/ frames[Len(frames)].len > 0

CleanEnd == LeftBetweenFrames ~> (deletable \/ dropped)

(* ComPoint.hpp:29, "Time for receiving a whole encoded message until      *)
(* timeout": a timeout drops a message only after RECV_TIMEOUT was spent   *)
(* waiting for it.                                                         *)
WaitsForWholeMessage ==
  [][SelectTimeout => waited = RECV_TIMEOUT]_lVars

(* ComPoint.hpp:197, waitForFurtherData() "throws Error If the socket is   *)
(* closed during waiting": a wait does not outlive the connection.         *)
WaitEnds == (lpc = "select" /\ peer = "closed" /\ avail = 0) ~> lpc = "recv"
=============================================================================
