--------------------------- MODULE Listener_proofs ---------------------------
(***************************************************************************)
(* The framing of the listener, for every header size, buffer size, number *)
(* of frames and payload sizes.                                            *)
(***************************************************************************)
EXTENDS Listener, TLAPS

(* Where the frame after the k-th begins, or will begin.                   *)
Boundary(k) == IF k = Len(frames) THEN sentEnd ELSE frames[k + 1].pos

(* The peer's frames lie end to end from the start of the stream.          *)
StreamOK ==
  /\ Boundary(0) = 0
  /\ \A i \in DOMAIN frames : Boundary(i) = EndOf(frames[i])
  /\ \A i \in DOMAIN frames : EndOf(frames[i]) <= sentEnd
  /\ \A i, j \in DOMAIN frames : i < j => EndOf(frames[i]) <= frames[j].pos
  /\ wire <= sentEnd

(* msgBuffer is the end of what was received, and empty where the code     *)
(* leaves it empty; a message to be pushed is inside it.                   *)
BufferOK ==
  /\ rcvd <= wire
  /\ bufSize <= rcvd
  /\ lpc \in {"recv", "reply", "done"} => bufSize = 0
  /\ lpc \in {"push", "kill"} => hdr \in Nat /\ hdr + HEADER_SIZE <= bufSize

(* Where the next message will begin.                                      *)
NextPos == IF lpc = "kill" THEN EndOf(msg) ELSE start

(* With nothing dropped, msgBuffer begins where a frame begins, and the    *)
(* decoded header is that frame's.                                         *)
InSync ==
  ~dropped =>
    /\ NextPos = Boundary(Len(delivered))
    /\ (lpc # "kill" /\ hdr # NoHeader) =>
         /\ Len(delivered) < Len(frames)
         /\ hdr \in {Bad, frames[Len(delivered) + 1].len}

(* The delivered messages end before the next one begins.                  *)
Behind == \A i \in DOMAIN delivered : EndOf(delivered[i]) <= NextPos

InOrder == \A i, j \in DOMAIN delivered :
             i < j => EndOf(delivered[i]) <= delivered[j].pos

IInvL == TypeOKL /\ StreamOK /\ BufferOK /\ InSync /\ Framing /\ Behind /\ InOrder

-----------------------------------------------------------------------------
(* The members of the sequences have the type of their set.                *)
LEMMA ElementAt == ASSUME NEW S, NEW s \in Seq(S), NEW i \in DOMAIN s
                   PROVE  s[i] \in S
OBVIOUS

(* Frames have the type of frames.                                         *)
LEMMA FrameAt == ASSUME TypeOKL PROVE \A i \in DOMAIN frames : frames[i] \in Frame
BY ElementAt DEF TypeOKL

(* readHeader() returns a length or refuses.                               *)
LEMMA HeaderType == ASSUME TypeOKL PROVE Header(start) \subseteq Nat \cup {Bad}
<1>1. \A i \in DOMAIN frames : frames[i].ok \in BOOLEAN /\ frames[i].len \in Nat
  BY FrameAt DEF Frame
<1> QED
  BY <1>1, ListenerAssumption DEF Header

(* Every variable of the listener keeps its type.                          *)
LEMMA TypeStep == ASSUME TypeOKL, BufferOK, [NextL]_lVars PROVE TypeOKL'
<1> USE ListenerAssumption DEF TypeOKL, Bad, NoHeader
<1>1. ASSUME NEW len \in Lens, NEW ok \in {TRUE, ~MayCorrupt}, PeerStart(len, ok)
      PROVE TypeOKL'
  <2>1. [pos |-> sentEnd, len |-> len, ok |-> ok] \in Frame
    BY DEF Frame
  <2>2. frames' \in Seq(Frame) /\ sentEnd' \in Nat
    BY <1>1, <2>1 DEF PeerStart
  <2> QED
    BY <1>1, <2>2 DEF PeerStart, listenerVars
<1>2. CASE PeerWrite
  BY <1>2 DEF PeerWrite, listenerVars
<1>3. CASE PeerLeave
  BY <1>3 DEF PeerLeave, listenerVars
<1>4. CASE Recv
  BY <1>4 DEF Recv, peerVars
<1>5. CASE RecvEnd
  BY <1>5 DEF RecvEnd, peerVars
<1>6. CASE ReadHeader
  <2>2. hdr' \in Nat \cup {Bad, NoHeader}
    BY <1>6, HeaderType DEF ReadHeader
  <2>3. lpc' \in {"refuse", "push", "select"}
    BY <1>6 DEF ReadHeader
  <2> QED
    BY <1>6, <2>2, <2>3 DEF ReadHeader, peerVars
<1>7. CASE NeedHeader \/ BufferEmpty
  BY <1>7 DEF NeedHeader, BufferEmpty, peerVars
<1>8. CASE RefuseHeader
  BY <1>8 DEF RefuseHeader, DropBuffer, peerVars
<1>9. CASE SelectTick
  <2>1. tleft' \in 0 .. RECV_TIMEOUT /\ waited' \in Nat
    BY <1>9 DEF SelectTick
  <2> QED
    BY <1>9, <2>1 DEF SelectTick, peerVars
<1>18. CASE SelectReady
  BY <1>18 DEF SelectReady, peerVars
<1>10. CASE SelectTimeout
  BY <1>10 DEF SelectTimeout, DropBuffer, peerVars
<1>19. CASE SelectFails
  BY <1>19 DEF SelectFails, DropBuffer, peerVars
<1>11. CASE RecvMore
  BY <1>11 DEF RecvMore, peerVars
<1>12. CASE RecvMoreEof
  BY <1>12 DEF RecvMoreEof, peerVars
<1>13. CASE RecvMoreError
  BY <1>13 DEF RecvMoreError, DropBuffer
<1>14. CASE Push
  <2>1. msg \in Message
    BY <1>14 DEF Push, BufferOK, Message, msg, start
  <2> QED
    BY <1>14, <2>1 DEF Push, peerVars
<1>15. CASE Kill
  <2>1. bufSize' \in Nat
    BY <1>15 DEF Kill, Advance, BufferOK
  <2> QED
    BY <1>15, <2>1 DEF Kill, Advance, peerVars
<1>16. CASE Reply
  BY <1>16 DEF Reply, peerVars
<1>17. CASE UNCHANGED lVars
  BY <1>17 DEF lVars, peerVars, listenerVars
<1> QED
  BY <1>1, <1>2, <1>3, <1>4, <1>5, <1>6, <1>7, <1>8, <1>9, <1>10, <1>11,
     <1>12, <1>13, <1>14, <1>15, <1>16, <1>17, <1>19,
     <1>18
  DEF NextL, Peer, ListenerStep, LocalStep, Decode, Wait

(* msgBuffer stays inside what was received and what was written.          *)
LEMMA BufferStep == ASSUME TypeOKL, BufferOK, [NextL]_lVars PROVE BufferOK'
<1>1. /\ HEADER_SIZE \in Nat \ {0} /\ BUFFER_SIZE \in Nat \ {0}
      /\ rcvd \in Nat /\ bufSize \in Nat /\ wire \in Nat /\ sentEnd \in Nat
      /\ hdr \in Nat \cup {Bad, NoHeader}
  BY ListenerAssumption DEF TypeOKL
<1> USE DEF BufferOK, Bad, NoHeader
<1>2. CASE Peer
  <2>1. wire' \in Nat /\ wire <= wire'
    <3>1. ASSUME NEW len \in Lens, NEW ok \in {TRUE, ~MayCorrupt},
                 PeerStart(len, ok)
          PROVE  wire' \in Nat /\ wire <= wire'
      BY <1>1, <3>1 DEF PeerStart
    <3>2. CASE PeerWrite
      <4>1. PICK n \in wire + 1 .. sentEnd : wire' = n
        BY <3>2 DEF PeerWrite
      <4> QED
        BY <1>1, <4>1
    <3>3. CASE PeerLeave
      BY <1>1, <3>3 DEF PeerLeave
    <3> QED
      BY <1>2, <3>1, <3>2, <3>3 DEF Peer
  <2>2. UNCHANGED <<rcvd, bufSize, lpc, hdr>>
    BY <1>2 DEF Peer, PeerStart, PeerWrite, PeerLeave, listenerVars
  <2> QED
    BY <1>1, <2>1, <2>2
<1>10. CASE Recv
  BY <1>1, <1>10 DEF Recv, Taken, avail, peerVars
<1>11. CASE RecvEnd
  BY <1>1, <1>11 DEF RecvEnd, peerVars
<1>3. CASE ReadHeader
  <2>1. PICK h \in Int :
               /\ hdr' = h
               /\ lpc' = IF h = Bad THEN "refuse"
                         ELSE IF bufSize >= h + HEADER_SIZE THEN "push"
                         ELSE "select"
    BY <1>1, <1>3, HeaderType DEF ReadHeader
  <2>3. hdr' \in Nat \cup {Bad, NoHeader}
    BY <1>1, <1>3, HeaderType DEF ReadHeader
  <2>2. lpc' = "push" => hdr' \in Nat /\ hdr' + HEADER_SIZE <= bufSize
    <3>1. SUFFICES ASSUME lpc' = "push" PROVE hdr' # NoHeader
      BY <1>1, <2>1, <2>3, <3>1
    <3>2. CASE hdr = NoHeader
      BY <1>3, <3>2, HeaderType DEF ReadHeader
    <3>3. CASE hdr # NoHeader
      BY <1>1, <1>3, <3>3 DEF ReadHeader
    <3> QED
      BY <3>2, <3>3
  <2> QED
    BY <1>1, <1>3, <2>1, <2>2 DEF ReadHeader, peerVars
<1>4. CASE NeedHeader \/ BufferEmpty \/ Reply
  BY <1>1, <1>4 DEF NeedHeader, BufferEmpty, Reply, peerVars
<1>12. CASE RefuseHeader
  BY <1>1, <1>12 DEF RefuseHeader, DropBuffer, peerVars
<1>5. CASE SelectTick \/ SelectReady
  BY <1>1, <1>5 DEF SelectTick, SelectReady, peerVars
<1>13. CASE SelectTimeout \/ SelectFails
  BY <1>1, <1>13 DEF SelectTimeout, SelectFails, DropBuffer, peerVars
<1>6. CASE RecvMore
  BY <1>1, <1>6 DEF RecvMore, Taken, avail, peerVars
<1>7. CASE RecvMoreEof
  BY <1>1, <1>7 DEF RecvMoreEof, peerVars
<1>14. CASE RecvMoreError
  BY <1>1, <1>14 DEF RecvMoreError, DropBuffer
<1>8. CASE Push
  BY <1>1, <1>8 DEF Push, peerVars
<1>15. CASE Kill
  BY <1>1, <1>15 DEF Kill, Advance, peerVars
<1>9. CASE UNCHANGED lVars
  BY <1>9 DEF lVars, peerVars, listenerVars
<1> QED
  BY <1>2, <1>3, <1>4, <1>5, <1>6, <1>7, <1>8, <1>9, <1>10, <1>11, <1>12,
     <1>13, <1>14, <1>15
  DEF NextL, ListenerStep, LocalStep, Decode, Wait

(* Only the peer writes the stream.                                        *)
LEMMA StreamKept == ASSUME ListenerStep
                    PROVE  UNCHANGED <<frames, sentEnd, wire>>
BY DEF ListenerStep, LocalStep, Decode, Wait, Recv, RecvEnd, ReadHeader,
       NeedHeader, BufferEmpty, RefuseHeader, Push, Kill, Advance, Reply, SelectTick,
       SelectReady, SelectTimeout, SelectFails, RecvMore, RecvMoreEof, RecvMoreError,
       peerVars

(* A frame the peer starts begins where the last one ends.                 *)
LEMMA StreamStep == ASSUME TypeOKL, StreamOK, [NextL]_lVars PROVE StreamOK'
<1> USE ListenerAssumption DEF StreamOK, Boundary, EndOf
<1>1. ASSUME NEW len \in Lens, NEW ok \in {TRUE, ~MayCorrupt}, PeerStart(len, ok)
      PROVE StreamOK'
  <2>0. PICK n \in Nat : n = Len(frames)
    BY DEF TypeOKL
  <2> DEFINE f == [pos |-> sentEnd, len |-> len, ok |-> ok]
  <2>1. /\ n = Len(frames) /\ Len(frames') = n + 1
        /\ DOMAIN frames = 1 .. n /\ DOMAIN frames' = 1 .. n + 1
        /\ frames'[n + 1] = f
        /\ \A i \in 1 .. n : frames'[i] = frames[i]
    BY <1>1, <2>0 DEF PeerStart, TypeOKL
  <2>2. /\ sentEnd' = f.pos + HEADER_SIZE + f.len
        /\ f.pos = sentEnd /\ f.len \in Nat /\ sentEnd \in Nat
        /\ wire' = wire /\ wire \in Nat
    BY <1>1 DEF PeerStart, TypeOKL
  <2>3. \A i \in 1 .. n : frames[i].pos \in Nat /\ frames[i].len \in Nat
    BY <2>1, FrameAt DEF Frame
  <2> HIDE DEF f
  <2>4. /\ \A i \in 1 .. n : EndOf(frames'[i]) = EndOf(frames[i])
        /\ EndOf(frames'[n + 1]) = sentEnd'
        /\ sentEnd <= sentEnd'
    <3>1. \A i \in 1 .. n : EndOf(frames'[i]) = EndOf(frames[i])
      BY <2>1
    <3>2. EndOf(frames'[n + 1]) = sentEnd'
      BY <2>1, <2>2
    <3>3. sentEnd <= sentEnd'
      BY <2>2
    <3> QED
      BY <3>1, <3>2, <3>3
  <2>5. /\ Boundary(n + 1)' = sentEnd'
        /\ Boundary(n)' = sentEnd
        /\ \A k \in 0 .. n - 1 : Boundary(k)' = Boundary(k)
    BY <2>1, <2>2
  <2>6. Boundary(0)' = 0
    BY <2>1, <2>5
  <2>7. \A i \in 1 .. n + 1 : Boundary(i)' = EndOf(frames'[i])
    <3>1. Boundary(n) = sentEnd
      BY <2>1
    <3>2. \A i \in 1 .. n : Boundary(i)' = Boundary(i)
      BY <2>1, <2>5, <3>1
    <3> HIDE DEF Boundary, EndOf
    <3> QED
      BY <2>1, <2>4, <2>5, <3>2
  <2>8. \A i \in 1 .. n + 1 : EndOf(frames'[i]) <= sentEnd'
    <3>1. \A i \in 1 .. n : EndOf(frames[i]) \in Nat /\ EndOf(frames[i]) <= sentEnd
      <4>1. \A i \in 1 .. n : EndOf(frames[i]) \in Nat
        BY <2>3
      <4>2. \A i \in DOMAIN frames : EndOf(frames[i]) <= sentEnd
        OBVIOUS
      <4> HIDE DEF EndOf, StreamOK, Boundary
      <4> QED
        BY <2>1, <4>1, <4>2
    <3>2. sentEnd' \in Nat
      BY <2>2
    <3> HIDE DEF EndOf, StreamOK, Boundary
    <3>3. ASSUME NEW i \in 1 .. n PROVE EndOf(frames'[i]) <= sentEnd'
      <4>1. EndOf(frames'[i]) = EndOf(frames[i])
        BY <2>4
      <4> QED
        BY <2>2, <2>4, <3>1, <3>2, <4>1
    <3>4. EndOf(frames'[n + 1]) <= sentEnd'
      BY <2>4, <3>2
    <3>5. \A i \in 1 .. n + 1 : i \in 1 .. n \/ i = n + 1
      OBVIOUS
    <3> QED
      BY <3>3, <3>4, <3>5
  <2>9. \A i, j \in 1 .. n + 1 : i < j => EndOf(frames'[i]) <= frames'[j].pos
    <3>1. \A i, j \in 1 .. n : i < j => EndOf(frames[i]) <= frames[j].pos
      BY <2>1
    <3>2. \A i \in 1 .. n : EndOf(frames[i]) <= sentEnd
      BY <2>1
    <3>3. frames'[n + 1].pos = sentEnd
      BY <2>1, <2>2
    <3> HIDE DEF EndOf, StreamOK, Boundary
    <3>4. ASSUME NEW i \in 1 .. n, NEW j \in 1 .. n, i < j
          PROVE  EndOf(frames'[i]) <= frames'[j].pos
      <4>1. EndOf(frames'[i]) = EndOf(frames[i]) /\ frames'[j] = frames[j]
        BY <2>1, <2>4
      <4> QED
        BY <3>1, <3>4, <4>1
    <3>5. ASSUME NEW i \in 1 .. n PROVE EndOf(frames'[i]) <= frames'[n + 1].pos
      <4>1. EndOf(frames'[i]) = EndOf(frames[i])
        BY <2>4
      <4> QED
        BY <3>2, <3>3, <4>1
    <3>6. \A i, j \in 1 .. n + 1 :
            i < j => i \in 1 .. n /\ (j \in 1 .. n \/ j = n + 1)
      OBVIOUS
    <3> QED
      BY <3>4, <3>5, <3>6
  <2>10. wire' <= sentEnd'
    BY <2>2, <2>4
  <2> HIDE DEF Boundary, EndOf
  <2> QED
    BY <2>1, <2>6, <2>7, <2>8, <2>9, <2>10
<1>2. CASE PeerWrite
  BY <1>2 DEF PeerWrite, TypeOKL
<1>3. CASE PeerLeave \/ UNCHANGED lVars
  BY <1>3 DEF PeerLeave, lVars, peerVars
<1>4. CASE ListenerStep
  BY <1>4, StreamKept
<1> QED
  BY <1>1, <1>2, <1>3, <1>4 DEF NextL, Peer

(* A header read where a frame begins is that frame's, and no other's.     *)
LEMMA HeaderAtBoundary ==
  ASSUME TypeOKL, StreamOK, NEW n \in 0 .. Len(frames), Boundary(n) < sentEnd
  PROVE  n < Len(frames) /\ Header(Boundary(n)) \subseteq {Bad, frames[n + 1].len}
<1> USE ListenerAssumption
<1>1. n < Len(frames)
  BY DEF Boundary, TypeOKL
<1>2. Boundary(n) = frames[n + 1].pos /\ n + 1 \in DOMAIN frames
  BY <1>1 DEF Boundary, TypeOKL
<1>3. \A j \in DOMAIN frames : frames[j].pos = frames[n + 1].pos => j = n + 1
  <2>1. \A j \in DOMAIN frames : frames[j].pos \in Nat /\ frames[j].len \in Nat
    BY FrameAt DEF Frame
  <2>2. DOMAIN frames = 1 .. Len(frames) /\ Len(frames) \in Nat
    BY DEF TypeOKL
  <2>3. \A i, j \in DOMAIN frames :
          i < j => frames[i].pos + HEADER_SIZE + frames[i].len <= frames[j].pos
    BY DEF StreamOK, EndOf
  <2>4. HEADER_SIZE \in Nat \ {0}
    BY ListenerAssumption
  <2>5. \A i, j \in DOMAIN frames : i < j => frames[i].pos # frames[j].pos
    <3> SUFFICES ASSUME NEW i \in DOMAIN frames, NEW j \in DOMAIN frames, i < j
                 PROVE  frames[i].pos # frames[j].pos
      OBVIOUS
    <3>1. frames[i].pos + HEADER_SIZE + frames[i].len <= frames[j].pos
      BY <2>3
    <3>2. frames[i].pos \in Nat /\ frames[i].len \in Nat /\ frames[j].pos \in Nat
      BY <2>1
    <3> QED
      BY <2>4, <3>1, <3>2
  <2> QED
    BY <1>2, <2>2, <2>5
<1> QED
  BY <1>1, <1>2, <1>3 DEF Header

-----------------------------------------------------------------------------
(* The boundaries the stream already has stay where they are.              *)
LEMMA BoundaryKept ==
  ASSUME TypeOKL, [NextL]_lVars, NEW k \in 0 .. Len(frames)
  PROVE  Boundary(k)' = Boundary(k)
<1>1. ASSUME NEW len \in Lens, NEW ok \in {TRUE, ~MayCorrupt}, PeerStart(len, ok)
      PROVE Boundary(k)' = Boundary(k)
  <2>1. /\ Len(frames) \in Nat /\ Len(frames') = Len(frames) + 1
        /\ frames'[Len(frames) + 1].pos = sentEnd
        /\ \A i \in 1 .. Len(frames) : frames'[i] = frames[i]
    BY <1>1 DEF PeerStart, TypeOKL
  <2> QED
    BY <2>1 DEF Boundary
<1>2. CASE PeerWrite \/ PeerLeave \/ UNCHANGED lVars
  BY <1>2 DEF PeerWrite, PeerLeave, lVars, peerVars, Boundary
<1>3. CASE ListenerStep
  BY <1>3, StreamKept DEF Boundary
<1> QED
  BY <1>1, <1>2, <1>3 DEF NextL, Peer

(* The frames the peer already started stay as they are.                   *)
LEMMA FramesKept ==
  ASSUME TypeOKL, [NextL]_lVars
  PROVE  /\ Len(frames) <= Len(frames')
         /\ \A i \in DOMAIN frames : i \in DOMAIN frames' /\ frames'[i] = frames[i]
<1>1. ASSUME NEW len \in Lens, NEW ok \in {TRUE, ~MayCorrupt}, PeerStart(len, ok)
      PROVE /\ Len(frames) <= Len(frames')
            /\ \A i \in DOMAIN frames : i \in DOMAIN frames' /\ frames'[i] = frames[i]
  BY <1>1 DEF PeerStart, TypeOKL
<1>2. CASE PeerWrite \/ PeerLeave \/ UNCHANGED lVars
  BY <1>2 DEF PeerWrite, PeerLeave, lVars, peerVars, TypeOKL
<1>3. CASE ListenerStep
  BY <1>3, StreamKept DEF TypeOKL
<1> QED
  BY <1>1, <1>2, <1>3 DEF NextL, Peer

(* The number of frames stays a number.                                    *)
LEMMA LenNat == ASSUME TypeOKL, [NextL]_lVars, BufferOK PROVE Len(frames') \in Nat
BY TypeStep DEF TypeOKL

(* The heart of the framing: as long as nothing is dropped, msgBuffer      *)
(* begins at a frame and what is pushed is that frame.                     *)
LEMMA SyncStep == ASSUME TypeOKL, StreamOK, BufferOK, InSync, Framing, [NextL]_lVars
                  PROVE  InSync' /\ Framing'
<1> SUFFICES ASSUME ~dropped' PROVE (InSync /\ Framing)'
  BY DEF InSync, Framing
<1>0. PICK n \in Nat : n = Len(delivered)
  BY DEF TypeOKL
<1>1. /\ HEADER_SIZE \in Nat \ {0}
      /\ rcvd \in Nat /\ bufSize \in Nat /\ wire \in Nat /\ sentEnd \in Nat
      /\ hdr \in Nat \cup {Bad, NoHeader}
      /\ DOMAIN delivered = 1 .. n
      /\ Len(frames) \in Nat /\ DOMAIN frames = 1 .. Len(frames)
  BY <1>0, ListenerAssumption DEF TypeOKL
<1>2. ~dropped
  BY DEF NextL, Peer, PeerStart, PeerWrite, PeerLeave, ListenerStep, LocalStep,
         Decode, Wait, Recv, RecvEnd, ReadHeader, NeedHeader, BufferEmpty,
         RefuseHeader, DropBuffer, Push, Kill, Advance, Reply, SelectTick, SelectReady,
         SelectTimeout, SelectFails, RecvMore, RecvMoreEof, RecvMoreError, lVars,
         listenerVars
<1>3. /\ NextPos = Boundary(n)
      /\ (lpc # "kill" /\ hdr # NoHeader) =>
           n < Len(frames) /\ hdr \in {Bad, frames[n + 1].len}
      /\ n <= Len(frames)
      /\ \A i \in 1 .. n : delivered[i] = [pos |-> frames[i].pos, len |-> frames[i].len]
  BY <1>0, <1>1, <1>2 DEF InSync, Framing
<1>4. Boundary(n)' = Boundary(n)
  BY <1>1, <1>3, BoundaryKept
<1>5. /\ Len(frames) <= Len(frames')
      /\ \A i \in 1 .. Len(frames) : frames'[i] = frames[i]
  BY <1>1, FramesKept
(* Steps that deliver nothing and leave the next position alone.           *)
<1>6. ASSUME delivered' = delivered, NextPos' = NextPos,
             (lpc' # "kill" /\ hdr' # NoHeader) =>
                n < Len(frames) /\ hdr' \in {Bad, frames[n + 1].len}
      PROVE  (InSync /\ Framing)'
  <2>1. Framing'
    <3>1. \A i \in 1 .. n : i \in 1 .. Len(frames)
      BY <1>1, <1>3
    <3>2. \A i \in 1 .. n :
            delivered'[i] = [pos |-> frames'[i].pos, len |-> frames'[i].len]
      BY <1>3, <1>5, <1>6, <3>1
    <3>3. n <= Len(frames')
      BY <1>0, <1>1, <1>3, <1>5, FramesKept, LenNat
    <3> QED
      BY <1>0, <1>1, <1>6, <3>2, <3>3 DEF Framing
  <2>2. NextPos' = Boundary(Len(delivered))'
    BY <1>0, <1>3, <1>4, <1>6 DEF Boundary
  <2>3. (lpc' # "kill" /\ hdr' # NoHeader) =>
           Len(delivered') < Len(frames') /\ hdr' \in {Bad, frames'[Len(delivered') + 1].len}
    BY <1>0, <1>1, <1>5, <1>6, FramesKept
  <2> QED
    BY <2>1, <2>2, <2>3 DEF InSync
<1>7. CASE Peer \/ UNCHANGED lVars
  <2>1. UNCHANGED <<rcvd, bufSize, hdr, lpc, delivered>>
    BY <1>7 DEF Peer, PeerStart, PeerWrite, PeerLeave, lVars, listenerVars
  <2> QED
    BY <1>3, <1>6, <2>1 DEF NextPos, EndOf, msg, start
<1>8. CASE Recv
  BY <1>1, <1>6, <1>8 DEF Recv, BufferOK, NextPos, start
<1>9. CASE ReadHeader
  <2>1. lpc = "decode" /\ lpc' # "kill" /\ NextPos' = NextPos /\ delivered' = delivered
        /\ start = Boundary(n)
    BY <1>3, <1>9 DEF ReadHeader, NextPos, start
  <2>2. Boundary(n) < sentEnd
    BY <1>1, <1>9, <2>1 DEF ReadHeader, BufferOK, StreamOK, start
  <2>3. n < Len(frames) /\ Header(start) \subseteq {Bad, frames[n + 1].len}
    BY <1>1, <1>3, <2>1, <2>2, HeaderAtBoundary
  <2>4. hdr' \in {Bad, frames[n + 1].len}
    BY <1>3, <1>9, <2>1, <2>3 DEF ReadHeader
  <2> QED
    BY <1>6, <2>1, <2>3, <2>4
<1>10. CASE RecvEnd \/ NeedHeader \/ BufferEmpty \/ Reply \/ SelectTick
            \/ SelectReady \/ RecvMoreEof
  <2>1. UNCHANGED <<rcvd, bufSize, hdr, delivered>> /\ lpc # "kill" /\ lpc' # "kill"
    BY <1>10 DEF RecvEnd, NeedHeader, BufferEmpty, Reply, SelectTick, SelectReady,
                 RecvMoreEof
  <2> QED
    BY <1>3, <1>6, <2>1 DEF NextPos, start
<1>11. CASE RecvMore
  <2>1. PICK k \in 1 .. BUFFER_SIZE : rcvd' = rcvd + k /\ bufSize' = bufSize + k
    BY <1>11 DEF RecvMore
  <2>2. NextPos' = NextPos
    BY <1>1, <1>11, <2>1 DEF RecvMore, NextPos, start
  <2> QED
    BY <1>3, <1>6, <1>11, <2>2 DEF RecvMore
<1>12. CASE Push
  <2>1. /\ lpc = "push" /\ lpc' = "kill" /\ hdr' = hdr /\ start' = start
        /\ frames' = frames /\ hdr \in Nat /\ delivered' = Append(delivered, msg)
    BY <1>1, <1>12 DEF Push, BufferOK, start, peerVars
  <2>2. n < Len(frames) /\ hdr = frames[n + 1].len
    BY <1>3, <2>1 DEF Bad, NoHeader
  <2>3. start = frames[n + 1].pos
    BY <1>1, <1>3, <2>1, <2>2 DEF NextPos, Boundary
  <2>4. msg = [pos |-> frames[n + 1].pos, len |-> frames[n + 1].len]
    BY <2>2, <2>3 DEF msg
  <2>5. Len(delivered') = n + 1 /\ delivered'[n + 1] = msg
        /\ \A i \in 1 .. n : delivered'[i] = delivered[i]
        /\ DOMAIN delivered' = 1 .. n + 1
    BY <1>0, <1>1, <2>1 DEF TypeOKL
  <2>6. Framing'
    <3>1. \A i \in 1 .. n + 1 :
            delivered'[i] = [pos |-> frames'[i].pos, len |-> frames'[i].len]
      BY <1>1, <1>3, <2>1, <2>4, <2>5
    <3> QED
      BY <1>1, <2>1, <2>2, <2>5, <3>1 DEF Framing
  <2>7. Boundary(n + 1) = EndOf(frames[n + 1])
    BY <1>1, <2>2 DEF StreamOK
  <2>8. NextPos' = EndOf(frames[n + 1])
    BY <2>1, <2>2, <2>3 DEF NextPos, EndOf, msg
  <2>9. Boundary(n + 1)' = Boundary(n + 1)
    BY <1>1, <2>2, BoundaryKept
  <2>10. NextPos' = Boundary(Len(delivered))'
    BY <2>5, <2>7, <2>8, <2>9 DEF Boundary
  <2> QED
    BY <2>1, <2>6, <2>10 DEF InSync
<1>13. CASE Kill
  <2>1. NextPos' = NextPos
    BY <1>1, <1>13 DEF Kill, Advance, BufferOK, NextPos, start, msg, EndOf
  <2> QED
    BY <1>6, <1>13, <2>1 DEF Kill, Advance
<1>14. CASE RefuseHeader \/ SelectTimeout \/ SelectFails \/ RecvMoreError
  BY <1>14 DEF RefuseHeader, SelectTimeout, SelectFails, RecvMoreError, DropBuffer
<1> QED
  BY <1>7, <1>8, <1>9, <1>10, <1>11, <1>12, <1>13, <1>14
  DEF NextL, ListenerStep, LocalStep, Decode, Wait

(* The next message begins behind everything delivered, whatever is        *)
(* dropped in between.                                                     *)
LEMMA BehindStep ==
  ASSUME TypeOKL, BufferOK, Behind, InOrder, [NextL]_lVars
  PROVE  Behind' /\ InOrder'
<1>0. PICK n \in Nat : n = Len(delivered)
  BY DEF TypeOKL
<1>1. /\ HEADER_SIZE \in Nat \ {0}
      /\ rcvd \in Nat /\ bufSize \in Nat
      /\ hdr \in Nat \cup {Bad, NoHeader}
      /\ DOMAIN delivered = 1 .. n
      /\ \A i \in 1 .. n : EndOf(delivered[i]) \in Nat
  <2>1. \A i \in DOMAIN delivered : delivered[i] \in Message
    BY ElementAt DEF TypeOKL
  <2>2. HEADER_SIZE \in Nat \ {0}
    BY ListenerAssumption
  <2>3. DOMAIN delivered = 1 .. n
    BY <1>0 DEF TypeOKL
  <2>4. \A i \in 1 .. n : EndOf(delivered[i]) \in Nat
    BY <2>1, <2>2, <2>3 DEF Message, EndOf
  <2>5. rcvd \in Nat /\ bufSize \in Nat /\ hdr \in Nat \cup {Bad, NoHeader}
    BY DEF TypeOKL
  <2> QED
    BY <2>2, <2>3, <2>4, <2>5
<1>2. NextPos \in Nat
  BY <1>1 DEF NextPos, EndOf, msg, start, BufferOK
(* Only Push delivers; no step moves the next position back.               *)
<1>3. ASSUME delivered' = delivered, NextPos' \in Nat, NextPos <= NextPos'
      PROVE  Behind' /\ InOrder'
  <2>1. \A i \in 1 .. n : EndOf(delivered[i]) <= NextPos'
    BY <1>1, <1>2, <1>3 DEF Behind
  <2> QED
    BY <1>1, <1>3, <2>1 DEF Behind, InOrder, EndOf
<1>4. CASE Peer \/ UNCHANGED lVars
  <2>1. UNCHANGED <<rcvd, bufSize, hdr, lpc, delivered>>
    BY <1>4 DEF Peer, PeerStart, PeerWrite, PeerLeave, lVars, listenerVars
  <2>2. NextPos' = NextPos
    BY <2>1 DEF NextPos, EndOf, msg, start
  <2> QED
    BY <1>2, <1>3, <2>1, <2>2
<1>5. CASE Recv \/ RecvMore
  <2>1. lpc' # "kill" /\ lpc # "kill" /\ delivered' = delivered
    BY <1>5 DEF Recv, RecvMore
  <2>2. PICK k \in 1 .. BUFFER_SIZE : rcvd' = rcvd + k /\ bufSize' = bufSize + k
    BY <1>1, <1>5 DEF Recv, RecvMore, BufferOK
  <2>3. NextPos' = NextPos
    BY <1>1, <2>1, <2>2, ListenerAssumption DEF NextPos, start
  <2> QED
    BY <1>2, <1>3, <2>1, <2>3
<1>6. CASE ReadHeader \/ RecvEnd \/ NeedHeader \/ BufferEmpty \/ Reply
           \/ SelectTick \/ SelectReady \/ RecvMoreEof
  <2>1. UNCHANGED <<rcvd, bufSize, delivered>> /\ lpc # "kill" /\ lpc' # "kill"
    BY <1>6 DEF ReadHeader, RecvEnd, NeedHeader, BufferEmpty, Reply, SelectTick,
                SelectReady, RecvMoreEof
  <2>2. NextPos' = NextPos
    BY <2>1 DEF NextPos, start
  <2> QED
    BY <1>2, <1>3, <2>1, <2>2
<1>7. CASE RefuseHeader \/ SelectTimeout \/ SelectFails \/ RecvMoreError
  <2>1. /\ rcvd' = rcvd /\ bufSize' = 0 /\ delivered' = delivered
        /\ lpc # "kill" /\ lpc' # "kill"
    BY <1>7 DEF RefuseHeader, SelectTimeout, SelectFails, RecvMoreError, DropBuffer
  <2>2. NextPos' = rcvd /\ NextPos <= rcvd
    BY <1>1, <2>1 DEF NextPos, start
  <2> QED
    BY <1>1, <1>2, <1>3, <2>1, <2>2
<1>8. CASE Push
  <2>1. /\ lpc = "push" /\ lpc' = "kill" /\ hdr' = hdr /\ start' = start
        /\ hdr \in Nat /\ delivered' = Append(delivered, msg)
    BY <1>1, <1>8 DEF Push, BufferOK, start, peerVars
  <2>2. DOMAIN delivered' = 1 .. n + 1 /\ delivered'[n + 1] = msg
        /\ \A i \in 1 .. n : delivered'[i] = delivered[i]
    BY <1>0, <1>1, <2>1 DEF TypeOKL
  <2>3. /\ NextPos = start /\ NextPos' = EndOf(msg) /\ msg.pos = start
        /\ start \in Nat /\ EndOf(msg) \in Nat /\ start <= EndOf(msg)
    BY <1>1, <1>2, <2>1 DEF NextPos, EndOf, msg
  <2>4. \A i \in 1 .. n : EndOf(delivered[i]) <= start
    BY <1>1, <2>3 DEF Behind
  <2>5. \A i \in 1 .. n : EndOf(delivered'[i]) = EndOf(delivered[i])
    BY <2>2 DEF EndOf
  <2>6. EndOf(delivered'[n + 1]) = EndOf(msg)
    BY <2>2
  <2>7. \A i \in 1 .. n + 1 : EndOf(delivered'[i]) <= NextPos'
    <3>1. \A i \in 1 .. n : EndOf(delivered'[i]) <= NextPos'
      BY <1>1, <2>3, <2>4, <2>5
    <3>2. EndOf(delivered'[n + 1]) <= NextPos'
      BY <2>3, <2>6
    <3> QED
      BY <3>1, <3>2
  <2>8. \A i, j \in 1 .. n + 1 : i < j => EndOf(delivered'[i]) <= delivered'[j].pos
    <3> TAKE i, j \in 1 .. n + 1
    <3> HAVE i < j
    <3>1. CASE j = n + 1
      BY <2>2, <2>3, <2>4, <2>5, <3>1
    <3>2. CASE j # n + 1
      <4>1. i \in DOMAIN delivered /\ j \in DOMAIN delivered
        BY <1>1, <3>2
      <4>2. EndOf(delivered[i]) <= delivered[j].pos
        BY <4>1 DEF InOrder
      <4> QED
        BY <1>1, <2>2, <2>5, <4>1, <4>2
    <3> QED
      BY <3>1, <3>2
  <2> QED
    BY <2>2, <2>7, <2>8 DEF Behind, InOrder, EndOf
<1>9. CASE Kill
  <2>1. NextPos' = NextPos
    BY <1>1, <1>9 DEF Kill, Advance, BufferOK, NextPos, start, msg, EndOf
  <2> QED
    BY <1>2, <1>3, <1>9, <2>1 DEF Kill, Advance
<1> QED
  BY <1>4, <1>5, <1>6, <1>7, <1>8, <1>9
  DEF NextL, ListenerStep, LocalStep, Decode, Wait

-----------------------------------------------------------------------------
(* The inductive invariant: it holds at the start...                       *)
LEMMA ListenerInit == InitL => IInvL
<1> SUFFICES ASSUME InitL PROVE IInvL
  OBVIOUS
<1> USE ListenerAssumption DEF InitL
<1>1. TypeOKL
  <2>1. <<>> \in Seq(Frame) /\ <<>> \in Seq(Message)
    OBVIOUS
  <2>2. 0 \in Nat /\ NoHeader \in Nat \cup {Bad, NoHeader} /\ RECV_TIMEOUT \in 0 .. RECV_TIMEOUT
    OBVIOUS
  <2> QED
    BY <2>1, <2>2 DEF TypeOKL
<1>2. StreamOK
  BY DEF StreamOK, Boundary
<1>3. BufferOK /\ InSync
  BY <1>2 DEF BufferOK, InSync, NextPos, start, NoHeader, Boundary
<1>4. Framing /\ Behind /\ InOrder
  BY DEF Framing, Behind, InOrder
<1> QED
  BY <1>1, <1>2, <1>3, <1>4 DEF IInvL

(* ...and every step keeps it.                                             *)
LEMMA ListenerNext == IInvL /\ [NextL]_lVars => IInvL'
BY TypeStep, StreamStep, BufferStep, SyncStep, BehindStep DEF IInvL

(* The inductive invariant holds in every reachable state.                 *)
THEOREM ListenerInvariant == SpecL => []IInvL
BY ListenerInit, ListenerNext, PTL DEF SpecL

(* The variables of the listener keep their types: msgBufferSize is never  *)
(* negative and messageSize never one readHeader() cannot return.          *)
THEOREM ListenerTypes == SpecL => []TypeOKL
<1>1. IInvL => TypeOKL
  BY DEF IInvL
<1> QED
  BY <1>1, ListenerInvariant, PTL

(* Until bytes are dropped, the messages delivered are the frames sent.    *)
THEOREM ListenerFraming == SpecL => []Framing
<1>1. IInvL => Framing
  BY DEF IInvL
<1> QED
  BY <1>1, ListenerInvariant, PTL

(* No byte of the stream becomes part of two messages, dropped or not.     *)
THEOREM ListenerNoByteTwice == SpecL => []NoByteTwice
<1>1. IInvL => NoByteTwice
  <2> SUFFICES ASSUME IInvL PROVE NoByteTwice
    OBVIOUS
  <2>1. NextPos <= rcvd
    BY ListenerAssumption
    DEF IInvL, TypeOKL, BufferOK, NextPos, EndOf, msg, start, Bad, NoHeader
  <2>2. \A i \in DOMAIN delivered : EndOf(delivered[i]) \in Nat
    <3>1. \A i \in DOMAIN delivered : delivered[i] \in Message
      BY ElementAt DEF IInvL, TypeOKL
    <3> QED
      BY <3>1, ListenerAssumption DEF Message, EndOf
  <2>3. NextPos \in Int /\ rcvd \in Int
    BY ListenerAssumption
    DEF IInvL, TypeOKL, BufferOK, NextPos, EndOf, msg, start, Bad, NoHeader
  <2> QED
    BY <2>1, <2>2, <2>3 DEF IInvL, Behind, InOrder, NoByteTwice
<1> QED
  BY <1>1, ListenerInvariant, PTL

(* Back in its blocking recv(), the listener keeps no received byte back.  *)
THEOREM ListenerNothingKeptBack == SpecL => []NothingKeptBack
<1>1. IInvL => NothingKeptBack
  <2> SUFFICES ASSUME IInvL, lpc \in {"recv", "done"}, ~dropped
               PROVE  rcvd = IF delivered = <<>> THEN 0
                             ELSE EndOf(delivered[Len(delivered)])
    BY DEF NothingKeptBack
  <2>1. bufSize = 0 /\ rcvd \in Nat
    BY DEF IInvL, BufferOK, TypeOKL
  <2>2. rcvd = Boundary(Len(delivered))
    BY <2>1 DEF IInvL, InSync, NextPos, start
  <2>3. CASE delivered = <<>>
    BY <2>2, <2>3 DEF IInvL, StreamOK
  <2>4. CASE delivered # <<>>
    <3>1. Len(delivered) \in DOMAIN delivered /\ Len(delivered) \in DOMAIN frames
      BY <2>4 DEF IInvL, TypeOKL, Framing
    <3>2. rcvd = EndOf(frames[Len(delivered)])
      BY <2>2, <3>1 DEF IInvL, StreamOK
    <3> QED
      BY <2>4, <3>1, <3>2 DEF IInvL, Framing, EndOf
  <2> QED
    BY <2>3, <2>4
<1> QED
  BY <1>1, ListenerInvariant, PTL
=============================================================================
