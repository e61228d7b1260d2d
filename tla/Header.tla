------------------------------- MODULE Header -------------------------------
(***************************************************************************)
(* The header of an encoded message: a tag and the payload's length in     *)
(* four bytes, the highest first (ComPoint::createHeader, readHeader, and  *)
(* what thread_listen() makes of the value).  Bytes are 0..255, lengths    *)
(* are those of a 32 bit int.                                              *)
(***************************************************************************)
EXTENDS Integers

HeaderSize == 5
Tag        == 93
MaxInt     == 127 * 16777216 + 16777215   \* 2^31 - 1

Byte   == 0 .. 255
Bytes  == [0 .. 4 -> Byte]

(* What a byte of the length counts; >> 8 from one byte to the next.       *)
Weight == [i \in 1 .. 4 |->
             IF i = 4 THEN 1 ELSE IF i = 3 THEN 256
             ELSE IF i = 2 THEN 65536 ELSE 16777216]

(* Mutant of CreateHeader: the loop ends after the lowest byte (i > 3).    *)
CreateHeaderShort(value) ==
  [i \in 0 .. 4 |->
     IF i = 0 THEN Tag
     ELSE IF value > 0 /\ i > 3 THEN (value \div Weight[i]) % 256 ELSE 0]

(* Mutant of CreateHeader: the cast to char is forgotten.                 *)
CreateHeaderUncut(value) ==
  [i \in 0 .. 4 |->
     IF i = 0 THEN Tag ELSE IF value > 0 THEN value \div Weight[i] ELSE 0]

(* A value that is not positive leaves the length at 0.                    *)
CreateHeader(value) ==
  [i \in 0 .. 4 |->
     IF i = 0 THEN Tag
     ELSE IF value > 0 THEN (value \div Weight[i]) % 256 ELSE 0]

(* readHeader() returns an unsigned int, which messageSize, an int, takes  *)
(* modulo 2^32: -1 for another tag, negative too for a high first byte.    *)
Signed(b) == IF b >= 128 THEN b - 256 ELSE b

ReadHeader(h) ==
  IF h[0] # Tag THEN -1
  ELSE Signed(h[1]) * 16777216 + h[2] * 65536 + h[3] * 256 + h[4]

Decoded(h) == ReadHeader(h) > -1

(* msgBufferSize >= messageSize+HEADER_SIZE: where the sum overflows, the  *)
(* outcome of the comparison is the compiler's choice.                     *)
IsComplete(bufferSize, messageSize) ==
  IF messageSize <= MaxInt - HeaderSize
    THEN {bufferSize >= messageSize + HeaderSize}
    ELSE BOOLEAN
=============================================================================
