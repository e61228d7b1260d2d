---------------------------- MODULE Header_proofs ----------------------------
(***************************************************************************)
(* What the receiver reads from a header is what the sender put into it,   *)
(* for every length an int can hold.                                       *)
(***************************************************************************)
EXTENDS Header, TLAPS

(* The bytes of a length, cut off one by one, make up the length.          *)
LEMMA Digits ==
  ASSUME NEW n \in Nat, n <= MaxInt
  PROVE  /\ (n \div 16777216) % 256 = n \div 16777216
         /\ n \div 16777216 \in 0 .. 127
         /\ (n \div 16777216) * 16777216 + ((n \div 65536) % 256) * 65536
              + ((n \div 256) % 256) * 256 + (n % 256) = n
<1>1. n < 128 * 16777216
  BY SMTT(30) DEF MaxInt
<1>2. n \div 16777216 \in 0 .. 127
  BY SMTT(30), <1>1
<1>3. (n \div 16777216) % 256 = n \div 16777216
  BY SMTT(30), <1>2
<1>4. n = 256 * (n \div 256) + (n % 256)
  BY SMTT(30), <1>1
<1>5. n \div 65536 = (n \div 256) \div 256
  BY SMTT(30), <1>1
<1>6. n \div 16777216 = (n \div 65536) \div 256
  BY SMTT(30), <1>1
<1>7. n \div 256 = 256 * (n \div 65536) + ((n \div 256) % 256)
  BY SMTT(30), <1>1, <1>5
<1>8. n \div 65536 = 256 * (n \div 16777216) + ((n \div 65536) % 256)
  BY SMTT(30), <1>1, <1>6
<1> QED
  BY SMTT(30), <1>1, <1>2, <1>3, <1>4, <1>7, <1>8

(* Whatever length transmit() is called with, the receiver decodes the     *)
(* same one.                                                               *)
THEOREM RoundTrip ==
  ASSUME NEW n \in Nat, n <= MaxInt
  PROVE  ReadHeader(CreateHeader(n)) = n
<1> DEFINE h == CreateHeader(n)
<1>1. h[0] = Tag
  BY SMTT(30) DEF CreateHeader
<1>2. CASE n = 0
  <2>1. h[1] = 0 /\ h[2] = 0 /\ h[3] = 0 /\ h[4] = 0
    BY SMTT(30), <1>2 DEF CreateHeader
  <2> QED
    BY SMTT(30), <1>1, <1>2, <2>1 DEF ReadHeader, Signed
<1>3. CASE n > 0
  <2>1. /\ h[1] = (n \div 16777216) % 256
        /\ h[2] = (n \div 65536) % 256
        /\ h[3] = (n \div 256) % 256
        /\ h[4] = (n \div 1) % 256
    BY SMTT(30), <1>3 DEF CreateHeader, Weight
  <2>2. n \div 1 = n
    BY SMTT(30)
  <2> HIDE DEF h
  <2>3. Signed(h[1]) = n \div 16777216
    BY SMTT(30), <2>1, Digits DEF Signed
  <2> QED
    BY SMTT(30), <1>1, <2>1, <2>2, <2>3, Digits DEF ReadHeader, h
<1> QED
  BY SMTT(30), <1>2, <1>3

(* Each of the five is a byte, whatever the length.                        *)
THEOREM HeaderIsBytes ==
  ASSUME NEW n \in Nat, n <= MaxInt
  PROVE  CreateHeader(n) \in Bytes
<1>1. ASSUME NEW i \in 0 .. 4
      PROVE  (IF i = 0 THEN Tag
              ELSE IF n > 0 THEN (n \div Weight[i]) % 256 ELSE 0) \in Byte
  <2>1. CASE i = 0
    BY <2>1, SMT DEF Tag, Byte
  <2>2. CASE i # 0
    <3>1. Weight[i] \in Nat \ {0}
      BY <2>2, SMT DEF Weight
    <3>2. n \div Weight[i] \in Nat
      BY <3>1, SMT
    <3>3. (n \div Weight[i]) % 256 \in Byte
      BY <3>2, SMT DEF Byte
    <3> QED BY <2>2, <3>3, SMT DEF Byte
  <2> QED BY <2>1, <2>2
<1> QED
  BY <1>1, Zenon DEF CreateHeader, Bytes
=============================================================================
