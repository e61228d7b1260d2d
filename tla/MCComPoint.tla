----------------------------- MODULE MCComPoint -----------------------------
(* A ComPoint with a peer that sends two frames, and one transmit() of a   *)
(* thread of the user; what is transmitted may be of a size log() throws   *)
(* for, what is received is not.                                           *)
EXTENDS ComPoint

MCGarbage == {-1, 1}
MCOutLens == {1, 2}
MCLong    == {2}
=============================================================================
