---------------------------- MODULE MCComPointB ----------------------------
(* A ComPointB with a peer that sends a few frames of one size, any of     *)
(* which may be the answer the worker waits for.                           *)
EXTENDS ComPointB

MCGarbage == {-1, 1}
MCNone    == {}
=============================================================================
