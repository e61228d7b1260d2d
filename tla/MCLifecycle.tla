---------------------------- MODULE MCLifecycle ----------------------------
(* A ComPoint from its constructor to its destructor, with messages of a   *)
(* size log() can format and of one it cannot.                             *)
EXTENDS Lifecycle

MCLens    == {0, 1}
MCGarbage == {-1}
MCOutLens == {0, 1}
MCLong    == {1}
=============================================================================
