----------------------------- MODULE MCListener -----------------------------
(* The listener on small streams: three frames, one or none of payload,    *)
(* a two-byte header that recv() can cut, a receive buffer that holds      *)
(* neither a frame nor a multiple of one.                                  *)
EXTENDS Listener

MCLens    == {0, 2}
MCGarbage == {-1, 1}
=============================================================================
