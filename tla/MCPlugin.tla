------------------------------ MODULE MCPlugin ------------------------------
(* A plugin with a few clients that come, send and leave at any time.      *)
EXTENDS Plugin
=============================================================================
