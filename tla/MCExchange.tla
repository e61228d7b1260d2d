----------------------------- MODULE MCExchange -----------------------------
(* Three requests over one connection, with and without ids that a         *)
(* response can carry, to a server that logs with a prefix.                *)
EXTENDS Exchange

MCFunctions == {"read"}
MCParams    == {"object", "object with another type"}
MCIds       == {"0", "string 1", "string text", Absent}
MCLens      == {60, 1700}
MCLevel     == {1, 2, 4}
=============================================================================
