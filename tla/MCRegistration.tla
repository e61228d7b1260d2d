--------------------------- MODULE MCRegistration ---------------------------
(* A registration with an RSD that may also send a response of its own, a  *)
(* notification, an incomplete message or one that does not parse.         *)
EXTENDS Registration

MCStrays ==
  {ResponseDOM,
   [RequestDOM EXCEPT !.id = Absent],
   [ResponseDOM EXCEPT !.result = NotString],
   [Blank EXCEPT !.json = FALSE]}
=============================================================================
