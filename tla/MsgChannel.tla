----------------------------- MODULE MsgChannel -----------------------------
(***************************************************************************)
(* What a ComPoint promises the user of processMsg(): the messages of the  *)
(* peer, each once and in order, until the channel is cut.  It is cut when *)
(* received bytes are thrown away (a timeout in the middle of a frame, a   *)
(* header that is none, an error of the socket); what comes after that may *)
(* be anything, but what was handled before stays as it is.                *)
(***************************************************************************)
EXTENDS Naturals, Sequences

VARIABLES sent, handled, cut

vars == <<sent, handled, cut>>

Init == sent = <<>> /\ handled = <<>> /\ cut = FALSE

Send ==
  /\ Len(sent') > Len(sent)
  /\ SubSeq(sent', 1, Len(sent)) = sent
  /\ UNCHANGED <<handled, cut>>

Handle ==
  /\ ~cut
  /\ Len(handled) < Len(sent)
  /\ handled' = Append(handled, sent[Len(handled) + 1])
  /\ UNCHANGED <<sent, cut>>

Cut == ~cut /\ cut' = TRUE /\ UNCHANGED <<sent, handled>>

(* After a cut, messages still queued and misread bytes.                   *)
HandleAfterCut ==
  /\ cut
  /\ Len(handled') = Len(handled) + 1
  /\ SubSeq(handled', 1, Len(handled)) = handled
  /\ UNCHANGED <<sent, cut>>

Next == Send \/ Handle \/ Cut \/ HandleAfterCut

Spec == Init /\ [][Next]_vars

Fairness == WF_vars(Handle)

FairSpec == Spec /\ Fairness
=============================================================================
