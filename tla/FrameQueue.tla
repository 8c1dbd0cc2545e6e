----------------------------- MODULE FrameQueue -----------------------------
(***************************************************************************)
(* What one direction of the framing promises: whole frames, each at most  *)
(* once, in the order in which they were sent.  A session may end before   *)
(* all have arrived; the next one begins empty.  One event of the receiver *)
(* may bring several frames.                                               *)
(***************************************************************************)
EXTENDS Naturals, SequencesExt

CONSTANT Frames   \* frames that may be sent
VARIABLES sent, received   \* in the current session

vars == <<sent, received>>

Init == sent = <<>> /\ received = <<>>

\* One more frame at the end.
Send ==
    /\ sent' # <<>> /\ Front(sent') = sent /\ Last(sent') \in Frames
    /\ UNCHANGED received

Receive ==
    /\ \E n \in Len(received) + 1 .. Len(sent) : received' = SubSeq(sent, 1, n)
    /\ UNCHANGED sent

Restart == sent' = <<>> /\ received' = <<>>

Next == Send \/ Receive \/ Restart

Spec == Init /\ [][Next]_vars
=============================================================================
