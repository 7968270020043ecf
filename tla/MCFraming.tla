------------------------------ MODULE MCFraming ------------------------------
(***************************************************************************)
(* Framing for the checker, and what it achieves if the receiver goes on   *)
(* polling and TCP delivers.                                               *)
(***************************************************************************)
EXTENDS Framing

\* Packets whose bytes make all kinds of lengths once a frame was torn and the
\* reader is out of step: none, fewer or more than follow, and too many.  The last
\* one is too large for the receiver in any case.
SomePayloads == {<<1>>, <<0, 0, 2>>, <<0, 0, 0, 1>>}

FairSpec == Spec /\ WF_vars(ReceiverStep)

\* Whatever was sent in a whole stream is handled in the end, up to the first
\* packet that is too large.
AllDelivered ==
  \A n \in 1 .. MaxWrites : (Len(sent) >= n) ~> (Len(delivered) >= n \/ closed \/ ~Whole)
=============================================================================
