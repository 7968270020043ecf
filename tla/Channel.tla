------------------------------- MODULE Channel -------------------------------
(***************************************************************************)
(* What one direction of a connection promises its two ends, with bytes,   *)
(* reads and buffers taken away: packets are handed over one at a time, as *)
(* they were sent and in that order, until the receiver gives up.  Nothing *)
(* is promised any more once the sender has written on after a write that  *)
(* failed.                                                                 *)
(***************************************************************************)
EXTENDS Naturals, Sequences

CONSTANT Payloads

VARIABLES
  sent,       \* packets whose write succeeded
  delivered,  \* packets handed over
  open,       \* the receiver has not given up
  broken      \* a sender that goes on has torn the stream

vars == <<sent, delivered, open, broken>>

Init ==
  /\ sent = <<>>
  /\ delivered = <<>>
  /\ open = TRUE
  /\ broken = FALSE

Send(p) ==
  /\ ~broken
  /\ sent' = Append(sent, p)
  /\ UNCHANGED <<delivered, open, broken>>

Deliver ==
  /\ open
  /\ ~broken
  /\ Len(delivered) < Len(sent)
  /\ delivered' = Append(delivered, sent[Len(delivered) + 1])
  /\ UNCHANGED <<sent, open, broken>>

GiveUp ==
  /\ ~broken
  /\ open
  /\ ~open'
  /\ UNCHANGED <<sent, delivered, broken>>

Tear ==
  /\ ~broken
  /\ broken'
  /\ UNCHANGED <<sent, delivered, open>>

\* Anything may come out of a stream that is torn, and it is never mended.
Torn == broken /\ broken'

Next == (\E p \in Payloads : Send(p)) \/ Deliver \/ GiveUp \/ Tear \/ Torn

Spec == Init /\ [][Next]_vars
=============================================================================
