---------------------------- MODULE FrameChannel ----------------------------
(***************************************************************************)
(* What the receive path of the firmware promises: a first-in first-out    *)
(* channel that may lose frames, but never duplicates, invents or reorders *)
(* them.  Frames are numbered in the order they reach the MAC.             *)
(***************************************************************************)
EXTENDS Naturals

VARIABLES
  sent,     \* number of frames the wire has presented so far
  pending,  \* frames accepted and neither delivered nor lost
  got       \* the last frame handed to ethernet_input, 0 before the first

vars == <<sent, pending, got>>

Init == sent = 0 /\ pending = {} /\ got = 0

\* A frame reaches the interface; it may be refused there and then.
Send ==
  /\ sent' = sent + 1
  /\ pending' \in {pending, pending \cup {sent + 1}}
  /\ UNCHANGED got

Lose ==
  /\ \E f \in pending : pending' = pending \ {f}
  /\ UNCHANGED <<sent, got>>

\* Only the oldest pending frame may be delivered.
Deliver ==
  \E f \in pending :
    /\ \A g \in pending : f <= g
    /\ got' = f
    /\ pending' = pending \ {f}
    /\ UNCHANGED sent

Next == Send \/ Lose \/ Deliver

Spec == Init /\ [][Next]_vars
=============================================================================
