----------------------------- MODULE FrameQueue -----------------------------
(***************************************************************************)
(* What the transmit path promises to its senders: a bounded first-in      *)
(* first-out queue in front of the FIFO of the MAC.  A frame that was      *)
(* accepted is taken into the FIFO and goes out on the wire, whole and     *)
(* once, in the order of acceptance.  Only a flush loses frames, and only  *)
(* the ones taken.                                                         *)
(***************************************************************************)
EXTENDS Naturals, Sequences

CONSTANTS Frame, Size, Depth

VARIABLES
  queue,  \* accepted frames that have neither gone out nor been lost
  taken,  \* how many of them, from the first on, are in the FIFO
  wire,   \* history: frames on the wire
  lost    \* history: frames that a flush discarded

vars == <<queue, taken, wire, lost>>

Known == {queue[i] : i \in DOMAIN queue} \cup {wire[i] : i \in DOMAIN wire} \cup lost

Init == queue = <<>> /\ taken = 0 /\ wire = <<>> /\ lost = {}

Accept ==
  /\ Len(queue) < Size
  /\ \E f \in Frame \ Known : queue' = Append(queue, f)
  /\ UNCHANGED <<taken, wire, lost>>

Take ==
  /\ taken < Len(queue) /\ taken < Depth
  /\ taken' = taken + 1
  /\ UNCHANGED <<queue, wire, lost>>

Transmit ==
  /\ taken > 0 /\ taken' = taken - 1
  /\ wire' = Append(wire, Head(queue))
  /\ queue' = Tail(queue)
  /\ UNCHANGED lost

Flush ==
  /\ taken > 0 /\ taken' = 0
  /\ queue' = SubSeq(queue, taken + 1, Len(queue))
  /\ lost' = lost \cup {queue[i] : i \in 1..taken}
  /\ UNCHANGED wire

Next == Accept \/ Take \/ Transmit \/ Flush
=============================================================================
