---------------------------- MODULE CyclicTimers ----------------------------
(***************************************************************************)
(* What the timeout list of lwIP promises for its cyclic timers, in        *)
(* integers and without a list: a timer runs when its time has come, the   *)
(* earliest first, and its next time does not depend on how late it was    *)
(* served, unless it was late by a whole interval.                         *)
(***************************************************************************)
EXTENDS Integers, Sequences

CONSTANT Interval    \* the interval of each timer: a sequence, as lwip_cyclic_timers

Timer == DOMAIN Interval

VARIABLE left        \* how long until each timer is due; negative when it is late

Init == left \in [Timer -> Int] /\ \A t \in Timer : left[t] <= Interval[t]

Pass == left' = [t \in Timer |-> left[t] - 1]

NextTime(t) ==
  IF left[t] + Interval[t] < 0 THEN Interval[t] ELSE left[t] + Interval[t]

Run(t) ==
  /\ left[t] <= 0 /\ \A u \in Timer : left[t] <= left[u]
  /\ left' = [left EXCEPT ![t] = NextTime(t)]

Next == Pass \/ \E t \in Timer : Run(t)

Spec == Init /\ [][Next]_left
=============================================================================
