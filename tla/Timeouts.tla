------------------------------ MODULE Timeouts ------------------------------
(***************************************************************************)
(* The timeouts of lwIP: the sorted list of timeouts.c with its cyclic     *)
(* timers, and tcpip_thread, which sleeps in tcpip_timeouts_mbox_fetch     *)
(* until the first of them is due or a message arrives.  Times are words   *)
(* that wrap around.  Handlers take time, and the thread may be late.      *)
(*                                                                         *)
(* Only tcpip_thread uses the list, after lwip_init has filled it.  The    *)
(* timer of TCP is left out: the firmware opens no TCP connection.         *)
(***************************************************************************)
EXTENDS Integers, Sequences

CONSTANTS
  Word,       \* 2^32, the values of u32_t
  Interval,   \* interval_ms of lwip_cyclic_timers
  Pool,       \* MEMP_NUM_SYS_TIMEOUT
  MaxLag      \* bound: ticks between two steps of a thread that can run

Timer == DOMAIN Interval

ASSUME WordAssumption == Word \in Nat \ {0} /\ Word % 2 = 0
ASSUME IntervalAssumption ==
  Interval \in Seq(Nat \ {0}) \ {<<>>} /\ \A t \in Timer : Interval[t] <= Word \div 4
ASSUME PoolAssumption == Pool \in Nat /\ Pool >= Len(Interval)
ASSUME MaxLagAssumption == MaxLag \in Nat

VARIABLES
  now,       \* sys_now()
  list,      \* next_timeout and its successors: records of a timer and a time
  dueTime,   \* current_timeout_due_time
  pc,        \* tcpip_thread; "init" is defaultTask in sys_timeouts_init
  cur,       \* the timer that is started or run
  limit,     \* the local now of sys_check_timeouts
  sleeptime, \* the local of tcpip_timeouts_mbox_fetch
  wake,      \* kernel ticks until sys_arch_mbox_fetch returns
  lag        \* ticks since the last step

vars == <<now, list, dueTime, pc, cur, limit, sleeptime, wake, lag>>

-----------------------------------------------------------------------------
(* Words.                                                                  *)

Plus(t, n) == (t + n) % Word
Minus(t, u) == (t - u) % Word

\* Mutant: times are compared as they are.
LessThanPlain(t, u) == t < u

\* TIME_LESS_THAN, with LWIP_MAX_TIMEOUT = Word / 2 - 1.
LessThan(t, u) == Minus(t, u) > Word \div 2 - 1

-----------------------------------------------------------------------------
(* The list.                                                               *)

Entry(t, time) == [timer |-> t, time |-> time]

\* Mutant: never in front of the first entry.
PlaceAfterHead(l, e) ==
  LET later == {i \in 2..Len(l) : LessThan(e.time, l[i].time)}
  IN  IF later = {} THEN Len(l) + 1 ELSE CHOOSE i \in later : \A j \in later : i <= j

\* In front of the first entry that is due later.
Place(l, e) ==
  LET later == {i \in 1..Len(l) : LessThan(e.time, l[i].time)}
  IN  IF later = {} THEN Len(l) + 1 ELSE CHOOSE i \in later : \A j \in later : i <= j

\* Mutant: one entry of the pool is never given out.
TimeoutAbsOneLess(l, e) ==
  IF Len(l) + 1 >= Pool THEN l
  ELSE SubSeq(l, 1, Place(l, e) - 1) \o <<e>> \o SubSeq(l, Place(l, e), Len(l))

\* sys_timeout_abs: nothing happens when the pool is empty.
TimeoutAbs(l, e) ==
  IF Len(l) >= Pool THEN l
  ELSE SubSeq(l, 1, Place(l, e) - 1) \o <<e>> \o SubSeq(l, Place(l, e), Len(l))

\* Mutant: the interval always counts from the end of the handler.
NextTimeDrift(t) == Plus(now, Interval[t])

\* Mutant: the sum does not wrap.
NextTimeUnwrapped(t) ==
  LET next == dueTime + Interval[t]
  IN  IF LessThan(next, now) THEN Plus(now, Interval[t]) ELSE next

\* Where lwip_cyclic_timer puts its timer next.
NextTime(t) ==
  LET next == Plus(dueTime, Interval[t])
  IN  IF LessThan(next, now) THEN Plus(now, Interval[t]) ELSE next

-----------------------------------------------------------------------------
(* The threads.                                                            *)

Goto(from, to) == pc = from /\ pc' = to /\ lag' = 0

\* sys_timeouts_init, one timer after the other.
StartTimer ==
  /\ Goto("init", IF cur = Len(Interval) THEN "fetch" ELSE "init")
  /\ list' = TimeoutAbs(list, Entry(cur, Plus(now, Interval[cur])))
  /\ cur' = IF cur = Len(Interval) THEN 0 ELSE cur + 1
  /\ UNCHANGED <<now, dueTime, limit, sleeptime, wake>>

\* SYS_TIMEOUTS_SLEEPTIME_INFINITE, which no entry of the list can ask for.
Infinite == Word - 1

\* sys_timeouts_sleeptime.
Sleeptime ==
  IF list = <<>> THEN Infinite
  ELSE IF LessThan(list[1].time, now) THEN 0 ELSE Minus(list[1].time, now)

\* The time is read under the core lock, which is then released.
Fetch ==
  /\ Goto("fetch", IF Sleeptime = 0 THEN "check" ELSE "unlocked")
  /\ sleeptime' = Sleeptime
  /\ UNCHANGED <<now, list, dueTime, cur, limit, wake>>

\* sys_arch_mbox_fetch begins to wait.  The kernel's tick is as long as that of sys_now,
\* but not in phase: a timeout of n ticks is over after n - 1 to n of them.
Sleep ==
  /\ Goto("unlocked", "asleep")
  /\ wake' \in IF sleeptime = Infinite THEN {Infinite} ELSE {sleeptime - 1, sleeptime}
  /\ sleeptime' = 0
  /\ UNCHANGED <<now, list, dueTime, cur, limit>>

\* A message arrives, and is handled before the next Fetch.
Message ==
  /\ Goto("asleep", "fetch") /\ wake' = 0
  /\ UNCHANGED <<now, list, dueTime, cur, limit, sleeptime>>

Timeout ==
  /\ wake = 0 /\ Goto("asleep", "check")
  /\ UNCHANGED <<now, list, dueTime, cur, limit, sleeptime, wake>>

\* sys_check_timeouts reads the time once.
CheckBegin ==
  /\ Goto("check", "next") /\ limit' = now
  /\ UNCHANGED <<now, list, dueTime, cur, sleeptime, wake>>

CheckEnd ==
  /\ list # <<>> => LessThan(limit, list[1].time)
  /\ Goto("next", "fetch") /\ limit' = 0
  /\ UNCHANGED <<now, list, dueTime, cur, sleeptime, wake>>

\* The entry goes back to the pool before the handler arms the timer again.
Expire ==
  /\ list # <<>> /\ ~LessThan(limit, list[1].time)
  /\ Goto("next", "handler")
  /\ cur' = list[1].timer /\ dueTime' = list[1].time /\ list' = Tail(list)
  /\ UNCHANGED <<now, limit, sleeptime, wake>>

\* The handler has run, for as long as it took: the timer is armed again.
CyclicTimer ==
  /\ Goto("handler", "next")
  /\ list' = TimeoutAbs(list, Entry(cur, NextTime(cur)))
  /\ cur' = 0 /\ dueTime' = 0
  /\ UNCHANGED <<now, limit, sleeptime, wake>>

Thread == StartTimer \/ Fetch \/ Sleep \/ Timeout \/ CheckBegin \/ CheckEnd
            \/ Expire \/ CyclicTimer

\* One millisecond.  A thread that can run does so within MaxLag of them.
Tick ==
  /\ now' = Plus(now, 1)
  /\ IF pc = "asleep" /\ wake > 0
       THEN wake' = (IF wake = Infinite THEN wake ELSE wake - 1) /\ UNCHANGED lag
       ELSE lag < MaxLag /\ lag' = lag + 1 /\ UNCHANGED wake
  /\ UNCHANGED <<list, dueTime, pc, cur, limit, sleeptime>>

Init ==
  /\ now = 0 /\ list = <<>> /\ dueTime = 0
  /\ pc = "init" /\ cur = 1 /\ limit = 0 /\ sleeptime = 0 /\ wake = 0 /\ lag = 0

Next == Thread \/ Message \/ Tick

Spec == Init /\ [][Next]_vars

\* tcpip_thread is scheduled, sys_arch_mbox_fetch returns in time, and time passes.
FairSpec == Spec /\ WF_vars(Thread) /\ WF_vars(Tick)

-----------------------------------------------------------------------------
\* Every variable keeps its type.
TypeOK ==
  /\ {now, dueTime, limit} \subseteq 0..(Word - 1)
  /\ list \in Seq([timer : Timer, time : 0..(Word - 1)])
  /\ pc \in {"init", "fetch", "unlocked", "asleep", "check", "next", "handler"}
  /\ cur \in 0..Len(Interval) /\ {sleeptime, wake} \subseteq 0..(Word - 1) /\ lag \in 0..MaxLag

\* No timer is ever lost or armed twice, though the list has no spare entry: once started
\* each timer is in the list exactly once, or its handler is running.
NoTimerLost ==
  pc # "init" => \A t \in Timer :
    IF pc = "handler" /\ cur = t THEN \A i \in DOMAIN list : list[i].timer # t
    ELSE \E i \in DOMAIN list :
           list[i].timer = t /\ \A j \in DOMAIN list : list[j].timer = t => j = i

\* The time of a word, seen from now: at most half the range ahead, or behind.
Ahead(time) ==
  IF LessThan(time, now) THEN Minus(time, now) - Word ELSE Minus(time, now)

\* tcpip_thread sleeps past the time of a timer, of any in the list, by no more than the
\* ticks between the read of the time and the start of the wait, which follows the release
\* of the core lock: the first of the list is the earliest, also across the wrap of the tick.
NeverOversleeps ==
  pc = "asleep" /\ wake > 0 => \A i \in DOMAIN list : wake <= Ahead(list[i].time) + MaxLag

TimeOf(t) ==
  IF pc = "handler" /\ cur = t THEN dueTime
  ELSE LET at == {i \in DOMAIN list : list[i].timer = t}
       IN  IF at = {} THEN Plus(now, Interval[t]) ELSE list[CHOOSE i \in at : TRUE].time

Left == [t \in Timer |-> Ahead(TimeOf(t))]

Abstract == INSTANCE CyclicTimers WITH left <- Left

\* Once started, the timers run in the order of their times, never early, and late only by
\* what the thread was late, as if words did not wrap.
ImplementsTimers == [][pc # "init" => Abstract!Next \/ UNCHANGED Left]_vars

\* Every timer runs again and again.
AllRun == \A t \in Timer : []<>(pc = "handler" /\ cur = t)
=============================================================================
