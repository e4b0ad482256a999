------------------------------- MODULE Kernel --------------------------------
(***************************************************************************)
(* The FreeRTOS kernel as this firmware configures it: one CPU, preemption *)
(* and time slices, queues, semaphores and mutexes with priority           *)
(* inheritance, delays and timeouts on a tick that wraps around.           *)
(*                                                                         *)
(* A critical section is one step, with the context switch it ends in.     *)
(* Between vTaskSuspendAll and xTaskResumeAll only interrupts come in: the *)
(* tick and a handler that gives a semaphore.  A queue is the number of    *)
(* its messages, a task the sequence of kernel calls it makes.             *)
(***************************************************************************)
EXTENDS Integers, Sequences, FiniteSets, FiniteSetsExt, SequencesExt

CONSTANTS
  Task, Idle,      \* Idle, the idle task, makes no calls
  Base,            \* priority a task is created with
  Object, Mutex,   \* queues and semaphores; those that are mutexes
  FromISR,         \* semaphores that an interrupt handler gives
  Size, Initial,   \* of an object: uxLength, first uxMessagesWaiting
  Programs,        \* of a task: the sequences of calls it may make
  TickMod,         \* TickType_t wraps around here
  MaxPended        \* bound: ticks while the scheduler is suspended

None == "none"

ASSUME TaskAssumption == Idle \in Task /\ None \notin Task /\ Base \in [Task -> Nat]
ASSUME ObjectAssumption ==
  /\ Mutex \subseteq Object /\ FromISR \subseteq Object \ Mutex
  /\ Size \in [Object -> Nat \ {0}] /\ Initial \in [Object -> Nat]
  /\ \A o \in Object : Initial[o] <= Size[o]
  /\ \A o \in Mutex : Initial[o] = 1 /\ Size[o] = 1
ASSUME TickAssumption == TickMod \in Nat \ {0, 1} /\ MaxPended \in Nat

Forever == TickMod - 1   \* portMAX_DELAY

\* A call: osDelay, or taking from or giving to an object.
Calls ==
  [do : {"delay"}, on : {None}, wait : 1..TickMod - 2]
    \cup [do : {"take", "give"}, on : Object, wait : 0..Forever]

ASSUME ProgramsAssumption ==
  /\ DOMAIN Programs = Task
  /\ \A t \in Task \ {Idle} : Programs[t] \subseteq Seq(Calls) \ {<<>>} /\ Programs[t] # {}

Takes(c, m) == c.do = "take" /\ c.on = m
Gives(c, m) == c.do = "give" /\ c.on = m

\* The program p holds m when it comes to its call i.
Has(p, m, i) == \E j \in 1..i - 1 : Takes(p[j], m) /\ \A l \in j + 1..i - 1 : ~Gives(p[l], m)

\* A program takes no mutex twice, gives those that it holds, and waits for a mutex for a
\* time only with none in hand, since it starts again when it does not get it.
Proper(p) ==
  /\ \A i \in 1..Len(p), m \in Mutex :
       /\ Takes(p[i], m) => ~Has(p, m, i)
       /\ Takes(p[i], m) /\ p[i].wait # Forever => \A n \in Mutex : ~Has(p, n, i)
       /\ Gives(p[i], m) => Has(p, m, i)
  /\ \A m \in Mutex : ~Has(p, m, Len(p) + 1)

ASSUME BalanceAssumption == \A t \in Task \ {Idle} : \A p \in Programs[t] : Proper(p)

VARIABLES
  k,       \* the scheduler, tasks.c
  queue,   \* of an object: count, cTxLock, mutex holder
  thread,  \* of a task: its control and the local variables of its call
  path,    \* where the task that suspended the scheduler goes on
  waited   \* history: ticks since the timed call of a task began to wait

vars == <<k, queue, thread, path, waited>>

Unlocked == -1
Thread == Task \ {Idle}
Event == Object \X {"receive", "send"}

(* What the theorems about priorities ask of the programs.                 *)

\* Mutexes are taken without a timeout, as sys_mutex_lock and sys_arch_protect do.
Patient ==
  \A t \in Thread : \A p \in Programs[t] : \A i \in 1..Len(p), m \in Mutex :
     Takes(p[i], m) => p[i].wait = Forever

Nests(p) == \E i \in 1..Len(p), m, n \in Mutex : m # n /\ Has(p, m, i) /\ Has(p, n, i)
Uses(t, m) == \E p \in Programs[t] : \E i \in 1..Len(p) : p[i].on = m
LastGiven(p) == {m \in Mutex : \E i \in 1..Len(p) : Gives(p[i], m) /\ \A n \in Mutex : Has(p, n, i) => n = m}

\* Whoever nests mutexes has the highest priority, or a lower one than the other users of the
\* mutex it gives last: xTaskPriorityDisinherit takes an inherited priority back only then.
Ranked ==
  \A t \in Thread : \A p \in Programs[t] : Nests(p) =>
     \/ \A u \in Task : Base[u] <= Base[t]
     \/ \A m \in LastGiven(p), u \in Thread \ {t} : Uses(u, m) => Base[u] > Base[t]

(* k.state: in which list the xStateListItem of a task is.                 *)
(* k.event: xTasksWaitingToReceive and xTasksWaitingToSend of every object *)
(* k.over:  tasks whose timeout began before the tick last wrapped around. *)

Op(t) == Head(thread[t].todo)
On(t) == Op(t).on
OnMutex(t) == On(t) \in Mutex
Waits(t) == <<On(t), IF Op(t).do = "take" THEN "receive" ELSE "send">>

\* A thread about to make the first call of a program.
Calling(todo) ==
  [pc |-> IF Head(todo).do = "delay" THEN "suspend" ELSE "try", todo |-> todo,
   left |-> Head(todo).wait, entered |-> FALSE, start |-> 0, inherited |-> FALSE]

Ready(s) == {t \in Task : s.state[t] = "ready"}
Highest(s) == {t \in Ready(s) : \A u \in Ready(s) : s.prio[u] <= s.prio[t]}

Init ==
  /\ k \in {s \in [tick : {0}, unblock : {Forever}, over : {{}}, pended : {0},
                   susp : {FALSE}, yield : {FALSE}, pend : {<<>>}, cur : Task,
                   state : {[t \in Task |-> "ready"]}, wake : {[t \in Task |-> 0]},
                   prio : {Base}, held : {[t \in Task |-> 0]},
                   event : {[e \in Event |-> <<>>]}] : s.cur \in Highest(s)}
  /\ queue = [o \in Object |-> [count |-> Initial[o], lock |-> Unlocked, holder |-> None]]
  /\ \E first \in [Thread -> UNION {Programs[t] : t \in Thread}] :
       /\ \A t \in Thread : first[t] \in Programs[t]
       /\ thread = [t \in Thread |-> Calling(first[t])]
  /\ path = None
  /\ waited = [t \in Thread |-> 0]

-----------------------------------------------------------------------------
(* The scheduler.                                                          *)

\* vTaskSwitchContext.  Tasks of one priority take turns: any of them may be next.
Switched(s) ==
  IF s.susp THEN {[s EXCEPT !.yield = TRUE]}
            ELSE {[s EXCEPT !.cur = t, !.yield = FALSE] : t \in Highest(s)}

YieldIf(needed, s) == IF needed THEN Switched(s) ELSE {s}

MakeReady(s, tasks) ==
  [s EXCEPT !.state = [t \in Task |-> IF t \in tasks THEN "ready" ELSE @[t]],
            !.wake = [t \in Task |-> IF t \in tasks THEN 0 ELSE @[t]]]

\* prvResetNextTaskUnblockTime.
NextUnblock(s) == Min({Forever} \cup {s.wake[t] : t \in {u \in Task : s.state[u] = "delayed"}})

\* xTaskRemoveFromEventList; "yield" says whether the woken task has the higher priority.
Wake(s, e) ==
  IF s.event[e] = <<>> THEN s
  ELSE LET t == Head(s.event[e])
           removed == [s EXCEPT !.event[e] = Tail(@),
                                !.yield = @ \/ s.prio[t] > s.prio[s.cur]]
       IN IF s.susp THEN [removed EXCEPT !.pend = Append(@, t)]
                    ELSE MakeReady(removed, {t})

\* Mutant: a new head of the delayed list does not move xNextTaskUnblockTime.
BlockUnnoticed(s, t, ticks, forever) ==
  LET at == (s.tick + ticks) % TickMod IN
  IF ticks = Forever /\ forever THEN [s EXCEPT !.state[t] = "suspended"]
  ELSE IF at < s.tick THEN [s EXCEPT !.state[t] = "overflow", !.wake[t] = at]
  ELSE [s EXCEPT !.state[t] = "delayed", !.wake[t] = at]

\* prvAddCurrentTaskToDelayedList.
Block(s, t, ticks, forever) ==
  LET at == (s.tick + ticks) % TickMod IN
  IF ticks = Forever /\ forever THEN [s EXCEPT !.state[t] = "suspended"]
  ELSE IF at < s.tick THEN [s EXCEPT !.state[t] = "overflow", !.wake[t] = at]
  ELSE [s EXCEPT !.state[t] = "delayed", !.wake[t] = at, !.unblock = Min({@, at})]

\* taskSWITCH_DELAYED_LISTS.
SwitchLists(s) ==
  LET other == [delayed |-> "overflow", overflow |-> "delayed",
                ready |-> "ready", suspended |-> "suspended"]
      switched == [s EXCEPT !.state = [t \in Task |-> other[@[t]]], !.over = Task]
  IN [switched EXCEPT !.unblock = NextUnblock(switched)]

\* Tasks that share the priority of the running one.
Sliced(s) == Cardinality({t \in Ready(s) : s.prio[t] = s.prio[s.cur]}) > 1

\* uxListRemove, of the event list items of these tasks.
Without(s, tasks) ==
  LET left[n \in 0..Len(s)] == IF n = 0 THEN <<>> ELSE IF s[n] \in tasks THEN left[n - 1]
                                                     ELSE Append(left[n - 1], s[n])
  IN left[Len(s)]

\* xTaskIncrementTick with the scheduler running; "yield" is its result.
IncrementTick(s) ==
  LET ticked == [s EXCEPT !.tick = (@ + 1) % TickMod]
      now == IF ticked.tick = 0 THEN SwitchLists(ticked) ELSE ticked
      due == IF now.tick < now.unblock THEN {}
             ELSE {t \in Task : now.state[t] = "delayed" /\ now.wake[t] <= now.tick}
      woken == MakeReady([now EXCEPT !.event = [e \in Event |-> Without(@[e], due)]], due)
  IN [woken EXCEPT
        !.unblock = IF now.tick < @ THEN @ ELSE NextUnblock(woken),
        !.yield = @ \/ Sliced(woken) \/ \E t \in due : woken.prio[t] >= woken.prio[woken.cur]]

\* xTaskResumeAll up to its yield: the pending tasks first, then the pending ticks.
Resumed(s) ==
  LET awake == MakeReady(s, ToSet(s.pend))
      back == [awake EXCEPT
                 !.susp = FALSE, !.pend = <<>>,
                 !.unblock = IF s.pend = <<>> THEN @ ELSE NextUnblock(awake),
                 !.yield = @ \/ \E t \in ToSet(s.pend) : s.prio[t] >= s.prio[s.cur]]
      ticked[n \in 0..s.pended] == IF n = 0 THEN back ELSE IncrementTick(ticked[n - 1])
  IN [ticked[s.pended] EXCEPT !.pended = 0]

-----------------------------------------------------------------------------
(* Interrupts.                                                             *)

Halted == \E t \in Thread : thread[t].pc = "halted"

\* A call that began to wait, for a time.
Timed(t) == thread[t].entered /\ Op(t).wait # Forever

\* SysTick_Handler.  Bound: no call with a timeout lasts longer than a turn of the tick.
SysTick ==
  /\ ~Halted
  /\ \A t \in Thread : waited[t] < TickMod
  /\ \/ /\ k.susp /\ k.pended < MaxPended
        /\ k' = [k EXCEPT !.pended = @ + 1]
     \/ /\ ~k.susp
        /\ LET s == IncrementTick(k) IN k' \in YieldIf(s.yield, s)
  /\ waited' = [t \in Thread |-> IF Timed(t) THEN waited[t] + 1 ELSE waited[t]]
  /\ UNCHANGED <<queue, thread, path>>

\* Mutant: a full semaphore is not noticed.
GiveFromISRFull(o) ==
  /\ o \in FromISR /\ ~Halted
  /\ IF queue[o].lock = Unlocked
       THEN /\ queue' = [queue EXCEPT ![o].count = @ + 1]
            /\ LET s == Wake(k, <<o, "receive">>) IN k' \in YieldIf(s.yield, s)
       ELSE /\ queue' = [queue EXCEPT ![o].count = @ + 1, ![o].lock = @ + 1]
            /\ UNCHANGED k
  /\ UNCHANGED <<thread, path, waited>>

\* Mutant: a locked queue does not remember that it was given to.
GiveFromISRUncounted(o) ==
  /\ o \in FromISR /\ ~Halted
  /\ queue[o].count < Size[o]
  /\ queue' = [queue EXCEPT ![o].count = @ + 1]
  /\ IF queue[o].lock = Unlocked
       THEN LET s == Wake(k, <<o, "receive">>) IN k' \in YieldIf(s.yield, s)
       ELSE UNCHANGED k
  /\ UNCHANGED <<thread, path, waited>>

\* xQueueGiveFromISR in an interrupt handler.
GiveFromISR(o) ==
  /\ o \in FromISR /\ ~Halted
  /\ queue[o].count < Size[o]
  /\ IF queue[o].lock = Unlocked
       THEN /\ queue' = [queue EXCEPT ![o].count = @ + 1]
            /\ LET s == Wake(k, <<o, "receive">>) IN k' \in YieldIf(s.yield, s)
       ELSE /\ queue' = [queue EXCEPT ![o].count = @ + 1, ![o].lock = @ + 1]
            /\ UNCHANGED k
  /\ UNCHANGED <<thread, path, waited>>

-----------------------------------------------------------------------------
(* Calls: xQueueSemaphoreTake, xQueueReceive, xQueueGenericSend,           *)
(* vTaskDelay.                                                             *)

At(t, pc) == k.cur = t /\ thread[t].pc = pc
Goto(t, pc) == thread' = [thread EXCEPT ![t].pc = pc]

\* A task that did not get a mutex leaves out what it would have done with it.
Return(t, ok) ==
  LET rest == Tail(thread[t].todo) IN
  /\ \E p \in IF rest # <<>> /\ (ok \/ ~OnMutex(t)) THEN {rest} ELSE Programs[t] :
       thread' = [thread EXCEPT ![t] = Calling(p)]
  /\ waited' = [waited EXCEPT ![t] = 0]

Possible(t) == LET q == queue[On(t)] IN IF Op(t).do = "take" THEN q.count > 0 ELSE q.count < Size[On(t)]

Take(t) ==
  /\ At(t, "try") /\ Op(t).do = "take" /\ Possible(t)
  /\ queue' = [queue EXCEPT ![On(t)].count = @ - 1,
                            ![On(t)].holder = IF OnMutex(t) THEN t ELSE @]
  /\ LET s == Wake([k EXCEPT !.held[t] = IF OnMutex(t) THEN @ + 1 ELSE @], <<On(t), "send">>)
     IN k' \in YieldIf(s.yield, s)
  /\ Return(t, TRUE) /\ UNCHANGED path

\* xTaskPriorityDisinherit: only with the last mutex.
Disinherit(t) ==
  [k EXCEPT !.held[t] = @ - 1, !.prio[t] = IF k.held[t] = 1 THEN Base[t] ELSE @]

\* Mutant: a holder that gives its last mutex and its inherited priority back goes on.
GiveNoYield(t) ==
  /\ At(t, "try") /\ Op(t).do = "give" /\ Possible(t)
  /\ queue' = [queue EXCEPT ![On(t)].count = @ + 1, ![On(t)].holder = None]
  /\ LET s == IF OnMutex(t) THEN Disinherit(t) ELSE k
         receivers == <<On(t), "receive">>
         woken == Wake(s, receivers)
     IN k' \in YieldIf(woken.yield, woken)
  /\ Return(t, TRUE) /\ UNCHANGED path

Give(t) ==
  /\ At(t, "try") /\ Op(t).do = "give" /\ Possible(t)
  /\ queue' = [queue EXCEPT ![On(t)].count = @ + 1, ![On(t)].holder = None]
  /\ LET s == IF OnMutex(t) THEN Disinherit(t) ELSE k
         receivers == <<On(t), "receive">>
         woken == Wake(s, receivers)
     IN k' \in YieldIf(woken.yield \/ (k.event[receivers] = <<>> /\ s.prio[t] # k.prio[t]), woken)
  /\ Return(t, TRUE) /\ UNCHANGED path

\* configASSERT( xInheritanceOccurred == pdFALSE ) stops the system.
Refuse(t) ==
  /\ At(t, "try") /\ Op(t).do # "delay" /\ ~Possible(t) /\ thread[t].left = 0
  /\ IF thread[t].inherited THEN Goto(t, "halted") /\ UNCHANGED waited ELSE Return(t, FALSE)
  /\ UNCHANGED <<k, queue, path>>

DelayOver(t) ==
  /\ At(t, "try") /\ Op(t).do = "delay"
  /\ Return(t, TRUE) /\ UNCHANGED <<k, queue, path>>

\* vTaskInternalSetTimeOutState, once.
Enter(t) ==
  /\ At(t, "try") /\ Op(t).do # "delay" /\ ~Possible(t) /\ thread[t].left # 0
  /\ IF thread[t].entered THEN Goto(t, "suspend") /\ UNCHANGED k
     ELSE /\ thread' = [thread EXCEPT ![t] = [@ EXCEPT !.pc = "suspend", !.entered = TRUE, !.start = k.tick]]
          /\ k' = [k EXCEPT !.over = @ \ {t}]
  /\ UNCHANGED <<queue, path, waited>>

SuspendAll(t) ==
  /\ At(t, "suspend")
  /\ k' = [k EXCEPT !.susp = TRUE]
  /\ thread' = [thread EXCEPT ![t] =
                  [@ EXCEPT !.pc = IF Op(t).do = "delay" THEN "place" ELSE "lock", !.entered = TRUE]]
  /\ UNCHANGED <<queue, path, waited>>

Elapsed(t) == (k.tick - thread[t].start) % TickMod
Turned(t) == t \in k.over /\ k.tick >= thread[t].start
TimedOut(t) == thread[t].left # Forever /\ (Turned(t) \/ Elapsed(t) >= thread[t].left)

\* Mutant: the time that has passed is taken off again at the next look.
CheckForTimeOutTwice(t) ==
  IF TimedOut(t)
    THEN thread' = [thread EXCEPT ![t].pc = "unlock", ![t].left = IF Turned(t) THEN @ ELSE 0]
         /\ path' = "expired" /\ UNCHANGED k
    ELSE /\ thread' = [thread EXCEPT ![t].pc = "test",
                                     ![t].left = IF @ = Forever THEN @ ELSE @ - Elapsed(t)]
         /\ UNCHANGED <<k, path>>

\* xTaskCheckForTimeOut.  The tick stands still: nothing changes it since vTaskSuspendAll.
CheckForTimeOut(t) ==
  IF TimedOut(t)
    THEN /\ thread' = [thread EXCEPT ![t].pc = "unlock", ![t].left = IF Turned(t) THEN @ ELSE 0]
         /\ path' = "expired" /\ UNCHANGED k
    ELSE LET forever == thread[t].left = Forever IN
         /\ thread' = [thread EXCEPT ![t].pc = "test",
                                     ![t].left = IF forever THEN @ ELSE @ - Elapsed(t),
                                     ![t].start = IF forever THEN @ ELSE k.tick]
         /\ k' = IF forever THEN k ELSE [k EXCEPT !.over = @ \ {t}]
         /\ UNCHANGED path

\* prvLockQueue.
Lock(t) ==
  /\ At(t, "lock")
  /\ queue' = [queue EXCEPT ![On(t)].lock = IF @ = Unlocked THEN 0 ELSE @]
  /\ CheckForTimeOut(t) /\ UNCHANGED waited

\* prvIsQueueEmpty, prvIsQueueFull: an interrupt may have given in the meantime.
Test(t) ==
  /\ At(t, "test")
  /\ IF Possible(t) THEN Goto(t, "unlock") /\ path' = "again"
                    ELSE Goto(t, "place") /\ UNCHANGED path
  /\ UNCHANGED <<k, queue, waited>>

\* xTaskPriorityInherit.
Inherit(s, holder, t) ==
  IF s.prio[holder] < s.prio[t] THEN [s EXCEPT !.prio[holder] = s.prio[t]] ELSE s

\* vListInsert: behind the tasks that wait with this priority or a higher one.
Insert(s, e, t) ==
  LET ahead == {i \in 1..Len(s.event[e]) : \A j \in 1..i : s.prio[s.event[e][j]] >= s.prio[t]}
  IN [s EXCEPT !.event[e] = InsertAt(@, Cardinality(ahead) + 1, t)]

\* The call blocks: vTaskPlaceOnEventList, after xTaskPriorityInherit for a mutex.
Place(t) ==
  /\ At(t, "place") /\ Op(t).do # "delay"
  /\ LET holder == queue[On(t)].holder
         s == IF OnMutex(t) THEN Inherit(k, holder, t) ELSE k
     IN /\ k' = Block(Insert(s, Waits(t), t), t, thread[t].left, TRUE)
        /\ thread' = [thread EXCEPT ![t] =
             [@ EXCEPT !.pc = "unlock", !.inherited = OnMutex(t) /\ Base[holder] < k.prio[t]]]
  /\ path' = "blocked" /\ UNCHANGED <<queue, waited>>

PlaceDelay(t) ==
  /\ At(t, "place") /\ Op(t).do = "delay"
  /\ k' = Block(k, t, thread[t].left, FALSE)
  /\ Goto(t, "resume") /\ path' = "blocked"
  /\ UNCHANGED <<queue, waited>>

\* prvUnlockQueue: one waiting task for every time the locked queue was given to.
Unlock(t) ==
  /\ At(t, "unlock")
  /\ LET e == <<On(t), "receive">>
         n == Min({queue[On(t)].lock, Len(k.event[e])})
         woken == SubSeq(k.event[e], 1, n)
     IN k' = [k EXCEPT !.event[e] = SubSeq(@, n + 1, Len(@)), !.pend = @ \o woken,
                       !.yield = @ \/ \E u \in ToSet(woken) : k.prio[u] > k.prio[t]]
  /\ queue' = [queue EXCEPT ![On(t)].lock = Unlocked]
  /\ Goto(t, "resume") /\ UNCHANGED <<path, waited>>

\* xTaskResumeAll and the yield of a task that has blocked itself.
ResumeAll(t) ==
  /\ At(t, "resume")
  /\ LET s == Resumed(k) IN k' \in YieldIf(s.yield \/ path = "blocked", s)
  /\ path' = None
  /\ \/ path # "expired" /\ Goto(t, "try") /\ UNCHANGED waited
     \/ path = "expired" /\ Op(t).do = "take" /\ Goto(t, "expired") /\ UNCHANGED waited
     \/ path = "expired" /\ Op(t).do = "give" /\ Return(t, FALSE)
  /\ UNCHANGED queue

\* A timeout: the object may have become available since.
Expire(t) ==
  /\ At(t, "expired")
  /\ \/ Possible(t) /\ Goto(t, "try") /\ UNCHANGED waited
     \/ ~Possible(t) /\ thread[t].inherited /\ Goto(t, "restore") /\ UNCHANGED waited
     \/ ~Possible(t) /\ ~thread[t].inherited /\ Return(t, FALSE)
  /\ UNCHANGED <<k, queue, path>>

\* Mutant: the other tasks that wait for the mutex are forgotten.
HighestWaitingNone(o) == k.prio[Idle]

\* prvGetDisinheritPriorityAfterTimeout.
HighestWaiting(o) ==
  LET waiting == k.event[<<o, "receive">>] IN
  IF waiting = <<>> THEN k.prio[Idle] ELSE k.prio[Head(waiting)]

\* vTaskPriorityDisinheritAfterTimeout.
Restore(t) ==
  /\ At(t, "restore")
  /\ LET holder == queue[On(t)].holder IN
     k' = IF holder # None /\ k.held[holder] = 1
            THEN [k EXCEPT !.prio[holder] = Max({Base[holder], HighestWaiting(On(t))})]
            ELSE k
  /\ Return(t, FALSE) /\ UNCHANGED <<queue, path>>

-----------------------------------------------------------------------------
Call(t) ==
  \/ Take(t) \/ Give(t) \/ Refuse(t) \/ DelayOver(t) \/ Enter(t) \/ SuspendAll(t) \/ Lock(t)
  \/ Test(t) \/ Place(t) \/ PlaceDelay(t) \/ Unlock(t) \/ ResumeAll(t) \/ Expire(t) \/ Restore(t)

Next == SysTick \/ (\E o \in Object : GiveFromISR(o)) \/ (\E t \in Thread : Call(t))

Spec == Init /\ [][Next]_vars

-----------------------------------------------------------------------------
Blocked(t) == k.state[t] # "ready" /\ t \notin ToSet(k.pend)

Pcs == {"try", "suspend", "lock", "test", "place", "unlock", "resume", "expired", "restore", "halted"}

\* Every variable keeps its type; no object holds more than it can.
TypeOK ==
  /\ k.tick \in 0..TickMod - 1 /\ k.unblock \in 0..Forever /\ k.over \subseteq Task
  /\ k.pended \in 0..MaxPended /\ k.susp \in BOOLEAN /\ k.yield \in BOOLEAN /\ k.cur \in Task
  /\ k.pend \in Seq(Task) /\ k.event \in [Event -> Seq(Task)]
  /\ k.state \in [Task -> {"ready", "delayed", "overflow", "suspended"}]
  /\ k.wake \in [Task -> 0..TickMod - 1] /\ k.prio \in [Task -> Nat] /\ k.held \in [Task -> Nat]
  /\ \A o \in Object : /\ queue[o].count \in 0..Size[o] /\ queue[o].holder \in Task \cup {None}
                       /\ queue[o].lock \in Unlocked..Size[o]
  /\ \A t \in Thread : /\ thread[t].pc \in Pcs /\ thread[t].todo \in Seq(Calls) \ {<<>>}
                              /\ thread[t].left \in 0..Forever /\ thread[t].start \in 0..TickMod - 1
  /\ path \in {None, "again", "blocked", "expired"} /\ waited \in [Thread -> 0..TickMod]

\* The running task is ready and none has a higher priority, unless it has suspended the
\* scheduler: no wake-up by a give, an interrupt, a tick or a timeout misses its switch.
HighestRuns == ~k.susp => k.cur \in Highest(k)

\* Whoever waits for an object that is available need not wait for another give: a task is
\* awake that will try again, also when the give found the queue locked.
NoLostWakeUp ==
  \A o \in Object :
    LET coming(do) == \E t \in Thread : ~Blocked(t) /\ Op(t).do = do /\ On(t) = o
                                                /\ thread[t].pc # "restore" IN
    queue[o].lock = Unlocked =>
      /\ queue[o].count > 0 /\ k.event[<<o, "receive">>] # <<>> => coming("take")
      /\ queue[o].count < Size[o] /\ k.event[<<o, "send">>] # <<>> => coming("give")

\* A call that may wait n ticks, and a delay of n ticks, is blocked for less than n ticks or
\* exactly n, over all its attempts and across a wrap of the tick; ticks that came while
\* the scheduler was suspended are made up for.
NeverLate ==
  \A t \in Thread : Blocked(t) /\ Timed(t) => waited[t] - k.pended < Op(t).wait

\* A delay ends, and a call gives up, only when its time is over.
NeverEarly ==
  [][\A t \in Thread :
       (\/ At(t, "try") /\ Op(t).do = "delay"
        \/ At(t, "resume") /\ path = "expired")
       => waited[t] >= Op(t).wait]_vars

\* The holder of a mutex runs at least at the priority of every task that waits for it, and
\* no task has more than its own priority when it holds no mutex.
Inherited ==
  /\ \A o \in Mutex : \A t \in ToSet(k.event[<<o, "receive">>]) :
       queue[o].holder # None => k.prio[queue[o].holder] >= Base[t]
  /\ \A t \in Task : k.held[t] = 0 => k.prio[t] = Base[t]
=============================================================================
