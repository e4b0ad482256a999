-------------------------- MODULE KernelSchedProofs ---------------------------
(***************************************************************************)
(* Proofs about the scheduling of the kernel: which task runs, and when it *)
(* wakes up, for any tasks, priorities, programs, tick width and number of *)
(* pended ticks.  Both invariants build on Orderly of KernelProofs.        *)
(*                                                                         *)
(* Priorities.  Top and Ranks: the highest task runs, the holder of a      *)
(* mutex inherits.                                                         *)
(*                                                                         *)
(* Time.  Punctual(t) says what a thread knows of its time. Rest(t) is the *)
(* number of ticks that its call has still to wait, the pended ones        *)
(* included, and Since(t) the number that has passed since its timeout was *)
(* last looked at.  A thread that sleeps has its wake time Rest(t) ticks   *)
(* ahead, in the list of this turn of the tick or of the next one; the     *)
(* tick is Since(t) ahead of the start of its timeout, less a turn when    *)
(* the tick has wrapped around since, which k.over tells.  Because no call *)
(* waits for more than a turn, the kernel can tell from that what is left. *)
(*                                                                         *)
(* First the arithmetic and what one tick, and a resumption with its       *)
(* pended ticks, do to a sleeping thread; then a lemma per action.         *)
(***************************************************************************)
EXTENDS KernelProofs

-----------------------------------------------------------------------------
(* Priorities: the running task has the highest, a holder inherits.        *)

\* Who waits for the mutex.
Receivers(m) == k.event[<<m, "receive">>]

\* A priority is the one of some task, not lower than the own one, and the own one without a mutex.
Floors ==
  \A t \in Task : /\ k.prio[t] >= Base[t] /\ \E u \in Task : k.prio[t] <= Base[u]
                  /\ k.held[t] = 0 => k.prio[t] = Base[t]

\* The running task has the highest priority, unless it is about to be switched out.
Top == path # "blocked" => k.cur \in Highest(k)

\* Nobody waits behind a task that has less than his own priority.
Queued(m) ==
  \A i, j \in 1..Len(Receivers(m)) : i < j => k.prio[Receivers(m)[i]] >= Base[Receivers(m)[j]]

\* A mutex that has been given while tasks wait is for a ready one with a priority like theirs.
Promised(m) ==
  queue[m].holder = None /\ Receivers(m) # <<>> =>
    \E t \in Thread : /\ k.state[t] = "ready" /\ Takes(Op(t), m)
                      /\ \A u \in ToSet(Receivers(m)) : k.prio[t] >= Base[u]

\* The holder has the priority of everybody who waits.
Above(m) == queue[m].holder # None => \A u \in ToSet(Receivers(m)) : k.prio[queue[m].holder] >= Base[u]

\* An inherited priority is that of the first task that waits.
Lent(t) ==
  \A m \in Holds(t) : \/ k.prio[t] = Base[t]
                      \/ Receivers(m) # <<>> /\ k.prio[Head(Receivers(m))] >= k.prio[t]

\* Of a thread that nests mutexes this is not asked.
Lends(t) == \E p, n : Position(t, p, n) /\ (Nests(p) \/ Lent(t))

\* The part of the invariant on priorities.
Ranks ==
  /\ Floors
  /\ \A m \in Mutex : Queued(m) /\ Promised(m) /\ Above(m)
  /\ \A t \in Thread : Lends(t)

\* The count of mutexes held tells none and one.
LEMMA HeldFacts ==
  ASSUME NEW t, Counted(t)
  PROVE  /\ k.held[t] = 0 <=> Holds(t) = {}
         /\ \A m \in Holds(t) : k.held[t] = 1 => Holds(t) = {m}
<1>1. IsFiniteSet(Holds(t)) /\ k.held[t] = Cardinality(Holds(t))
  BY DEF Counted
<1>2. Cardinality(Holds(t)) = 0 <=> Holds(t) = {}
  BY <1>1, FS_EmptySet
<1>3. ASSUME NEW m \in Holds(t), k.held[t] = 1 PROVE Holds(t) = {m}
  <2>1. IsFiniteSet(Holds(t) \ {m}) /\ Cardinality(Holds(t) \ {m}) = Cardinality(Holds(t)) - 1
    BY <1>1, FS_RemoveElement
  <2>2. Cardinality(Holds(t) \ {m}) = 0
    BY <1>1, <1>3, <2>1
  <2>3. Holds(t) \ {m} = {}
    BY <2>1, <2>2, FS_EmptySet
  <2> QED BY <2>3
<1> QED BY <1>1, <1>2, <1>3

\* A thread that takes a mutex waits without a timeout, and never gives up.
LEMMA PatientFacts ==
  ASSUME Typed, Control, Mutexes, Patient, NEW t \in Thread, OnMutex(t), Op(t).do = "take"
  PROVE  /\ Op(t).wait = Forever /\ thread[t].left = Forever
         /\ thread[t].pc \notin {"expired", "restore"} /\ (path = "expired" => t # k.cur)
<1>1. PICK p, n : Position(t, p, n)
  BY DEF Mutexes
<1>2. p \in Programs[t] /\ n \in 1..Len(p) /\ Op(t) = p[n]
  BY <1>1, PositionFacts DEF Position
<1>3. Takes(p[n], On(t)) /\ On(t) \in Mutex
  BY <1>2 DEF Takes, On, OnMutex
<1>4. Op(t).wait = Forever
  BY <1>2, <1>3 DEF Patient
<1>5. Sound(t) /\ (path = "expired" => thread[k.cur].left # Forever)
  BY DEF Control
<1> QED BY <1>4, <1>5 DEF Sound

\* Who waits for a mutex.
LEMMA WaiterFacts ==
  ASSUME Typed, Control, Mutexes, Lists, Patient, NEW m \in Mutex
  PROVE  /\ <<m, "receive">> \in Event /\ Receivers(m) \in Seq(Task) /\ Distinct(Receivers(m))
         /\ \A u \in ToSet(Receivers(m)) :
              u \in Thread /\ Takes(Op(u), m) /\ k.state[u] = "suspended" /\ u \notin ToSet(k.pend)
<1>1. <<m, "receive">> \in Event
  BY ObjectAssumption DEF Event
<1>2. Receivers(m) \in Seq(Task) /\ Listed(<<m, "receive">>)
  BY <1>1 DEF Typed, Sched, Receivers, Lists
<1>3. ASSUME NEW u \in ToSet(Receivers(m))
      PROVE  u \in Thread /\ Takes(Op(u), m) /\ k.state[u] = "suspended" /\ u \notin ToSet(k.pend)
  <2>1. /\ u \in Thread /\ Op(u).do # "delay" /\ Waits(u) = <<m, "receive">>
        /\ k.state[u] # "ready" /\ u \notin ToSet(k.pend)
    BY <1>2 DEF Listed, Receivers
  <2>2. Op(u).do = "take" /\ On(u) = m
    BY <2>1 DEF Waits
  <2>3. Op(u).wait = Forever
    BY <2>1, <2>2, PatientFacts DEF OnMutex
  <2>4. Asleep(u)
    BY <2>1 DEF Lists, Thread
  <2> QED BY <2>1, <2>2, <2>3, <2>4 DEF Asleep, Takes, On
<1> QED BY <1>1, <1>2, <1>3 DEF Listed, Receivers

-----------------------------------------------------------------------------
(* Steps that change no mutex, no priority and no list of a mutex.         *)

\* No mutex, no list of one and no priority has changed.
Settled ==
  /\ SamePrio(k', k) /\ SameMutexes
  /\ \A m \in Mutex : Receivers(m)' = Receivers(m)

\* Whoever is ready to take an available mutex stays so.
StillTaking ==
  \A u \in Thread, m \in Mutex :
     queue[m].holder = None /\ k.state[u] = "ready" /\ Takes(Op(u), m)
       => k'.state[u] = "ready" /\ Op(u)' = Op(u)

\* Then Ranks is kept, if those who are to take a mutex still are.
LEMMA SettledRanks ==
  ASSUME Ranks, Settled, StillTaking, \A u \in Thread : Lends(u)' PROVE Ranks'
<1>1. k'.prio = k.prio /\ k'.held = k.held
  BY DEF Settled, SamePrio
<1>2. \A m \in Mutex : Receivers(m)' = Receivers(m) /\ queue'[m].holder = queue[m].holder
  BY DEF Settled, SameMutexes
<1>3. Floors'
  BY <1>1 DEF Ranks, Floors
<1>4. ASSUME NEW m \in Mutex PROVE Queued(m)' /\ Promised(m)' /\ Above(m)'
  <2>1. Receivers(m)' = Receivers(m) /\ queue'[m].holder = queue[m].holder
    BY <1>2
  <2>2. Queued(m) /\ Promised(m) /\ Above(m)
    BY DEF Ranks
  <2>3. Queued(m)' /\ Above(m)'
    BY <1>1, <2>1, <2>2 DEF Queued, Above
  <2>4. ASSUME queue[m].holder = None, Receivers(m) # <<>>
        PROVE  \E t \in Thread : /\ k'.state[t] = "ready" /\ Takes(Op(t)', m)
                                 /\ \A u \in ToSet(Receivers(m)) : k.prio[t] >= Base[u]
    <3>1. PICK t \in Thread : /\ k.state[t] = "ready" /\ Takes(Op(t), m)
                              /\ \A u \in ToSet(Receivers(m)) : k.prio[t] >= Base[u]
      BY <2>2, <2>4 DEF Promised
    <3>2. k'.state[t] = "ready" /\ Op(t)' = Op(t)
      BY <2>4, <3>1 DEF StillTaking
    <3> QED BY <3>1, <3>2
  <2>5. Promised(m)'
    BY <1>1, <2>1, <2>4 DEF Promised, Takes
  <2> QED BY <2>3, <2>5
<1> QED BY <1>3, <1>4 DEF Ranks

\* An inherited priority stays in order too.
LEMMA SettledLent ==
  ASSUME Settled, NEW u \in Thread, Lent(u), Holds(u)' \subseteq Holds(u) PROVE Lent(u)'
<1>1. k'.prio = k.prio
  BY DEF Settled, SamePrio
<1>2. \A m \in Holds(u)' : m \in Mutex /\ Receivers(m)' = Receivers(m)
  BY DEF Settled, Holds
<1> QED BY <1>1, <1>2 DEF Lent

\* Also for a thread that goes on with its call.
LEMMA LendsSame ==
  ASSUME Settled, NEW u \in Thread, Lends(u), thread'[u].todo = thread[u].todo PROVE Lends(u)'
<1>1. PICK p, n : Position(u, p, n) /\ (Nests(p) \/ Lent(u))
  BY DEF Lends
<1>2. Holds(u)' = Holds(u)
  BY SameHolds DEF Settled
<1>3. Position(u, p, n)'
  BY <1>1, <1>2, PositionSame
<1>4. Lent(u) => Lent(u)'
  BY <1>2, SettledLent
<1> QED BY <1>1, <1>3, <1>4 DEF Lends

\* A thread whose call returns without a mutex having changed.
LEMMA LendsReturn ==
  ASSUME Typed, Settled, NEW t \in Thread, Lends(t), NEW ok, Return(t, ok),
         ok \/ ~OnMutex(t), ~OnMutex(t) \/ Op(t).do = "delay"
  PROVE  Lends(t)'
<1>1. PICK p, n : Position(t, p, n) /\ (Nests(p) \/ Lent(t))
  BY DEF Lends
<1>2. Holds(t)' = Holds(t)
  BY SameHolds DEF Settled
<1>3. Holds(t)' = {m \in Mutex : Has(p, m, n + 1)}
  BY <1>1, <1>2, NextHolds
<1>4. PICK q, i : Position(t, q, i)' /\ (q = p \/ Holds(t)' = {})
  BY <1>1, <1>3, ReturnPosition
<1>5. Lent(t) => Lent(t)'
  BY <1>2, SettledLent
<1>6. Holds(t)' = {} => Lent(t)'
  BY DEF Lent
<1> QED BY <1>1, <1>4, <1>5, <1>6 DEF Lends

\* A step on the list of something else.
LEMMA SettledBeside ==
  ASSUME SamePrio(k', k), SameMutexes, NEW e, \A m \in Mutex : e # <<m, "receive">>,
         \A d \in Event \ {e} : k'.event[d] = k.event[d]
  PROVE  Settled
<1>1. \A m \in Mutex : <<m, "receive">> \in Event \ {e}
  BY ObjectAssumption DEF Event
<1> QED BY <1>1 DEF Settled, Receivers

\* Settled keeps Lists.
LEMMA SettledLists ==
  ASSUME SamePrio(k', k), SameLists(k', k), queue' = queue PROVE Settled
  BY DEF Settled, SameLists, Receivers, SameMutexes

\* Nobody who waits for a mutex is due.
LEMMA SettledTidied ==
  ASSUME Typed, Control, Mutexes, Lists, Patient, queue' = queue, NEW woken, Tidied(k', k, woken)
  PROVE  Settled
<1>1. ASSUME NEW m \in Mutex PROVE Receivers(m)' = Receivers(m)
  <2>1. /\ <<m, "receive">> \in Event
        /\ \A u \in ToSet(Receivers(m)) : k.state[u] = "suspended"
    BY WaiterFacts
  <2>2. \A u \in woken : k.state[u] \in {"delayed", "overflow"}
    BY DEF Tidied
  <2>3. ToSet(k.event[<<m, "receive">>]) \cap woken = {}
    BY <2>1, <2>2 DEF Receivers
  <2> QED BY <2>1, <2>3 DEF Tidied, Receivers
<1>2. SamePrio(k', k) /\ SameMutexes
  BY DEF Tidied, SameMutexes
<1> QED BY <1>1, <1>2 DEF Settled

\* A step of a thread that does not return.
LEMMA StayRanks ==
  ASSUME Ranks, Settled, NEW t \in Thread,
         \A u \in Thread : thread'[u].todo = thread[u].todo,
         \A u \in Thread \ {t} : k.state[u] = "ready" => k'.state[u] = "ready",
         OnMutex(t) /\ Op(t).do = "take" /\ k.state[t] = "ready" => k'.state[t] = "ready"
  PROVE  Ranks'
<1>1. \A u \in Thread : Op(u)' = Op(u)
  BY SameCall
<1>2. StillTaking
  BY <1>1 DEF StillTaking, Takes, OnMutex, On
<1>3. \A u \in Thread : Lends(u)'
  BY LendsSame DEF Ranks
<1> QED BY <1>2, <1>3, SettledRanks

\* A call that returns without having had to do with a mutex.
LEMMA ReturnRanks ==
  ASSUME Typed, Ranks, Settled, NEW t \in Thread, NEW ok, Return(t, ok),
         ok \/ ~OnMutex(t), ~OnMutex(t) \/ Op(t).do = "delay",
         \A u \in Thread \ {t} : k.state[u] = "ready" => k'.state[u] = "ready"
  PROVE  Ranks'
<1>1. \A u \in Thread \ {t} : thread'[u] = thread[u]
  BY ReturnOthers
<1>2. \A u \in Thread \ {t} : Op(u)' = Op(u)
  BY <1>1, SameCall
<1>3. StillTaking
  BY <1>2 DEF StillTaking, Takes, OnMutex, On
<1>4. ASSUME NEW u \in Thread PROVE Lends(u)'
  <2>1. Lends(u)
    BY DEF Ranks
  <2>2. CASE u = t
    BY <2>1, <2>2, LendsReturn
  <2>3. CASE u # t
    BY <1>1, <2>1, <2>3, LendsSame
  <2> QED BY <2>2, <2>3
<1> QED BY <1>3, <1>4, SettledRanks

\* Refuse keeps Ranks.
LEMMA RefuseRanks ==
  ASSUME Typed, Control, Mutexes, Patient, Ranks, NEW t \in Thread, Refuse(t) PROVE Ranks'
<1>1. /\ k' = k /\ queue' = queue /\ Op(t).do # "delay" /\ ~Possible(t) /\ thread[t].left = 0
      /\ IF thread[t].inherited THEN Goto(t, "halted") ELSE Return(t, FALSE)
  BY DEF Refuse
<1>2. Settled
  BY <1>1, SettledLists DEF SamePrio, SameLists
<1>3. ~OnMutex(t)
  <2>1. SUFFICES ASSUME OnMutex(t) PROVE FALSE
    OBVIOUS
  <2>2. Op(t).do \in {"delay", "take", "give"}
    BY ThreadFacts
  <2>3. Op(t).do = "take"
    BY <1>1, <2>1, <2>2, GiverHolds
  <2>4. thread[t].left = Forever /\ 0 # Forever
    BY <2>1, <2>3, PatientFacts, Tock
  <2> QED BY <1>1, <2>4
<1>4. CASE Return(t, FALSE)
  BY <1>1, <1>2, <1>3, <1>4, ReturnRanks
<1>5. CASE Goto(t, "halted")
  <2>1. PICK r : Moves(t, r)
    BY <1>5, GotoGoes, Strings
  <2>2. \A u \in Thread : thread'[u].todo = thread[u].todo
    BY <2>1, MovesFacts DEF Moves
  <2> QED BY <1>1, <1>2, <2>2, StayRanks
<1> QED BY <1>1, <1>4, <1>5

\* DelayOver keeps Ranks.
LEMMA DelayOverRanks ==
  ASSUME Typed, Ranks, NEW t \in Thread, DelayOver(t) PROVE Ranks'
<1>1. k' = k /\ queue' = queue /\ Op(t).do = "delay" /\ Return(t, TRUE)
  BY DEF DelayOver
<1>2. Settled
  BY <1>1, SettledLists DEF SamePrio, SameLists
<1>3. PICK ok : ok = TRUE
  OBVIOUS
<1>4. Return(t, ok)
  BY <1>1, <1>3
<1> QED BY <1>1, <1>2, <1>3, <1>4, ReturnRanks

\* Expire keeps Ranks.
LEMMA ExpireRanks ==
  ASSUME Typed, Control, Mutexes, Patient, Ranks, NEW t \in Thread, Expire(t) PROVE Ranks'
<1>1. /\ k' = k /\ queue' = queue /\ thread[t].pc = "expired"
      /\ Goto(t, "try") \/ Goto(t, "restore") \/ Return(t, FALSE)
  BY DEF Expire, At
<1>2. Settled
  BY <1>1, SettledLists DEF SamePrio, SameLists
<1>3. Op(t).do = "take"
  BY <1>1 DEF Control, Sound
<1>4. ~OnMutex(t)
  BY <1>1, <1>3, PatientFacts
<1>5. CASE Return(t, FALSE)
  BY <1>1, <1>2, <1>4, <1>5, ReturnRanks
<1>6. CASE Goto(t, "try") \/ Goto(t, "restore")
  <2>1. PICK r : Moves(t, r)
    BY <1>6, GotoGoes, Strings
  <2>2. \A u \in Thread : thread'[u].todo = thread[u].todo
    BY <2>1, MovesFacts DEF Moves
  <2> QED BY <1>1, <1>2, <2>2, StayRanks
<1> QED BY <1>1, <1>5, <1>6

\* No thread gives up a mutex: the branch is dead here.
LEMMA NoRestore ==
  ASSUME Typed, Control, Mutexes, Patient, NEW t \in Thread, Restore(t) PROVE FALSE
<1>1. thread[t].pc = "restore"
  BY DEF Restore, At
<1>2. Op(t).do = "take" /\ OnMutex(t)
  BY <1>1 DEF Control, Sound
<1> QED BY <1>1, <1>2, PatientFacts

\* Enter keeps Ranks.
LEMMA EnterRanks ==
  ASSUME Typed, Control, Ranks, NEW t \in Thread, Enter(t) PROVE Ranks'
<1>1. /\ SameWait(k', k) /\ SameLists(k', k) /\ SamePrio(k', k) /\ queue' = queue
      /\ \E r \in Rec : Goes(t, r) /\ r.todo = thread[t].todo
  BY EnterEffect
<1>2. PICK r \in Rec : Moves(t, r)
  BY <1>1 DEF Moves
<1>3. \A u \in Thread : thread'[u].todo = thread[u].todo
  BY <1>2, MovesFacts DEF Moves
<1>4. Settled
  BY <1>1, SettledLists
<1> QED BY <1>1, <1>3, <1>4, StayRanks DEF SameWait

\* SuspendAll keeps Ranks.
LEMMA SuspendAllRanks ==
  ASSUME Typed, Control, Ranks, NEW t \in Thread, SuspendAll(t) PROVE Ranks'
<1>1. /\ SameWait(k', k) /\ SameLists(k', k) /\ SamePrio(k', k) /\ queue' = queue
      /\ \E r : Moves(t, r)
  BY SuspendAllEffect
<1>2. PICK r : Moves(t, r)
  BY <1>1
<1>3. \A u \in Thread : thread'[u].todo = thread[u].todo
  BY <1>2, MovesFacts DEF Moves
<1>4. Settled
  BY <1>1, SettledLists
<1> QED BY <1>1, <1>3, <1>4, StayRanks DEF SameWait

\* Lock keeps Ranks.
LEMMA LockRanks ==
  ASSUME Typed, Control, Ranks, NEW t \in Thread, Lock(t) PROVE Ranks'
<1>1. /\ SameWait(k', k) /\ SameLists(k', k) /\ SamePrio(k', k) /\ \E r : Moves(t, r)
      /\ On(t) \in Object
      /\ queue'[On(t)].count = queue[On(t)].count /\ queue'[On(t)].holder = queue[On(t)].holder
      /\ \A o \in Object \ {On(t)} : queue'[o] = queue[o]
  BY LockEffect
<1>2. PICK r : Moves(t, r)
  BY <1>1
<1>3. \A u \in Thread : thread'[u].todo = thread[u].todo
  BY <1>2, MovesFacts DEF Moves
<1>4. SameMutexes
  BY <1>1, ObjectAssumption DEF SameMutexes
<1>5. Settled
  BY <1>1, <1>4 DEF Settled, SameLists, Receivers
<1> QED BY <1>1, <1>3, <1>5, StayRanks DEF SameWait

\* Test keeps Ranks.
LEMMA TestRanks ==
  ASSUME Typed, Control, Ranks, NEW t \in Thread, Test(t) PROVE Ranks'
<1>1. k' = k /\ queue' = queue /\ \E r : Moves(t, r)
  BY TestEffect
<1>2. PICK r : Moves(t, r)
  BY <1>1
<1>3. \A u \in Thread : thread'[u].todo = thread[u].todo
  BY <1>2, MovesFacts DEF Moves
<1>4. Settled
  BY <1>1, SettledLists DEF SamePrio, SameLists
<1> QED BY <1>1, <1>3, <1>4, StayRanks

\* PlaceDelay keeps Ranks.
LEMMA PlaceDelayRanks ==
  ASSUME Typed, Control, Ranks, NEW t \in Thread, PlaceDelay(t) PROVE Ranks'
<1>1. /\ SameLists(k', k) /\ SamePrio(k', k) /\ queue' = queue /\ Op(t).do = "delay"
      /\ \A u \in Task \ {t} : k'.state[u] = k.state[u]
      /\ \E r : Moves(t, r)
  BY PlaceDelayEffect
<1>2. PICK r : Moves(t, r)
  BY <1>1
<1>3. \A u \in Thread : thread'[u].todo = thread[u].todo
  BY <1>2, MovesFacts DEF Moves
<1>4. Settled
  BY <1>1, SettledLists
<1> QED BY <1>1, <1>3, <1>4, StayRanks DEF Thread

\* Nobody gives a mutex while a thread has its queue locked.
LEMMA UnlockRanks ==
  ASSUME Typed, Control, Mutexes, Ranks, NEW t \in Thread, Unlock(t) PROVE Ranks'
<1> DEFINE e == <<On(t), "receive">>
<1>1. /\ SameWait(k', k) /\ SamePrio(k', k) /\ On(t) \in Object /\ e \in Event /\ queue[On(t)].lock \in Nat
      /\ \E n : UnlockedK(k, k', e, n) /\ n <= queue[On(t)].lock
      /\ queue'[On(t)].count = queue[On(t)].count /\ queue'[On(t)].holder = queue[On(t)].holder
      /\ \A o \in Object \ {On(t)} : queue'[o] = queue[o]
      /\ \E r : Moves(t, r)
  BY UnlockEffect
<1>2. PICK n : UnlockedK(k, k', e, n) /\ n <= queue[On(t)].lock
  BY <1>1
<1>3. PICK r : Moves(t, r)
  BY <1>1
<1>4. \A u \in Thread : thread'[u].todo = thread[u].todo
  BY <1>3, MovesFacts DEF Moves
<1>5. SameMutexes
  BY <1>1, ObjectAssumption DEF SameMutexes
<1>6. k.event[e] \in Seq(Task)
  BY <1>1 DEF Typed, Sched
<1>7. ASSUME On(t) \in Mutex PROVE k'.event[e] = k.event[e]
  <2>1. queue[On(t)].lock <= 0
    BY <1>7, MutexFacts
  <2>2. n = 0
    BY <1>1, <1>2, <1>6, <2>1, SeqFacts DEF UnlockedK
  <2> QED BY <1>2, <1>6, <2>2, SeqFacts, SplitSet DEF UnlockedK
<1>8. Settled
  <2>1. CASE On(t) \in Mutex
    BY <1>1, <1>2, <1>5, <1>7, <2>1, ObjectAssumption DEF Settled, Receivers, UnlockedK, Event
  <2>2. CASE On(t) \notin Mutex
    <3>1. \A m \in Mutex : e # <<m, "receive">>
      BY <2>2
    <3>2. \A d \in Event \ {e} : k'.event[d] = k.event[d]
      BY <1>2 DEF UnlockedK
    <3>3. SamePrio(k', k) /\ SameMutexes
      BY <1>1, <1>5
    <3> HIDE DEF e
    <3> QED BY <3>1, <3>2, <3>3, SettledBeside
  <2> QED BY <2>1, <2>2
<1> QED BY <1>1, <1>4, <1>8, StayRanks DEF SameWait

\* A tick takes nobody off the ready lists.
LEMMA TidiedReady ==
  ASSUME NEW woken, Tidied(k', k, woken)
  PROVE  \A u \in Thread : k.state[u] = "ready" => k'.state[u] = "ready"
  BY DEF Tidied, Thread

\* ResumeAll keeps Ranks.
LEMMA ResumeAllRanks ==
  ASSUME Typed, Control, Mutexes, Lists, Patient, Ranks, NEW t \in Thread, ResumeAll(t) PROVE Ranks'
<1>1. /\ queue' = queue /\ thread[t].pc = "resume" /\ \E woken : Tidied(k', k, woken)
      /\ (\E r : Moves(t, r)) \/ (path = "expired" /\ Op(t).do = "give" /\ Return(t, FALSE))
  BY ResumeAllEffect
<1>2. PICK woken : Tidied(k', k, woken)
  BY <1>1
<1>3. Settled
  BY <1>1, <1>2, SettledTidied
<1>4. \A u \in Thread : k.state[u] = "ready" => k'.state[u] = "ready"
  BY <1>2, TidiedReady
<1>5. CASE \E r : Moves(t, r)
  <2>1. PICK r : Moves(t, r)
    BY <1>5
  <2>2. \A u \in Thread : thread'[u].todo = thread[u].todo
    BY <2>1, MovesFacts DEF Moves
  <2> QED BY <1>3, <1>4, <2>2, StayRanks
<1>6. CASE Op(t).do = "give" /\ Return(t, FALSE)
  <2>1. ~OnMutex(t)
    BY <1>1, <1>6, GiverHolds
  <2> QED BY <1>3, <1>4, <1>6, <2>1, ReturnRanks
<1> QED BY <1>1, <1>5, <1>6

\* A step in which no thread moves.
LEMMA OutsideRanks ==
  ASSUME Ranks, Settled, thread' = thread,
         \A u \in Thread : k.state[u] = "ready" => k'.state[u] = "ready"
  PROVE  Ranks'
<1>1. \A u \in Thread : Op(u)' = Op(u)
  BY SameCall
<1>2. StillTaking
  BY <1>1 DEF StillTaking
<1>3. \A u \in Thread : Lends(u)'
  BY LendsSame DEF Ranks
<1> QED BY <1>2, <1>3, SettledRanks

\* SysTick keeps Ranks.
LEMMA SysTickRanks ==
  ASSUME Typed, Control, Mutexes, Lists, Patient, Ranks, SysTick PROVE Ranks'
<1>1. /\ queue' = queue /\ thread' = thread
      /\ \/ SameWait(k', k) /\ SameLists(k', k) /\ SamePrio(k', k)
         \/ \E woken : Tidied(k', k, woken)
  BY SysTickEffect
<1>2. CASE SameWait(k', k) /\ SameLists(k', k) /\ SamePrio(k', k)
  <2>1. Settled
    BY <1>1, <1>2, SettledLists
  <2> QED BY <1>1, <1>2, <2>1, OutsideRanks DEF SameWait
<1>3. CASE \E woken : Tidied(k', k, woken)
  <2>1. PICK woken : Tidied(k', k, woken)
    BY <1>3
  <2>2. Settled
    BY <1>1, <2>1, SettledTidied
  <2> QED BY <1>1, <2>1, <2>2, TidiedReady, OutsideRanks
<1> QED BY <1>1, <1>2, <1>3

\* Neither does a give.
LEMMA RousedReady ==
  ASSUME NEW e, Roused(e), NEW u \in Task, k.state[u] = "ready" PROVE k'.state[u] = "ready"
  BY DEF Roused

\* A give or a take moves one list.
LEMMA ServedBeside ==
  ASSUME k \in Sched, NEW e \in Event, Roused(e) \/ Deferred(e)
  PROVE  \A d \in Event \ {e} : k'.event[d] = k.event[d]
  BY DEF Roused, Deferred, SameLists, Served, Sched

\* An interrupt changes no priority.
LEMMA GiveFromISRPrio ==
  ASSUME Typed, Control, NEW o \in Object, GiveFromISR(o) PROVE SamePrio(k', k)
<1> DEFINE e == <<o, "receive">>
<1>1. /\ e \in Event
      /\ k' = k \/ (Wake(k, e).yield \in BOOLEAN /\ k' \in YieldIf(Wake(k, e).yield, Wake(k, e)))
  BY GiveFromISREffect
<1>2. CASE k' = k
  BY <1>2 DEF SamePrio
<1>3. CASE Wake(k, e).yield \in BOOLEAN /\ k' \in YieldIf(Wake(k, e).yield, Wake(k, e))
  BY <1>1, <1>3, WakeYield DEF Typed
<1> QED BY <1>1, <1>2, <1>3

\* GiveFromISR keeps Ranks.
LEMMA GiveFromISRRanks ==
  ASSUME Typed, Control, Ranks, NEW o \in Object, GiveFromISR(o) PROVE Ranks'
<1> DEFINE e == <<o, "receive">>
<1>1. /\ o \notin Mutex /\ e \in Event /\ thread' = thread
      /\ \A p \in Object \ {o} : queue'[p] = queue[p]
  BY GiveFromISREffect
<1>2. k' = k \/ Roused(e) \/ Deferred(e)
  BY GiveFromISRRouses
<1>3. SameMutexes
  BY <1>1, ObjectAssumption DEF SameMutexes
<1>4. \A d \in Event \ {e} : k'.event[d] = k.event[d]
  BY <1>1, <1>2, ServedBeside DEF Typed
<1>5. Settled
  BY <1>1, <1>3, <1>4, GiveFromISRPrio, SettledBeside
<1>6. \A u \in Thread : k.state[u] = "ready" => k'.state[u] = "ready"
  BY <1>2, RousedReady DEF Deferred, Thread
<1> QED BY <1>1, <1>5, <1>6, OutsideRanks

-----------------------------------------------------------------------------
(* Taking, giving and waiting, of what is not a mutex.                     *)

\* Taking changes no priority and counts a mutex.
LEMMA TakeRun ==
  ASSUME Typed, Control, NEW t \in Thread, Take(t)
  PROVE  /\ k'.prio = k.prio
         /\ \A u \in Task : k'.held[u] = IF u = t /\ OnMutex(t) THEN k.held[u] + 1 ELSE k.held[u]
<1> DEFINE s == TakenK(t)
           e == <<On(t), "send">>
<1>1. /\ t \in Task /\ e \in Event
      /\ k' \in YieldIf(Wake(s, e).yield, Wake(s, e))
  BY TakeEffect, ThreadFacts
<1>2. s \in Sched /\ s.prio = k.prio
      /\ \A u \in Task : s.held[u] = IF u = t /\ OnMutex(t) THEN k.held[u] + 1 ELSE k.held[u]
  BY <1>1, TakenFacts DEF Typed
<1>3. Wake(s, e).yield \in BOOLEAN
  BY <1>1, <1>2, WakeFacts DEF Sched
<1>4. SamePrio(k', s)
  BY <1>1, <1>2, <1>3, WakeYield
<1> QED BY <1>2, <1>4 DEF SamePrio

\* Taking from what is not a mutex.
LEMMA TakeOtherRanks ==
  ASSUME Typed, Control, Ranks, NEW t \in Thread, Take(t), ~OnMutex(t) PROVE Ranks'
<1> DEFINE e == <<On(t), "send">>
<1>1. /\ \A o \in Object \ {On(t)} : queue'[o] = queue[o]
      /\ Return(t, TRUE) /\ k' \in Sched
  BY TakeEffect
<1>2. e \in Event /\ Roused(e)
  BY TakeRouses
<1>3. SameMutexes
  BY <1>1, ObjectAssumption DEF SameMutexes, OnMutex
<1>4. SamePrio(k', k)
  <2>1. (\A u \in Task : k'.held[u] = k.held[u]) /\ k'.prio = k.prio
    BY TakeRun
  <2> QED BY <1>1, <2>1 DEF SamePrio, Typed, Sched
<1>5. \A d \in Event \ {e} : k'.event[d] = k.event[d]
  BY <1>2, ServedBeside DEF Typed
<1>6. Settled
  <2>1. \A m \in Mutex : e # <<m, "receive">>
    OBVIOUS
  <2> HIDE DEF e
  <2> QED BY <1>3, <1>4, <1>5, <2>1, SettledBeside
<1>7. \A u \in Thread : k.state[u] = "ready" => k'.state[u] = "ready"
  BY <1>2, RousedReady DEF Thread
<1>8. PICK ok : ok = TRUE
  OBVIOUS
<1>9. Return(t, ok)
  BY <1>1, <1>8
<1> QED BY <1>6, <1>7, <1>8, <1>9, ReturnRanks

\* Giving the last mutex back restores the own priority.
LEMMA GiveRun ==
  ASSUME Typed, Control, NEW t \in Thread, Give(t), OnMutex(t) => k.held[t] >= 1
  PROVE  /\ \A u \in Task : k'.held[u] = IF u = t /\ OnMutex(t) THEN k.held[u] - 1 ELSE k.held[u]
         /\ \A u \in Task : k'.prio[u] = IF u = t /\ OnMutex(t) /\ k.held[t] = 1 THEN Base[u]
                                         ELSE k.prio[u]
<1> DEFINE s == GivenK(t)
           e == <<On(t), "receive">>
<1>1. /\ t \in Task /\ e \in Event /\ GiveYields(t) \in BOOLEAN
      /\ k' \in YieldIf(GiveYields(t), Wake(s, e))
  BY GiveEffect, ThreadFacts DEF Handed
<1>2. /\ s \in Sched
      /\ \A u \in Task : s.held[u] = IF u = t /\ OnMutex(t) THEN k.held[u] - 1 ELSE k.held[u]
      /\ \A u \in Task : s.prio[u] = IF u = t /\ OnMutex(t) /\ k.held[t] = 1 THEN Base[u]
                                     ELSE k.prio[u]
  BY <1>1, GivenFacts DEF Typed
<1>3. SamePrio(k', s)
  BY <1>1, <1>2, WakeYield
<1> QED BY <1>2, <1>3 DEF SamePrio

\* Giving to what is not a mutex.
LEMMA GiveOtherRanks ==
  ASSUME Typed, Control, Mutexes, Ranks, NEW t \in Thread, Give(t), ~OnMutex(t) PROVE Ranks'
<1> DEFINE e == <<On(t), "receive">>
<1>1. /\ \A o \in Object \ {On(t)} : queue'[o] = queue[o]
      /\ Return(t, TRUE) /\ k' \in Sched
  BY GiveEffect
<1>2. e \in Event /\ Roused(e)
  BY GiveRouses
<1>3. SameMutexes
  BY <1>1, ObjectAssumption DEF SameMutexes, OnMutex
<1>4. SamePrio(k', k)
  <2>1. (\A u \in Task : k'.held[u] = k.held[u]) /\ \A u \in Task : k'.prio[u] = k.prio[u]
    BY GiveRun
  <2> QED BY <1>1, <2>1 DEF SamePrio, Typed, Sched
<1>5. \A d \in Event \ {e} : k'.event[d] = k.event[d]
  BY <1>2, ServedBeside DEF Typed
<1>6. Settled
  <2>1. \A m \in Mutex : e # <<m, "receive">>
    BY DEF OnMutex
  <2> HIDE DEF e
  <2> QED BY <1>3, <1>4, <1>5, <2>1, SettledBeside
<1>7. \A u \in Thread : k.state[u] = "ready" => k'.state[u] = "ready"
  BY <1>2, RousedReady DEF Thread
<1>8. PICK ok : ok = TRUE
  OBVIOUS
<1>9. Return(t, ok)
  BY <1>1, <1>8
<1> QED BY <1>6, <1>7, <1>8, <1>9, ReturnRanks

\* Waiting for what is not a mutex.
LEMMA PlaceOtherRanks ==
  ASSUME Typed, Control, Ranks, NEW t \in Thread, Place(t), ~OnMutex(t) PROVE Ranks'
<1>1. /\ queue' = queue /\ k' \in Sched /\ k'.held = k.held
      /\ \A u \in Task \ {t} : k'.state[u] = k.state[u]
      /\ \A d \in Event \ {Waits(t)} : k'.event[d] = k.event[d]
      /\ \A u \in Task : k'.prio[u] = k.prio[u]
      /\ \E r : Moves(t, r)
  BY PlaceEffect
<1>2. PICK r : Moves(t, r)
  BY <1>1
<1>3. \A u \in Thread : thread'[u].todo = thread[u].todo
  BY <1>2, MovesFacts DEF Moves
<1>4. SamePrio(k', k) /\ SameMutexes
  BY <1>1 DEF SamePrio, SameMutexes, Typed, Sched
<1>5. \A m \in Mutex : Waits(t) # <<m, "receive">>
  BY DEF Waits, OnMutex
<1>6. Settled
  BY <1>1, <1>4, <1>5, SettledBeside
<1> QED BY <1>1, <1>3, <1>6, StayRanks DEF Thread

\* A thread whose mutexes and their lists stay as they are.
LEMMA LendsBeside ==
  ASSUME Typed, k' \in Sched, NEW u \in Thread, Lends(u), thread'[u].todo = thread[u].todo,
         Holds(u)' = Holds(u), k'.prio[u] = k.prio[u],
         \A m \in Holds(u) :
            /\ Receivers(m) \in Seq(Task) /\ Receivers(m)' = Receivers(m)
            /\ Receivers(m) # <<>> => k'.prio[Head(Receivers(m))] >= k.prio[Head(Receivers(m))]
  PROVE  Lends(u)'
<1>1. PICK p, n : Position(u, p, n) /\ (Nests(p) \/ Lent(u))
  BY DEF Lends
<1>2. Position(u, p, n)'
  BY <1>1, PositionSame
<1>3. ASSUME Lent(u) PROVE Lent(u)'
  <2>1. SUFFICES ASSUME NEW m \in Holds(u), k.prio[u] # Base[u]
                 PROVE  Receivers(m) # <<>> /\ k'.prio[Head(Receivers(m))] >= k.prio[u]
    BY DEF Lent
  <2>2. Receivers(m) # <<>> /\ k.prio[Head(Receivers(m))] >= k.prio[u]
    BY <1>3, <2>1 DEF Lent
  <2> DEFINE h == Head(Receivers(m))
  <2>3. h \in Task /\ u \in Task
    BY <2>1, <2>2, TailSet DEF Thread
  <2>4. k.prio[h] \in Nat /\ k'.prio[h] \in Nat /\ k.prio[u] \in Nat
    BY <2>3 DEF Typed, Sched
  <2>5. k'.prio[h] >= k.prio[h]
    BY <2>1, <2>2
  <2> QED BY <2>2, <2>4, <2>5
<1> QED BY <1>1, <1>2, <1>3 DEF Lends

\* Whoever takes a mutex runs, so he has at least the priority of the one it was promised to.
LEMMA TakenAbove ==
  ASSUME Typed, Control, Mutexes, Lists, Patient, Top, Ranks, NEW t \in Thread, Take(t),
         NEW m \in Mutex, On(t) = m
  PROVE  /\ Above(m)' /\ queue[m].holder = None /\ queue'[m].holder = t
         /\ \A o \in Mutex : Receivers(o)' = Receivers(o)
<1>1. m \in Object /\ OnMutex(t)
  BY ObjectAssumption DEF OnMutex
<1>2. k.cur = t /\ thread[t].pc = "try" /\ queue[m].count > 0 /\ k' \in Sched /\ queue'[m].holder = t
  BY <1>1, TakeEffect
<1>3. queue[m].holder = None
  BY <1>1, <1>2, MutexFacts
<1>4. path = None
  BY <1>2, AwakeRun DEF Inside
<1>5. t \in Highest(k)
  BY <1>2, <1>4 DEF Top, None
<1>6. Receivers(m) \in Seq(Task)
  BY <1>1, WaiterFacts
<1>7. ASSUME NEW u \in ToSet(Receivers(m)) PROVE k.prio[t] >= Base[u]
  <2>1. u \in Task /\ Receivers(m) # <<>>
    BY <1>6, <1>7, SeqFacts
  <2>2. PICK w \in Thread : k.state[w] = "ready" /\ k.prio[w] >= Base[u]
    BY <1>1, <1>3, <1>7, <2>1 DEF Ranks, Promised
  <2>3. k.prio[w] <= k.prio[t]
    BY <1>5, <2>2 DEF Highest, Ready, Thread
  <2>4. k.prio[w] \in Nat /\ k.prio[t] \in Nat /\ Base[u] \in Nat
    BY <2>1, TaskAssumption DEF Typed, Sched, Thread
  <2> QED BY <2>2, <2>3, <2>4
<1>8. k'.prio = k.prio
  BY TakeRun
<1>9. ASSUME NEW o \in Mutex PROVE Receivers(o)' = Receivers(o)
  <2> DEFINE e == <<m, "send">>
  <2>1. e \in Event /\ Roused(e)
    BY TakeRouses
  <2>2. <<o, "receive">> \in Event \ {e}
    BY ObjectAssumption DEF Event
  <2> HIDE DEF e
  <2>3. k'.event[<<o, "receive">>] = k.event[<<o, "receive">>]
    BY <2>1, <2>2, ServedBeside DEF Typed
  <2> QED BY <2>3 DEF Receivers
<1>10. Receivers(m)' = Receivers(m)
  BY <1>9
<1>11. Above(m)'
  BY <1>2, <1>7, <1>8, <1>10 DEF Above
<1> QED BY <1>2, <1>3, <1>9, <1>11

\* With its first mutex a task has its own priority; with a second one it nests.
LEMMA TakenLends ==
  ASSUME Typed, Control, Mutexes, Ranks, NEW t \in Thread, Take(t),
         NEW m \in Mutex, On(t) = m
  PROVE  Lends(t)' /\ \A u \in Thread \ {t} : Holds(u)' = Holds(u)
<1>1. /\ m \in Object /\ OnMutex(t) /\ t \in Task /\ t # None
  BY ObjectAssumption, TaskAssumption DEF OnMutex, Thread
<1>2. /\ Op(t).do = "take" /\ k' \in Sched /\ queue'[m].holder = t /\ queue[m].count > 0
      /\ \A o \in Object \ {m} : queue'[o] = queue[o]
      /\ Return(t, TRUE)
  BY <1>1, TakeEffect
<1>3. queue[m].holder = None
  BY <1>1, <1>2, MutexFacts
<1>4. Holds(t)' = Holds(t) \cup {m}
  BY <1>1, <1>2, ObjectAssumption DEF Holds
<1>5. \A u \in Thread \ {t} : Holds(u)' = Holds(u)
  <2>1. \A u \in Thread : u # None
    BY TaskAssumption DEF Thread
  <2> QED BY <1>1, <1>2, <1>3, <2>1, ObjectAssumption DEF Holds
<1>6. Lends(t) /\ Counted(t) /\ Floors
  BY DEF Ranks, Mutexes
<1>7. PICK p, n : Position(t, p, n) /\ (Nests(p) \/ Lent(t))
  BY <1>6 DEF Lends
<1>8. {o \in Mutex : Has(p, o, n + 1)} = Holds(t) \cup {m} /\ m \notin Holds(t)
  BY <1>1, <1>2, <1>7, NextHolds
<1>9. PICK ok : ok = TRUE
  OBVIOUS
<1>10. Return(t, ok)
  BY <1>2, <1>9
<1>11. PICK q, i : Position(t, q, i)' /\ (q = p \/ Holds(t)' = {})
  BY <1>4, <1>7, <1>8, <1>9, <1>10, ReturnPosition
<1>12. Position(t, p, i)'
  BY <1>4, <1>11
<1>13. CASE Holds(t) = {}
  <2>1. k.held[t] = 0
    BY <1>6, <1>13, HeldFacts
  <2>2. k.prio[t] = Base[t]
    BY <1>1, <1>6, <2>1 DEF Floors
  <2>3. k'.prio[t] = Base[t]
    BY <2>2, TakeRun
  <2>4. Lent(t)'
    BY <2>3 DEF Lent
  <2> QED BY <1>5, <1>12, <2>4 DEF Lends
<1>14. CASE Holds(t) # {}
  <2>1. PICK o \in Holds(t) : o \in Mutex /\ o # m
    BY <1>8, <1>14 DEF Holds
  <2>2. Has(p, o, n + 1) /\ Has(p, m, n + 1)
    BY <1>8, <2>1
  <2>3. Proper(p) /\ n \in 1..Len(p) /\ Len(p) \in Nat
    BY <1>7, PositionFacts
  <2>4. n # Len(p)
    BY <2>2, <2>3 DEF Proper
  <2>5. n + 1 \in 1..Len(p)
    BY <2>3, <2>4
  <2>6. Nests(p)
    BY <2>1, <2>2, <2>5 DEF Nests
  <2> QED BY <1>5, <1>12, <2>6 DEF Lends
<1> QED BY <1>13, <1>14

\* Take of a mutex keeps Ranks.
LEMMA TakeMutexRanks ==
  ASSUME Typed, Control, Mutexes, Lists, Patient, Top, Ranks, NEW t \in Thread, Take(t),
         NEW m \in Mutex, On(t) = m
  PROVE  Ranks'
<1>1. /\ Above(m)' /\ queue[m].holder = None /\ queue'[m].holder = t
      /\ \A o \in Mutex : Receivers(o)' = Receivers(o)
  BY TakenAbove
<1>2. Lends(t)' /\ \A u \in Thread \ {t} : Holds(u)' = Holds(u)
  BY TakenLends
<1>3. /\ m \in Object /\ OnMutex(t) /\ t \in Task /\ t # None
  BY ObjectAssumption, TaskAssumption DEF OnMutex, Thread
<1>4. /\ \A o \in Object \ {m} : queue'[o] = queue[o]
      /\ Return(t, TRUE) /\ k' \in Sched
  BY TakeEffect
<1>5. k'.prio = k.prio /\ \A u \in Task : k'.held[u] = IF u = t THEN k.held[u] + 1 ELSE k.held[u]
  BY <1>3, TakeRun
<1>6. Floors'
  <2>1. k.held[t] \in Nat
    BY <1>3 DEF Typed, Sched
  <2>2. \A u \in Task : k'.held[u] = 0 => k.held[u] = 0
    BY <1>5, <2>1
  <2> QED BY <1>5, <2>2 DEF Ranks, Floors
<1>7. \A u \in Thread \ {t} : thread'[u] = thread[u]
  BY <1>4, ReturnOthers
<1>8. ASSUME NEW o \in Mutex PROVE Queued(o)' /\ Promised(o)' /\ Above(o)'
  <2>1. Receivers(o)' = Receivers(o) /\ Queued(o) /\ Promised(o) /\ Above(o)
    BY <1>1 DEF Ranks
  <2>2. Queued(o)'
    BY <1>5, <2>1 DEF Queued
  <2>3. CASE o = m
    BY <1>1, <1>3, <2>2, <2>3 DEF Promised
  <2>4. CASE o # m
    <3>1. queue'[o] = queue[o]
      BY <1>4, <2>4, ObjectAssumption
    <3>2. Above(o)'
      BY <1>5, <2>1, <3>1 DEF Above
    <3>3. ASSUME queue[o].holder = None, Receivers(o) # <<>>
          PROVE  \E w \in Thread : /\ k'.state[w] = "ready" /\ Takes(Op(w)', o)
                                   /\ \A u \in ToSet(Receivers(o)) : k.prio[w] >= Base[u]
      <4>1. PICK w \in Thread : /\ k.state[w] = "ready" /\ Takes(Op(w), o)
                                /\ \A u \in ToSet(Receivers(o)) : k.prio[w] >= Base[u]
        BY <2>1, <3>3 DEF Promised
      <4>2. w # t
        BY <2>4, <4>1 DEF Takes, On
      <4>3. Op(w)' = Op(w)
        BY <1>7, <4>2, SameCall
      <4>4. k'.state[w] = "ready"
        BY <4>1, TakeRouses, RousedReady DEF Thread
      <4> QED BY <4>1, <4>3, <4>4
    <3>4. Promised(o)'
      BY <1>5, <2>1, <3>1, <3>3 DEF Promised, Takes
    <3> QED BY <2>2, <3>2, <3>4
  <2> QED BY <2>3, <2>4
<1>9. ASSUME NEW u \in Thread PROVE Lends(u)'
  <2>1. CASE u = t
    BY <1>2, <2>1
  <2>2. CASE u # t
    <3>1. /\ Lends(u) /\ thread'[u].todo = thread[u].todo /\ Holds(u)' = Holds(u)
          /\ k'.prio[u] = k.prio[u]
      BY <1>2, <1>5, <1>7, <2>2 DEF Ranks
    <3>2. ASSUME NEW o \in Holds(u)
          PROVE  /\ Receivers(o) \in Seq(Task) /\ Receivers(o)' = Receivers(o)
                 /\ Receivers(o) # <<>> => k'.prio[Head(Receivers(o))] >= k.prio[Head(Receivers(o))]
      <4>1. o \in Mutex /\ Receivers(o) \in Seq(Task)
        BY WaiterFacts DEF Holds
      <4>2. ASSUME Receivers(o) # <<>> PROVE k.prio[Head(Receivers(o))] \in Nat
        BY <4>1, <4>2, TailSet DEF Typed, Sched
      <4> QED BY <1>1, <1>5, <4>1, <4>2
    <3> QED BY <1>4, <3>1, <3>2, LendsBeside
  <2> QED BY <2>1, <2>2
<1> QED BY <1>6, <1>8, <1>9 DEF Ranks

\* What giving a mutex does: its first waiter is ready, an inherited priority goes with the last one.
LEMMA GivenFrom ==
  ASSUME Typed, Control, Mutexes, Lists, Patient, Ranks, NEW t \in Thread, Give(t),
         NEW m \in Mutex, On(t) = m
  PROVE  /\ m \in Object /\ t \in Task /\ k.cur = t /\ k.state[t] = "ready" /\ OnMutex(t)
         /\ Op(t).do = "give" /\ k' \in Sched /\ Return(t, TRUE)
         /\ queue[m].holder = t /\ queue'[m].holder = None /\ m \in Holds(t)
         /\ \A o \in Object \ {m} : queue'[o] = queue[o]
         /\ \A u \in Thread \ {t} : thread'[u] = thread[u] /\ Holds(u)' = Holds(u)
         /\ Holds(t)' = Holds(t) \ {m}
         /\ \A o \in Mutex \ {m} : Receivers(o)' = Receivers(o)
         /\ Roused(<<m, "receive">>) /\ <<m, "receive">> \in Event
         /\ k.held[t] >= 1 /\ k'.held[t] = k.held[t] - 1
         /\ k'.prio[t] = IF k.held[t] = 1 THEN Base[t] ELSE k.prio[t]
         /\ \A u \in Task \ {t} : k'.prio[u] = k.prio[u] /\ k'.held[u] = k.held[u]
<1>1. m \in Object /\ OnMutex(t) /\ t \in Task /\ t # None
  BY ObjectAssumption, TaskAssumption DEF OnMutex, Thread
<1>2. Op(t).do = "give"
  BY DEF Give
<1>3. queue[m].holder = t /\ m \in Holds(t) /\ k.held[t] >= 1
  BY <1>1, <1>2, GiverHolds
<1>4. /\ k.cur = t /\ thread[t].pc = "try" /\ k' \in Sched /\ Return(t, TRUE)
      /\ queue'[m].holder = None /\ \A o \in Object \ {m} : queue'[o] = queue[o]
  BY <1>1, <1>3, GiveEffect
<1>5. k.state[t] = "ready"
  BY <1>4, AwakeRun DEF Inside
<1>6. \A u \in Thread \ {t} : thread'[u] = thread[u]
  BY <1>4, ReturnOthers
<1>7. Holds(t)' = Holds(t) \ {m}
  BY <1>1, <1>4, ObjectAssumption DEF Holds
<1>8. \A u \in Thread \ {t} : Holds(u)' = Holds(u)
  <2>1. \A u \in Thread : u # None
    BY TaskAssumption DEF Thread
  <2> QED BY <1>3, <1>4, <2>1, ObjectAssumption DEF Holds
<1>9. Roused(<<m, "receive">>) /\ <<m, "receive">> \in Event
  BY GiveRouses
<1>10. ASSUME NEW o \in Mutex \ {m} PROVE Receivers(o)' = Receivers(o)
  <2> DEFINE e == <<m, "receive">>
  <2>1. <<o, "receive">> \in Event \ {e}
    BY <1>10, ObjectAssumption DEF Event
  <2>2. e \in Event /\ Roused(e)
    BY <1>9
  <2> HIDE DEF e
  <2>3. k'.event[<<o, "receive">>] = k.event[<<o, "receive">>]
    BY <2>1, <2>2, ServedBeside DEF Typed
  <2> QED BY <2>3 DEF Receivers
<1>11. /\ \A u \in Task : k'.held[u] = IF u = t THEN k.held[u] - 1 ELSE k.held[u]
       /\ \A u \in Task : k'.prio[u] = IF u = t /\ k.held[t] = 1 THEN Base[u] ELSE k.prio[u]
  BY <1>1, <1>3, GiveRun
<1>12. /\ k'.held[t] = k.held[t] - 1
       /\ k'.prio[t] = IF k.held[t] = 1 THEN Base[t] ELSE k.prio[t]
       /\ \A u \in Task \ {t} : k'.prio[u] = k.prio[u] /\ k'.held[u] = k.held[u]
  BY <1>1, <1>11
<1> QED BY <1>1, <1>2, <1>3, <1>4, <1>5, <1>6, <1>7, <1>8, <1>9, <1>10, <1>12

\* Who waits for a mutex does not run, and what he waits for does not touch his priority.
LEMMA GivenWaiters ==
  ASSUME Typed, Control, Mutexes, Lists, Patient, Ranks, NEW t \in Thread, Give(t),
         NEW m \in Mutex, On(t) = m, NEW o \in Mutex
  PROVE  /\ Receivers(o) \in Seq(Task)
         /\ \A u \in ToSet(Receivers(o)) : u # t /\ k'.prio[u] = k.prio[u] /\ u \in Task
         /\ Receivers(o) # <<>> => Head(Receivers(o)) \in ToSet(Receivers(o))
<1>1. Receivers(o) \in Seq(Task) /\ \A u \in ToSet(Receivers(o)) : k.state[u] = "suspended"
  BY WaiterFacts
<1>2. k.state[t] = "ready" /\ \A u \in Task \ {t} : k'.prio[u] = k.prio[u]
  BY GivenFrom
<1>3. ToSet(Receivers(o)) \subseteq Task
  BY <1>1, SeqFacts
<1> QED BY <1>1, <1>2, <1>3, TailSet

\* The first one leaves the list.
LEMMA GivenReceivers ==
  ASSUME Typed, NEW m \in Mutex, <<m, "receive">> \in Event, Roused(<<m, "receive">>)
  PROVE  Receivers(m)' = IF Receivers(m) = <<>> THEN <<>> ELSE Tail(Receivers(m))
<1> DEFINE e == <<m, "receive">>
<1>1. k.event \in [Event -> Seq(Task)] /\ e \in Event
  BY DEF Typed, Sched
<1>2. CASE k.event[e] = <<>>
  BY <1>2 DEF Receivers, Roused
<1>3. CASE k.event[e] # <<>>
  <2>1. k'.event = [k.event EXCEPT ![e] = Tail(@)]
    BY <1>3 DEF Roused, Served
  <2>2. k'.event[e] = Tail(k.event[e])
    BY <1>1, <2>1
  <2> QED BY <1>3, <2>2 DEF Receivers
<1> QED BY <1>2, <1>3

\* The mutex is promised to the one that was woken: he stood first.
LEMMA GivenPromised ==
  ASSUME Typed, Control, Mutexes, Lists, Patient, Ranks, NEW t \in Thread, Give(t),
         NEW m \in Mutex, On(t) = m
  PROVE  Queued(m)' /\ Promised(m)' /\ Above(m)'
<1> DEFINE w == Receivers(m)
<1>1. /\ queue'[m].holder = None /\ <<m, "receive">> \in Event /\ Roused(<<m, "receive">>)
      /\ \A u \in Thread \ {t} : thread'[u] = thread[u]
  BY ZenonT(40), GivenFrom
<1>2. w \in Seq(Task) /\ \A u \in ToSet(w) : u # t /\ k'.prio[u] = k.prio[u] /\ u \in Task
  BY GivenWaiters
<1>3. Receivers(m)' = IF w = <<>> THEN <<>> ELSE Tail(w)
  BY <1>1, GivenReceivers
<1>4. Above(m)'
  BY <1>1 DEF Above
<1>5. CASE w = <<>>
  BY <1>3, <1>4, <1>5 DEF Queued, Promised
<1>6. CASE w # <<>>
  <2>1. /\ Len(w) \in Nat /\ Tail(w) \in Seq(Task) /\ Len(Tail(w)) = Len(w) - 1
        /\ \A i \in 1..Len(w) - 1 : Tail(w)[i] = w[i + 1]
        /\ Head(w) = w[1] /\ Head(w) \in ToSet(w) /\ ToSet(Tail(w)) \subseteq ToSet(w)
    BY <1>2, <1>6, TailSet, SeqFacts
  <2>2. Receivers(m)' = Tail(w)
    BY <1>3, <1>6
  <2>3. \A i, j \in 1..Len(w) : i < j => k.prio[w[i]] >= Base[w[j]]
    BY DEF Ranks, Queued
  <2>4. \A i \in 1..Len(w) : w[i] \in ToSet(w)
    BY <1>2, SeqFacts
  <2>5. \A i, j \in 1..Len(Tail(w)) : i < j => k'.prio[Tail(w)[i]] >= Base[Tail(w)[j]]
    <3>1. SUFFICES ASSUME NEW i \in 1..Len(w) - 1, NEW j \in 1..Len(w) - 1, i < j
                   PROVE  k'.prio[Tail(w)[i]] >= Base[Tail(w)[j]]
      BY <2>1
    <3>2. i + 1 \in 1..Len(w) /\ j + 1 \in 1..Len(w) /\ i + 1 < j + 1
      BY <2>1, <3>1
    <3>3. k.prio[w[i + 1]] >= Base[w[j + 1]] /\ k'.prio[w[i + 1]] = k.prio[w[i + 1]]
      BY <1>2, <2>3, <2>4, <3>2
    <3> QED BY <2>1, <3>3
  <2>6. Queued(m)'
    BY <2>2, <2>5 DEF Queued
  <2>7. PICK h : h = Head(w)
    OBVIOUS
  <2>8. h \in Thread /\ Takes(Op(h), m) /\ h # t /\ h \in Task /\ k'.prio[h] = k.prio[h]
    BY <1>2, <2>1, <2>7, WaiterFacts
  <2>9. Op(h)' = Op(h)
    BY <1>1, <2>8, SameCall
  <2>10. k'.state[h] = "ready"
    BY <1>1, <1>6, <2>7, <2>8 DEF Roused, Receivers
  <2>11. \A u \in ToSet(Tail(w)) : k'.prio[h] >= Base[u]
    <3>1. SUFFICES ASSUME NEW u \in ToSet(Tail(w)) PROVE k'.prio[h] >= Base[u]
      OBVIOUS
    <3>2. \E i \in 1..Len(Tail(w)) : Tail(w)[i] = u
      <4>1. PICK v \in Seq(Task) : v = Tail(w)
        BY <2>1
      <4> QED BY <3>1, <4>1, SeqFacts
    <3>3. PICK i \in 1..Len(w) - 1 : Tail(w)[i] = u
      BY <2>1, <3>2
    <3>4. u = w[i + 1] /\ 1 \in 1..Len(w) /\ i + 1 \in 1..Len(w) /\ 1 < i + 1
      BY <2>1, <3>3
    <3> QED BY <2>1, <2>3, <2>7, <2>8, <3>4
  <2>12. Promised(m)'
    BY <2>2, <2>8, <2>9, <2>10, <2>11 DEF Promised, Takes
  <2> QED BY <1>4, <2>6, <2>12
<1> QED BY <1>5, <1>6

\* The other mutexes: a holder of one keeps his priority.
LEMMA GivenBeside ==
  ASSUME Typed, Control, Mutexes, Lists, Patient, Ranks, NEW t \in Thread, Give(t),
         NEW m \in Mutex, On(t) = m, NEW o \in Mutex, o # m
  PROVE  Queued(o)' /\ Promised(o)' /\ Above(o)'
<1>1. /\ \A p \in Object \ {m} : queue'[p] = queue[p]
      /\ \A u \in Thread \ {t} : thread'[u] = thread[u]
      /\ Op(t).do = "give" /\ t \in Task /\ m \in Holds(t) /\ Receivers(o)' = Receivers(o)
      /\ k'.prio[t] = IF k.held[t] = 1 THEN Base[t] ELSE k.prio[t]
      /\ \A u \in Task \ {t} : k'.prio[u] = k.prio[u]
      /\ Roused(<<m, "receive">>)
  <2>1. /\ \A p \in Object \ {m} : queue'[p] = queue[p]
        /\ \A u \in Thread \ {t} : thread'[u] = thread[u]
        /\ Op(t).do = "give" /\ t \in Task /\ m \in Holds(t)
        /\ \A p \in Mutex \ {m} : Receivers(p)' = Receivers(p)
    BY GivenFrom
  <2>2. /\ k'.prio[t] = IF k.held[t] = 1 THEN Base[t] ELSE k.prio[t]
        /\ \A u \in Task \ {t} : k'.prio[u] = k.prio[u]
        /\ Roused(<<m, "receive">>)
    BY ZenonT(40), GivenFrom
  <2> QED BY <2>1, <2>2
<1>2. Receivers(o) \in Seq(Task) /\ \A u \in ToSet(Receivers(o)) : k'.prio[u] = k.prio[u]
  BY GivenWaiters
<1>3. Queued(o) /\ Promised(o) /\ Above(o)
  BY DEF Ranks
<1>4. Queued(o)'
  <2>1. \A i \in 1..Len(Receivers(o)) : k'.prio[Receivers(o)[i]] = k.prio[Receivers(o)[i]]
    BY <1>2, SeqFacts
  <2> QED BY <1>1, <1>3, <2>1 DEF Queued
<1>5. queue'[o] = queue[o]
  BY <1>1, ObjectAssumption
<1>6. ASSUME queue[o].holder # None PROVE k'.prio[queue[o].holder] = k.prio[queue[o].holder]
  <2>1. queue[o].holder \in Task
    BY <1>6, MutexFacts
  <2>2. CASE queue[o].holder # t
    BY <1>1, <2>1, <2>2
  <2>3. CASE queue[o].holder = t
    <3>1. o \in Holds(t) /\ Counted(t)
      BY <2>3 DEF Holds, Mutexes
    <3>2. k.held[t] # 1
      BY <1>1, <3>1, HeldFacts
    <3> QED BY <1>1, <2>3, <3>2
  <2> QED BY <2>2, <2>3
<1>7. Above(o)'
  BY <1>1, <1>3, <1>5, <1>6 DEF Above
<1>8. ASSUME queue[o].holder = None, Receivers(o) # <<>>
      PROVE  \E w \in Thread : /\ k'.state[w] = "ready" /\ Takes(Op(w)', o)
                               /\ \A u \in ToSet(Receivers(o)) : k'.prio[w] >= Base[u]
  <2>1. PICK w \in Thread : /\ k.state[w] = "ready" /\ Takes(Op(w), o)
                            /\ \A u \in ToSet(Receivers(o)) : k.prio[w] >= Base[u]
    BY <1>3, <1>8 DEF Promised
  <2>2. w # t
    BY <1>1, <2>1 DEF Takes
  <2>3. Op(w)' = Op(w)
    BY <1>1, <2>2, SameCall
  <2>4. k'.state[w] = "ready" /\ k'.prio[w] = k.prio[w]
    BY <1>1, <2>1, <2>2, RousedReady DEF Thread
  <2> QED BY <2>1, <2>3, <2>4
<1>9. Promised(o)'
  BY <1>1, <1>5, <1>8 DEF Promised, Takes
<1> QED BY <1>4, <1>7, <1>9

\* With one mutex left there is nothing more to give back, with others the thread nests.
LEMMA GivenLends ==
  ASSUME Typed, Control, Mutexes, Lists, Patient, Ranks, NEW t \in Thread, Give(t),
         NEW m \in Mutex, On(t) = m
  PROVE  Lends(t)'
<1>1. /\ Op(t).do = "give" /\ Return(t, TRUE) /\ m \in Holds(t) /\ Holds(t)' = Holds(t) \ {m}
      /\ OnMutex(t)
  BY GivenFrom
<1>2. PICK p, n : Position(t, p, n)
  BY DEF Mutexes
<1>3. {o \in Mutex : Has(p, o, n + 1)} = Holds(t) \ {m}
  BY <1>1, <1>2, NextHolds
<1>4. PICK ok : ok = TRUE
  OBVIOUS
<1>5. Return(t, ok)
  BY <1>1, <1>4
<1>6. PICK q, i : Position(t, q, i)' /\ (q = p \/ Holds(t)' = {})
  BY ZenonT(40), <1>1, <1>2, <1>3, <1>4, <1>5, ReturnPosition
<1>7. CASE Holds(t)' = {}
  <2>1. Lent(t)'
    BY <1>7 DEF Lent
  <2> QED BY <1>6, <2>1 DEF Lends
<1>8. CASE Holds(t)' # {}
  <2>1. PICK o \in Holds(t) : o # m
    BY <1>1, <1>8
  <2>2. n \in 1..Len(p) /\ o \in Mutex /\ Has(p, o, n) /\ Has(p, m, n)
    BY <1>1, <1>2, <2>1 DEF Position
  <2>3. Nests(p)
    BY <2>1, <2>2 DEF Nests
  <2> QED BY <1>6, <1>8, <2>3 DEF Lends
<1> QED BY <1>7, <1>8

\* Give of a mutex keeps Ranks.
LEMMA GiveMutexRanks ==
  ASSUME Typed, Control, Mutexes, Lists, Patient, Ranks, NEW t \in Thread, Give(t),
         NEW m \in Mutex, On(t) = m
  PROVE  Ranks'
<1>1. /\ t \in Task /\ k' \in Sched /\ queue[m].holder = t
      /\ \A u \in Thread \ {t} : thread'[u] = thread[u] /\ Holds(u)' = Holds(u)
      /\ \A o \in Mutex \ {m} : Receivers(o)' = Receivers(o)
      /\ k.held[t] >= 1 /\ k'.held[t] = k.held[t] - 1
      /\ k'.prio[t] = IF k.held[t] = 1 THEN Base[t] ELSE k.prio[t]
      /\ \A u \in Task \ {t} : k'.prio[u] = k.prio[u] /\ k'.held[u] = k.held[u]
  BY ZenonT(40), GivenFrom
<1>2. Floors'
  <2>1. k.held[t] \in Nat /\ Base[t] \in Nat
    BY <1>1, TaskAssumption DEF Typed, Sched
  <2>2. Floors
    BY DEF Ranks
  <2>3. /\ k'.prio[t] >= Base[t] /\ \E u \in Task : k'.prio[t] <= Base[u]
        /\ k'.held[t] = 0 => k'.prio[t] = Base[t]
    BY <1>1, <2>1, <2>2 DEF Floors
  <2>4. ASSUME NEW u \in Task
        PROVE  /\ k'.prio[u] >= Base[u] /\ \E v \in Task : k'.prio[u] <= Base[v]
               /\ k'.held[u] = 0 => k'.prio[u] = Base[u]
    <3>1. CASE u = t
      BY <2>3, <3>1
    <3>2. CASE u # t
      <4>1. k'.prio[u] = k.prio[u] /\ k'.held[u] = k.held[u]
        BY <1>1, <3>2
      <4> QED BY <2>2, <4>1 DEF Floors
    <3> QED BY <3>1, <3>2
  <2> QED BY <2>4 DEF Floors
<1>3. ASSUME NEW o \in Mutex PROVE Queued(o)' /\ Promised(o)' /\ Above(o)'
  BY GivenPromised, GivenBeside
<1>4. ASSUME NEW u \in Thread PROVE Lends(u)'
  <2>1. CASE u = t
    BY <2>1, GivenLends
  <2>2. CASE u # t
    <3>1. /\ Lends(u) /\ thread'[u].todo = thread[u].todo /\ Holds(u)' = Holds(u)
          /\ k'.prio[u] = k.prio[u]
      BY <1>1, <2>2 DEF Ranks, Thread
    <3>2. ASSUME NEW o \in Holds(u)
          PROVE  /\ Receivers(o) \in Seq(Task) /\ Receivers(o)' = Receivers(o)
                 /\ Receivers(o) # <<>> => k'.prio[Head(Receivers(o))] >= k.prio[Head(Receivers(o))]
      <4>1. o \in Mutex /\ o # m
        BY <1>1, <2>2 DEF Holds
      <4>2. /\ Receivers(o) \in Seq(Task)
            /\ \A v \in ToSet(Receivers(o)) : k'.prio[v] = k.prio[v] /\ v \in Task
            /\ Receivers(o) # <<>> => Head(Receivers(o)) \in ToSet(Receivers(o))
        BY <4>1, GivenWaiters
      <4>3. \A v \in Task : k.prio[v] \in Nat
        BY DEF Typed, Sched
      <4> QED BY <1>1, <4>1, <4>2, <4>3
    <3> QED BY <1>1, <3>1, <3>2, LendsBeside
  <2> QED BY <2>1, <2>2
<1> QED BY <1>2, <1>3, <1>4 DEF Ranks

\* What a thread that waits for a mutex does: it lends its priority and gets in line.
LEMMA PlacedFrom ==
  ASSUME Typed, Control, Mutexes, NEW t \in Thread, Place(t), NEW m \in Mutex, On(t) = m,
         NEW h, h = queue[m].holder
  PROVE  /\ t \in Task /\ h \in Thread /\ h \in Task /\ h # t /\ Takes(Op(t), m)
         /\ m \in Holds(h) /\ queue' = queue /\ k' \in Sched /\ k'.held = k.held
         /\ \A u \in Task \ {t} : k'.state[u] = k.state[u]
         /\ \A o \in Mutex \ {m} : Receivers(o)' = Receivers(o)
         /\ \E i : Behind(Receivers(m), k'.prio, t, i) /\ Receivers(m)' = InsertAt(Receivers(m), i, t)
         /\ \A u \in Task : k'.prio[u] = IF u = h /\ k.prio[h] < k.prio[t] THEN k.prio[t] ELSE k.prio[u]
         /\ \A u \in Thread : thread'[u].todo = thread[u].todo
<1>1. OnMutex(t) /\ thread[t].pc = "place" /\ Op(t).do # "delay" /\ t \in Task
  BY DEF OnMutex, Place, At, Thread
<1>2. h \in Thread /\ h \in Task /\ Op(t).do = "take"
  BY <1>1, PlaceHeld
<1>3. PICK p, n : Position(t, p, n)
  BY DEF Mutexes
<1>4. m \notin Holds(t) /\ m \in Holds(h)
  BY <1>1, <1>2, <1>3, NextHolds DEF Holds
<1>5. Waits(t) = <<m, "receive">>
  BY <1>2 DEF Waits
<1> DEFINE e == <<m, "receive">>
<1>6. /\ queue' = queue /\ k' \in Sched /\ k'.held = k.held /\ e \in Event
      /\ \A u \in Task \ {t} : k'.state[u] = k.state[u]
      /\ \A d \in Event \ {e} : k'.event[d] = k.event[d]
      /\ \E i : Behind(k.event[e], k'.prio, t, i) /\ k'.event[e] = InsertAt(k.event[e], i, t)
      /\ \A u \in Task : k'.prio[u] = IF u = h /\ k.prio[h] < k.prio[t] THEN k.prio[t] ELSE k.prio[u]
      /\ \E r : Moves(t, r)
  <2>1. queue[On(t)].holder \in Task
    BY <1>2
  <2>2. /\ queue' = queue /\ k' \in Sched /\ k'.held = k.held /\ e \in Event
        /\ \A u \in Task \ {t} : k'.state[u] = k.state[u]
        /\ \A d \in Event \ {e} : k'.event[d] = k.event[d]
        /\ \E i : Behind(k.event[e], k'.prio, t, i) /\ k'.event[e] = InsertAt(k.event[e], i, t)
        /\ \E r : Moves(t, r)
    BY <1>5, <2>1, PlaceEffect
  <2>3. \A u \in Task : k'.prio[u] = IF OnMutex(t) /\ u = queue[On(t)].holder /\ k.prio[queue[On(t)].holder] < k.prio[t]
                                     THEN k.prio[t] ELSE k.prio[u]
    BY <2>1, PlaceEffect
  <2> QED BY <1>1, <2>2, <2>3
<1>7. \A u \in Thread : thread'[u].todo = thread[u].todo
  <2>1. PICK r : Moves(t, r)
    BY <1>6
  <2> QED BY <2>1, MovesFacts DEF Moves
<1>8. \A o \in Mutex \ {m} : Receivers(o)' = Receivers(o)
  BY <1>6, ObjectAssumption DEF Receivers, Event
<1>9. \E i : Behind(Receivers(m), k'.prio, t, i) /\ Receivers(m)' = InsertAt(Receivers(m), i, t)
  BY <1>6 DEF Receivers
<1>10. h # t /\ Takes(Op(t), m)
  BY <1>2, <1>4 DEF Takes, On
<1> HIDE DEF e
<1> QED BY <1>1, <1>2, <1>4, <1>6, <1>7, <1>8, <1>9, <1>10

\* Priorities only rise when a thread waits.
LEMMA PlacedRise ==
  ASSUME Typed, Control, Mutexes, NEW t \in Thread, Place(t), NEW m \in Mutex, On(t) = m,
         NEW h, h = queue[m].holder
  PROVE  /\ \A u \in Task : /\ k.prio[u] \in Nat /\ k'.prio[u] \in Nat /\ Base[u] \in Nat
                            /\ k'.prio[u] >= k.prio[u]
         /\ k'.prio[t] = k.prio[t] /\ k'.prio[h] >= k.prio[t]
<1>1. /\ t \in Task /\ h \in Task /\ h # t /\ k' \in Sched
      /\ \A u \in Task : k'.prio[u] = IF u = h /\ k.prio[h] < k.prio[t] THEN k.prio[t] ELSE k.prio[u]
  BY PlacedFrom
<1>2. \A u \in Task : k.prio[u] \in Nat /\ k'.prio[u] \in Nat /\ Base[u] \in Nat
  BY <1>1, TaskAssumption DEF Typed, Sched
<1> QED BY <1>1, <1>2

\* In line, nobody stands behind a lower priority than his own.
LEMMA PlacedQueued ==
  ASSUME Typed, Control, Mutexes, Lists, Patient, Ranks, NEW t \in Thread, Place(t),
         NEW m \in Mutex, On(t) = m
  PROVE  Queued(m)' /\ Above(m)'
<1> DEFINE w == Receivers(m)
<1>1. PICK h : h = queue[m].holder
  OBVIOUS
<1>2. /\ t \in Task /\ h \in Task /\ h # None /\ queue' = queue
      /\ \E i : Behind(w, k'.prio, t, i) /\ Receivers(m)' = InsertAt(w, i, t)
  BY <1>1, PlacedFrom, TaskAssumption
<1>3. /\ \A u \in Task : /\ k.prio[u] \in Nat /\ k'.prio[u] \in Nat /\ Base[u] \in Nat
                         /\ k'.prio[u] >= k.prio[u]
      /\ k'.prio[t] = k.prio[t] /\ k'.prio[h] >= k.prio[t]
  BY <1>1, PlacedRise
<1>4. Floors /\ Queued(m) /\ Above(m) /\ w \in Seq(Task)
  BY WaiterFacts DEF Ranks
<1>5. PICK i : Behind(w, k'.prio, t, i) /\ Receivers(m)' = InsertAt(w, i, t)
  BY <1>2
<1>6. PICK v : v = InsertAt(w, i, t)
  OBVIOUS
<1>7. i \in 1..Len(w) + 1 /\ Len(w) \in Nat /\ \A j \in 1..Len(w) : w[j] \in Task
  BY <1>4, <1>5, SeqFacts DEF Behind
<1>8. /\ Len(v) = Len(w) + 1 /\ ToSet(v) = ToSet(w) \cup {t}
      /\ \A j \in 1..Len(w) + 1 : v[j] = IF j < i THEN w[j] ELSE IF j = i THEN t ELSE w[j - 1]
  <2> DEFINE r == InsertAt(w, i, t)
  <2>1. /\ Len(r) = Len(w) + 1 /\ ToSet(r) = ToSet(w) \cup {t}
        /\ \A j \in 1..Len(w) + 1 : r[j] = IF j < i THEN w[j] ELSE IF j = i THEN t ELSE w[j - 1]
    BY <1>2, <1>4, <1>7, InsertSet
  <2> QED BY <1>6, <2>1
<1>9. k.prio[t] >= Base[t]
  BY <1>2, <1>4 DEF Floors
<1>10. \A a, b \in 1..Len(w) : a < b => k'.prio[w[a]] >= Base[w[b]]
  <2>1. \A a, b \in 1..Len(w) : a < b => k.prio[w[a]] >= Base[w[b]]
    BY <1>4 DEF Queued
  <2>2. ASSUME NEW a \in 1..Len(w), NEW b \in 1..Len(w), a < b PROVE k'.prio[w[a]] >= Base[w[b]]
    <3>1. k.prio[w[a]] >= Base[w[b]] /\ w[a] \in Task /\ w[b] \in Task
      BY <1>7, <2>1, <2>2
    <3>2. k.prio[w[a]] \in Nat /\ k'.prio[w[a]] \in Nat /\ Base[w[b]] \in Nat /\ k'.prio[w[a]] >= k.prio[w[a]]
      BY <1>3, <3>1
    <3> QED BY <3>1, <3>2
  <2> QED BY <2>2
<1>11. ASSUME NEW a \in 1..Len(w) + 1, NEW b \in 1..Len(w) + 1, a < b
       PROVE  k'.prio[v[a]] >= Base[v[b]]
  <2>1. CASE b < i
    BY <1>7, <1>8, <1>10, <1>11, <2>1
  <2>2. CASE b = i
    <3>1. v[b] = t /\ v[a] = w[a] /\ a \in 1..i - 1 /\ a \in 1..Len(w)
      BY <1>7, <1>8, <1>11, <2>2
    <3>2. k'.prio[w[a]] >= k'.prio[t]
      BY <1>5, <3>1 DEF Behind
    <3> QED BY <1>2, <1>3, <1>7, <1>9, <3>1, <3>2
  <2>3. CASE b > i /\ a = i
    <3>1. v[a] = t /\ v[b] = w[b - 1] /\ b - 1 \in 1..Len(w) /\ i \in 1..Len(w) /\ i <= b - 1
      BY <1>7, <1>8, <1>11, <2>3
    <3>2. k'.prio[w[i]] < k'.prio[t] /\ w[i] \in Task
      BY <1>5, <1>7, <3>1 DEF Behind
    <3>3. k'.prio[w[i]] >= Base[w[b - 1]]
      <4>1. CASE i < b - 1
        BY <1>10, <3>1, <4>1
      <4>2. CASE i = b - 1
        <5>1. k.prio[w[i]] >= Base[w[i]]
          BY <1>4, <3>2 DEF Floors
        <5> QED BY <1>3, <3>2, <4>2, <5>1
      <4> QED BY <1>7, <3>1, <4>1, <4>2
    <3>4. w[b - 1] \in Task
      BY <1>7, <3>1
    <3> QED BY SMTT(40), <1>2, <1>3, <3>1, <3>2, <3>3, <3>4
  <2>4. CASE b > i /\ a < i
    <3>1. v[a] = w[a] /\ v[b] = w[b - 1] /\ a \in 1..Len(w) /\ b - 1 \in 1..Len(w) /\ a < b - 1
      BY <1>7, <1>8, <1>11, <2>4
    <3> QED BY <1>10, <3>1
  <2>5. CASE b > i /\ a > i
    <3>1. v[a] = w[a - 1] /\ v[b] = w[b - 1] /\ a - 1 \in 1..Len(w) /\ b - 1 \in 1..Len(w) /\ a - 1 < b - 1
      BY <1>7, <1>8, <1>11, <2>5
    <3> QED BY <1>10, <3>1
  <2> QED BY <1>7, <1>11, <2>1, <2>2, <2>3, <2>4, <2>5
<1>12. Receivers(m)' = v
  BY <1>5, <1>6
<1>13. Queued(m)'
  BY <1>8, <1>11, <1>12 DEF Queued
<1>14. ASSUME NEW u \in ToSet(v) PROVE k'.prio[h] >= Base[u]
  <2>1. CASE u = t
    BY <1>2, <1>3, <1>9, <2>1
  <2>2. CASE u \in ToSet(w)
    <3>1. k.prio[h] >= Base[u] /\ u \in Task
      BY <1>1, <1>2, <1>4, <2>2, SeqFacts DEF Above
    <3> QED BY <1>2, <1>3, <3>1
  <2> QED BY <1>8, <2>1, <2>2
<1>15. Above(m)'
  BY <1>1, <1>2, <1>12, <1>14 DEF Above
<1> QED BY <1>13, <1>15

\* The holder now has the priority of the first in line, if he has not his own.
LEMMA PlacedLent ==
  ASSUME Typed, Control, Mutexes, Lists, Patient, Ranks, NEW t \in Thread, Place(t),
         NEW m \in Mutex, On(t) = m, NEW h, h = queue[m].holder, Lent(h), Holds(h) = {m}
  PROVE  Lent(h)'
<1> DEFINE w == Receivers(m)
<1>1. /\ t \in Task /\ h \in Task /\ queue' = queue
      /\ \E i : Behind(w, k'.prio, t, i) /\ Receivers(m)' = InsertAt(w, i, t)
      /\ \A u \in Task : k'.prio[u] = IF u = h /\ k.prio[h] < k.prio[t] THEN k.prio[t] ELSE k.prio[u]
  BY PlacedFrom
<1>2. /\ \A u \in Task : /\ k.prio[u] \in Nat /\ k'.prio[u] \in Nat /\ Base[u] \in Nat
                         /\ k'.prio[u] >= k.prio[u]
      /\ k'.prio[t] = k.prio[t] /\ k'.prio[h] >= k.prio[t]
  BY PlacedRise
<1>3. w \in Seq(Task)
  BY WaiterFacts
<1>4. PICK i : Behind(w, k'.prio, t, i) /\ Receivers(m)' = InsertAt(w, i, t)
  BY <1>1
<1>5. PICK v : v = InsertAt(w, i, t)
  OBVIOUS
<1>6. i \in 1..Len(w) + 1 /\ Len(w) \in Nat
  BY <1>3, <1>4, SeqFacts DEF Behind
<1>7. /\ v \in Seq(Task) /\ Len(v) = Len(w) + 1
      /\ \A j \in 1..Len(w) + 1 : v[j] = IF j < i THEN w[j] ELSE IF j = i THEN t ELSE w[j - 1]
  <2> DEFINE r == InsertAt(w, i, t)
  <2>1. /\ r \in Seq(Task) /\ Len(r) = Len(w) + 1
        /\ \A j \in 1..Len(w) + 1 : r[j] = IF j < i THEN w[j] ELSE IF j = i THEN t ELSE w[j - 1]
    BY <1>1, <1>3, <1>6, InsertSet
  <2> QED BY <1>5, <2>1
<1>8. v # <<>>
  BY <1>6, <1>7, SeqFacts
<1>9. Head(v) = v[1] /\ 1 \in 1..Len(w) + 1
  BY <1>6, <1>7, <1>8, TailSet
<1>10. k.prio[h] = Base[h] \/ (w # <<>> /\ k.prio[Head(w)] >= k.prio[h])
  BY DEF Lent
<1>11. k'.prio[h] = IF k.prio[h] < k.prio[t] THEN k.prio[t] ELSE k.prio[h]
  BY <1>1
<1>12. w # <<>> => Head(w) = w[1] /\ w[1] \in Task /\ Len(w) >= 1
  BY <1>3, TailSet
<1>13. k'.prio[h] = Base[h] \/ k'.prio[Head(v)] >= k'.prio[h]
  <2>1. CASE i = 1
    <3>1. Head(v) = t
      BY <1>7, <1>9, <2>1
    <3>2. w # <<>> => k'.prio[w[1]] < k'.prio[t]
      BY <1>4, <1>12, <2>1 DEF Behind
    <3> QED BY <1>1, <1>2, <1>10, <1>11, <1>12, <3>1, <3>2
  <2>2. CASE i # 1
    <3>1. w # <<>>
      BY <1>3, <1>6, <2>2, SeqFacts
    <3>2. Head(v) = w[1] /\ 1 \in 1..i - 1
      BY <1>6, <1>7, <1>9, <2>2
    <3>3. k'.prio[w[1]] >= k'.prio[t]
      BY <1>4, <3>2 DEF Behind
    <3> QED BY <1>1, <1>2, <1>10, <1>11, <1>12, <3>1, <3>2, <3>3
  <2> QED BY <2>1, <2>2
<1>14. Holds(h)' = {m}
  BY <1>1 DEF Holds
<1>15. Receivers(m)' = v
  BY <1>4, <1>5
<1> QED BY <1>8, <1>13, <1>14, <1>15 DEF Lent

\* What waits for another mutex, and whoever does not hold this one.
LEMMA PlacedBeside ==
  ASSUME Typed, Control, Mutexes, Lists, Patient, Ranks, NEW t \in Thread, Place(t),
         NEW m \in Mutex, On(t) = m
  PROVE  /\ Floors'
         /\ \A o \in Mutex \ {m} : Queued(o)' /\ Promised(o)' /\ Above(o)'
<1>1. PICK h : h = queue[m].holder
  OBVIOUS
<1>2. /\ t \in Task /\ h \in Thread /\ h \in Task /\ m \in Holds(h) /\ queue' = queue /\ k'.held = k.held
      /\ Takes(Op(t), m)
      /\ \A u \in Task \ {t} : k'.state[u] = k.state[u]
      /\ \A o \in Mutex \ {m} : Receivers(o)' = Receivers(o)
      /\ \A u \in Thread : thread'[u].todo = thread[u].todo
  BY <1>1, PlacedFrom
<1>3. \A u \in Task : k'.prio[u] = IF u = h /\ k.prio[h] < k.prio[t] THEN k.prio[t] ELSE k.prio[u]
  BY <1>1, PlacedFrom
<1>4. \A u \in Task : /\ k.prio[u] \in Nat /\ k'.prio[u] \in Nat /\ Base[u] \in Nat
                      /\ k'.prio[u] >= k.prio[u]
  BY <1>1, PlacedRise
<1>5. Floors
  BY DEF Ranks
<1>6. k.held[h] # 0
  <2>1. Counted(h)
    BY <1>2 DEF Mutexes
  <2> QED BY <1>2, <2>1, HeldFacts
<1>7. Floors'
  <2>1. ASSUME NEW u \in Task
        PROVE  /\ k'.prio[u] >= Base[u] /\ \E v \in Task : k'.prio[u] <= Base[v]
               /\ k'.held[u] = 0 => k'.prio[u] = Base[u]
    <3>1. k.prio[u] >= Base[u] /\ (k.held[u] = 0 => k.prio[u] = Base[u])
      BY <1>5 DEF Floors
    <3>2. k'.prio[u] >= Base[u]
      BY <1>4, <3>1
    <3>3. k'.prio[u] = k.prio[u] \/ k'.prio[u] = k.prio[t]
      BY <1>3
    <3>4. \E v \in Task : k'.prio[u] <= Base[v]
      BY <1>2, <1>5, <3>3 DEF Floors
    <3>5. k'.held[u] = 0 => k'.prio[u] = Base[u]
      BY <1>2, <1>3, <1>6, <3>1
    <3> QED BY <3>2, <3>4, <3>5
  <2> QED BY <2>1 DEF Floors
<1>8. ASSUME NEW o \in Mutex \ {m} PROVE Queued(o)' /\ Promised(o)' /\ Above(o)'
  <2>1. Receivers(o) \in Seq(Task) /\ Queued(o) /\ Promised(o) /\ Above(o)
    BY <1>8, WaiterFacts DEF Ranks
  <2>2. /\ ToSet(Receivers(o)) \subseteq Task
        /\ \A i \in 1..Len(Receivers(o)) : Receivers(o)[i] \in Task
    BY <2>1, SeqFacts
  <2>3. Receivers(o)' = Receivers(o)
    BY <1>2
  <2>4. ASSUME NEW u \in Task, NEW v \in Task, k.prio[u] >= Base[v] PROVE k'.prio[u] >= Base[v]
    BY <1>4, <2>4
  <2>5. Queued(o)'
    BY <2>1, <2>2, <2>3, <2>4 DEF Queued
  <2>6. Above(o)'
    <3>1. queue[o].holder # None => queue[o].holder \in Task
      BY MutexFacts
    <3> QED BY <1>2, <2>1, <2>2, <2>3, <2>4, <3>1 DEF Above
  <2>7. ASSUME queue[o].holder = None, Receivers(o) # <<>>
        PROVE  \E w \in Thread : /\ k'.state[w] = "ready" /\ Takes(Op(w)', o)
                                 /\ \A u \in ToSet(Receivers(o)) : k'.prio[w] >= Base[u]
    <3>1. PICK w \in Thread : /\ k.state[w] = "ready" /\ Takes(Op(w), o)
                              /\ \A u \in ToSet(Receivers(o)) : k.prio[w] >= Base[u]
      BY <2>1, <2>7 DEF Promised
    <3>2. w \in Task \ {t}
      BY <1>2, <1>8, <3>1 DEF Takes, Thread
    <3>3. Op(w)' = Op(w)
      BY <1>2, SameCall
    <3>4. k'.state[w] = "ready" /\ \A u \in ToSet(Receivers(o)) : k'.prio[w] >= Base[u]
      BY <1>2, <2>2, <2>4, <3>1, <3>2
    <3> QED BY <3>1, <3>3, <3>4
  <2>8. Promised(o)'
    BY <1>2, <2>3, <2>7 DEF Promised, Takes
  <2> QED BY <2>5, <2>6, <2>8
<1> QED BY <1>7, <1>8

\* Place of a mutex keeps Ranks.
LEMMA PlaceMutexRanks ==
  ASSUME Typed, Control, Mutexes, Lists, Patient, Ranks, NEW t \in Thread, Place(t),
         NEW m \in Mutex, On(t) = m
  PROVE  Ranks'
<1>1. PICK h : h = queue[m].holder
  OBVIOUS
<1>2. /\ h \in Thread /\ h \in Task /\ m \in Holds(h) /\ queue' = queue /\ k' \in Sched
      /\ \A o \in Mutex \ {m} : Receivers(o)' = Receivers(o)
      /\ \A u \in Thread : thread'[u].todo = thread[u].todo
  BY <1>1, PlacedFrom
<1>3. \A u \in Task : k'.prio[u] = IF u = h /\ k.prio[h] < k.prio[t] THEN k.prio[t] ELSE k.prio[u]
  BY <1>1, PlacedFrom
<1>4. \A u \in Task : /\ k.prio[u] \in Nat /\ k'.prio[u] \in Nat /\ k'.prio[u] >= k.prio[u]
  BY <1>1, PlacedRise
<1>5. Floors' /\ \A o \in Mutex \ {m} : Queued(o)' /\ Promised(o)' /\ Above(o)'
  BY PlacedBeside
<1>6. Queued(m)' /\ Above(m)' /\ Promised(m)'
  <2>1. h # None
    BY <1>2, TaskAssumption
  <2>2. Promised(m)'
    BY <1>1, <1>2, <2>1 DEF Promised
  <2> QED BY <2>2, PlacedQueued
<1>7. \A o \in Mutex : Queued(o)' /\ Promised(o)' /\ Above(o)'
  BY <1>5, <1>6
<1>8. \A u \in Thread : Holds(u)' = Holds(u)
  BY <1>2 DEF Holds
<1>9. ASSUME NEW u \in Thread PROVE Lends(u)'
  <2>1. Lends(u)
    BY DEF Ranks
  <2>2. CASE u # h
    <3>1. ASSUME NEW o \in Holds(u)
          PROVE  /\ Receivers(o) \in Seq(Task) /\ Receivers(o)' = Receivers(o)
                 /\ Receivers(o) # <<>> => k'.prio[Head(Receivers(o))] >= k.prio[Head(Receivers(o))]
      <4>1. o \in Mutex /\ o # m
        BY <1>1, <2>2 DEF Holds
      <4>2. Receivers(o) \in Seq(Task) /\ Receivers(o)' = Receivers(o)
        BY <1>2, <4>1, WaiterFacts
      <4>3. Receivers(o) # <<>> => Head(Receivers(o)) \in Task
        BY <4>2, TailSet
      <4> QED BY <1>4, <4>2, <4>3
    <3>2. k'.prio[u] = k.prio[u]
      BY <1>3, <2>2 DEF Thread
    <3> QED BY <1>2, <1>8, <2>1, <3>1, <3>2, LendsBeside
  <2>3. CASE u = h
    <3>1. PICK p, n : Position(h, p, n) /\ (Nests(p) \/ Lent(h))
      BY <2>1, <2>3 DEF Lends
    <3>2. Position(h, p, n)'
      BY <1>2, <1>8, <3>1, PositionSame
    <3>3. CASE Nests(p)
      BY <2>3, <3>2, <3>3 DEF Lends
    <3>4. CASE ~Nests(p)
      <4>1. Holds(h) = {m}
        <5>1. SUFFICES ASSUME NEW o \in Holds(h), o # m PROVE FALSE
          BY <1>2
        <5>2. n \in 1..Len(p) /\ o \in Mutex /\ Has(p, o, n) /\ Has(p, m, n)
          BY <1>2, <3>1, <5>1 DEF Position
        <5> QED BY <3>4, <5>1, <5>2 DEF Nests
      <4>2. Lent(h)'
        BY <1>1, <3>1, <3>4, <4>1, PlacedLent
      <4> QED BY <2>3, <3>2, <4>2 DEF Lends
    <3> QED BY <3>3, <3>4
  <2> QED BY <2>2, <2>3
<1> QED BY <1>5, <1>7, <1>9 DEF Ranks

-----------------------------------------------------------------------------
(* The running task has the highest priority.                              *)

\* A step that changes neither who runs nor who is ready.
LEMMA StillTop ==
  ASSUME Top, path # "blocked" \/ path' = "blocked",
         k'.cur = k.cur, k'.state = k.state, k'.prio = k.prio
  PROVE  Top'
  BY DEF Top, Highest, Ready

\* Waking a task ends with the highest one running.
LEMMA WakeTop ==
  ASSUME NEW s \in Sched, NEW e \in Event, NEW b \in BOOLEAN, NEW r, r \in YieldIf(b, Wake(s, e)),
         ~s.susp, b \/ (s.cur \in Highest(s) /\ ~Wake(s, e).yield)
  PROVE  r.cur \in Highest(r)
<1>1. CASE b
  BY <1>1, WakeYield
<1>2. CASE ~b
  <2>1. r.cur = s.cur /\ SamePrio(r, s)
    BY <1>2, WakeYield
  <2>2. s.cur \in Highest(s) /\ ~Wake(s, e).yield
    BY <1>2
  <2>3. CASE s.event[e] = <<>>
    <3>1. r.state = s.state
      BY <2>3, WakeYield
    <3> QED BY <2>1, <2>2, <3>1 DEF Highest, Ready, SamePrio
  <2>4. CASE s.event[e] # <<>>
    <3> DEFINE h == Head(s.event[e])
    <3>1. h \in Task /\ \A u \in Task : r.state[u] = IF u = h THEN "ready" ELSE s.state[u]
      BY <2>4, WakeYield
    <3>2. ~(s.prio[h] > s.prio[s.cur])
      BY <2>2, <2>4, WakeFacts
    <3>3. s.prio[h] \in Nat /\ s.prio[s.cur] \in Nat /\ s.cur \in Task
      BY <3>1 DEF Sched
    <3>4. s.prio[h] <= s.prio[s.cur]
      BY <3>2, <3>3
    <3>5. r.state[s.cur] = "ready"
      BY <2>2, <3>1, HighestReady
    <3>6. \A u \in Task : r.state[u] = "ready" => s.prio[u] <= s.prio[s.cur]
      BY <2>2, <3>1, <3>4 DEF Highest, Ready
    <3> QED BY <2>1, <3>3, <3>5, <3>6 DEF Highest, Ready, SamePrio
  <2> QED BY <2>3, <2>4
<1> QED BY <1>1, <1>2

\* After a tick or the end of a suspension the highest task runs.
LEMMA TidyTop ==
  ASSUME k \in Sched, NEW woken, Tidied(k', k, woken), k.cur \in Highest(k)
  PROVE  k'.cur \in Highest(k')
<1>1. CASE k'.cur \in Highest(k')
  BY <1>1
<1>2. CASE k'.cur = k.cur /\ \A t \in woken \cup ToSet(k.pend) : k.prio[t] < k.prio[k.cur]
  <2>1. /\ k'.prio = k.prio
        /\ \A t \in Task : k'.state[t] = "ready"
                             <=> k.state[t] = "ready" \/ t \in ToSet(k.pend) \/ t \in woken
    BY DEF Tidied, SamePrio
  <2>2. k.cur \in Task /\ k.state[k.cur] = "ready"
    BY HighestReady
  <2>3. \A t \in Task : k.prio[t] \in Nat
    BY DEF Sched
  <2>4. \A t \in Task : k.state[t] = "ready" => k.prio[t] <= k.prio[k.cur]
    BY DEF Highest, Ready
  <2>5. \A t \in Task : k'.state[t] = "ready" => k.prio[t] <= k.prio[k.cur]
    BY <1>2, <2>1, <2>2, <2>3, <2>4
  <2> QED BY <1>2, <2>1, <2>2, <2>5 DEF Highest, Ready
<1> QED BY <1>1, <1>2 DEF Tidied

\* SysTick keeps Top.
LEMMA SysTickTop ==
  ASSUME Typed, Control, Top, SysTick PROVE Top'
<1>1. /\ path' = path
      /\ \/ SameWait(k', k) /\ SamePrio(k', k) /\ SameRun(k', k)
         \/ ~k.susp /\ \E woken : Tidied(k', k, woken)
  BY SysTickEffect
<1>2. CASE SameWait(k', k) /\ SamePrio(k', k) /\ SameRun(k', k)
  BY <1>1, <1>2, StillTop DEF SameWait, SamePrio, SameRun
<1>3. CASE ~k.susp /\ \E woken : Tidied(k', k, woken)
  <2>1. path = None
    BY <1>3 DEF Control
  <2>2. k.cur \in Highest(k)
    BY <2>1 DEF Top, None
  <2> QED BY <1>3, <2>2, TidyTop DEF Typed, Top
<1> QED BY <1>1, <1>2, <1>3

\* ResumeAll keeps Top.
LEMMA ResumeAllTop ==
  ASSUME Typed, Control, Top, NEW t \in Thread, ResumeAll(t) PROVE Top'
<1>1. \E woken : Tidied(k', k, woken) /\ (path = "blocked" => k'.cur \in Highest(k'))
  BY ResumeAllEffect
<1>2. CASE path = "blocked"
  BY <1>1, <1>2 DEF Top
<1>3. CASE path # "blocked"
  BY <1>1, <1>3, TidyTop DEF Typed, Top
<1> QED BY <1>2, <1>3

\* GiveFromISR keeps Top.
LEMMA GiveFromISRTop ==
  ASSUME Typed, Control, Top, NEW o \in Object, GiveFromISR(o) PROVE Top'
<1> DEFINE e == <<o, "receive">>
<1>1. /\ e \in Event /\ path' = path
      /\ \/ Wake(k, e).yield \in BOOLEAN /\ k' \in YieldIf(Wake(k, e).yield, Wake(k, e))
         \/ k' = k
  BY GiveFromISREffect
<1>2. CASE k' = k
  BY <1>1, <1>2, StillTop
<1>3. CASE Wake(k, e).yield \in BOOLEAN /\ k' \in YieldIf(Wake(k, e).yield, Wake(k, e))
  <2>1. k \in Sched
    BY DEF Typed
  <2>2. CASE k.susp
    <3>1. k'.cur = k.cur /\ k'.state = k.state /\ SamePrio(k', k)
      <4>1. SamePrio(k', k) /\ k'.cur = k.cur
        BY <1>1, <1>3, <2>1, <2>2, WakeYield
      <4>2. CASE k.event[e] = <<>>
        BY <1>1, <1>3, <2>1, <4>1, <4>2, WakeYield
      <4>3. CASE k.event[e] # <<>>
        BY <1>1, <1>3, <2>1, <2>2, <4>1, <4>3, WakeYield
      <4> QED BY <4>1, <4>2, <4>3
    <3> QED BY <1>1, <3>1, StillTop DEF SamePrio
  <2>3. CASE ~k.susp
    <3>1. path = None
      BY <2>3 DEF Control
    <3>2. k.cur \in Highest(k)
      BY <3>1 DEF Top, None
    <3>3. k'.cur \in Highest(k')
      BY <1>1, <1>3, <2>1, <2>3, <3>2, WakeTop
    <3> QED BY <3>3 DEF Top
  <2> QED BY <2>2, <2>3
<1> QED BY <1>1, <1>2, <1>3

\* Take keeps Top.
LEMMA TakeTop ==
  ASSUME Typed, Control, Top, NEW t \in Thread, Take(t) PROVE Top'
<1> DEFINE s == TakenK(t)
           e == <<On(t), "send">>
<1>1. /\ t \in Task /\ e \in Event /\ k.cur = t /\ thread[t].pc = "try" /\ ~k.susp
      /\ k' \in YieldIf(Wake(s, e).yield, Wake(s, e))
  BY TakeEffect, ThreadFacts
<1>2. /\ s \in Sched /\ s.prio = k.prio /\ SameWait(s, k) /\ SameRun(s, k)
  BY <1>1, TakenFacts DEF Typed
<1>3. path = None
  BY <1>1, AwakeRun DEF Inside
<1>4. k.cur \in Highest(k)
  BY <1>3 DEF Top, None
<1>5. s.cur \in Highest(s) /\ ~s.susp
  BY <1>1, <1>2, <1>4 DEF Highest, Ready, SameWait, SameRun
<1>6. Wake(s, e).yield \in BOOLEAN
  BY <1>1, <1>2, WakeFacts DEF Sched
<1>7. k'.cur \in Highest(k')
  BY <1>1, <1>2, <1>5, <1>6, WakeTop
<1> QED BY <1>7 DEF Top

\* An inherited priority that is given back was that of a task now ready, or nobody waits.
LEMMA LoweredYields ==
  ASSUME Typed, Control, Mutexes, Lists, Patient, Ranked, Ranks, NEW t \in Thread, Give(t),
         NEW m \in Mutex, On(t) = m, k.held[t] = 1, k.prio[t] # Base[t], Receivers(m) # <<>>
  PROVE  k.prio[Head(Receivers(m))] > Base[t]
<1>1. PICK h : h = Head(Receivers(m))
  OBVIOUS
<1>2. /\ m \in Holds(t) /\ t \in Task /\ k.state[t] = "ready" /\ Op(t).do = "give"
  BY GivenFrom
<1>3. /\ Receivers(m) \in Seq(Task)
      /\ \A u \in ToSet(Receivers(m)) : u \in Thread /\ Takes(Op(u), m) /\ k.state[u] = "suspended"
  BY WaiterFacts
<1>4. h \in Thread /\ h \in Task /\ h # t /\ Takes(Op(h), m)
  BY <1>1, <1>2, <1>3, TailSet
<1>5. Floors /\ Lends(t) /\ Counted(t)
  BY DEF Ranks, Mutexes
<1>6. \A u \in Task : k.prio[u] \in Nat /\ Base[u] \in Nat /\ k.prio[u] >= Base[u]
  BY <1>5, TaskAssumption DEF Typed, Sched, Floors
<1>7. PICK p, n : Position(t, p, n) /\ (Nests(p) \/ Lent(t))
  BY <1>5 DEF Lends
<1>8. CASE Lent(t)
  <2>1. k.prio[h] >= k.prio[t]
    BY <1>1, <1>2, <1>8 DEF Lent
  <2> QED BY <1>1, <1>2, <1>4, <1>6, <2>1
<1>9. CASE Nests(p)
  <2>1. p \in Programs[t] /\ n \in 1..Len(p) /\ Op(t) = p[n]
    BY <1>7, PositionFacts DEF Position
  <2>2. CASE \A u \in Task : Base[u] <= Base[t]
    <3>1. PICK u \in Task : k.prio[t] <= Base[u]
      BY <1>2, <1>5 DEF Floors
    <3>2. k.prio[t] <= Base[t]
      BY <1>2, <1>6, <2>2, <3>1
    <3> QED BY <1>2, <1>6, <3>2
  <2>3. CASE \A o \in LastGiven(p), u \in Thread \ {t} : Uses(u, o) => Base[u] > Base[t]
    <3>1. Holds(t) = {m}
      BY <1>2, <1>5, HeldFacts
    <3>2. \A o \in Mutex : Has(p, o, n) => o = m
      BY <1>7, <3>1 DEF Position
    <3>3. Gives(p[n], m)
      BY <1>2, <2>1 DEF Gives, On
    <3>4. m \in LastGiven(p)
      BY <2>1, <3>2, <3>3 DEF LastGiven
    <3>5. Uses(h, m)
      <4>1. PICK q, i : Position(h, q, i)
        BY <1>4 DEF Mutexes
      <4>2. q \in Programs[h] /\ i \in 1..Len(q) /\ Op(h) = q[i]
        BY <1>4, <4>1, PositionFacts DEF Position
      <4> QED BY <1>4, <4>2 DEF Uses, Takes
    <3>6. Base[h] > Base[t]
      BY <1>4, <2>3, <3>4, <3>5
    <3> QED BY <1>1, <1>2, <1>4, <1>6, <3>6
  <2> QED BY <1>9, <2>1, <2>2, <2>3 DEF Ranked
<1> QED BY <1>7, <1>8, <1>9

\* Give keeps Top.
LEMMA GiveTop ==
  ASSUME Typed, Control, Mutexes, Lists, Patient, Ranked, Top, Ranks, NEW t \in Thread, Give(t)
  PROVE  Top'
<1> DEFINE s == GivenK(t)
           e == <<On(t), "receive">>
           b == GiveYields(t)
<1>1. Op(t).do = "give"
  BY DEF Give
<1>2. OnMutex(t) => k.held[t] >= 1
  BY <1>1, GiverHolds
<1>3. /\ t \in Task /\ e \in Event /\ k.cur = t /\ thread[t].pc = "try" /\ ~k.susp
      /\ b \in BOOLEAN /\ k' \in YieldIf(b, Wake(s, e))
  BY <1>2, GiveEffect, ThreadFacts DEF Handed
<1>4. /\ s \in Sched /\ SameWait(s, k) /\ SameRun(s, k) /\ SameLists(s, k)
      /\ \A u \in Task : s.prio[u] = IF u = t /\ OnMutex(t) /\ k.held[t] = 1 THEN Base[u]
                                     ELSE k.prio[u]
  BY <1>2, <1>3, GivenFacts DEF Typed
<1>5. path = None
  BY <1>3, AwakeRun DEF Inside
<1>6. k.cur \in Highest(k)
  BY <1>5 DEF Top, None
<1>7. b <=> Wake(s, e).yield \/ (k.event[e] = <<>> /\ s.prio[t] # k.prio[t])
  BY DEF GiveYields, Handed
<1>8. CASE s.prio[t] = k.prio[t]
  <2>1. \A u \in Task : s.prio[u] = k.prio[u]
    BY <1>4, <1>8
  <2>2. s.cur \in Highest(s) /\ ~s.susp
    BY <1>3, <1>4, <1>6, <2>1 DEF Highest, Ready, SameWait, SameRun
  <2>3. k'.cur \in Highest(k')
    BY <1>3, <1>4, <1>7, <2>2, WakeTop
  <2> QED BY <2>3 DEF Top
<1>9. CASE s.prio[t] # k.prio[t]
  <2>1. OnMutex(t) /\ k.held[t] = 1 /\ s.prio[t] = Base[t] /\ k.prio[t] # Base[t]
    BY <1>3, <1>4, <1>9
  <2>2. PICK m \in Mutex : On(t) = m
    BY <2>1 DEF OnMutex
  <2>3. b
    <3>1. CASE k.event[e] = <<>>
      BY <1>7, <1>9, <3>1
    <3>2. CASE k.event[e] # <<>>
      <4>1. PICK h : h = Head(k.event[e])
        OBVIOUS
      <4>2. Receivers(m) = k.event[e]
        BY <2>2 DEF Receivers
      <4>3. k.prio[Head(Receivers(m))] > Base[t]
        BY <2>1, <2>2, <3>2, <4>2, LoweredYields
      <4>4. k.prio[h] > Base[t]
        BY <4>1, <4>2, <4>3
      <4>5. s.event[e] # <<>> /\ h = Head(s.event[e]) /\ s.cur = t
        BY <1>3, <1>4, <3>2, <4>1 DEF SameLists, SameRun
      <4>6. h \in Task
        BY <1>3, <1>4, <4>5, WakeFacts
      <4>7. h # t
        <5>1. /\ Receivers(m) \in Seq(Task) /\ \A u \in ToSet(Receivers(m)) : k.state[u] = "suspended"
          BY WaiterFacts
        <5>2. k.state[h] = "suspended"
          BY <3>2, <4>1, <4>2, <5>1, TailSet
        <5> QED BY <1>3, <1>6, <5>2, HighestReady
      <4>8. s.prio[h] > s.prio[s.cur]
        BY <1>4, <2>1, <4>4, <4>5, <4>6, <4>7
      <4>9. Wake(s, e).yield
        BY <1>3, <1>4, <4>5, <4>8, WakeFacts
      <4> QED BY <1>7, <4>9
    <3> QED BY <3>1, <3>2
  <2>4. ~s.susp
    BY <1>3, <1>4 DEF SameRun
  <2>5. k'.cur \in Highest(k')
    BY <1>3, <1>4, <2>3, <2>4, WakeTop
  <2> QED BY <2>5 DEF Top
<1> QED BY <1>8, <1>9

\* A step of a thread keeps Top.
LEMMA CallTop ==
  ASSUME Typed, Control, Mutexes, Lists, Patient, Ranked, Top, Ranks, NEW t \in Thread, Call(t)
  PROVE  Top'
<1>1. CASE Take(t)
  BY <1>1, TakeTop
<1>2. CASE Give(t)
  BY <1>2, GiveTop
<1>3. CASE Refuse(t) \/ DelayOver(t) \/ Expire(t)
  <2>1. k' = k /\ path' = path
    BY <1>3 DEF Refuse, DelayOver, Expire
  <2> QED BY <2>1, StillTop
<1>4. CASE Enter(t)
  <2>1. path' = path /\ SameWait(k', k) /\ SamePrio(k', k) /\ SameRun(k', k)
    BY <1>4, EnterEffect
  <2> QED BY <2>1, StillTop DEF SameWait, SamePrio, SameRun
<1>5. CASE SuspendAll(t)
  <2>1. path' = path /\ SameWait(k', k) /\ SamePrio(k', k) /\ k'.cur = k.cur
    BY <1>5, SuspendAllEffect
  <2> QED BY <2>1, StillTop DEF SameWait, SamePrio
<1>6. CASE Lock(t)
  <2>1. /\ SameWait(k', k) /\ SamePrio(k', k) /\ SameRun(k', k) /\ k.cur = t /\ thread[t].pc = "lock"
    BY <1>6, LockEffect
  <2>2. path # "blocked"
    BY <2>1, InsideRun DEF Inside, None
  <2> QED BY <2>1, <2>2, StillTop DEF SameWait, SamePrio, SameRun
<1>7. CASE Test(t)
  <2>1. k' = k /\ k.cur = t /\ thread[t].pc = "test"
    BY <1>7, TestEffect
  <2>2. path # "blocked"
    BY <2>1, InsideRun DEF Inside, None
  <2> QED BY <2>1, <2>2, StillTop
<1>8. CASE Place(t) \/ PlaceDelay(t)
  BY <1>8 DEF Place, PlaceDelay, Top
<1>9. CASE Unlock(t)
  <2>1. path' = path /\ SameWait(k', k) /\ SamePrio(k', k) /\ SameRun(k', k)
    BY <1>9, UnlockEffect
  <2> QED BY <2>1, StillTop DEF SameWait, SamePrio, SameRun
<1>10. CASE ResumeAll(t)
  BY <1>10, ResumeAllTop
<1>11. CASE Restore(t)
  BY <1>11, NoRestore
<1> QED BY <1>1, <1>2, <1>3, <1>4, <1>5, <1>6, <1>7, <1>8, <1>9, <1>10, <1>11 DEF Call

\* A step of a thread keeps Ranks.
LEMMA CallRanks ==
  ASSUME Typed, Control, Mutexes, Lists, Patient, Top, Ranks, NEW t \in Thread, Call(t) PROVE Ranks'
<1>1. CASE Take(t)
  BY <1>1, TakeMutexRanks, TakeOtherRanks DEF OnMutex
<1>2. CASE Give(t)
  BY <1>2, GiveMutexRanks, GiveOtherRanks DEF OnMutex
<1>3. CASE Place(t)
  BY <1>3, PlaceMutexRanks, PlaceOtherRanks DEF OnMutex
<1>4. CASE Refuse(t)
  BY <1>4, RefuseRanks
<1>5. CASE DelayOver(t)
  BY <1>5, DelayOverRanks
<1>6. CASE Enter(t)
  BY <1>6, EnterRanks
<1>7. CASE SuspendAll(t)
  BY <1>7, SuspendAllRanks
<1>8. CASE Lock(t)
  BY <1>8, LockRanks
<1>9. CASE Test(t)
  BY <1>9, TestRanks
<1>10. CASE PlaceDelay(t)
  BY <1>10, PlaceDelayRanks
<1>11. CASE Unlock(t)
  BY <1>11, UnlockRanks
<1>12. CASE ResumeAll(t)
  BY <1>12, ResumeAllRanks
<1>13. CASE Expire(t)
  BY <1>13, ExpireRanks
<1>14. CASE Restore(t)
  BY <1>14, NoRestore
<1> QED BY <1>1, <1>2, <1>3, <1>4, <1>5, <1>6, <1>7, <1>8, <1>9, <1>10, <1>11, <1>12, <1>13, <1>14 DEF Call

-----------------------------------------------------------------------------
\* The inductive invariant with priorities.
Prios == Orderly /\ Top /\ Ranks

\* It holds at first.
LEMMA PriosInit == ASSUME Init PROVE Prios
<1>1. Orderly
  BY OrderlyInit
<1>2. /\ k.event = [e \in Event |-> <<>>] /\ k.prio = Base /\ k.held = [t \in Task |-> 0]
      /\ k.cur \in Highest(k)
      /\ \A o \in Object : queue[o].holder = None
  BY DEF Init
<1>3. ASSUME NEW m \in Mutex PROVE Queued(m) /\ Promised(m) /\ Above(m)
  <2>1. m \in Object /\ <<m, "receive">> \in Event
    BY ObjectAssumption DEF Event
  <2>2. Receivers(m) = <<>> /\ queue[m].holder = None
    BY <1>2, <2>1 DEF Receivers
  <2> QED BY <2>2 DEF Queued, Promised, Above
<1>4. Floors
  <2>1. ASSUME NEW t \in Task
        PROVE  /\ k.prio[t] >= Base[t] /\ \E u \in Task : k.prio[t] <= Base[u]
               /\ k.held[t] = 0 => k.prio[t] = Base[t]
    <3>1. Base[t] \in Nat
      BY TaskAssumption
    <3>2. k.prio[t] >= Base[t] /\ k.prio[t] <= Base[t] /\ k.prio[t] = Base[t]
      BY <1>2, <3>1
    <3> QED BY <3>2
  <2> QED BY <2>1 DEF Floors
<1>5. ASSUME NEW t \in Thread PROVE Lends(t)
  <2>1. PICK p, n : Position(t, p, n)
    BY <1>1 DEF Orderly, Safe, Mutexes
  <2>2. Lent(t)
    BY <1>2 DEF Lent
  <2> QED BY <2>1, <2>2 DEF Lends
<1>6. Top
  BY <1>2 DEF Top
<1> QED BY <1>1, <1>3, <1>4, <1>5, <1>6 DEF Prios, Ranks

\* Every step keeps it, for programs as the hypotheses want them.
LEMMA PriosNext == ASSUME Patient, Ranked, Prios, Next PROVE Prios'
<1>1. Orderly /\ Typed /\ Control /\ Mutexes /\ Lists /\ Top /\ Ranks
  BY DEF Prios, Orderly, Safe
<1>2. Orderly'
  BY <1>1, OrderlyNext
<1>3. CASE SysTick
  BY <1>1, <1>2, <1>3, SysTickTop, SysTickRanks DEF Prios
<1>4. ASSUME NEW o \in Object, GiveFromISR(o) PROVE Prios'
  BY <1>1, <1>2, <1>4, GiveFromISRTop, GiveFromISRRanks DEF Prios
<1>5. ASSUME NEW t \in Thread, Call(t) PROVE Prios'
  BY <1>1, <1>2, <1>5, CallTop, CallRanks DEF Prios
<1> QED BY <1>3, <1>4, <1>5 DEF Next

\* So does a step that changes nothing.
LEMMA PriosStutter == ASSUME Prios, UNCHANGED vars PROVE Prios'
<1>1. k' = k /\ queue' = queue /\ thread' = thread /\ path' = path
  BY DEF vars
<1>2. Orderly'
  BY OrderlyStutter DEF Prios
<1>3. Top'
  BY <1>1, StillTop DEF Prios
<1>4. Settled
  BY <1>1, SettledLists DEF SamePrio, SameLists
<1>5. Ranks'
  BY <1>1, <1>4, OutsideRanks DEF Prios
<1> QED BY <1>2, <1>3, <1>5 DEF Prios

\* The highest task runs, nobody waits for a mutex behind a lower priority than his own, and
\* what a holder has inherited is the priority of the first one that waits.
THEOREM PriosAlways ==
  ASSUME Patient, Ranked PROVE Spec => []Prios
<1>1. Prios /\ [Next]_vars => Prios'
  BY PriosNext, PriosStutter
<1> QED BY <1>1, PriosInit, PTL DEF Spec

\* The running task is ready and none has a higher priority, unless it has suspended the scheduler.
THEOREM HighestFirst ==
  ASSUME Patient, Ranked PROVE Spec => []HighestRuns
<1>1. Prios => HighestRuns
  <2>1. SUFFICES ASSUME Prios, ~k.susp PROVE k.cur \in Highest(k)
    BY DEF HighestRuns
  <2>2. path = None
    BY <2>1 DEF Prios, Orderly, Safe, Control
  <2> QED BY <2>1, <2>2 DEF Prios, Top, None
<1> QED BY <1>1, PriosAlways, PTL

\* The holder of a mutex runs at least at the priority of every task that waits for it.
THEOREM Inheritance ==
  ASSUME Patient, Ranked PROVE Spec => []Inherited
<1>1. Prios => Inherited
  <2>1. SUFFICES ASSUME Prios PROVE Inherited
    OBVIOUS
  <2>2. (\A m \in Mutex : Above(m)) /\ Floors
    BY <2>1 DEF Prios, Ranks
  <2> QED BY <2>2 DEF Inherited, Above, Receivers, Floors
<1> QED BY <1>1, PriosAlways, PTL

-----------------------------------------------------------------------------
(* Time: a call wakes up neither late nor early.                           *)

\* States in which a task has a wake time.
Dozing == {"delayed", "overflow"}

\* The task t, when it has a wake time, has rest ticks to sleep.
Sleeps(s, t, rest) ==
  /\ s.state[t] = "delayed" => rest >= 1 /\ s.wake[t] = s.tick + rest
  /\ s.state[t] = "overflow" => s.wake[t] = s.tick + rest - TickMod

\* The timeout of t began n ticks ago, when the tick was start.
Clocked(s, t, start, n) == s.tick = start + n - IF t \in s.over THEN TickMod ELSE 0

\* From s to r, n ticks have been counted for t.
Elapsing(s, r, t, n) ==
  /\ s.state[t] \in Dozing => r.state[t] # "suspended"
  /\ \A rest \in Int : Sleeps(s, t, rest) =>
       /\ Sleeps(r, t, rest - n)
       /\ s.state[t] \in Dozing /\ r.state[t] = "ready" => rest <= n
  /\ \A start \in Ticks, m \in Nat :
       m + n <= TickMod /\ Clocked(s, t, start, m) => Clocked(r, t, start, m + n)

\* The next tick is one more, or 0 after the last.
LEMMA NextTick ==
  ASSUME NEW x \in Ticks
  PROVE  (x + 1) % TickMod = IF x = Forever THEN 0 ELSE x + 1
<1>1. TickMod \in Nat \ {0, 1} /\ x \in Nat /\ x <= TickMod - 1 /\ Forever = TickMod - 1
  BY TickAssumption DEF Ticks, Forever
<1>2. CASE x = Forever
  <2>1. x + 1 = TickMod
    BY <1>1, <1>2
  <2>2. TickMod % TickMod = 0
    BY <1>1
  <2> QED BY <1>2, <2>1, <2>2
<1>3. CASE x # Forever
  <2>1. x + 1 \in 0..TickMod - 1
    BY <1>1, <1>3
  <2>2. \A y \in 0..TickMod - 1 : y % TickMod = y
    BY <1>1
  <2> QED BY <1>3, <2>1, <2>2
<1> QED BY <1>2, <1>3

\* The remainder of a number above and of one below the range of the tick.
LEMMA WrapFacts ==
  /\ \A x \in Ticks : x % TickMod = x
  /\ \A x \in Int : x - TickMod \in Ticks => x % TickMod = x - TickMod
  /\ \A x \in Int : x + TickMod \in Ticks => x % TickMod = x + TickMod
<1>1. TickMod \in Nat \ {0, 1} /\ Ticks = 0..TickMod - 1
  BY TickAssumption DEF Ticks
<1>2. \A x \in 0..TickMod - 1 : x % TickMod = x
  BY <1>1
<1>3. ASSUME NEW x \in Int, x - TickMod \in 0..TickMod - 1 PROVE x % TickMod = x - TickMod
  BY <1>1, <1>3
<1>4. ASSUME NEW x \in Int, x + TickMod \in 0..TickMod - 1 PROVE x % TickMod = x + TickMod
  BY <1>1, <1>4
<1> QED BY <1>1, <1>2, <1>3, <1>4

\* xTaskIncrementTick wakes whoever has slept enough, and nobody else.
LEMMA TickSleeps ==
  ASSUME NEW s \in Sched, Unblocks(s), NEW t \in Task
  PROVE  LET r == IncrementTick(s) IN Unblocks(r) /\ Elapsing(s, r, t, 1)
<1> DEFINE r == IncrementTick(s)
           n == TickCounted(s)
           due == DueOf(n)
<1>1. /\ n \in Sched /\ n.tick = (s.tick + 1) % TickMod /\ n.wake = s.wake
      /\ n.tick = 0 => /\ n.over = Task /\ Unblocks(n)
                       /\ n.state[t] = Other[s.state[t]]
      /\ n.tick # 0 => n.over = s.over /\ SameWait(n, s)
  BY TurnFacts
<1>2. /\ r.tick = n.tick /\ r.over = n.over
      /\ r.state[t] = IF t \in due THEN "ready" ELSE n.state[t]
      /\ r.wake[t] = IF t \in due THEN 0 ELSE n.wake[t]
      /\ Unblocks(n) => Unblocks(r)
  BY TickFacts
<1>3. /\ s.tick \in Ticks /\ s.wake[t] \in Ticks /\ s.state[t] \in States
      /\ s.unblock \in Int /\ n.unblock \in Int /\ TickMod \in Nat \ {0, 1}
      /\ Ticks = 0..TickMod - 1 /\ Forever = TickMod - 1
  BY <1>1, TickAssumption DEF Sched, Ticks, Forever
<1>4. n.tick = IF s.tick = Forever THEN 0 ELSE s.tick + 1
  BY <1>1, <1>3, NextTick
<1>5. Unblocks(n)
  BY <1>1 DEF Unblocks, SameWait
<1>6. t \in due <=> n.state[t] = "delayed" /\ n.wake[t] <= n.tick
  <2>1. t \in due <=> ~(n.tick < n.unblock) /\ n.state[t] = "delayed" /\ n.wake[t] <= n.tick
    BY DEF DueOf
  <2>2. n.state[t] = "delayed" => n.unblock <= n.wake[t]
    BY <1>5 DEF Unblocks
  <2>3. n.wake[t] \in Int /\ n.tick \in Int
    BY <1>1, <1>3, <1>4
  <2> QED BY <1>3, <2>1, <2>2, <2>3
<1> HIDE DEF n, due, r
<1>7. CASE s.tick = Forever
  <2>1. /\ n.tick = 0 /\ n.over = Task /\ n.state[t] = Other[s.state[t]] /\ n.wake[t] = s.wake[t]
        /\ t \in n.over
    BY <1>1, <1>4, <1>7
  <2>2. ASSUME NEW rest \in Int, Sleeps(s, t, rest)
        PROVE  /\ Sleeps(r, t, rest - 1)
               /\ s.state[t] \in Dozing /\ r.state[t] = "ready" => rest <= 1
    <3>1. s.state[t] # "delayed"
      BY <1>3, <1>7, <2>2 DEF Sleeps
    <3>2. CASE s.state[t] = "overflow"
      <4>1. n.state[t] = "delayed" /\ n.wake[t] = rest - 1
        BY <1>3, <1>7, <2>1, <2>2, <3>2 DEF Sleeps, Other
      <4> QED BY <1>2, <1>3, <1>6, <2>1, <4>1 DEF Sleeps
    <3>3. CASE s.state[t] \notin Dozing
      <4>1. n.state[t] = s.state[t] /\ r.state[t] = s.state[t]
        BY <1>2, <1>3, <1>6, <2>1, <3>3 DEF Other, States, Dozing
      <4> QED BY <3>3, <4>1 DEF Sleeps, Dozing
    <3> QED BY <3>1, <3>2, <3>3 DEF Dozing
  <2>3. ASSUME NEW start \in Ticks, NEW m \in Nat, m + 1 <= TickMod, Clocked(s, t, start, m)
        PROVE  Clocked(r, t, start, m + 1)
    <3>1. t \notin s.over
      <4>1. SUFFICES ASSUME t \in s.over PROVE FALSE
        OBVIOUS
      <4>2. s.tick = start + m - TickMod
        BY <2>3, <4>1 DEF Clocked
      <4> QED BY <1>3, <1>7, <2>3, <4>2
    <3>2. s.tick = start + m - 0
      BY <2>3, <3>1 DEF Clocked
    <3>3. 0 = start + (m + 1) - TickMod
      BY <1>3, <1>7, <3>2
    <3> QED BY <1>2, <2>1, <3>3 DEF Clocked
  <2>4. s.state[t] \in Dozing => r.state[t] # "suspended"
    BY <1>2, <2>1 DEF Dozing, Other
  <2> QED BY <1>2, <1>5, <2>2, <2>3, <2>4 DEF Elapsing, r
<1>8. CASE s.tick # Forever
  <2>1. /\ n.tick = s.tick + 1 /\ n.tick # 0 /\ n.over = s.over /\ n.state[t] = s.state[t]
        /\ n.wake[t] = s.wake[t]
    BY <1>1, <1>3, <1>4, <1>8 DEF SameWait
  <2>2. ASSUME NEW rest \in Int, Sleeps(s, t, rest)
        PROVE  /\ Sleeps(r, t, rest - 1)
               /\ s.state[t] \in Dozing /\ r.state[t] = "ready" => rest <= 1
    <3>1. CASE s.state[t] = "delayed"
      <4>1. n.state[t] = "delayed" /\ n.wake[t] = n.tick + (rest - 1)
        BY <1>3, <2>1, <2>2, <3>1 DEF Sleeps
      <4> QED BY <1>2, <1>3, <1>6, <2>1, <4>1 DEF Sleeps
    <3>2. CASE s.state[t] = "overflow"
      <4>1. n.state[t] = "overflow" /\ n.wake[t] = n.tick + (rest - 1) - TickMod
        BY <1>3, <2>1, <2>2, <3>2 DEF Sleeps
      <4> QED BY <1>2, <1>6, <4>1 DEF Sleeps
    <3>3. CASE s.state[t] \notin Dozing
      <4>1. r.state[t] = s.state[t]
        BY <1>2, <1>6, <2>1, <3>3 DEF Dozing
      <4> QED BY <3>3, <4>1 DEF Sleeps, Dozing
    <3> QED BY <3>1, <3>2, <3>3 DEF Dozing
  <2>3. ASSUME NEW start \in Ticks, NEW m \in Nat, m + 1 <= TickMod, Clocked(s, t, start, m)
        PROVE  Clocked(r, t, start, m + 1)
    <3>1. CASE t \in s.over
      <4>1. s.tick = start + m - TickMod
        BY <2>3, <3>1 DEF Clocked
      <4>2. s.tick + 1 = start + (m + 1) - TickMod
        BY <1>3, <4>1
      <4> QED BY <1>2, <2>1, <3>1, <4>2 DEF Clocked
    <3>2. CASE t \notin s.over
      <4>1. s.tick = start + m - 0
        BY <2>3, <3>2 DEF Clocked
      <4>2. s.tick + 1 = start + (m + 1) - 0
        BY <1>3, <4>1
      <4> QED BY <1>2, <2>1, <3>2, <4>2 DEF Clocked
    <3> QED BY <3>1, <3>2
  <2>4. s.state[t] \in Dozing => r.state[t] # "suspended"
    BY <1>2, <2>1 DEF Dozing
  <2> QED BY <1>2, <1>5, <2>2, <2>3, <2>4 DEF Elapsing, r
<1> QED BY <1>7, <1>8

-----------------------------------------------------------------------------
\* Ticks add up.
LEMMA ElapsingTwice ==
  ASSUME NEW s \in Sched, NEW q \in Sched, NEW r \in Sched, NEW t \in Task, NEW n \in Nat, NEW m \in Nat,
         Elapsing(s, q, t, n), Elapsing(q, r, t, m),
         s.state[t] = "ready" => q.state[t] = "ready", q.state[t] = "ready" => r.state[t] = "ready"
  PROVE  Elapsing(s, r, t, n + m)
<1>1. /\ s.state[t] \in States /\ q.state[t] \in States /\ r.state[t] \in States
  BY DEF Sched
<1>2. s.state[t] \in Dozing => r.state[t] # "suspended"
  BY <1>1 DEF Elapsing, Dozing, States
<1>3. ASSUME NEW rest \in Int, Sleeps(s, t, rest)
      PROVE  /\ Sleeps(r, t, rest - (n + m))
             /\ s.state[t] \in Dozing /\ r.state[t] = "ready" => rest <= n + m
  <2>1. rest - n \in Int /\ rest - n - m = rest - (n + m)
    OBVIOUS
  <2>2. Sleeps(q, t, rest - n) /\ (s.state[t] \in Dozing /\ q.state[t] = "ready" => rest <= n)
    BY <1>3 DEF Elapsing
  <2>3. Sleeps(r, t, rest - n - m) /\ (q.state[t] \in Dozing /\ r.state[t] = "ready" => rest - n <= m)
    BY <2>1, <2>2 DEF Elapsing
  <2>4. ASSUME s.state[t] \in Dozing, r.state[t] = "ready" PROVE rest <= n + m
    <3>1. CASE q.state[t] \in Dozing
      BY <2>3, <2>4, <3>1
    <3>2. CASE q.state[t] = "ready"
      BY <2>2, <2>4, <3>2
    <3>3. q.state[t] # "suspended"
      BY <2>4 DEF Elapsing
    <3> QED BY <1>1, <3>1, <3>2, <3>3 DEF Dozing, States
  <2> QED BY <2>1, <2>3, <2>4
<1>4. ASSUME NEW start \in Ticks, NEW i \in Nat, i + (n + m) <= TickMod, Clocked(s, t, start, i)
      PROVE  Clocked(r, t, start, i + (n + m))
  <2>1. i + n \in Nat /\ i + n <= TickMod /\ i + n + m <= TickMod /\ i + n + m = i + (n + m)
    BY <1>4, TickAssumption
  <2>2. Clocked(q, t, start, i + n)
    BY <1>4, <2>1 DEF Elapsing
  <2>3. Clocked(r, t, start, i + n + m)
    BY <2>1, <2>2 DEF Elapsing
  <2> QED BY <2>1, <2>3
<1> QED BY <1>2, <1>3, <1>4 DEF Elapsing

\* Without a tick nothing elapses.
LEMMA ElapsingNone ==
  ASSUME NEW s \in Sched, NEW t \in Task
  PROVE  Elapsing(s, s, t, 0)
<1>1. ASSUME NEW rest \in Int, Sleeps(s, t, rest)
      PROVE  Sleeps(s, t, rest - 0) /\ ~(s.state[t] \in Dozing /\ s.state[t] = "ready")
  BY <1>1 DEF Dozing
<1>2. \A m \in Nat : m + 0 = m
  OBVIOUS
<1> QED BY <1>1, <1>2 DEF Elapsing, Dozing

\* xTaskResumeAll makes up for the ticks that came while the scheduler was suspended.
LEMMA ResumedSleeps ==
  ASSUME NEW s \in Sched, Unblocks(s), NEW t \in Task
  PROVE  LET r == Resumed(s) IN
         r \in Sched /\ Unblocks(r) /\ Elapsing(Back(s), r, t, s.pended)
<1>1. PICK f \in [0..s.pended -> Sched] :
           /\ f[0] = Back(s) /\ \A n \in 1..s.pended : f[n] = IncrementTick(f[n - 1])
           /\ Resumed(s) = [f[s.pended] EXCEPT !.pended = 0]
  BY ResumedChain
<1>2. s.pended \in Nat
  <2>1. s.pended \in 0..MaxPended
    BY DEF Sched
  <2> QED BY <2>1, TickAssumption
<1>3. Unblocks(f[0]) /\ f[0] \in Sched
  BY <1>1, BackFacts
<1> DEFINE good == {n \in 0..s.pended : /\ Unblocks(f[n]) /\ Elapsing(f[0], f[n], t, n)
                                        /\ f[0].state[t] = "ready" => f[n].state[t] = "ready"}
<1>4. s.pended \in good
  <2>1. 0 \in good
    BY <1>2, <1>3, ElapsingNone
  <2>2. ASSUME NEW n \in 0..s.pended - 1, n \in good PROVE n + 1 \in good
    <3>1. n + 1 \in 1..s.pended /\ n + 1 - 1 = n /\ n \in 0..s.pended /\ n + 1 \in 0..s.pended /\ n \in Nat
      BY <1>2
    <3>2. f[n] \in Sched /\ f[n + 1] \in Sched /\ f[n + 1] = IncrementTick(f[n])
      BY <1>1, <3>1
    <3>3. Unblocks(f[n]) /\ Elapsing(f[0], f[n], t, n) /\ (f[0].state[t] = "ready" => f[n].state[t] = "ready")
      BY <2>2
    <3>4. Unblocks(f[n + 1]) /\ Elapsing(f[n], f[n + 1], t, 1)
      BY <3>2, <3>3, TickSleeps
    <3>5. f[n].state[t] = "ready" => f[n + 1].state[t] = "ready"
      <4>1. PICK w : Passed(f[n], f[n + 1], w)
        BY <3>2, PassedTick
      <4> QED BY <4>1 DEF Passed
    <3>6. Elapsing(f[0], f[n + 1], t, n + 1)
      BY <1>3, <3>1, <3>2, <3>3, <3>4, <3>5, ElapsingTwice
    <3> QED BY <3>1, <3>3, <3>4, <3>5, <3>6
  <2> HIDE DEF good
  <2>3. \A n \in 0..s.pended : n \in good
    BY <1>2, <2>1, <2>2, BoundedInduction
  <2> QED BY <1>2, <2>3
<1> DEFINE q == f[s.pended]
           r == [q EXCEPT !.pended = 0]
<1>5. Unblocks(q) /\ Elapsing(f[0], q, t, s.pended) /\ q \in Sched
  BY <1>1, <1>2, <1>4
<1> HIDE DEF q, good
<1>6. /\ r \in Sched /\ r.tick = q.tick /\ r.over = q.over /\ r.state = q.state /\ r.wake = q.wake
      /\ r.unblock = q.unblock
  <2>1. 0 \in 0..MaxPended
    BY TickAssumption
  <2> QED BY <1>5, <2>1 DEF Sched
<1>7. r = Resumed(s)
  BY <1>1 DEF q
<1> HIDE DEF r
<1>8. Unblocks(r)
  BY <1>5, <1>6 DEF Unblocks
<1>9. Elapsing(f[0], r, t, s.pended)
  <2>1. \A rest : Sleeps(q, t, rest) => Sleeps(r, t, rest)
    BY <1>6 DEF Sleeps
  <2>2. \A start, m : Clocked(q, t, start, m) => Clocked(r, t, start, m)
    BY <1>6 DEF Clocked
  <2> QED BY <1>5, <1>6, <2>1, <2>2 DEF Elapsing
<1> QED BY <1>1, <1>6, <1>7, <1>8, <1>9

-----------------------------------------------------------------------------
\* Ticks that the call of t has still to wait, pended ones included; ticks since its timeout
\* was last looked at.
Rest(t) == Op(t).wait - (waited[t] - k.pended)
Since(t) == thread[t].left - Rest(t)

\* A call that has begun to wait, as its control says.
Begun(t) ==
  IF Op(t).do = "delay" THEN thread[t].pc # "suspend"
                        ELSE thread[t].pc \in Inside \cup {"suspend"}

\* Whether a call waits, and for how long at most.
Entered(t) ==
  /\ ~thread[t].entered => waited[t] = 0
  /\ ~thread[t].entered \/ Op(t).do = "delay" => thread[t].left = Op(t).wait
  /\ Begun(t) => thread[t].entered
  /\ Op(t).do = "delay" => k.state[t] # "suspended" /\ (thread[t].entered => thread[t].pc # "suspend")
  /\ k.state[t] \in Dozing => Timed(t)

\* What xTaskCheckForTimeOut computes with is the time that has passed.
Timeout(t) ==
  /\ thread[t].left # 0 => /\ thread[t].left <= Op(t).wait /\ Since(t) >= 0
                           /\ Clocked(k, t, thread[t].start, Since(t))
  /\ thread[t].pc \in {"suspend", "lock", "test", "place"} => thread[t].left # 0

\* A timed call wakes up when its time is over, and knows how much of it is left.
Counting(t) ==
  /\ Sleeps(k, t, Rest(t))
  /\ Op(t).do # "delay" => Timeout(t)
  /\ thread[t].pc \in {"test", "place"} => thread[t].left = Rest(t)
  /\ Op(t).do = "delay" /\ k.state[t] = "ready" /\ thread[t].pc \in {"try", "resume"} => Rest(t) <= 0
  /\ path = "expired" /\ k.cur = t => Rest(t) <= 0

\* The clock of the thread t is right.
Punctual(t) == Entered(t) /\ (Timed(t) => Counting(t))

\* The strengthening: nobody wakes up before xNextTaskUnblockTime, and every clock is right.
Timing == Unblocks(k) /\ \A t \in Thread : Punctual(t)

\* A step without a tick that is not of the thread u.
Spared(u) ==
  \/ k'.state[u] = k.state[u] /\ k'.wake[u] = k.wake[u]
  \/ k'.state[u] = "ready" /\ Op(u).do # "delay"

\* A step of another thread, or of a handler, as the thread u sees it.
Beside(u) ==
  /\ thread'[u] = thread[u] /\ waited'[u] = waited[u] /\ Spared(u)
  /\ k'.tick = k.tick /\ k'.pended = k.pended /\ (u \in k'.over <=> u \in k.over)
  /\ path' = "expired" /\ k'.cur = u => path = "expired" /\ k.cur = u

\* Such a step leaves its clock right.
LEMMA BesidePunctual ==
  ASSUME NEW u \in Thread, Punctual(u), Beside(u) PROVE Punctual(u)'
<1>1. thread'[u] = thread[u] /\ waited'[u] = waited[u] /\ k'.tick = k.tick /\ k'.pended = k.pended
  BY DEF Beside
<1>2. /\ Op(u)' = Op(u) /\ Rest(u)' = Rest(u) /\ Since(u)' = Since(u) /\ (Timed(u)' <=> Timed(u))
      /\ (Begun(u)' <=> Begun(u))
  BY <1>1 DEF Op, Rest, Since, Timed, Begun
<1>3. /\ k.state[u] \in Dozing => Timed(u)
      /\ k'.state[u] \in Dozing => k'.state[u] = k.state[u] /\ k'.wake[u] = k.wake[u]
      /\ k'.state[u] = k.state[u] \/ (k'.state[u] = "ready" /\ Op(u).do # "delay")
  BY DEF Beside, Spared, Dozing, Punctual, Entered
<1>4. Entered(u)'
  BY <1>1, <1>2, <1>3 DEF Punctual, Entered
<1>5. ASSUME Timed(u) PROVE Counting(u)'
  <2>1. Counting(u)
    BY <1>5 DEF Punctual
  <2>2. Sleeps(k', u, Rest(u))
    BY <1>1, <1>3, <2>1 DEF Counting, Sleeps, Dozing
  <2>3. Op(u).do # "delay" => Timeout(u)'
    <3>1. \A n : Clocked(k, u, thread[u].start, n) => Clocked(k', u, thread[u].start, n)
      BY <1>1 DEF Clocked, Beside
    <3> QED BY <1>1, <1>2, <2>1, <3>1 DEF Counting, Timeout
  <2> QED BY <1>1, <1>2, <1>3, <2>1, <2>2, <2>3 DEF Counting, Beside
<1> QED BY <1>2, <1>4, <1>5 DEF Punctual

\* A call that has returned has not begun to wait.
LEMMA ReturnPunctual ==
  ASSUME Typed, NEW t \in Thread, NEW ok, Return(t, ok), k'.state[t] = "ready"
  PROVE  /\ Punctual(t)'
         /\ \A u \in Thread \ {t} : thread'[u] = thread[u] /\ waited'[u] = waited[u]
<1>1. PICK p \in Seq(Calls) \ {<<>>} : Goes(t, Calling(p))
  BY ReturnFacts
<1>2. /\ Calling(p) \in Rec /\ Head(p) \in Calls
      /\ Calling(p).todo = p /\ Calling(p).left = Head(p).wait /\ ~Calling(p).entered
      /\ Calling(p).pc = IF Head(p).do = "delay" THEN "suspend" ELSE "try"
  BY CallingFacts
<1>3. thread'[t] = Calling(p)
  BY <1>1, <1>2, GoesFacts DEF Typed
<1>4. waited'[t] = 0 /\ \A u \in Thread \ {t} : waited'[u] = waited[u]
  BY DEF Return, Typed
<1>5. Op(t)' = Head(p)
  BY <1>2, <1>3 DEF Op
<1>6. ~Timed(t)' /\ ~Begun(t)'
  BY <1>2, <1>3, <1>5 DEF Timed, Begun, Inside
<1> QED BY <1>2, <1>3, <1>4, <1>5, <1>6, ReturnOthers DEF Punctual, Entered, Dozing

\* What Wake leaves of the waits of the other tasks.
LEMMA WakeTimes ==
  ASSUME Typed, Lists, NEW s \in Sched, SameTime(s, k), SameWait(s, k), SameLists(s, k), SameRun(s, k),
         NEW e \in Event, NEW b \in BOOLEAN, k' \in YieldIf(b, Wake(s, e))
  PROVE  /\ k'.tick = k.tick /\ k'.over = k.over /\ k'.pended = k.pended
         /\ k.susp => k'.cur = k.cur
         /\ Unblocks(k) => Unblocks(k')
         /\ \A u \in Task : Spared(u)
<1> DEFINE w == Wake(s, e)
           h == Head(k.event[e])
<1>1. /\ s.state = k.state /\ s.wake = k.wake /\ s.unblock = k.unblock /\ s.event = k.event
      /\ s.pend = k.pend /\ s.susp = k.susp /\ s.cur = k.cur
      /\ s.tick = k.tick /\ s.over = k.over /\ s.pended = k.pended
  BY DEF SameTime, SameWait, SameLists, SameRun
<1>2. /\ w \in Sched /\ SameTime(w, s) /\ SameRun(w, s) /\ w.unblock = s.unblock
      /\ s.event[e] = <<>> => w = s
      /\ s.event[e] # <<>> =>
           /\ s.susp => w.state = s.state /\ w.wake = s.wake
           /\ ~s.susp => /\ \A u \in Task : w.state[u] = IF u = h THEN "ready" ELSE s.state[u]
                         /\ \A u \in Task : w.wake[u] = IF u = h THEN 0 ELSE s.wake[u]
  BY <1>1, WakeFacts
<1>3. (h \in Thread /\ Op(h).do # "delay") \/ k.event[e] = <<>>
  <2>1. ASSUME k.event[e] # <<>> PROVE h \in ToSet(k.event[e])
    <3>1. k.event[e] \in Seq(Task)
      BY DEF Typed, Sched
    <3> QED BY <2>1, <3>1, TailSet
  <2> QED BY <2>1 DEF Lists, Listed
<1> HIDE DEF w, h
<1>4. /\ SameTime(k', w) /\ SameWait(k', w) /\ (w.susp => k'.cur = w.cur)
  BY <1>2, SwitchFacts DEF w
<1>5. /\ k'.tick = k.tick /\ k'.over = k.over /\ k'.pended = k.pended
      /\ k.susp => k'.cur = k.cur
      /\ k'.state = w.state /\ k'.wake = w.wake /\ k'.unblock = k.unblock
  BY <1>1, <1>2, <1>4 DEF SameTime, SameWait, SameRun
<1>6. ASSUME NEW u \in Task PROVE Spared(u)
  BY <1>1, <1>2, <1>3, <1>5 DEF Spared
<1>7. ASSUME Unblocks(k) PROVE Unblocks(k')
  <2>1. \A u \in Task : k'.state[u] = "delayed" => k.state[u] = "delayed" /\ k'.wake[u] = k.wake[u]
    BY <1>6 DEF Spared
  <2> QED BY <1>5, <1>7, <2>1 DEF Unblocks
<1> QED BY <1>5, <1>6, <1>7

\* A step of t with the scheduler running and without a tick.
LEMMA RunTiming ==
  ASSUME Typed, Control, Timing, NEW t \in Thread, k.cur = t, thread[t].pc \notin Inside, path' = path,
         Unblocks(k'), k'.tick = k.tick, k'.pended = k.pended,
         \A u \in Thread \ {t} : (u \in k'.over <=> u \in k.over),
         \A u \in Thread \ {t} : thread'[u] = thread[u] /\ waited'[u] = waited[u] /\ Spared(u),
         Punctual(t)'
  PROVE  Timing'
<1>1. path = None /\ None # "expired"
  BY AwakeRun DEF None
<1>2. ASSUME NEW u \in Thread \ {t} PROVE Punctual(u)'
  BY <1>1, <1>2, BesidePunctual DEF Timing, Beside
<1> QED BY <1>2 DEF Timing

\* Taking from an object, which may wake one that gives.
LEMMA TakeTiming ==
  ASSUME Typed, Control, Lists, Timing, NEW t \in Thread, Take(t) PROVE Timing'
<1>1. /\ k.cur = t /\ thread[t].pc = "try" /\ ~k.susp /\ On(t) \in Object
      /\ k' \in YieldIf(Wake(TakenK(t), <<On(t), "send">>).yield, Wake(TakenK(t), <<On(t), "send">>))
      /\ Return(t, TRUE) /\ path' = path
  BY TakeEffect
<1> DEFINE s == TakenK(t)
           e == <<On(t), "send">>
<1>2. /\ s \in Sched /\ SameTime(s, k) /\ SameWait(s, k) /\ SameLists(s, k) /\ SameRun(s, k) /\ e \in Event
  BY <1>1, TakenFacts DEF Typed, Thread, Event
<1>3. Wake(s, e).yield \in BOOLEAN
  BY <1>2, WakeFacts DEF Sched
<1> HIDE DEF s, e
<1>4. /\ k'.tick = k.tick /\ k'.over = k.over /\ k'.pended = k.pended
      /\ Unblocks(k) => Unblocks(k')
      /\ \A u \in Task : Spared(u)
  BY <1>1, <1>2, <1>3, WakeTimes DEF s, e
<1>5. k'.state[t] = "ready"
  BY <1>1, <1>4, AwakeRun DEF Spared, Thread, Inside
<1> QED BY <1>1, <1>4, <1>5, ReturnPunctual, RunTiming DEF Timing, Inside, Thread

\* Giving to an object, which may wake one that takes.
LEMMA GiveTiming ==
  ASSUME Typed, Control, Mutexes, Lists, Timing, NEW t \in Thread, Give(t) PROVE Timing'
<1>1. OnMutex(t) => k.held[t] >= 1
  <2>1. Op(t).do = "give"
    BY DEF Give
  <2> QED BY <2>1, GiverHolds
<1>2. /\ k.cur = t /\ thread[t].pc = "try" /\ ~k.susp /\ On(t) \in Object
      /\ GiveYields(t) \in BOOLEAN /\ k' \in YieldIf(GiveYields(t), Handed(t))
      /\ Return(t, TRUE) /\ path' = path
  BY <1>1, GiveEffect
<1> DEFINE s == GivenK(t)
           e == <<On(t), "receive">>
<1>3. /\ s \in Sched /\ SameTime(s, k) /\ SameWait(s, k) /\ SameLists(s, k) /\ SameRun(s, k) /\ e \in Event
  BY <1>1, <1>2, GivenFacts DEF Typed, Thread, Event
<1>4. Handed(t) = Wake(s, e)
  BY DEF Handed
<1> HIDE DEF s, e
<1>5. /\ k'.tick = k.tick /\ k'.over = k.over /\ k'.pended = k.pended
      /\ Unblocks(k) => Unblocks(k')
      /\ \A u \in Task : Spared(u)
  BY <1>2, <1>3, <1>4, WakeTimes
<1>6. k'.state[t] = "ready"
  BY <1>2, <1>5, AwakeRun DEF Spared, Thread, Inside
<1> QED BY <1>2, <1>5, <1>6, ReturnPunctual, RunTiming DEF Timing, Inside, Thread

\* The interrupt handler that gives a semaphore.
LEMMA GiveFromISRTiming ==
  ASSUME Typed, Control, Lists, Timing, NEW o \in Object, GiveFromISR(o) PROVE Timing'
<1> DEFINE e == <<o, "receive">>
<1>1. /\ e \in Event /\ thread' = thread /\ path' = path /\ waited' = waited
      /\ \/ Wake(k, e).yield \in BOOLEAN /\ k' \in YieldIf(Wake(k, e).yield, Wake(k, e))
         \/ k' = k
  BY GiveFromISREffect
<1> HIDE DEF e
<1>2. /\ k'.tick = k.tick /\ k'.over = k.over /\ k'.pended = k.pended
      /\ k.susp => k'.cur = k.cur
      /\ Unblocks(k) => Unblocks(k')
      /\ \A u \in Task : Spared(u)
  <2>1. CASE k' = k
    BY <2>1 DEF Spared
  <2>2. CASE Wake(k, e).yield \in BOOLEAN /\ k' \in YieldIf(Wake(k, e).yield, Wake(k, e))
    <3>1. k \in Sched /\ SameTime(k, k) /\ SameWait(k, k) /\ SameLists(k, k) /\ SameRun(k, k)
      BY DEF Typed, SameTime, SameWait, SameLists, SameRun
    <3> QED BY <1>1, <2>2, <3>1, WakeTimes
  <2> QED BY <1>1, <2>1, <2>2
<1>3. path = "expired" => k.susp
  BY DEF Control, None
<1>4. ASSUME NEW u \in Thread PROVE Punctual(u)'
  BY <1>1, <1>2, <1>3, BesidePunctual DEF Timing, Beside, Thread
<1> QED BY <1>2, <1>4 DEF Timing

-----------------------------------------------------------------------------
\* What a call may wait is a number of ticks.
LEMMA WaitNat ==
  ASSUME Typed, NEW t \in Thread
  PROVE  Op(t).wait \in Nat /\ Op(t).wait <= Forever /\ Forever \in Nat
<1>1. Op(t).wait \in 0..Forever
  BY ThreadFacts
<1>2. Forever \in Nat
  BY Tock
<1> QED BY <1>1, <1>2

\* A call without time left returns.
LEMMA RefuseTiming ==
  ASSUME Typed, Control, Timing, NEW t \in Thread, Refuse(t) PROVE Timing'
<1>1. /\ k.cur = t /\ thread[t].pc = "try" /\ Op(t).do # "delay" /\ k' = k /\ path' = path
      /\ (Goto(t, "halted") /\ waited' = waited) \/ Return(t, FALSE)
  BY DEF Refuse, At
<1>2. k.state[t] = "ready"
  BY <1>1, AwakeRun DEF Inside
<1>3. \A u \in Task : Spared(u)
  BY <1>1 DEF Spared
<1>4. Unblocks(k')
  BY <1>1 DEF Timing
<1>5. CASE Return(t, FALSE)
  BY <1>1, <1>2, <1>3, <1>4, <1>5, ReturnPunctual, RunTiming DEF Inside, Thread
<1>6. CASE Goto(t, "halted") /\ waited' = waited
  <2>1. PICK r : /\ Moves(t, r) /\ r.pc = "halted" /\ r.left = thread[t].left
                 /\ r.entered = thread[t].entered /\ r.start = thread[t].start
    BY <1>6, GotoGoes, Strings
  <2>2. thread'[t] = r /\ (\A u \in Thread \ {t} : thread'[u] = thread[u]) /\ Op(t)' = Op(t)
    BY <2>1, MovesFacts
  <2>3. Rest(t)' = Rest(t) /\ Since(t)' = Since(t) /\ (Timed(t)' <=> Timed(t)) /\ ~Begun(t)'
    BY <1>1, <1>6, <2>1, <2>2 DEF Rest, Since, Timed, Begun, Inside
  <2>4. Punctual(t)
    BY DEF Timing
  <2>5. Entered(t)'
    BY <1>1, <1>6, <2>1, <2>2, <2>3, <2>4 DEF Punctual, Entered
  <2>6. ASSUME Timed(t) PROVE Counting(t)'
    <3>1. Counting(t)
      BY <2>4, <2>6 DEF Punctual
    <3> QED BY <1>1, <2>1, <2>2, <2>3, <3>1 DEF Counting, Timeout, Sleeps, Clocked
  <2> QED BY <1>1, <1>3, <1>4, <1>6, <2>2, <2>3, <2>5, <2>6, RunTiming DEF Inside, Thread, Punctual
<1> QED BY <1>1, <1>5, <1>6

\* A call that goes on, without a tick and without a new look at its timeout.
LEMMA StayPunctual ==
  ASSUME Typed, Timing, NEW t \in Thread, NEW r, Moves(t, r), Op(t).do # "delay",
         r.left = thread[t].left, r.start = thread[t].start, r.entered = thread[t].entered,
         waited'[t] = waited[t], SameTime(k', k), k'.state = k.state, k'.wake = k.wake,
         r.pc \in Inside \cup {"suspend"} => thread[t].entered,
         r.pc \in {"suspend", "lock", "test", "place"} => thread[t].left # 0,
         r.pc \in {"test", "place"} /\ Timed(t) => thread[t].left = Rest(t),
         path' = "expired" /\ k'.cur = t => path = "expired" /\ k.cur = t
  PROVE  Punctual(t)'
<1>1. thread'[t] = r /\ Op(t)' = Op(t)
  BY MovesFacts
<1>2. k'.tick = k.tick /\ k'.over = k.over /\ k'.pended = k.pended
  BY DEF SameTime
<1>3. Rest(t)' = Rest(t) /\ Since(t)' = Since(t) /\ (Timed(t)' <=> Timed(t))
  BY <1>1, <1>2 DEF Rest, Since, Timed
<1>4. Begun(t)' => thread[t].entered
  BY <1>1 DEF Begun
<1>5. Punctual(t)
  BY DEF Timing
<1>6. Entered(t)'
  BY <1>1, <1>3, <1>4, <1>5 DEF Punctual, Entered
<1>7. ASSUME Timed(t) PROVE Counting(t)'
  <2>1. Counting(t)
    BY <1>5, <1>7 DEF Punctual
  <2>2. Sleeps(k', t, Rest(t)) /\ (thread[t].left # 0 => Clocked(k', t, r.start, Since(t)))
    BY <1>2, <2>1 DEF Counting, Timeout, Sleeps, Clocked
  <2> QED BY <1>1, <1>3, <1>7, <2>1, <2>2 DEF Counting, Timeout
<1> QED BY <1>3, <1>6, <1>7 DEF Punctual

\* A delay is over.
LEMMA DelayOverTiming ==
  ASSUME Typed, Control, Timing, NEW t \in Thread, DelayOver(t) PROVE Timing'
<1>1. /\ k.cur = t /\ thread[t].pc = "try" /\ k' = k /\ path' = path /\ Return(t, TRUE)
  BY DEF DelayOver, At
<1>2. k.state[t] = "ready"
  BY <1>1, AwakeRun DEF Inside
<1>3. \A u \in Task : Spared(u)
  BY <1>1 DEF Spared
<1>4. Unblocks(k')
  BY <1>1 DEF Timing
<1> QED BY <1>1, <1>2, <1>3, <1>4, ReturnPunctual, RunTiming DEF Inside, Thread

\* A call whose time is over.
LEMMA ExpireTiming ==
  ASSUME Typed, Control, Timing, NEW t \in Thread, Expire(t) PROVE Timing'
<1>1. /\ k.cur = t /\ thread[t].pc = "expired" /\ k' = k /\ path' = path
      /\ (\E pc \in {"try", "restore"} : Goto(t, pc) /\ waited' = waited) \/ Return(t, FALSE)
  BY DEF Expire, At
<1>2. k.state[t] = "ready" /\ Op(t).do # "delay"
  BY <1>1, AwakeRun DEF Inside, Control, Sound
<1>3. \A u \in Task : Spared(u)
  BY <1>1 DEF Spared
<1>4. Unblocks(k') /\ SameTime(k', k)
  BY <1>1 DEF Timing, SameTime
<1>5. CASE Return(t, FALSE)
  BY <1>1, <1>2, <1>3, <1>4, <1>5, ReturnPunctual, RunTiming DEF Inside, Thread
<1>6. ASSUME NEW pc \in {"try", "restore"}, Goto(t, pc), waited' = waited PROVE Timing'
  <2>1. PICK r : /\ Moves(t, r) /\ r.pc = pc /\ r.left = thread[t].left
                 /\ r.entered = thread[t].entered /\ r.start = thread[t].start
    BY <1>6, GotoGoes, Strings
  <2>2. \A u \in Thread \ {t} : thread'[u] = thread[u]
    BY <2>1, MovesFacts
  <2>3. Punctual(t)'
    BY <1>1, <1>2, <1>4, <1>6, <2>1, StayPunctual DEF Inside
  <2> QED BY <1>1, <1>3, <1>4, <1>6, <2>2, <2>3, RunTiming DEF Inside, Thread
<1> QED BY <1>1, <1>5, <1>6

\* It takes back the priority that the holder inherited from it.
LEMMA RestoreTiming ==
  ASSUME Typed, Control, Timing, NEW t \in Thread, Restore(t) PROVE Timing'
<1>1. /\ k.cur = t /\ thread[t].pc = "restore" /\ path' = path /\ Return(t, FALSE)
      /\ SameTime(k', k) /\ SameWait(k', k)
  BY RestoreEffect
<1>2. k.state[t] = "ready"
  BY <1>1, AwakeRun DEF Inside
<1>3. /\ k'.tick = k.tick /\ k'.over = k.over /\ k'.pended = k.pended
      /\ k'.state = k.state /\ k'.wake = k.wake /\ k'.unblock = k.unblock
  BY <1>1 DEF SameTime, SameWait
<1>4. \A u \in Task : Spared(u)
  BY <1>3 DEF Spared
<1>5. Unblocks(k')
  BY <1>3 DEF Timing, Unblocks
<1> QED BY <1>1, <1>2, <1>3, <1>4, <1>5, ReturnPunctual, RunTiming DEF Inside, Thread

\* vTaskInternalSetTimeOutState: the timeout begins now.
LEMMA EnterTiming ==
  ASSUME Typed, Control, Timing, NEW t \in Thread, Enter(t) PROVE Timing'
<1>1. /\ k.cur = t /\ thread[t].pc = "try" /\ Op(t).do # "delay" /\ thread[t].left # 0
      /\ SameWait(k', k) /\ k'.tick = k.tick /\ k'.pended = k.pended
      /\ path' = path /\ waited' = waited
  BY EnterEffect
<1>2. /\ k'.state = k.state /\ k'.wake = k.wake /\ k'.unblock = k.unblock
  BY <1>1 DEF SameWait
<1>3. \A u \in Task : Spared(u)
  BY <1>2 DEF Spared
<1>4. Unblocks(k')
  BY <1>2 DEF Timing, Unblocks
<1>5. k.pended = 0 /\ k.state[t] = "ready" /\ path = None /\ None # "expired"
  BY <1>1, AwakeRun DEF Inside, None
<1>6. Punctual(t) /\ thread[t] \in Rec /\ t \in Task /\ k \in Sched
  BY DEF Timing, Typed, Thread
<1>7. CASE thread[t].entered
  <2>1. Goto(t, "suspend") /\ k' = k
    BY <1>7 DEF Enter
  <2>2. PICK r : /\ Moves(t, r) /\ r.pc = "suspend" /\ r.left = thread[t].left
                 /\ r.entered = thread[t].entered /\ r.start = thread[t].start
    BY <2>1, GotoGoes, Strings
  <2>3. \A u \in Thread \ {t} : thread'[u] = thread[u]
    BY <2>2, MovesFacts
  <2>4. Punctual(t)'
    BY <1>1, <1>2, <1>5, <1>7, <2>1, <2>2, StayPunctual DEF SameTime
  <2> QED BY <1>1, <1>3, <1>4, <2>1, <2>3, <2>4, RunTiming DEF Inside, Thread
<1>8. CASE ~thread[t].entered
  <2> DEFINE r == [thread[t] EXCEPT !.pc = "suspend", !.entered = TRUE, !.start = k.tick]
  <2>1. thread' = [thread EXCEPT ![t] = r] /\ k' = [k EXCEPT !.over = @ \ {t}]
    BY <1>8 DEF Enter
  <2>2. /\ r.pc = "suspend" /\ r.entered /\ r.start = k.tick /\ r.left = thread[t].left
        /\ r.todo = thread[t].todo
    BY <1>6 DEF Rec
  <2>3. thread'[t] = r /\ \A u \in Thread \ {t} : thread'[u] = thread[u]
    BY <2>1 DEF Typed
  <2>4. k'.over = k.over \ {t}
    BY <1>6, <2>1 DEF Sched
  <2> HIDE DEF r
  <2>5. Op(t)' = Op(t)
    BY <2>2, <2>3, SameCall
  <2>6. waited[t] = 0 /\ thread[t].left = Op(t).wait /\ Op(t).wait \in Nat
    BY <1>6, <1>8, WaitNat DEF Punctual, Entered
  <2>7. Rest(t)' = Op(t).wait /\ Since(t)' = 0
    BY <1>1, <1>5, <2>2, <2>3, <2>5, <2>6 DEF Rest, Since
  <2>8. Entered(t)'
    BY <1>1, <1>2, <1>5, <2>2, <2>3, <2>5 DEF Entered, Dozing
  <2>9. Clocked(k', t, k.tick, 0)
    <3>1. k.tick = k.tick + 0 - 0
      BY <1>6 DEF Sched, Ticks
    <3> QED BY <1>1, <2>4, <3>1 DEF Clocked
  <2>10. Counting(t)'
    <3>1. Timeout(t)'
      BY <1>1, <2>2, <2>3, <2>5, <2>6, <2>7, <2>9 DEF Timeout
    <3>2. Sleeps(k', t, Op(t).wait)
      BY <1>2, <1>5 DEF Sleeps
    <3> QED BY <1>1, <1>5, <2>2, <2>3, <2>5, <2>7, <3>1, <3>2 DEF Counting
  <2> QED BY <1>1, <1>3, <1>4, <2>3, <2>4, <2>8, <2>10, RunTiming DEF Inside, Thread, Punctual
<1> QED BY <1>7, <1>8

\* A step of the thread that has suspended the scheduler, or does so.
LEMMA InsideTiming ==
  ASSUME Timing, NEW t \in Thread, k.cur = t, k'.cur = t, Unblocks(k'),
         k'.tick = k.tick, k'.pended = k.pended,
         \A u \in Thread \ {t} : (u \in k'.over <=> u \in k.over),
         \A u \in Thread \ {t} : thread'[u] = thread[u] /\ waited'[u] = waited[u] /\ Spared(u),
         Punctual(t)'
  PROVE  Timing'
<1>1. ASSUME NEW u \in Thread \ {t} PROVE Punctual(u)'
  BY <1>1, BesidePunctual DEF Timing, Beside
<1> QED BY <1>1 DEF Timing

\* vTaskSuspendAll.
LEMMA SuspendAllTiming ==
  ASSUME Typed, Control, Timing, NEW t \in Thread, SuspendAll(t) PROVE Timing'
<1>1. /\ k.cur = t /\ thread[t].pc = "suspend" /\ k'.cur = t
      /\ SameTime(k', k) /\ SameWait(k', k) /\ path' = path /\ waited' = waited
  BY SuspendAllEffect
<1>2. PICK r : /\ Moves(t, r) /\ r.pc = IF Op(t).do = "delay" THEN "place" ELSE "lock"
               /\ r.left = thread[t].left /\ r.entered /\ r.start = thread[t].start
  BY SuspendAllEffect
<1>3. thread'[t] = r /\ (\A u \in Thread \ {t} : thread'[u] = thread[u]) /\ Op(t)' = Op(t)
  BY <1>2, MovesFacts
<1>4. /\ k'.tick = k.tick /\ k'.over = k.over /\ k'.pended = k.pended
      /\ k'.state = k.state /\ k'.wake = k.wake /\ k'.unblock = k.unblock
  BY <1>1 DEF SameTime, SameWait
<1>5. \A u \in Task : Spared(u)
  BY <1>4 DEF Spared
<1>6. Unblocks(k')
  BY <1>4 DEF Timing, Unblocks
<1>7. k.pended = 0 /\ k.state[t] = "ready" /\ path = None /\ None # "expired"
  BY <1>1, AwakeRun DEF Inside, None
<1>8. Punctual(t) /\ thread[t] \in Rec
  BY DEF Timing, Typed
<1>9. Punctual(t)'
  <2>1. CASE Op(t).do # "delay"
    <3>1. thread[t].entered
      BY <1>1, <1>8, <2>1 DEF Punctual, Entered, Begun
    <3>2. thread[t].left # 0
      <4>1. CASE Timed(t)
        BY <1>1, <1>8, <2>1, <4>1 DEF Punctual, Counting, Timeout
      <4>2. CASE ~Timed(t)
        <5>1. thread[t].left = Forever
          BY <3>1, <4>2 DEF Timed, Control, Sound
        <5> QED BY <5>1, Tock
      <4> QED BY <4>1, <4>2
    <3>3. r.entered = thread[t].entered
      BY <1>2, <3>1, <1>8 DEF Moves, Rec
    <3> QED BY <1>1, <1>2, <1>4, <1>7, <2>1, <3>1, <3>2, <3>3, StayPunctual
  <2>2. CASE Op(t).do = "delay"
    <3>1. ~thread[t].entered /\ waited[t] = 0 /\ thread[t].left = Op(t).wait
      BY <1>1, <1>8, <2>2 DEF Punctual, Entered
    <3>2. Op(t).wait \in Nat
      BY WaitNat
    <3>3. Rest(t)' = Op(t).wait
      BY <1>1, <1>3, <1>4, <1>7, <3>1, <3>2 DEF Rest
    <3>4. Entered(t)'
      BY <1>2, <1>3, <1>4, <1>7, <2>2, <3>1 DEF Entered, Dozing
    <3>5. Sleeps(k', t, Op(t).wait)
      BY <1>4, <1>7 DEF Sleeps
    <3>6. Counting(t)'
      BY <1>1, <1>2, <1>3, <1>4, <1>7, <2>2, <3>1, <3>3, <3>5 DEF Counting
    <3> QED BY <3>4, <3>6 DEF Punctual
  <2> QED BY <2>1, <2>2
<1> QED BY <1>1, <1>3, <1>4, <1>5, <1>6, <1>9, InsideTiming DEF Thread

\* prvIsQueueEmpty, prvIsQueueFull.
LEMMA TestTiming ==
  ASSUME Typed, Control, Timing, NEW t \in Thread, Test(t) PROVE Timing'
<1>1. k.cur = t /\ thread[t].pc = "test" /\ waited' = waited /\ k' = k
  BY TestEffect
<1>2. PICK r : /\ Moves(t, r) /\ r.left = thread[t].left /\ r.entered = thread[t].entered
               /\ \/ r.pc = "unlock" /\ path' = "again"
                  \/ r.pc = "place" /\ path' = path
               /\ r.start = thread[t].start
  <2>1. CASE Possible(t)
    <3>1. Goto(t, "unlock") /\ path' = "again"
      BY <2>1 DEF Test
    <3> QED BY <3>1, GotoGoes, Strings
  <2>2. CASE ~Possible(t)
    <3>1. Goto(t, "place") /\ path' = path
      BY <2>2 DEF Test
    <3> QED BY <3>1, GotoGoes, Strings
  <2> QED BY <2>1, <2>2
<1>3. thread'[t] = r /\ (\A u \in Thread \ {t} : thread'[u] = thread[u])
  BY <1>2, MovesFacts
<1>4. Punctual(t) /\ Op(t).do # "delay"
  BY <1>1 DEF Timing, Control, Sound
<1>5. thread[t].entered
  BY <1>1, <1>4 DEF Punctual, Entered, Begun, Inside
<1>6. thread[t].left # 0
  <2>1. CASE Timed(t)
    BY <1>1, <1>4, <2>1 DEF Punctual, Counting, Timeout
  <2>2. CASE ~Timed(t)
    <3>1. thread[t].left = Forever
      BY <1>5, <2>2 DEF Timed, Control, Sound
    <3> QED BY <3>1, Tock
  <2> QED BY <2>1, <2>2
<1>7. Timed(t) => thread[t].left = Rest(t)
  BY <1>1, <1>4 DEF Punctual, Counting
<1>8. Punctual(t)'
  BY <1>1, <1>2, <1>4, <1>5, <1>6, <1>7, StayPunctual DEF SameTime
<1>9. (\A u \in Task : Spared(u)) /\ Unblocks(k')
  BY <1>1 DEF Spared, Timing
<1> QED BY <1>1, <1>3, <1>8, <1>9, InsideTiming DEF Thread

\* prvUnlockQueue: whoever it wakes stays asleep until the scheduler is resumed.
LEMMA UnlockTiming ==
  ASSUME Typed, Control, Timing, NEW t \in Thread, Unlock(t) PROVE Timing'
<1>1. /\ k.cur = t /\ thread[t].pc = "unlock" /\ waited' = waited /\ path' = path
      /\ Op(t).do # "delay" /\ SameTime(k', k) /\ SameWait(k', k) /\ SameRun(k', k)
  BY UnlockEffect
<1>2. PICK r : /\ Moves(t, r) /\ r.pc = "resume" /\ r.left = thread[t].left
               /\ r.entered = thread[t].entered /\ r.start = thread[t].start
  <2>1. Goto(t, "resume")
    BY DEF Unlock
  <2> QED BY <2>1, GotoGoes, Strings
<1>3. thread'[t] = r /\ (\A u \in Thread \ {t} : thread'[u] = thread[u])
  BY <1>2, MovesFacts
<1>4. /\ k'.tick = k.tick /\ k'.over = k.over /\ k'.pended = k.pended /\ k'.cur = t
      /\ k'.state = k.state /\ k'.wake = k.wake /\ k'.unblock = k.unblock
  BY <1>1 DEF SameTime, SameWait, SameRun
<1>5. thread[t].entered
  BY <1>1 DEF Timing, Punctual, Entered, Begun, Inside
<1>6. Punctual(t)'
  BY <1>1, <1>2, <1>4, <1>5, StayPunctual
<1>7. (\A u \in Task : Spared(u)) /\ Unblocks(k')
  BY <1>4 DEF Spared, Timing, Unblocks
<1> QED BY <1>1, <1>3, <1>4, <1>6, <1>7, InsideTiming DEF Thread

-----------------------------------------------------------------------------
\* The look at the clock of xTaskCheckForTimeOut sees how much time has passed.
LEMMA TimeoutSeen ==
  ASSUME Typed, Timing, NEW t \in Thread, Timed(t), Op(t).do # "delay", thread[t].left # 0
  PROVE  /\ Since(t) \in Nat /\ Rest(t) \in Int /\ thread[t].left \in Nat /\ thread[t].left # Forever
         /\ thread[t].left <= Op(t).wait /\ Op(t).wait \in Nat
         /\ TimedOut(t) => Rest(t) <= 0
         /\ ~TimedOut(t) => Rest(t) >= 1 /\ thread[t].left - Elapsed(t) = Rest(t)
<1>1. /\ thread[t].left <= Op(t).wait /\ Since(t) >= 0 /\ Clocked(k, t, thread[t].start, Since(t))
  BY DEF Timing, Punctual, Counting, Timeout
<1>2. /\ k.tick \in Ticks /\ thread[t].start \in Ticks /\ thread[t].left \in 0..Forever
      /\ waited[t] \in 0..TickMod /\ k.pended \in 0..MaxPended
  BY DEF Typed, Sched, Rec
<1>3. /\ TickMod \in Nat \ {0, 1} /\ MaxPended \in Nat /\ Forever = TickMod - 1 /\ Ticks = 0..TickMod - 1
  BY TickAssumption DEF Ticks, Forever
<1>4. Op(t).wait \in Nat /\ Op(t).wait <= Forever /\ Op(t).wait # Forever
  BY WaitNat DEF Timed
<1>5. /\ Rest(t) \in Int /\ Since(t) \in Nat /\ Since(t) <= TickMod /\ thread[t].left \in Nat
      /\ thread[t].left < Forever /\ thread[t].left - Since(t) = Rest(t)
  <2>1. waited[t] \in Nat /\ waited[t] <= TickMod /\ k.pended \in Nat
    BY <1>2, <1>3
  <2>2. thread[t].left \in Nat /\ thread[t].left <= Forever /\ thread[t].left # Forever
    BY <1>1, <1>2, <1>3, <1>4
  <2>3. Rest(t) = Op(t).wait - (waited[t] - k.pended) /\ Rest(t) \in Int
    BY <1>4, <2>1 DEF Rest
  <2>4. Since(t) = thread[t].left - Rest(t)
    BY DEF Since
  <2>5. PICK l \in Nat, w \in Nat, m \in Nat, p \in Nat :
           l = thread[t].left /\ w = Op(t).wait /\ m = waited[t] /\ p = k.pended
    BY <1>4, <2>1, <2>2
  <2>6. thread[t].left <= Op(t).wait /\ Since(t) >= 0
    BY <1>1
  <2>7. Since(t) <= TickMod /\ thread[t].left - Since(t) = Rest(t)
    <3>1. Rest(t) = w - (m - p) /\ Since(t) = l - (w - (m - p)) /\ l <= w /\ m <= TickMod
      BY <2>1, <2>3, <2>4, <2>5, <2>6
    <3>2. l - (w - (m - p)) <= TickMod /\ l - (l - (w - (m - p))) = w - (m - p)
      BY <1>3, <3>1
    <3> QED BY <2>5, <3>1, <3>2
  <2>8. Since(t) \in Nat
    BY <2>2, <2>3, <2>4, <2>6
  <2>9. thread[t].left < Forever
    BY <1>3, <2>2
  <2> QED BY <2>2, <2>3, <2>7, <2>8, <2>9
<1> DEFINE x == k.tick - thread[t].start
<1>6. x \in Int /\ Elapsed(t) = x % TickMod
  BY <1>2, <1>3 DEF Elapsed
<1>7. CASE t \in k.over
  <2>1. x = Since(t) - TickMod
    <3>1. k.tick = thread[t].start + Since(t) - TickMod
      BY <1>1, <1>7 DEF Clocked
    <3> QED BY <1>2, <1>3, <1>5, <3>1
  <2>2. CASE Since(t) = TickMod
    <3>1. TimedOut(t)
      BY <1>2, <1>3, <1>5, <1>7, <2>1, <2>2 DEF TimedOut, Turned
    <3> QED BY <1>1, <1>2, <1>3, <1>4, <1>5, <2>2, <3>1
  <2>3. CASE Since(t) # TickMod
    <3>1. ~Turned(t)
      BY <1>2, <1>3, <1>5, <2>1, <2>3 DEF Turned
    <3>2. x + TickMod \in Ticks /\ x + TickMod = Since(t)
      BY <1>3, <1>5, <1>6, <2>1, <2>3
    <3> HIDE DEF x
    <3>3. Elapsed(t) = Since(t)
      BY <1>6, <3>2, WrapFacts
    <3>4. TimedOut(t) <=> Since(t) >= thread[t].left
      BY <1>3, <1>5, <3>1, <3>3 DEF TimedOut
    <3> QED BY <1>1, <1>3, <1>4, <1>5, <3>3, <3>4
  <2> QED BY <2>2, <2>3
<1>8. CASE t \notin k.over
  <2>1. x = Since(t)
    <3>1. k.tick = thread[t].start + Since(t) - 0
      BY <1>1, <1>8 DEF Clocked
    <3> QED BY <1>2, <1>3, <1>5, <3>1
  <2>2. ~Turned(t)
    BY <1>8 DEF Turned
  <2>3. x \in Ticks
    BY <1>2, <1>3, <1>5, <2>1
  <2> HIDE DEF x
  <2>4. Elapsed(t) = Since(t)
    BY <1>6, <2>1, <2>3, WrapFacts
  <2>5. TimedOut(t) <=> Since(t) >= thread[t].left
    BY <1>3, <1>5, <2>2, <2>4 DEF TimedOut
  <2> QED BY <1>1, <1>3, <1>4, <1>5, <2>4, <2>5
<1> QED BY <1>7, <1>8

\* xTaskCheckForTimeOut under prvLockQueue.
LEMMA LockTiming ==
  ASSUME Typed, Control, Timing, NEW t \in Thread, Lock(t) PROVE Timing'
<1>1. /\ k.cur = t /\ thread[t].pc = "lock" /\ waited' = waited /\ Op(t).do # "delay"
      /\ k'.pended = k.pended /\ k'.tick = k.tick
      /\ SameWait(k', k) /\ SameRun(k', k)
  BY LockEffect
<1>2. /\ k'.state = k.state /\ k'.wake = k.wake /\ k'.unblock = k.unblock /\ k'.cur = t
  BY <1>1 DEF SameWait, SameRun
<1>3. (\A u \in Task : Spared(u)) /\ Unblocks(k')
  BY <1>2 DEF Spared, Timing, Unblocks
<1>4. Punctual(t) /\ thread[t] \in Rec /\ k \in Sched /\ t \in Task
  BY DEF Timing, Typed, Thread
<1>5. thread[t].entered /\ (Timed(t) <=> thread[t].left # Forever)
  BY <1>1, <1>4 DEF Punctual, Entered, Begun, Inside, Timed, Control, Sound
<1>6. Timed(t) => thread[t].left # 0
  BY <1>1, <1>4 DEF Punctual, Counting, Timeout
<1>7. Timed(t) => Counting(t)
  BY <1>4 DEF Punctual
<1>8. /\ \A u \in Thread \ {t} : thread'[u] = thread[u]
      /\ thread'[t].todo = thread[t].todo /\ thread'[t].entered = thread[t].entered
  BY <1>4 DEF Lock, CheckForTimeOut, Typed, Rec
<1>9. Op(t)' = Op(t)
  BY <1>8, SameCall
<1>10. Rest(t)' = Rest(t) /\ (Timed(t)' <=> Timed(t))
  BY <1>1, <1>8, <1>9 DEF Rest, Timed
<1>11. Entered(t)'
  BY <1>1, <1>2, <1>4, <1>5, <1>8, <1>9, <1>10 DEF Punctual, Entered
<1>12. CASE TimedOut(t)
  <2>1. /\ thread'[t].pc = "unlock" /\ thread'[t].start = thread[t].start
        /\ thread'[t].left \in {thread[t].left, 0} /\ k' = k
    BY <1>1, <1>4, <1>12 DEF Lock, CheckForTimeOut, Typed, Rec
  <2>2. thread[t].left # Forever
    BY <1>12 DEF TimedOut
  <2>3. Rest(t) <= 0
    BY <1>1, <1>5, <1>6, <1>12, <2>2, TimeoutSeen
  <2>4. Counting(t)
    BY <1>5, <1>7, <2>2
  <2>5. thread'[t].left # 0 => Since(t)' = Since(t) /\ thread'[t].left = thread[t].left
    BY <1>10, <2>1 DEF Since
  <2>6. Timeout(t)'
    BY <1>1, <1>9, <2>1, <2>4, <2>5 DEF Counting, Timeout
  <2>7. Counting(t)'
    BY <1>1, <1>9, <1>10, <2>1, <2>3, <2>4, <2>6 DEF Counting
  <2>8. Punctual(t)'
    BY <1>11, <2>7 DEF Punctual
  <2> QED BY <1>1, <1>2, <1>3, <1>8, <2>1, <2>8, InsideTiming DEF Thread
<1>13. CASE ~TimedOut(t) /\ thread[t].left = Forever
  <2>1. k' = k
    BY <1>13 DEF Lock, CheckForTimeOut
  <2>2. Punctual(t)'
    BY <1>5, <1>10, <1>11, <1>13 DEF Punctual
  <2> QED BY <1>1, <1>2, <1>3, <1>8, <2>1, <2>2, InsideTiming DEF Thread
<1>14. CASE ~TimedOut(t) /\ thread[t].left # Forever
  <2>1. /\ thread'[t].pc = "test" /\ thread'[t].start = k.tick
        /\ thread'[t].left = thread[t].left - Elapsed(t) /\ path' = path /\ k'.over = k.over \ {t}
    BY <1>1, <1>4, <1>14 DEF Lock, CheckForTimeOut, Typed, Rec, Sched
  <2>2. Timed(t)
    BY <1>5, <1>14
  <2>3. /\ Since(t) \in Nat /\ Rest(t) \in Int /\ thread[t].left \in Nat
        /\ thread[t].left <= Op(t).wait /\ Op(t).wait \in Nat
        /\ Rest(t) >= 1 /\ thread'[t].left = Rest(t)
    BY <1>1, <1>6, <1>14, <2>1, <2>2, TimeoutSeen
  <2>4. Rest(t) <= Op(t).wait
    BY <2>3 DEF Since
  <2>5. Since(t)' = 0
    BY <1>10, <2>3 DEF Since
  <2>6. Clocked(k', t, k.tick, 0)
    <3>1. k.tick = k.tick + 0 - 0
      BY <1>4 DEF Sched, Ticks
    <3> QED BY <1>1, <2>1, <3>1 DEF Clocked
  <2>7. Timeout(t)'
    BY <1>9, <2>1, <2>3, <2>4, <2>5, <2>6 DEF Timeout
  <2>8. Sleeps(k', t, Rest(t))
    BY <1>1, <1>2, <1>7, <2>2 DEF Counting, Sleeps
  <2>9. path # "expired"
    BY <1>1, InsideRun DEF Inside, None
  <2>10. Counting(t)'
    BY <1>1, <1>9, <1>10, <2>1, <2>3, <2>7, <2>8, <2>9 DEF Counting
  <2>11. Punctual(t)'
    BY <1>11, <2>10 DEF Punctual
  <2> QED BY <1>1, <1>2, <1>3, <1>8, <2>1, <2>11, InsideTiming DEF Thread
<1> QED BY <1>12, <1>13, <1>14

\* What blocking the task t for n ticks makes of s.
Blocks(r, s, t, n, b) ==
  /\ Unblocks(r) /\ r.tick = s.tick /\ r.over = s.over /\ r.pended = s.pended /\ r.cur = s.cur
  /\ \A u \in Task \ {t} : r.state[u] = s.state[u] /\ r.wake[u] = s.wake[u]
  /\ n = Forever /\ b => r.state[t] = "suspended"
  /\ ~(n = Forever /\ b) => r.state[t] \in Dozing /\ Sleeps(r, t, n)

\* prvAddCurrentTaskToDelayedList sets the wake time n ticks from now.
LEMMA BlockTimes ==
  ASSUME NEW s \in Sched, Unblocks(s), NEW t \in Task, NEW n \in 1..Forever, NEW b \in BOOLEAN, NEW r,
         r = Block(s, t, n, b)
  PROVE  Blocks(r, s, t, n, b)
<1> DEFINE at == (s.tick + n) % TickMod
<1>1. n \in 0..Forever /\ n \in Nat /\ n >= 1
  BY Tock
<1>2. /\ r \in Sched /\ SameTime(r, s) /\ SameRun(r, s)
      /\ \A u \in Task \ {t} : r.state[u] = s.state[u] /\ r.wake[u] = s.wake[u]
      /\ \/ /\ n = Forever /\ b /\ r.state[t] = "suspended" /\ r.unblock = s.unblock
         \/ /\ ~(n = Forever /\ b) /\ at < s.tick /\ r.state[t] = "overflow"
            /\ r.unblock = s.unblock /\ r.wake[t] = at
         \/ /\ ~(n = Forever /\ b) /\ at >= s.tick /\ r.state[t] = "delayed"
            /\ r.unblock <= s.unblock /\ r.unblock <= at /\ r.wake[t] = at
  BY <1>1, BlockFacts
<1>3. /\ s.tick \in Ticks /\ TickMod \in Nat \ {0, 1} /\ Forever = TickMod - 1 /\ Ticks = 0..TickMod - 1
      /\ s.unblock \in Int /\ r.unblock \in Int
  BY <1>2, TickAssumption DEF Sched, Ticks, Forever
<1> DEFINE y == s.tick + n
<1>7. y = s.tick + n /\ y \in Int /\ at = y % TickMod
  BY <1>1, <1>3
<1> HIDE DEF y, at
<1>4. at = IF s.tick + n < TickMod THEN s.tick + n ELSE s.tick + n - TickMod
  <2>1. CASE s.tick + n < TickMod
    <3>1. y \in Ticks
      BY <1>1, <1>3, <1>7, <2>1
    <3>2. y % TickMod = y
      BY <3>1, WrapFacts
    <3> QED BY <1>7, <2>1, <3>2
  <2>2. CASE ~(s.tick + n < TickMod)
    <3>1. y - TickMod \in Ticks
      BY SMTT(40), <1>1, <1>3, <1>7, <2>2
    <3>2. y % TickMod = y - TickMod
      BY <1>7, <3>1, WrapFacts
    <3>3. at = s.tick + n - TickMod
      BY SMTT(40), <1>1, <1>3, <1>7, <3>2
    <3> QED BY <2>2, <3>3, Zenon
  <2> QED BY <2>1, <2>2, Zenon
<1>5. /\ n = Forever /\ b => r.state[t] = "suspended"
      /\ ~(n = Forever /\ b) => r.state[t] \in Dozing /\ Sleeps(r, t, n)
  <2>1. r.tick = s.tick
    BY <1>2 DEF SameTime
  <2>2. s.tick + n < TickMod => at >= s.tick
    BY <1>1, <1>3, <1>4
  <2>3. ~(s.tick + n < TickMod) => at < s.tick
    BY <1>1, <1>3, <1>4
  <2>4. s.tick \in Int /\ at \in Int
    BY <1>1, <1>3, <1>4
  <2> QED BY <1>1, <1>2, <1>4, <2>1, <2>2, <2>3, <2>4 DEF Sleeps, Dozing
<1>6. Unblocks(r)
  <2>1. ASSUME NEW u \in Task, r.state[u] = "delayed" PROVE r.unblock <= r.wake[u]
    <3>1. CASE u = t
      BY <1>2, <2>1, <3>1
    <3>2. CASE u # t
      <4>1. r.wake[u] = s.wake[u] /\ s.unblock <= s.wake[u] /\ s.wake[u] \in Int
        BY <1>2, <1>3, <2>1, <3>2 DEF Unblocks, Sched
      <4>2. r.unblock <= s.unblock
        BY <1>2, <1>3
      <4> QED BY <1>3, <4>1, <4>2
    <3> QED BY <3>1, <3>2
  <2> QED BY <2>1 DEF Unblocks
<1> QED BY <1>2, <1>5, <1>6 DEF SameTime, SameRun, Blocks

-----------------------------------------------------------------------------
\* The same of the state after the step.
LEMMA BlockNow ==
  ASSUME NEW s \in Sched, Unblocks(s), NEW t \in Task, NEW n \in 1..Forever, NEW b \in BOOLEAN,
         k' = Block(s, t, n, b)
  PROVE  Blocks(k', s, t, n, b)
  BY BlockTimes, Zenon

\* vTaskPlaceOnEventList: the call sleeps for what is left of its time.
LEMMA PlaceTiming ==
  ASSUME Typed, Control, Mutexes, Timing, NEW t \in Thread, Place(t) PROVE Timing'
<1>1. /\ k.cur = t /\ thread[t].pc = "place" /\ waited' = waited /\ Op(t).do # "delay"
      /\ path' = "blocked" /\ k \in Sched /\ t \in Task /\ thread[t] \in Rec
  BY DEF Place, At, Typed, Thread
<1>2. OnMutex(t) => queue[On(t)].holder \in Task
  BY <1>1, PlaceHeld
<1> DEFINE s == IF OnMutex(t) THEN Inherit(k, queue[On(t)].holder, t) ELSE k
           i == Insert(s, Waits(t), t)
<1>3. s \in Sched /\ SameTime(s, k) /\ SameWait(s, k) /\ SameRun(s, k)
  <2>1. CASE OnMutex(t)
    BY <1>1, <1>2, <2>1, InheritFacts
  <2>2. CASE ~OnMutex(t)
    BY <1>1, <2>2 DEF SameTime, SameWait, SameRun
  <2> QED BY <2>1, <2>2
<1>4. k' = Block(i, t, thread[t].left, TRUE)
  BY DEF Place
<1> HIDE DEF s
<1>5. i \in Sched /\ SameTime(i, s) /\ SameWait(i, s) /\ SameRun(i, s)
  <2>1. Waits(t) \in Event
    BY <1>1, ThreadFacts
  <2> QED BY <1>1, <1>3, <2>1, InsertFacts
<1> HIDE DEF i
<1>6. /\ i.tick = k.tick /\ i.over = k.over /\ i.pended = k.pended /\ i.cur = k.cur
      /\ i.state = k.state /\ i.wake = k.wake /\ i.unblock = k.unblock
  BY <1>3, <1>5 DEF SameTime, SameWait, SameRun
<1>7. Unblocks(i)
  BY <1>6 DEF Timing, Unblocks
<1>8. Punctual(t)
  BY DEF Timing
<1>9. thread[t].entered /\ (Timed(t) <=> thread[t].left # Forever)
  BY <1>1, <1>8 DEF Punctual, Entered, Begun, Inside, Timed, Control, Sound
<1>10. Timed(t) => Counting(t) /\ thread[t].left # 0 /\ thread[t].left = Rest(t)
  BY <1>1, <1>8 DEF Punctual, Counting, Timeout
<1>11. thread[t].left \in 1..Forever
  <2>1. thread[t].left \in 0..Forever /\ Forever \in Nat /\ Forever >= 1
    BY <1>1, Tock DEF Rec
  <2> QED BY <1>9, <1>10, <2>1
<1>12. /\ Unblocks(k') /\ k'.tick = k.tick /\ k'.over = k.over /\ k'.pended = k.pended /\ k'.cur = t
       /\ \A u \in Task \ {t} : k'.state[u] = k.state[u] /\ k'.wake[u] = k.wake[u]
       /\ thread[t].left = Forever => k'.state[t] = "suspended"
       /\ thread[t].left # Forever => k'.state[t] \in Dozing /\ Sleeps(k', t, thread[t].left)
  <2>1. PICK n \in 1..Forever : n = thread[t].left
    BY <1>11
  <2>2. k' = Block(i, t, n, TRUE)
    BY <1>4, <2>1
  <2>3. PICK b \in BOOLEAN : b = TRUE
    OBVIOUS
  <2>4. Blocks(k', i, t, n, b)
    BY <1>1, <1>5, <1>7, <2>2, <2>3, BlockNow
  <2> QED BY <1>1, <1>6, <2>1, <2>3, <2>4 DEF Blocks
<1>13. /\ \A u \in Thread \ {t} : thread'[u] = thread[u]
       /\ thread'[t].pc = "unlock" /\ thread'[t].todo = thread[t].todo
       /\ thread'[t].left = thread[t].left /\ thread'[t].start = thread[t].start
       /\ thread'[t].entered = thread[t].entered
  BY <1>1 DEF Place, Typed, Rec
<1>14. Op(t)' = Op(t)
  BY <1>13, SameCall
<1>15. Rest(t)' = Rest(t) /\ Since(t)' = Since(t) /\ (Timed(t)' <=> Timed(t))
  BY <1>1, <1>12, <1>13, <1>14 DEF Rest, Since, Timed
<1>16. Entered(t)'
  BY <1>1, <1>8, <1>9, <1>12, <1>13, <1>14, <1>15 DEF Punctual, Entered, Dozing
<1>17. ASSUME Timed(t) PROVE Counting(t)'
  <2>1. Timeout(t)'
    BY <1>1, <1>10, <1>12, <1>13, <1>14, <1>15, <1>17 DEF Counting, Timeout, Clocked
  <2>2. Sleeps(k', t, Rest(t))
    BY <1>9, <1>10, <1>12, <1>17
  <2> QED BY <1>1, <1>13, <1>14, <1>15, <2>1, <2>2 DEF Counting
<1>18. \A u \in Task \ {t} : Spared(u)
  BY <1>12 DEF Spared
<1> QED BY <1>1, <1>12, <1>13, <1>15, <1>16, <1>17, <1>18, InsideTiming DEF Punctual, Thread

\* vTaskDelay: the delay sleeps for its time.
LEMMA PlaceDelayTiming ==
  ASSUME Typed, Control, Timing, NEW t \in Thread, PlaceDelay(t) PROVE Timing'
<1>1. /\ k.cur = t /\ thread[t].pc = "place" /\ waited' = waited /\ Op(t).do = "delay"
      /\ path' = "blocked" /\ k \in Sched /\ t \in Task /\ k' = Block(k, t, thread[t].left, FALSE)
      /\ Goto(t, "resume")
  BY DEF PlaceDelay, At, Typed, Thread
<1>2. Punctual(t)
  BY DEF Timing
<1>3. thread[t].entered /\ thread[t].left = Op(t).wait
  BY <1>1, <1>2 DEF Punctual, Entered, Begun
<1>4. Op(t).wait \in 1..Forever /\ Op(t).wait # Forever
  <2>1. Op(t).wait \in 1..TickMod - 2
    BY <1>1, ThreadFacts, CallFacts
  <2> QED BY <2>1, TickAssumption DEF Forever
<1>5. Timed(t) /\ thread[t].left = Rest(t)
  BY <1>1, <1>2, <1>3, <1>4 DEF Timed, Punctual, Counting
<1>6. /\ Unblocks(k') /\ k'.tick = k.tick /\ k'.over = k.over /\ k'.pended = k.pended /\ k'.cur = t
      /\ \A u \in Task \ {t} : k'.state[u] = k.state[u] /\ k'.wake[u] = k.wake[u]
      /\ k'.state[t] \in Dozing /\ Sleeps(k', t, thread[t].left)
  <2>1. PICK n \in 1..Forever : n = thread[t].left /\ n # Forever
    BY <1>3, <1>4
  <2>2. k' = Block(k, t, n, FALSE) /\ Unblocks(k)
    BY <1>1, <2>1 DEF Timing
  <2>3. PICK b \in BOOLEAN : b = FALSE
    OBVIOUS
  <2>4. Blocks(k', k, t, n, b)
    BY <1>1, <2>2, <2>3, BlockNow
  <2> QED BY <1>1, <2>1, <2>3, <2>4 DEF Blocks
<1>7. PICK r : /\ Moves(t, r) /\ r.pc = "resume" /\ r.left = thread[t].left
               /\ r.entered = thread[t].entered
  BY <1>1, GotoGoes, Strings
<1>8. thread'[t] = r /\ (\A u \in Thread \ {t} : thread'[u] = thread[u]) /\ Op(t)' = Op(t)
  BY <1>7, MovesFacts
<1>9. Rest(t)' = Rest(t) /\ Timed(t)'
  BY <1>1, <1>5, <1>6, <1>7, <1>8 DEF Rest, Timed
<1>10. Entered(t)'
  BY <1>1, <1>2, <1>3, <1>6, <1>7, <1>8, <1>9 DEF Punctual, Entered, Dozing
<1>11. Counting(t)'
  BY <1>1, <1>5, <1>6, <1>7, <1>8, <1>9 DEF Counting, Dozing
<1>12. \A u \in Task \ {t} : Spared(u)
  BY <1>6 DEF Spared
<1> QED BY <1>1, <1>6, <1>8, <1>10, <1>11, <1>12, InsideTiming DEF Punctual, Thread

\* For the thread u the scheduler has counted n ticks more.
Onward(u, n) ==
  /\ \A rest \in Int : Sleeps(k, u, rest) =>
       /\ Sleeps(k', u, rest - n)
       /\ Op(u).do = "delay" /\ k.state[u] \in Dozing /\ k'.state[u] = "ready" => rest <= n
  /\ \A start \in Ticks, m \in Nat :
       m + n <= TickMod /\ Clocked(k, u, start, m) => Clocked(k', u, start, m + n)
  /\ k'.state[u] \in Dozing => k.state[u] \in Dozing
  /\ Op(u).do = "delay" /\ k'.state[u] = "suspended" => k.state[u] = "suspended"

\* The control of u stays, or u has resumed the scheduler.
Abides(u) ==
  /\ thread'[u].todo = thread[u].todo /\ thread'[u].left = thread[u].left
  /\ thread'[u].start = thread[u].start /\ thread'[u].entered = thread[u].entered
  /\ \/ thread'[u].pc = thread[u].pc
     \/ /\ thread[u].pc = "resume" /\ thread'[u].pc \in {"try", "expired"}
        /\ Op(u).do = "delay" => thread'[u].pc = "try"
  /\ path' = "expired" /\ k'.cur = u => path = "expired" /\ k.cur = u

\* A thread for which n ticks are counted, or kept, has a clock that is right.
LEMMA LaterPunctual ==
  ASSUME Typed, Control, Typed', NEW u \in Thread, Punctual(u), NEW n \in Nat, Onward(u, n), Abides(u),
         thread'[u].pc \in {"test", "place"} => n = 0,
         ~Timed(u) => waited'[u] = waited[u],
         Timed(u) => waited'[u] - k'.pended = waited[u] - k.pended + n
  PROVE  Punctual(u)'
<1>1. Op(u)' = Op(u)
  BY SameCall DEF Abides
<1>2. (Timed(u)' <=> Timed(u)) /\ (Begun(u)' => Begun(u))
  BY <1>1 DEF Timed, Begun, Abides, Inside
<1>3. /\ waited[u] \in 0..TickMod /\ k.pended \in 0..MaxPended
      /\ waited'[u] \in 0..TickMod /\ k'.pended \in 0..MaxPended
      /\ thread[u].left \in 0..Forever /\ thread[u].start \in Ticks /\ k.state[u] \in States
  BY DEF Typed, Sched, Rec, Thread
<1>4. TickMod \in Nat /\ MaxPended \in Nat /\ Op(u).wait \in Nat /\ Forever \in Nat
  BY WaitNat, TickAssumption
<1>5. Entered(u)'
  BY <1>1, <1>2 DEF Punctual, Entered, Abides, Onward, Timed
<1>6. ASSUME Timed(u) PROVE Counting(u)'
  <2>1. Counting(u)
    BY <1>6 DEF Punctual
  <2>2. /\ Rest(u) \in Int /\ Rest(u)' = Rest(u) - n /\ Since(u) \in Int
    <3>1. Rest(u) = Op(u).wait - (waited[u] - k.pended) /\ Rest(u)' = Op(u).wait - (waited'[u] - k'.pended)
      BY <1>1 DEF Rest
    <3>2. waited[u] - k.pended \in Int
      BY <1>3, <1>4
    <3>3. Rest(u) \in Int /\ Rest(u)' = Rest(u) - n
      BY <1>4, <1>6, <3>1, <3>2
    <3> QED BY <1>3, <3>3 DEF Since
  <2>3. Since(u)' = Since(u) + n
    <3>1. Since(u)' = thread[u].left - Rest(u)' /\ Since(u) = thread[u].left - Rest(u)
      BY DEF Since, Abides
    <3> QED BY <1>3, <2>2, <3>1
  <2>4. Sleeps(k', u, Rest(u)')
    BY <2>1, <2>2 DEF Counting, Onward
  <2>5. ASSUME Op(u).do # "delay" PROVE Timeout(u)'
    <3>1. Timeout(u)
      BY <2>1, <2>5 DEF Counting
    <3>2. ASSUME thread[u].left # 0
          PROVE  Since(u)' >= 0 /\ Clocked(k', u, thread[u].start, Since(u)')
      <4>1. /\ thread[u].left <= Op(u).wait /\ Since(u) >= 0
            /\ Clocked(k, u, thread[u].start, Since(u))
        BY <3>1, <3>2 DEF Timeout
      <4>2. Since(u) \in Nat /\ Since(u) + n >= 0
        BY <2>2, <4>1
      <4>3. Since(u) + n <= TickMod
        <5>1. PICK l \in Nat, w \in Nat, m \in Nat, p \in Nat :
                 l = thread[u].left /\ w = Op(u).wait /\ m = waited'[u] /\ p = k'.pended
          BY <1>3, <1>4
        <5>2. Since(u) + n = l - (w - (m - p)) /\ l <= w /\ m <= TickMod
          <6>1. Since(u)' = thread'[u].left - (Op(u)'.wait - (waited'[u] - k'.pended))
            BY DEF Since, Rest
          <6>2. thread'[u].left = l /\ Op(u)'.wait = w
            BY <1>1, <5>1 DEF Abides
          <6> QED BY <1>3, <2>3, <4>1, <5>1, <6>1, <6>2
        <5>3. l - (w - (m - p)) <= TickMod
          BY <1>4, <5>2
        <5> QED BY <5>2, <5>3
      <4>4. Clocked(k', u, thread[u].start, Since(u) + n)
        BY <1>3, <4>1, <4>2, <4>3 DEF Onward
      <4> QED BY <2>3, <4>2, <4>4
    <3> QED BY <1>1, <3>1, <3>2 DEF Timeout, Abides
  <2>6. thread'[u].pc \in {"test", "place"} => thread'[u].left = Rest(u)'
    <3>1. ASSUME thread'[u].pc \in {"test", "place"} PROVE thread'[u].left = Rest(u)'
      <4>1. n = 0 /\ thread[u].pc \in {"test", "place"} /\ thread'[u].left = thread[u].left
        BY <3>1 DEF Abides
      <4>2. thread[u].left = Rest(u)
        BY <2>1, <4>1 DEF Counting
      <4> QED BY <2>2, <4>1, <4>2
    <3> QED BY <3>1
  <2>7. ASSUME Op(u).do = "delay", k'.state[u] = "ready", thread'[u].pc \in {"try", "resume"}
        PROVE  Rest(u)' <= 0
    <3>1. thread[u].pc \in {"try", "resume"}
      BY <2>7 DEF Abides
    <3>2. CASE k.state[u] = "ready"
      <4>1. Rest(u) <= 0
        BY <2>1, <2>7, <3>1, <3>2 DEF Counting
      <4> QED BY <2>2, <4>1
    <3>3. CASE k.state[u] # "ready"
      <4>1. k.state[u] \in Dozing
        BY <1>3, <2>7, <3>3 DEF Punctual, Entered, States, Dozing
      <4>2. Sleeps(k, u, Rest(u))
        BY <2>1 DEF Counting
      <4>3. Rest(u) <= n
        BY <2>2, <2>7, <4>1, <4>2 DEF Onward
      <4> QED BY <2>2, <4>3
    <3> QED BY <3>2, <3>3
  <2>8. ASSUME path' = "expired", k'.cur = u PROVE Rest(u)' <= 0
    <3>1. Rest(u) <= 0
      BY <2>1, <2>8 DEF Abides, Counting
    <3> QED BY <2>2, <3>1
  <2> QED BY <1>1, <2>4, <2>5, <2>6, <2>7, <2>8 DEF Counting
<1> QED BY <1>2, <1>5, <1>6 DEF Punctual

-----------------------------------------------------------------------------
\* Whoever the resumed or ticking scheduler leaves asleep has n ticks less to sleep.
LEMMA TidiedLater ==
  ASSUME Typed, NEW u \in Thread, NEW n \in Nat, NEW s, NEW r, Elapsing(s, r, u, n),
         s.tick = k.tick, s.over = k.over,
         u \notin ToSet(k.pend) => s.state[u] = k.state[u] /\ s.wake[u] = k.wake[u],
         u \in ToSet(k.pend) => s.state[u] = "ready" /\ Op(u).do # "delay",
         k'.tick = r.tick, k'.over = r.over, k'.state = r.state, k'.wake = r.wake,
         NEW woken, Tidied(k', k, woken)
  PROVE  Onward(u, n)
<1>1. u \in Task /\ k.state[u] \in States /\ k'.state[u] \in States
  BY DEF Typed, Tidied, Sched, Thread
<1>2. /\ k'.state[u] = "ready" <=> k.state[u] = "ready" \/ u \in ToSet(k.pend) \/ u \in woken
      /\ k'.state[u] = "suspended" <=> k.state[u] = "suspended" /\ u \notin ToSet(k.pend)
  BY <1>1 DEF Tidied
<1>3. ASSUME NEW rest \in Int, Sleeps(k, u, rest)
      PROVE  /\ Sleeps(k', u, rest - n)
             /\ Op(u).do = "delay" /\ k.state[u] \in Dozing /\ k'.state[u] = "ready" => rest <= n
  <2>1. Sleeps(s, u, rest)
    BY <1>3 DEF Sleeps
  <2>2. /\ Sleeps(r, u, rest - n)
        /\ s.state[u] \in Dozing /\ r.state[u] = "ready" => rest <= n
    BY <2>1 DEF Elapsing
  <2>3. Sleeps(k', u, rest - n)
    BY <2>2 DEF Sleeps
  <2> QED BY <2>2, <2>3
<1>4. ASSUME NEW start \in Ticks, NEW m \in Nat, m + n <= TickMod, Clocked(k, u, start, m)
      PROVE  Clocked(k', u, start, m + n)
  <2>1. Clocked(s, u, start, m)
    BY <1>4 DEF Clocked
  <2>2. Clocked(r, u, start, m + n)
    BY <1>4, <2>1 DEF Elapsing
  <2> QED BY <2>2 DEF Clocked
<1>5. k'.state[u] \in Dozing => k.state[u] \in Dozing
  BY <1>1, <1>2 DEF Dozing, States
<1> QED BY <1>2, <1>3, <1>4, <1>5 DEF Onward

\* SysTick_Handler: a tick that is counted, or one that is kept for later.
LEMMA SysTickTiming ==
  ASSUME Typed, Control, Timing, SysTick PROVE Timing'
<1>1. /\ thread' = thread /\ path' = path
      /\ waited' = [u \in Thread |-> IF Timed(u) THEN waited[u] + 1 ELSE waited[u]]
      /\ k \in Sched /\ k.pended \in Nat
  BY DEF SysTick, Typed, Sched
<1>2. Typed'
  BY SysTickControl
<1>3. ASSUME NEW n \in Nat, Unblocks(k'), k'.pended + n = k.pended + 1,
             \A u \in Thread : Onward(u, n),
             \A u \in Thread : thread[u].pc \in {"test", "place"} => n = 0,
             path = "expired" => k'.cur = k.cur
      PROVE  Timing'
  <2>1. ASSUME NEW u \in Thread PROVE Punctual(u)'
    <3>1. Abides(u)
      BY <1>1, <1>3 DEF Abides
    <3>2. ~Timed(u) => waited'[u] = waited[u]
      BY <1>1
    <3>3. Timed(u) => waited'[u] - k'.pended = waited[u] - k.pended + n
      <4>1. waited[u] \in Int /\ k.pended \in Int /\ k'.pended \in Int
        BY <1>1, <1>2 DEF Typed, Sched
      <4>2. Timed(u) => waited'[u] = waited[u] + 1
        BY <1>1
      <4> QED BY <1>3, <4>1, <4>2
    <3>4. thread'[u].pc \in {"test", "place"} => n = 0
      BY <1>1, <1>3
    <3>5. Punctual(u) /\ Onward(u, n)
      BY <1>3 DEF Timing
    <3> QED BY <1>2, <1>3, <3>1, <3>2, <3>3, <3>4, <3>5, LaterPunctual
  <2> QED BY <1>3, <2>1 DEF Timing
<1>4. CASE k.susp
  <2>1. k' = [k EXCEPT !.pended = @ + 1]
    BY <1>4 DEF SysTick
  <2>2. /\ k'.tick = k.tick /\ k'.over = k.over /\ k'.state = k.state /\ k'.wake = k.wake
        /\ k'.unblock = k.unblock /\ k'.cur = k.cur /\ k'.pended = k.pended + 1
    BY <1>1, <2>1 DEF Sched
  <2>3. Unblocks(k')
    BY <2>2 DEF Timing, Unblocks
  <2>4. ASSUME NEW u \in Thread PROVE Onward(u, 0)
    <3>1. ASSUME NEW rest \in Int, Sleeps(k, u, rest) PROVE Sleeps(k', u, rest - 0)
      <4>1. rest - 0 = rest
        OBVIOUS
      <4> QED BY <2>2, <3>1, <4>1 DEF Sleeps
    <3>2. ASSUME NEW start \in Ticks, NEW m \in Nat, Clocked(k, u, start, m)
          PROVE  Clocked(k', u, start, m + 0)
      <4>1. m + 0 = m
        OBVIOUS
      <4> QED BY <2>2, <3>2, <4>1 DEF Clocked
    <3> QED BY <2>2, <3>1, <3>2 DEF Onward, Dozing
  <2>5. k'.pended + 0 = k.pended + 1
    BY <1>1, <2>2
  <2> QED BY <1>3, <2>2, <2>3, <2>4, <2>5
<1>5. CASE ~k.susp
  <2> DEFINE s == IncrementTick(k)
  <2>1. k' \in YieldIf(s.yield, s) /\ k.pend = <<>> /\ k.pended = 0 /\ path = None
    BY <1>5 DEF SysTick, Control
  <2>2. PICK woken : Tidied(k', k, woken)
    BY <1>1, <1>5, <2>1, TickTidies
  <2>3. Unblocks(k)
    BY DEF Timing
  <2>4. s \in Sched
    BY <1>1, TickFacts
  <2>5. SameTime(k', s) /\ SameWait(k', s)
    <3>1. s.yield \in BOOLEAN
      BY <2>4 DEF Sched
    <3> HIDE DEF s
    <3> QED BY <2>1, <2>4, <3>1, SwitchFacts
  <2>6. ASSUME NEW u \in Thread PROVE Unblocks(s) /\ Elapsing(k, s, u, 1)
    BY <1>1, <2>3, TickSleeps DEF Thread
  <2> HIDE DEF s
  <2>7. /\ k'.tick = s.tick /\ k'.over = s.over /\ k'.state = s.state /\ k'.wake = s.wake
        /\ k'.unblock = s.unblock /\ k'.pended = 0
    BY <2>2, <2>5 DEF SameTime, SameWait, Tidied
  <2>8. ASSUME NEW u \in Thread PROVE Onward(u, 1) /\ Unblocks(k') /\ thread[u].pc \notin {"test", "place"}
    <3>1. u \notin ToSet(k.pend)
      BY <2>1 DEF ToSet
    <3>2. Onward(u, 1)
      BY <2>2, <2>6, <2>7, <3>1, TidiedLater
    <3>3. Unblocks(k')
      BY <2>6, <2>7 DEF Unblocks
    <3>4. thread[u].pc \notin Inside
      BY <1>5 DEF Control, Sound
    <3> QED BY <3>2, <3>3, <3>4 DEF Inside
  <2>9. Unblocks(k')
    <3>1. Unblocks(s)
      BY <1>1, <2>3, TickSleeps, TaskAssumption DEF s
    <3> QED BY <2>7, <3>1 DEF Unblocks
  <2>10. None # "expired" /\ k'.pended + 1 = k.pended + 1
    BY <2>1, <2>7 DEF None
  <2> QED BY <1>3, <2>1, <2>8, <2>9, <2>10
<1> QED BY <1>4, <1>5

\* xTaskResumeAll: the ticks that came meanwhile are made up for.
LEMMA ResumeAllTiming ==
  ASSUME Typed, Control, Lists, Timing, NEW t \in Thread, ResumeAll(t) PROVE Timing'
<1> DEFINE s == Resumed(k)
<1>1. /\ k.cur = t /\ thread[t].pc = "resume" /\ k.susp /\ path' = None /\ k \in Sched
      /\ k' \in YieldIf(s.yield \/ path = "blocked", s)
  BY DEF ResumeAll, Typed, At, Control, Sound, Inside
<1>2. PICK woken : Tidied(k', k, woken)
  BY ResumeAllEffect
<1>3. Typed' /\ Unblocks(k)
  BY ResumeAllControl DEF Timing
<1>4. ASSUME NEW u \in Task PROVE s \in Sched /\ Unblocks(s) /\ Elapsing(Back(k), s, u, k.pended)
  BY <1>1, <1>3, ResumedSleeps
<1>5. s \in Sched /\ Unblocks(s)
  BY <1>4, TaskAssumption
<1>6. SameTime(k', s) /\ SameWait(k', s)
  <2>1. (s.yield \/ path = "blocked") \in BOOLEAN
    OBVIOUS
  <2> HIDE DEF s
  <2> QED BY <1>1, <1>5, <2>1, SwitchFacts
<1> HIDE DEF s
<1>7. /\ k'.tick = s.tick /\ k'.over = s.over /\ k'.state = s.state /\ k'.wake = s.wake
      /\ k'.unblock = s.unblock /\ k'.pended = 0
  BY <1>2, <1>6 DEF SameTime, SameWait, Tidied
<1>8. Unblocks(k')
  BY <1>5, <1>7 DEF Unblocks
<1>9. k.pended \in Nat
  BY <1>1 DEF Sched
<1>10. ASSUME NEW u \in Thread PROVE Onward(u, k.pended)
  <2>1. u \in Task
    BY DEF Thread
  <2>2. /\ Back(k).tick = k.tick /\ Back(k).over = k.over
        /\ Back(k).state[u] = IF u \in ToSet(k.pend) THEN "ready" ELSE k.state[u]
        /\ Back(k).wake[u] = IF u \in ToSet(k.pend) THEN 0 ELSE k.wake[u]
    BY <1>1, <2>1, BackFacts DEF SameTime
  <2>3. u \in ToSet(k.pend) => Op(u).do # "delay"
    BY DEF Lists, Pending
  <2>4. Elapsing(Back(k), s, u, k.pended)
    BY <1>4, <2>1
  <2> DEFINE b == Back(k)
  <2> HIDE DEF b
  <2>5. /\ b.tick = k.tick /\ b.over = k.over /\ Elapsing(b, s, u, k.pended)
        /\ u \notin ToSet(k.pend) => b.state[u] = k.state[u] /\ b.wake[u] = k.wake[u]
        /\ u \in ToSet(k.pend) => b.state[u] = "ready"
    BY <2>2, <2>4 DEF b
  <2> QED BY <1>2, <1>7, <1>9, <2>3, <2>5, TidiedLater
<1>11. ASSUME NEW u \in Thread, Abides(u), waited'[u] = waited[u],
              thread'[u].pc \notin {"test", "place"}
       PROVE  Punctual(u)'
  <2>1. waited'[u] - k'.pended = waited[u] - k.pended + k.pended
    <3>1. waited[u] \in Int
      BY DEF Typed
    <3> QED BY <1>7, <1>9, <1>11, <3>1
  <2>2. Punctual(u) /\ Onward(u, k.pended)
    BY <1>10 DEF Timing
  <2> QED BY <1>3, <1>9, <1>11, <2>1, <2>2, LaterPunctual
<1>12. ASSUME NEW u \in Thread \ {t}, thread'[u] = thread[u], waited'[u] = waited[u] PROVE Punctual(u)'
  <2>1. thread[u].pc \notin {"test", "place"}
    BY <1>1, <1>12 DEF Control, Sound, Inside
  <2>2. path' # "expired"
    BY <1>1 DEF None
  <2>3. Abides(u)
    BY <1>12, <2>2 DEF Abides
  <2> QED BY <1>11, <1>12, <2>1, <2>3
<1>13. CASE /\ waited' = waited
            /\ \E r : /\ Moves(t, r) /\ r.left = thread[t].left
                      /\ r.inherited = thread[t].inherited /\ r.entered = thread[t].entered
                      /\ r.start = thread[t].start
                      /\ \/ r.pc = "try" /\ path # "expired"
                         \/ r.pc = "expired" /\ path = "expired" /\ Op(t).do = "take"
  <2>1. PICK r : /\ Moves(t, r) /\ r.left = thread[t].left
                 /\ r.inherited = thread[t].inherited /\ r.entered = thread[t].entered
                 /\ r.start = thread[t].start
                 /\ \/ r.pc = "try" /\ path # "expired"
                    \/ r.pc = "expired" /\ path = "expired" /\ Op(t).do = "take"
    BY <1>13
  <2>2. thread'[t] = r /\ r.todo = thread[t].todo /\ \A u \in Thread \ {t} : thread'[u] = thread[u]
    BY <2>1, MovesFacts DEF Moves
  <2>3. path' # "expired"
    BY <1>1 DEF None
  <2>4. Abides(t) /\ thread'[t].pc \notin {"test", "place"}
    BY <1>1, <2>1, <2>2, <2>3 DEF Abides
  <2>5. Punctual(t)'
    BY <1>11, <1>13, <2>4
  <2> QED BY <1>8, <1>12, <1>13, <2>2, <2>5 DEF Timing
<1>14. CASE path = "expired" /\ Op(t).do = "give" /\ Return(t, FALSE)
  <2>1. k.state[t] = "ready" /\ t \in Task
    BY <1>1, <1>14, InsideRun DEF Inside
  <2>2. k'.state[t] = "ready"
    BY <1>2, <2>1 DEF Tidied
  <2>3. Punctual(t)' /\ \A u \in Thread \ {t} : thread'[u] = thread[u] /\ waited'[u] = waited[u]
    BY <1>14, <2>2, ReturnPunctual
  <2> QED BY <1>8, <1>12, <2>3 DEF Timing
<1> QED BY <1>13, <1>14, ResumeAllEffect

-----------------------------------------------------------------------------
\* No thread has begun to wait when the scheduler starts.
LEMMA InitTiming == ASSUME Init PROVE Timing
<1>1. PICK first \in [Thread -> UNION {Programs[t] : t \in Thread}] :
       /\ \A t \in Thread : first[t] \in Programs[t]
       /\ thread = [t \in Thread |-> Calling(first[t])]
  BY DEF Init
<1>2. \A t \in Thread : first[t] \in Seq(Calls) \ {<<>>}
  BY <1>1, ProgramsAssumption DEF Thread
<1>3. k.state = [t \in Task |-> "ready"] /\ waited = [t \in Thread |-> 0]
  BY DEF Init
<1>4. ASSUME NEW t \in Thread PROVE Punctual(t)
  <2> DEFINE p == first[t]
  <2>1. /\ Calling(p).todo = p /\ Calling(p).left = Head(p).wait /\ ~Calling(p).entered
        /\ Calling(p).pc = IF Head(p).do = "delay" THEN "suspend" ELSE "try"
    BY <1>2, CallingFacts
  <2>2. /\ Op(t) = Head(p) /\ thread[t].left = Op(t).wait /\ ~thread[t].entered
        /\ thread[t].pc = IF Op(t).do = "delay" THEN "suspend" ELSE "try"
    BY <1>1, <2>1 DEF Op
  <2>3. ~Timed(t) /\ ~Begun(t)
    BY <2>2 DEF Timed, Begun, Inside
  <2>4. k.state[t] = "ready" /\ waited[t] = 0
    BY <1>3 DEF Thread
  <2> QED BY <2>2, <2>3, <2>4 DEF Punctual, Entered, Dozing
<1>5. Unblocks(k)
  BY <1>3 DEF Unblocks
<1> QED BY <1>4, <1>5 DEF Timing

\* Every step keeps time.
LEMMA TimingNext == ASSUME Orderly, Timing, Next PROVE Timing'
<1>1. Typed /\ Control /\ Mutexes /\ Lists
  BY DEF Orderly, Safe
<1>2. CASE SysTick
  BY <1>1, <1>2, SysTickTiming
<1>3. ASSUME NEW o \in Object, GiveFromISR(o) PROVE Timing'
  BY <1>1, <1>3, GiveFromISRTiming
<1>4. ASSUME NEW t \in Thread, Call(t) PROVE Timing'
  <2>1. CASE Take(t)
    BY <1>1, <2>1, TakeTiming
  <2>2. CASE Give(t)
    BY <1>1, <2>2, GiveTiming
  <2>3. CASE Refuse(t)
    BY <1>1, <2>3, RefuseTiming
  <2>4. CASE DelayOver(t)
    BY <1>1, <2>4, DelayOverTiming
  <2>5. CASE Enter(t)
    BY <1>1, <2>5, EnterTiming
  <2>6. CASE SuspendAll(t)
    BY <1>1, <2>6, SuspendAllTiming
  <2>7. CASE Lock(t)
    BY <1>1, <2>7, LockTiming
  <2>8. CASE Test(t)
    BY <1>1, <2>8, TestTiming
  <2>9. CASE Place(t)
    BY <1>1, <2>9, PlaceTiming
  <2>10. CASE PlaceDelay(t)
    BY <1>1, <2>10, PlaceDelayTiming
  <2>11. CASE Unlock(t)
    BY <1>1, <2>11, UnlockTiming
  <2>12. CASE ResumeAll(t)
    BY <1>1, <2>12, ResumeAllTiming
  <2>13. CASE Expire(t)
    BY <1>1, <2>13, ExpireTiming
  <2>14. CASE Restore(t)
    BY <1>1, <2>14, RestoreTiming
  <2> QED BY <1>4, <2>1, <2>2, <2>3, <2>4, <2>5, <2>6, <2>7, <2>8, <2>9, <2>10, <2>11, <2>12, <2>13, <2>14
          DEF Call
<1> QED BY <1>2, <1>3, <1>4 DEF Next

\* So does a step that changes nothing.
LEMMA TimingStutter == ASSUME Timing, UNCHANGED vars PROVE Timing'
<1>1. k' = k /\ thread' = thread /\ path' = path /\ waited' = waited
  BY DEF vars
<1>2. ASSUME NEW u \in Thread PROVE Punctual(u)'
  <2>1. Punctual(u) /\ Beside(u)
    BY <1>1 DEF Timing, Beside, Spared
  <2> QED BY <2>1, BesidePunctual
<1> QED BY <1>1, <1>2 DEF Timing, Unblocks

\* A call wakes up when its time is over, and knows how much of it is left: in one turn of the
\* tick or across its wrap, and with the ticks that wait for the scheduler to be resumed.
THEOREM TimingAlways == Spec => [](Orderly /\ Timing)
<1>1. Init => Orderly /\ Timing
  BY OrderlyInit, InitTiming
<1>2. Orderly /\ Timing /\ [Next]_vars => (Orderly /\ Timing)'
  BY OrderlyNext, OrderlyStutter, TimingNext, TimingStutter
<1> QED BY <1>1, <1>2, PTL DEF Spec

\* A blocked call is asleep with ticks left.
LEMMA TimeLeft ==
  ASSUME Orderly, Timing, NEW t \in Thread, Blocked(t), Timed(t)
  PROVE  waited[t] - k.pended < Op(t).wait
<1>1. Typed /\ Lists /\ k \in Sched /\ t \in Task
  BY DEF Orderly, Safe, Typed, Thread
<1>2. k.state[t] \in Dozing
  <2>1. k.state[t] \in States /\ k.state[t] # "ready"
    BY <1>1 DEF Sched, Blocked
  <2>2. k.state[t] # "suspended"
    <3>1. Asleep(t) /\ Entered(t)
      BY <1>1, <2>1 DEF Lists, Timing, Punctual
    <3> QED BY <3>1 DEF Asleep, Entered, Timed
  <2> QED BY <2>1, <2>2 DEF States, Dozing
<1>3. Sleeps(k, t, Rest(t))
  BY DEF Timing, Punctual, Counting
<1>4. k.tick \in 0..TickMod - 1 /\ k.wake[t] \in 0..TickMod - 1 /\ TickMod \in Nat
  BY <1>1, TickAssumption DEF Sched, Ticks
<1>5. PICK w \in Nat, n \in Nat, p \in Nat : w = Op(t).wait /\ n = waited[t] /\ p = k.pended
  <2>1. waited[t] \in 0..TickMod /\ k.pended \in 0..MaxPended
    BY <1>1 DEF Typed, Sched
  <2>2. waited[t] \in Nat /\ k.pended \in Nat
    BY <2>1, TickAssumption
  <2>3. Op(t).wait \in Nat
    BY <1>1, WaitNat
  <2> QED BY <2>2, <2>3
<1>6. Rest(t) = w - (n - p)
  BY <1>5 DEF Rest
<1>7. Rest(t) >= 1
  BY <1>2, <1>3, <1>4, <1>5, <1>6 DEF Sleeps, Dozing
<1>8. n - p < w
  BY <1>5, <1>6, <1>7
<1> QED BY <1>5, <1>8

\* A call that may wait n ticks, and a delay of n ticks, is blocked for less than n ticks or
\* exactly n, whatever the tick shows when it begins and however often it tries again.
THEOREM InTime == Spec => []NeverLate
<1>1. Orderly /\ Timing => NeverLate
  BY TimeLeft DEF NeverLate
<1> QED BY <1>1, TimingAlways, PTL

\* A task that comes back from its delay, or gives up, has waited.
LEMMA TimeOver ==
  ASSUME Orderly, Timing, NEW t \in Thread,
         (\/ At(t, "try") /\ Op(t).do = "delay"
          \/ At(t, "resume") /\ path = "expired")
  PROVE  waited[t] >= Op(t).wait
<1>1. Typed /\ Control /\ Lists /\ k \in Sched /\ t \in Task /\ k.cur = t /\ Punctual(t)
  BY DEF Orderly, Safe, Typed, Thread, At, Timing
<1>2. Timed(t) /\ Rest(t) <= 0
  <2>1. CASE At(t, "try") /\ Op(t).do = "delay"
    <3>1. thread[t].pc = "try" /\ k.state[t] = "ready"
      BY <1>1, <2>1, AwakeRun DEF At, Inside
    <3>2. thread[t].entered
      BY <1>1, <2>1, <3>1 DEF Punctual, Entered, Begun
    <3>3. Op(t).wait # Forever
      <4>1. Op(t).wait \in 1..TickMod - 2
        BY <1>1, <2>1, ThreadFacts, CallFacts
      <4> QED BY <4>1, TickAssumption DEF Forever
    <3> QED BY <1>1, <2>1, <3>1, <3>2, <3>3 DEF Timed, Punctual, Counting
  <2>2. CASE At(t, "resume") /\ path = "expired"
    <3>1. thread[t].pc = "resume"
      BY <2>2 DEF At
    <3>2. thread[t].left # Forever /\ (thread[t].left = Forever <=> Op(t).wait = Forever)
      BY <1>1, <2>2 DEF Control, Sound
    <3>3. thread[t].entered
      BY <1>1, <3>1 DEF Punctual, Entered, Begun, Inside
    <3> QED BY <1>1, <2>2, <3>2, <3>3 DEF Timed, Punctual, Counting
  <2> QED BY <2>1, <2>2
<1>3. PICK w \in Nat, n \in Nat, p \in Nat : w = Op(t).wait /\ n = waited[t] /\ p = k.pended
  <2>1. waited[t] \in 0..TickMod /\ k.pended \in 0..MaxPended
    BY <1>1 DEF Typed, Sched
  <2>2. waited[t] \in Nat /\ k.pended \in Nat
    BY <2>1, TickAssumption
  <2>3. Op(t).wait \in Nat
    BY <1>1, WaitNat
  <2> QED BY <2>2, <2>3
<1>4. w - (n - p) <= 0
  BY <1>2, <1>3 DEF Rest
<1>5. n >= w
  BY <1>3, <1>4
<1> QED BY <1>3, <1>5

\* A delay ends, and a call gives up with a timeout, only when its time is over.
THEOREM NotBefore == Spec => NeverEarly
<1>1. Orderly /\ Timing =>
        \A t \in Thread :
          (\/ At(t, "try") /\ Op(t).do = "delay"
           \/ At(t, "resume") /\ path = "expired")
          => waited[t] >= Op(t).wait
  BY TimeOver
<1> QED BY <1>1, TimingAlways, PTL DEF NeverEarly
===============================================================================
