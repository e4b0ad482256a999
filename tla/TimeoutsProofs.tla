--------------------------- MODULE TimeoutsProofs ---------------------------
(***************************************************************************)
(* Proofs about Timeouts, for every word size, every set of cyclic timers  *)
(* and every lag of the threads.                                           *)
(***************************************************************************)
EXTENDS Timeouts, SequenceTheorems, FiniteSetTheorems, TLAPS

-----------------------------------------------------------------------------
(* Words.                                                                  *)

Words == 0..(Word - 1)
Half == Word \div 2

LEMMA HalfFacts == Half \in Nat \ {0} /\ Word = 2 * Half /\ Word \div 4 \in Nat /\ 2 * (Word \div 4) <= Half
  BY WordAssumption DEF Half

LEMMA Product ==
  ASSUME NEW n \in Nat \ {0}, NEW m \in Int, m >= 1
  PROVE  n * m >= n
<1>1. n * (m - 1) >= 0 /\ n * m = n * (m - 1) + n
  OBVIOUS
<1> QED BY <1>1

LEMMA RemainderIs ==
  ASSUME NEW i \in Int, NEW q \in Int, NEW x \in Words, i = Word * q + x
  PROVE  i % Word = x
<1> DEFINE r == i \div Word
           y == i % Word
<1>1. i = Word * r + y /\ r \in Int /\ y \in Words
  BY WordAssumption DEF Words
<1> HIDE DEF r, y
<1>2. Word * (q - r) = y - x /\ Word * (r - q) = x - y
  BY <1>1, WordAssumption DEF Words
<1>3. q - r < 1 /\ r - q < 1
  BY <1>1, <1>2, Product, WordAssumption DEF Words
<1> QED BY <1>1, <1>2, <1>3, WordAssumption DEF Words, y

LEMMA PlusIs ==
  ASSUME NEW t \in Words, NEW n \in Words
  PROVE  Plus(t, n) \in Words /\ Plus(t, n) = IF t + n < Word THEN t + n ELSE t + n - Word
<1>1. CASE t + n < Word
  <2>1. t + n \in Words /\ t + n = Word * 0 + (t + n)
    BY <1>1, WordAssumption DEF Words
  <2> QED BY <1>1, <2>1, RemainderIs DEF Plus, Words
<1>2. CASE ~(t + n < Word)
  <2>1. t + n - Word \in Words /\ t + n = Word * 1 + (t + n - Word)
    BY <1>2, WordAssumption DEF Words
  <2> QED BY <1>2, <2>1, RemainderIs DEF Plus, Words
<1> QED BY <1>1, <1>2

LEMMA MinusIs ==
  ASSUME NEW t \in Words, NEW u \in Words
  PROVE  Minus(t, u) \in Words /\ Minus(t, u) = IF t >= u THEN t - u ELSE t - u + Word
<1>1. CASE t >= u
  <2>1. t - u \in Words /\ t - u = Word * 0 + (t - u)
    BY <1>1, WordAssumption DEF Words
  <2> QED BY <1>1, <2>1, RemainderIs DEF Minus, Words
<1>2. CASE ~(t >= u)
  <2>1. t - u + Word \in Words /\ t - u = Word * (-1) + (t - u + Word)
    BY <1>2, WordAssumption DEF Words
  <2> QED BY <1>2, <2>1, RemainderIs DEF Minus, Words
<1> QED BY <1>1, <1>2

\* How long it is until the time of a word: less than half the range ahead or behind.
Until == [x \in Words |-> Ahead(x)]

LEMMA LessIs ==
  ASSUME NEW t \in Words, NEW u \in Words
  PROVE  LessThan(t, u) <=> Minus(t, u) >= Half
<1>1. Minus(t, u) \in Int /\ Half \in Int
  BY MinusIs, HalfFacts DEF Words
<1> QED BY <1>1 DEF LessThan, Half

LEMMA UntilIs ==
  ASSUME now \in Words, NEW x \in Words
  PROVE  /\ Until[x] \in (-Half)..(Half - 1)
         /\ x - now \in {Until[x], Until[x] + Word, Until[x] - Word}
<1> DEFINE m == Minus(x, now)
<1>1. Until[x] = IF m >= Half THEN m - Word ELSE m
  BY LessIs DEF Until, Ahead
<1>2. m \in 0..(Word - 1) /\ m = IF x >= now THEN x - now ELSE x - now + Word
  BY MinusIs DEF Words
<1>3. x \in Int /\ now \in Int
  BY DEF Words
<1> HIDE DEF m
<1> QED BY <1>1, <1>2, <1>3, HalfFacts

Untils ==
  now \in Words =>
    \A x \in Words : /\ Until[x] \in (-Half)..(Half - 1)
                     /\ x - now \in {Until[x], Until[x] + Word, Until[x] - Word}

LEMMA UntilsHold == Untils
  BY UntilIs DEF Untils

LEMMA UntilOnly ==
  ASSUME now \in Words, NEW x \in Words, NEW a \in (-Half)..(Half - 1),
         x - now \in {a, a + Word, a - Word}
  PROVE  Until[x] = a
  BY UntilIs, HalfFacts DEF Words

\* One tick.
LEMMA UntilTick ==
  ASSUME now \in Words, now' = Plus(now, 1), NEW x \in Words, Until[x] > -Half
  PROVE  now' \in Words /\ Until'[x] = Until[x] - 1
<1>1. 1 \in Words /\ now' \in Words /\ now' \in {now + 1, now + 1 - Word}
  BY PlusIs, HalfFacts DEF Words
<1>2. /\ Until[x] \in (-Half)..(Half - 1)
      /\ x - now \in {Until[x], Until[x] + Word, Until[x] - Word}
  BY UntilIs
<1>3. /\ Until'[x] \in (-Half)..(Half - 1)
      /\ x - now' \in {Until'[x], Until'[x] + Word, Until'[x] - Word}
  <2>1. Untils /\ Untils'
    BY UntilsHold, PTL
  <2> QED BY <1>1, <2>1 DEF Untils, Half, Words
<1> QED BY <1>1, <1>2, <1>3, HalfFacts DEF Words

\* The comparison of two times that are not far apart.
LEMMA LessFacts ==
  ASSUME now \in Words, NEW x \in Words, NEW y \in Words,
         Until[x] - Until[y] < Half, Until[y] - Until[x] < Half
  PROVE  LessThan(x, y) <=> Until[x] < Until[y]
<1> DEFINE m == Minus(x, y)
<1>1. LessThan(x, y) <=> m >= Half
  BY LessIs
<1>2. m \in 0..(Word - 1) /\ m = IF x >= y THEN x - y ELSE x - y + Word
  BY MinusIs DEF Words
<1>3. x \in 0..(Word - 1) /\ y \in 0..(Word - 1) /\ now \in 0..(Word - 1)
  BY DEF Words
<1>4. /\ Until[x] \in Int /\ x - now \in {Until[x], Until[x] + Word, Until[x] - Word}
      /\ Until[y] \in Int /\ y - now \in {Until[y], Until[y] + Word, Until[y] - Word}
  BY UntilIs
<1>5. x - y = m \/ x - y = m - Word
  BY <1>2, <1>3, HalfFacts
<1> DEFINE a == Until[x]
           b == Until[y]
<1>6. /\ a \in Int /\ b \in Int /\ a - b < Half /\ b - a < Half
      /\ x - now = a \/ x - now = a + Word \/ x - now = a - Word
      /\ y - now = b \/ y - now = b + Word \/ y - now = b - Word
  BY <1>4
<1> HIDE DEF m, a, b
<1>7. m = a - b \/ m = a - b + Word
  BY <1>2, <1>3, <1>5, <1>6, HalfFacts
<1>8. m >= Half <=> a < b
  BY <1>2, <1>6, <1>7, HalfFacts
<1> QED BY <1>1, <1>8 DEF a, b, m

LEMMA NowFacts ==
  ASSUME now \in Words
  PROVE  Until[now] = 0
  BY UntilOnly, HalfFacts DEF Words

LEMMA UntilLess ==
  ASSUME now \in Words, NEW x \in Words
  PROVE  /\ LessThan(x, now) <=> Until[x] < 0
         /\ Until[x] >= 0 => Minus(x, now) = Until[x]
<1>1. LessThan(x, now) <=> Minus(x, now) >= Half
  BY LessIs
<1>2. Until[x] = IF LessThan(x, now) THEN Minus(x, now) - Word ELSE Minus(x, now)
  BY DEF Until, Ahead
<1>3. Minus(x, now) \in 0..(Word - 1)
  BY MinusIs DEF Words
<1> QED BY <1>1, <1>2, <1>3, HalfFacts

\* A time set n after another one.
LEMMA UntilPlus ==
  ASSUME now \in Words, NEW x \in Words, NEW n \in 0..(Word \div 4),
         Until[x] + n < Half
  PROVE  Plus(x, n) \in Words /\ Until[Plus(x, n)] = Until[x] + n
<1>1. n \in Words /\ n \in Nat
  BY HalfFacts DEF Words
<1>2. Plus(x, n) \in Words /\ Plus(x, n) \in {x + n, x + n - Word}
  BY <1>1, PlusIs
<1>3. /\ Until[x] \in (-Half)..(Half - 1)
      /\ x - now \in {Until[x], Until[x] + Word, Until[x] - Word}
  BY UntilIs
<1>4. Until[x] + n \in (-Half)..(Half - 1)
  BY <1>1, <1>3, HalfFacts
<1>5. Until[Plus(x, n)] \in (-Half)..(Half - 1)
      /\ Plus(x, n) - now \in {Until[Plus(x, n)], Until[Plus(x, n)] + Word, Until[Plus(x, n)] - Word}
  BY <1>2, UntilIs
<1> DEFINE p == Plus(x, n)
           a == Until[p]
           b == Until[x]
<1>6. /\ p \in Int /\ now \in Int /\ x \in Int /\ a \in Int /\ b \in Int
      /\ p = x + n \/ p = x + n - Word
      /\ x - now = b \/ x - now = b + Word \/ x - now = b - Word
      /\ p - now = a \/ p - now = a + Word \/ p - now = a - Word
      /\ -Half <= a /\ a < Half /\ -Half <= b + n /\ b + n < Half
  BY <1>2, <1>3, <1>4, <1>5, HalfFacts DEF Words
<1> HIDE DEF p, a, b
<1>7. a = b + n
  BY <1>1, <1>6, HalfFacts
<1> QED BY <1>2, <1>7 DEF p, a, b

-----------------------------------------------------------------------------
(* The list.                                                               *)

Entries == [timer : Timer, time : Words]

\* Otherwise the numbers below S would be closed under the successor: the successor would
\* map that finite set one to one into itself without its 0.
LEMMA Smallest ==
  ASSUME NEW S, S \subseteq Nat, S # {}
  PROVE  \E i \in S : \A j \in S : i <= j
<1> SUFFICES ASSUME ~\E i \in S : \A j \in S : i <= j PROVE FALSE
  OBVIOUS
<1> DEFINE below == {i \in Nat : \A j \in S : i < j}
           f == [i \in below |-> i + 1]
<1>1. 0 \in below /\ \A i \in below : i + 1 \in below \ {0}
  <2>1. 0 \in below
    <3>1. 0 \notin S
      OBVIOUS
    <3> QED BY <3>1
  <2>2. ASSUME NEW i \in below PROVE i + 1 \in below \ {0}
    <3>1. i + 1 \notin S
      BY <2>2
    <3> QED BY <2>2, <3>1
  <2> QED BY <2>1, <2>2
<1>2. IsFiniteSet(below)
  <2>1. PICK n \in S : TRUE
    OBVIOUS
  <2>2. n \in Nat /\ below \in SUBSET Nat /\ \A i \in below : i <= n
    BY <2>1
  <2> QED BY <2>2, FS_BoundedSetOfNaturals
<1>3. /\ IsFiniteSet(below \ {0}) /\ Cardinality(below) \in Nat
      /\ Cardinality(below \ {0}) = Cardinality(below) - 1
  BY <1>1, <1>2, FS_RemoveElement, FS_CardinalityType
<1>4. f \in [below -> below \ {0}] /\ \A x, y \in below : f[x] = f[y] => x = y
  BY <1>1
<1> HIDE DEF below, f
<1>5. \E x, y \in below : x # y /\ f[x] = f[y]
  BY <1>2, <1>3, <1>4, FS_PigeonHole
<1> QED BY <1>4, <1>5

LEMMA PlaceFacts ==
  ASSUME NEW l \in Seq(Entries), NEW e \in Entries
  PROVE  /\ Place(l, e) \in 1..(Len(l) + 1)
         /\ \A i \in 1..Len(l) : i < Place(l, e) => ~LessThan(e.time, l[i].time)
         /\ Place(l, e) <= Len(l) => LessThan(e.time, l[Place(l, e)].time)
<1> DEFINE later == {i \in 1..Len(l) : LessThan(e.time, l[i].time)}
           p == CHOOSE i \in later : \A j \in later : i <= j
<1>1. Place(l, e) = IF later = {} THEN Len(l) + 1 ELSE p
  BY DEF Place
<1>2. Len(l) \in Nat
  BY LenProperties
<1>3. CASE later = {}
  <2>1. \A i \in 1..Len(l) : ~LessThan(e.time, l[i].time)
    BY <1>3
  <2> QED BY <1>1, <1>2, <1>3, <2>1
<1>4. CASE later # {}
  <2>1. \E i \in later : \A j \in later : i <= j
    <3>1. later \subseteq Nat
      OBVIOUS
    <3> HIDE DEF later
    <3> QED BY <1>4, <3>1, Smallest
  <2>2. p \in later /\ \A j \in later : p <= j
    BY <2>1
  <2>3. \A i \in 1..Len(l) : LessThan(e.time, l[i].time) => p <= i
    BY <2>2
  <2>4. p \in 1..Len(l) /\ LessThan(e.time, l[p].time) /\ Place(l, e) = p
    BY <1>1, <1>4, <2>2
  <2> HIDE DEF p, later
  <2>5. \A i \in 1..Len(l) : i < p => ~LessThan(e.time, l[i].time)
    BY <1>2, <2>3, <2>4
  <2> QED BY <1>2, <2>4, <2>5
<1> QED BY <1>3, <1>4

\* What sys_timeout_abs does with a list that the pool has room for.
LEMMA Inserted ==
  ASSUME NEW l \in Seq(Entries), NEW e \in Entries, Len(l) < Pool
  PROVE  /\ TimeoutAbs(l, e) \in Seq(Entries)
         /\ Len(TimeoutAbs(l, e)) = Len(l) + 1
         /\ \A i \in 1..(Len(l) + 1) :
              TimeoutAbs(l, e)[i] = IF i < Place(l, e) THEN l[i]
                                    ELSE IF i = Place(l, e) THEN e ELSE l[i - 1]
<1> DEFINE p == Place(l, e)
           before == SubSeq(l, 1, p - 1)
           after == SubSeq(l, p, Len(l))
<1>1. p \in 1..(Len(l) + 1) /\ Len(l) \in Nat
  BY PlaceFacts, LenProperties
<1>2. Pool \in Nat /\ TimeoutAbs(l, e) = before \o <<e>> \o after
  <2>1. Pool \in Nat /\ ~(Len(l) >= Pool)
    BY <1>1, PoolAssumption
  <2> QED BY <2>1 DEF TimeoutAbs
<1> HIDE DEF p
<1>3. /\ before \in Seq(Entries) /\ Len(before) = p - 1
      /\ \A i \in 1..(p - 1) : before[i] = l[i]
  <2>1. \A i \in 1..(p - 1) : l[i] \in Entries
    BY <1>1, ElementOfSeq
  <2>2. /\ before \in Seq(Entries)
        /\ Len(before) = IF 1 <= p - 1 THEN p - 1 - 1 + 1 ELSE 0
        /\ \A i \in 1..(p - 1 - 1 + 1) : before[i] = l[1 + i - 1]
    BY <1>1, <2>1, SubSeqProperties
  <2> QED BY <1>1, <2>2
<1>4. /\ after \in Seq(Entries) /\ Len(after) = Len(l) - p + 1
      /\ \A i \in 1..(Len(l) - p + 1) : after[i] = l[p + i - 1]
  <2>1. \A i \in p..Len(l) : l[i] \in Entries
    BY <1>1, ElementOfSeq
  <2>2. /\ after \in Seq(Entries)
        /\ Len(after) = IF p <= Len(l) THEN Len(l) - p + 1 ELSE 0
        /\ \A i \in 1..(Len(l) - p + 1) : after[i] = l[p + i - 1]
    BY <1>1, <2>1, SubSeqProperties
  <2> QED BY <1>1, <2>2
<1> HIDE DEF before, after
<1>5. <<e>> \in Seq(Entries) /\ Len(<<e>>) = 1 /\ <<e>>[1] = e
  OBVIOUS
<1>6. /\ before \o <<e>> \in Seq(Entries) /\ Len(before \o <<e>>) = p
      /\ \A i \in 1..p : (before \o <<e>>)[i] = IF i <= p - 1 THEN l[i] ELSE e
  <2>1. /\ before \o <<e>> \in Seq(Entries) /\ Len(before \o <<e>>) = p - 1 + 1
        /\ \A i \in 1..(p - 1 + 1) :
             (before \o <<e>>)[i] = IF i <= p - 1 THEN before[i] ELSE <<e>>[i - (p - 1)]
    BY <1>3, <1>5, ConcatProperties
  <2> QED BY <1>1, <1>3, <1>5, <2>1
<1>7. /\ TimeoutAbs(l, e) \in Seq(Entries) /\ Len(TimeoutAbs(l, e)) = Len(l) + 1
      /\ \A i \in 1..(Len(l) + 1) :
           TimeoutAbs(l, e)[i] = IF i <= p THEN (before \o <<e>>)[i] ELSE after[i - p]
  <2>1. /\ before \o <<e>> \o after \in Seq(Entries)
        /\ Len(before \o <<e>> \o after) = p + (Len(l) - p + 1)
        /\ \A i \in 1..(p + (Len(l) - p + 1)) :
             (before \o <<e>> \o after)[i] = IF i <= p THEN (before \o <<e>>)[i] ELSE after[i - p]
    BY SMTT(30), <1>4, <1>6, ConcatProperties
  <2>2. p + (Len(l) - p + 1) = Len(l) + 1
    BY <1>1
  <2> QED BY <1>2, <2>1, <2>2
<1>8. \A i \in 1..(Len(l) + 1) :
        TimeoutAbs(l, e)[i] = IF i < p THEN l[i] ELSE IF i = p THEN e ELSE l[i - 1]
  <2> SUFFICES ASSUME NEW i \in 1..(Len(l) + 1)
               PROVE  TimeoutAbs(l, e)[i] = IF i < p THEN l[i] ELSE IF i = p THEN e ELSE l[i - 1]
    OBVIOUS
  <2>1. CASE i <= p
    BY <1>1, <1>6, <1>7, <2>1
  <2>2. CASE i > p
    <3>1. i - p \in 1..(Len(l) - p + 1) /\ p + (i - p) - 1 = i - 1
      BY <1>1, <2>2
    <3>2. after[i - p] = l[i - 1]
      BY <1>4, <3>1
    <3> QED BY <1>1, <1>7, <2>2, <3>2
  <2> QED BY <1>1, <2>1, <2>2
<1> QED BY <1>7, <1>8 DEF p

-----------------------------------------------------------------------------
(* The timers of the list.  Every expired entry goes back to the pool before its   *)
(* timer is armed again, so that the pool always has one for it.                   *)

NTimers == Len(Interval)

LEMMA TimerFacts ==
  /\ NTimers \in Nat \ {0} /\ Timer = 1..NTimers /\ Pool \in Nat /\ NTimers <= Pool
  /\ \A t \in Timer : Interval[t] \in 1..(Word \div 4) /\ Interval[t] \in Words
<1>1. NTimers \in Nat \ {0} /\ Timer = 1..NTimers /\ Pool \in Nat /\ NTimers <= Pool
  BY IntervalAssumption, PoolAssumption, LenProperties, EmptySeq DEF NTimers, Timer
<1>2. \A t \in Timer : Interval[t] \in Nat \ {0} /\ Interval[t] <= Word \div 4
  BY <1>1, IntervalAssumption, ElementOfSeq DEF NTimers
<1> QED BY <1>1, <1>2, HalfFacts DEF Words

\* The timers that have an entry.
Armed == IF pc = "init" THEN 1..(cur - 1) ELSE IF pc = "handler" THEN Timer \ {cur} ELSE Timer

Listed ==
  /\ pc \in {"init", "handler"} => cur \in Timer
  /\ Len(list) = IF pc = "init" THEN cur - 1 ELSE IF pc = "handler" THEN NTimers - 1 ELSE NTimers
  /\ \A i \in DOMAIN list : list[i].timer \in Armed
  /\ \A i, j \in DOMAIN list : list[i].timer = list[j].timer => i = j
  /\ \A t \in Armed : \E i \in DOMAIN list : list[i].timer = t

\* What is about to sleep has something to wait for.
Waits == pc = "unlocked" => sleeptime > 0

TypeInv == TypeOK /\ Listed /\ Waits

LEMMA ListFacts ==
  ASSUME TypeOK
  PROVE  /\ list \in Seq(Entries) /\ DOMAIN list = 1..Len(list) /\ Len(list) \in Nat
         /\ \A i \in DOMAIN list : /\ list[i] \in Entries /\ list[i].timer \in Timer
                                   /\ list[i].time \in Words
<1>1. list \in Seq(Entries)
  BY DEF TypeOK, Entries, Words
<1>2. DOMAIN list = 1..Len(list) /\ Len(list) \in Nat
  BY <1>1, LenProperties
<1>3. \A i \in DOMAIN list : list[i] \in Entries
  BY <1>1, <1>2, ElementOfSeq
<1> QED BY <1>1, <1>2, <1>3 DEF Entries

\* The list after the timer t, which has no entry, was put at time x.
LEMMA ListGrows ==
  ASSUME TypeOK, NEW t \in Timer, NEW x \in Words, Len(list) < NTimers,
         list' = TimeoutAbs(list, Entry(t, x)),
         \A i \in DOMAIN list : list[i].timer # t,
         \A i, j \in DOMAIN list : list[i].timer = list[j].timer => i = j
  PROVE  /\ list' \in Seq(Entries) /\ Len(list') = Len(list) + 1 /\ DOMAIN list' = 1..(Len(list) + 1)
         /\ \A i, j \in DOMAIN list' : list'[i].timer = list'[j].timer => i = j
         /\ \A i \in DOMAIN list' : list'[i].timer = t \/ \E j \in DOMAIN list : list'[i] = list[j]
         /\ \E i \in DOMAIN list' : list'[i] = Entry(t, x)
         /\ \A j \in DOMAIN list : \E i \in DOMAIN list' : list'[i] = list[j]
<1> DEFINE e == Entry(t, x)
           p == Place(list, e)
<1>1. e \in Entries /\ e.timer = t
  BY DEF Entry, Entries
<1>2. DOMAIN list = 1..Len(list) /\ Len(list) \in Nat /\ list \in Seq(Entries)
  BY ListFacts
<1>3. /\ list' \in Seq(Entries) /\ Len(list') = Len(list) + 1
      /\ \A i \in 1..(Len(list) + 1) :
           list'[i] = IF i < p THEN list[i] ELSE IF i = p THEN e ELSE list[i - 1]
  BY <1>1, <1>2, Inserted, TimerFacts
<1>4. DOMAIN list' = 1..(Len(list) + 1)
  BY <1>3, LenProperties
<1>5. p \in 1..(Len(list) + 1)
  BY <1>1, <1>2, PlaceFacts
<1> HIDE DEF e, p
<1>6. \A i \in 1..(Len(list) + 1) :
        \/ i < p /\ i \in 1..Len(list) /\ list'[i] = list[i]
        \/ i = p /\ list'[i] = e
        \/ i > p /\ i - 1 \in 1..Len(list) /\ list'[i] = list[i - 1]
  BY <1>2, <1>3, <1>5
<1>7. \A i, j \in DOMAIN list' : list'[i].timer = list'[j].timer => i = j
  <2> SUFFICES ASSUME NEW i \in 1..(Len(list) + 1), NEW j \in 1..(Len(list) + 1),
                      list'[i].timer = list'[j].timer
               PROVE  i = j
    BY <1>4
  <2>1. CASE i = p \/ j = p
    BY SMTT(30), <1>1, <1>2, <1>5, <1>6, <2>1
  <2>2. CASE i < p /\ j < p
    BY <1>2, <1>5, <1>6, <2>2
  <2>3. CASE i > p /\ j > p
    <3>1. i - 1 = j - 1
      BY <1>2, <1>5, <1>6, <2>3
    <3> QED BY <3>1
  <2>4. CASE i < p /\ j > p
    <3>1. i = j - 1
      BY <1>2, <1>5, <1>6, <2>4
    <3> QED BY <1>5, <2>4, <3>1
  <2>5. CASE i > p /\ j < p
    <3>1. i - 1 = j
      BY <1>2, <1>5, <1>6, <2>5
    <3> QED BY <1>5, <2>5, <3>1
  <2> QED BY <1>2, <1>5, <2>1, <2>2, <2>3, <2>4, <2>5
<1>8. \A i \in DOMAIN list' : list'[i].timer = t \/ \E j \in DOMAIN list : list'[i] = list[j]
  BY <1>1, <1>2, <1>4, <1>6
<1>9. list'[p] = e
  BY <1>2, <1>3, <1>5
<1>10. \A j \in DOMAIN list : \E i \in DOMAIN list' : list'[i] = list[j]
  <2> SUFFICES ASSUME NEW j \in 1..Len(list) PROVE \E i \in 1..(Len(list) + 1) : list'[i] = list[j]
    BY <1>2, <1>4
  <2>1. CASE j < p
    BY <1>2, <1>3, <2>1
  <2>2. CASE ~(j < p)
    <3>1. j + 1 \in 1..(Len(list) + 1) /\ ~(j + 1 < p) /\ j + 1 # p /\ j + 1 - 1 = j
      BY <1>2, <1>5, <2>2
    <3> QED BY <1>3, <3>1
  <2> QED BY <2>1, <2>2
<1> QED BY <1>3, <1>4, <1>5, <1>7, <1>8, <1>9, <1>10 DEF e

LEMMA ListedGrows ==
  ASSUME TypeOK, Listed, NEW t \in Timer, NEW x \in Words, t \notin Armed,
         Len(list) < NTimers, list' = TimeoutAbs(list, Entry(t, x)),
         Armed' = Armed \cup {t}, pc' \notin {"init", "handler"} => Len(list) + 1 = NTimers,
         pc' = "init" => Len(list) + 1 = cur' - 1 /\ cur' \in Timer, pc' # "handler"
  PROVE  Listed' /\ list' \in Seq(Entries)
<1>1. /\ list' \in Seq(Entries) /\ Len(list') = Len(list) + 1
      /\ \A i, j \in DOMAIN list' : list'[i].timer = list'[j].timer => i = j
      /\ \A i \in DOMAIN list' : list'[i].timer = t \/ \E j \in DOMAIN list : list'[i] = list[j]
      /\ \E i \in DOMAIN list' : list'[i] = Entry(t, x)
      /\ \A j \in DOMAIN list : \E i \in DOMAIN list' : list'[i] = list[j]
  BY ListGrows DEF Listed
<1>2. Len(list') = IF pc' = "init" THEN cur' - 1 ELSE IF pc' = "handler" THEN NTimers - 1 ELSE NTimers
  BY <1>1
<1>3. \A i \in DOMAIN list' : list'[i].timer \in Armed'
  BY <1>1 DEF Listed
<1>4. \A u \in Armed' : \E i \in DOMAIN list' : list'[i].timer = u
  <2> HIDE DEF Armed
  <2> SUFFICES ASSUME NEW u \in Armed' PROVE \E i \in DOMAIN list' : list'[i].timer = u
    OBVIOUS
  <2>1. CASE u = t
    BY <1>1, <2>1 DEF Entry
  <2>2. CASE u \in Armed
    <3>1. PICK j \in DOMAIN list : list[j].timer = u
      BY <2>2 DEF Listed
    <3>2. PICK i \in DOMAIN list' : list'[i] = list[j]
      BY <1>1
    <3> QED BY <3>1, <3>2
  <2> QED BY <2>1, <2>2
<1>5. Timer' = Timer /\ NTimers' = NTimers
  BY DEF Timer, NTimers
<1> HIDE DEF Armed
<1> QED BY <1>1, <1>2, <1>3, <1>4, <1>5 DEF Listed

LEMMA TypeStart == TypeInv /\ StartTimer => TypeInv'
<1> SUFFICES ASSUME TypeOK, Listed, StartTimer PROVE TypeInv'
  BY DEF TypeInv
<1> DEFINE x == Plus(now, Interval[cur])
<1>1. /\ pc = "init" /\ cur \in Timer /\ cur \in 1..NTimers /\ Len(list) = cur - 1
      /\ pc' = (IF cur = NTimers THEN "fetch" ELSE "init") /\ cur' = (IF cur = NTimers THEN 0 ELSE cur + 1)
      /\ lag' = 0 /\ UNCHANGED <<now, dueTime, limit, sleeptime, wake>>
      /\ list' = TimeoutAbs(list, Entry(cur, x))
  BY TimerFacts DEF StartTimer, Goto, Listed, NTimers
<1>2. x \in Words
  BY <1>1, PlusIs, TimerFacts DEF TypeOK, Words
<1> HIDE DEF x
<1>3. Armed' = Armed \cup {cur} /\ cur \notin Armed
  BY <1>1, TimerFacts DEF Armed
<1>4. Listed' /\ list' \in Seq(Entries)
  BY <1>1, <1>2, <1>3, ListedGrows, TimerFacts
<1>5. TypeOK'
  BY <1>1, <1>4, TimerFacts, MaxLagAssumption DEF TypeOK, Entries, Words, NTimers
<1>6. Waits'
  BY <1>1 DEF Waits
<1> QED BY <1>4, <1>5, <1>6 DEF TypeInv

LEMMA TypeCyclic == TypeInv /\ CyclicTimer => TypeInv'
<1> SUFFICES ASSUME TypeOK, Listed, CyclicTimer PROVE TypeInv'
  BY DEF TypeInv
<1> DEFINE x == NextTime(cur)
<1>1. /\ pc = "handler" /\ cur \in Timer /\ Len(list) = NTimers - 1
      /\ pc' = "next" /\ cur' = 0 /\ dueTime' = 0
      /\ lag' = 0 /\ UNCHANGED <<now, limit, sleeptime, wake>>
      /\ list' = TimeoutAbs(list, Entry(cur, x))
  BY DEF CyclicTimer, Goto, Listed
<1>2. x \in Words
  BY <1>1, PlusIs, TimerFacts DEF NextTime, TypeOK, Words
<1> HIDE DEF x
<1>3. Armed' = Armed \cup {cur} /\ cur \notin Armed
  BY <1>1, TimerFacts DEF Armed
<1>4. Listed' /\ list' \in Seq(Entries)
  BY <1>1, <1>2, <1>3, ListedGrows, TimerFacts
<1>5. TypeOK'
  BY <1>1, <1>4, HalfFacts, TimerFacts, MaxLagAssumption DEF TypeOK, Entries, Words, NTimers
<1>6. Waits'
  BY <1>1 DEF Waits
<1> QED BY <1>4, <1>5, <1>6 DEF TypeInv

LEMMA TypeExpire == TypeInv /\ Expire => TypeInv'
<1> SUFFICES ASSUME TypeOK, Listed, Expire PROVE TypeInv'
  BY DEF TypeInv
<1>1. /\ pc = "next" /\ list # <<>> /\ Len(list) = NTimers
      /\ pc' = "handler" /\ cur' = list[1].timer /\ dueTime' = list[1].time
      /\ lag' = 0 /\ UNCHANGED <<now, limit, sleeptime, wake>> /\ list' = Tail(list)
  BY DEF Expire, Goto, Listed
<1>2. /\ list \in Seq(Entries) /\ DOMAIN list = 1..NTimers /\ 1 \in DOMAIN list
      /\ \A i \in DOMAIN list : list[i] \in Entries /\ list[i].timer \in Timer /\ list[i].time \in Words
  BY <1>1, ListFacts, TimerFacts
<1>3. /\ list' \in Seq(Entries) /\ Len(list') = NTimers - 1
      /\ \A i \in 1..(NTimers - 1) : list'[i] = list[i + 1]
  BY <1>1, <1>2, HeadTailProperties
<1>4. DOMAIN list' = 1..(NTimers - 1)
  BY <1>3, LenProperties
<1>5. \A i \in 1..(NTimers - 1) : i + 1 \in 1..NTimers /\ i + 1 # 1
  BY TimerFacts
<1>6. \A i \in 1..NTimers : i # 1 => i - 1 \in 1..(NTimers - 1) /\ i - 1 + 1 = i
  BY TimerFacts
<1>7. Armed = Timer /\ Armed' = Timer \ {list[1].timer}
  BY <1>1 DEF Armed
<1>8. \A i \in DOMAIN list' : list'[i].timer \in Armed'
  <2> SUFFICES ASSUME NEW i \in 1..(NTimers - 1) PROVE list'[i].timer \in Armed'
    BY <1>4
  <2>1. i + 1 \in DOMAIN list /\ i + 1 # 1 /\ list'[i] = list[i + 1]
    BY <1>2, <1>3, <1>5
  <2>2. list[i + 1].timer # list[1].timer
    BY <1>2, <2>1 DEF Listed
  <2> QED BY <1>2, <1>7, <2>1, <2>2
<1>9. \A i, j \in DOMAIN list' : list'[i].timer = list'[j].timer => i = j
  <2> SUFFICES ASSUME NEW i \in 1..(NTimers - 1), NEW j \in 1..(NTimers - 1),
                      list'[i].timer = list'[j].timer
               PROVE  i = j
    BY <1>4
  <2>1. /\ i + 1 \in DOMAIN list /\ list'[i] = list[i + 1]
        /\ j + 1 \in DOMAIN list /\ list'[j] = list[j + 1]
    BY <1>2, <1>3, <1>5
  <2>2. i + 1 = j + 1
    BY <2>1 DEF Listed
  <2> QED BY <2>2
<1>10. \A t \in Armed' : \E i \in DOMAIN list' : list'[i].timer = t
  <2> SUFFICES ASSUME NEW t \in Timer, t # list[1].timer
               PROVE  \E i \in 1..(NTimers - 1) : list'[i].timer = t
    BY <1>4, <1>7
  <2>1. PICK i \in 1..NTimers : list[i].timer = t
    BY <1>2, <1>7 DEF Listed
  <2>2. i - 1 \in 1..(NTimers - 1) /\ i - 1 + 1 = i
    BY <1>6, <2>1
  <2>3. list'[i - 1] = list[i]
    BY <1>3, <2>2
  <2> QED BY <2>1, <2>2, <2>3
<1>11. Listed'
  BY <1>1, <1>2, <1>3, <1>8, <1>9, <1>10 DEF Listed, NTimers, Timer
<1>12. TypeOK'
  <2>1. cur' \in 0..NTimers /\ dueTime' \in Words /\ list' \in Seq(Entries)
    BY <1>1, <1>2, <1>3, TimerFacts
  <2> QED BY <1>1, <2>1, MaxLagAssumption DEF TypeOK, Entries, Words, NTimers
<1>13. Waits'
  BY <1>1 DEF Waits
<1> QED BY <1>11, <1>12, <1>13 DEF TypeInv

\* The steps that leave the list alone.
LEMMA SleeptimeIs == TypeOK => Sleeptime \in Words /\ Infinite \in Words
<1> SUFFICES ASSUME TypeOK PROVE Sleeptime \in Words /\ Infinite \in Words
  OBVIOUS
<1>1. 0 \in Words /\ Infinite \in Words
  BY HalfFacts DEF Words, Infinite
<1>2. ASSUME list # <<>> PROVE Minus(list[1].time, now) \in Words
  <2>1. list[1].time \in Words /\ now \in Words
    BY <1>2, ListFacts, EmptySeq DEF Words, TypeOK
  <2> QED BY <2>1, MinusIs
<1> QED BY <1>1, <1>2 DEF Sleeptime

LEMMA TypeRest ==
  TypeInv /\ (Fetch \/ Sleep \/ Message \/ Timeout \/ CheckBegin \/ CheckEnd \/ Tick
                \/ UNCHANGED vars)
    => TypeInv'
<1> SUFFICES ASSUME TypeOK, Listed, Waits,
                    Fetch \/ Sleep \/ Message \/ Timeout \/ CheckBegin \/ CheckEnd \/ Tick
                      \/ UNCHANGED vars
             PROVE  TypeInv'
  BY DEF TypeInv
<1>1. UNCHANGED <<list, cur>> /\ (pc' = "init" <=> pc = "init") /\ (pc' = "handler" <=> pc = "handler")
  BY DEF Fetch, Sleep, Message, Timeout, CheckBegin, CheckEnd, Tick, vars, Goto
<1>2. Listed'
  BY <1>1, ListFacts DEF Listed, Armed, Timer, NTimers
<1>3. TypeOK'
  <2> USE MaxLagAssumption, HalfFacts DEF TypeOK, Goto
  <2>1. CASE Fetch
    BY <2>1, SleeptimeIs DEF Fetch, Words
  <2>8. CASE Sleep
    <3>1. sleeptime \in 1..(Word - 1) /\ Infinite \in 0..(Word - 1)
      BY <2>8, SleeptimeIs DEF Sleep, Waits, Words
    <3>2. wake' \in 0..(Word - 1)
      BY <2>8, <3>1 DEF Sleep
    <3> QED BY <2>8, <3>2 DEF Sleep
  <2>2. CASE Message     BY <2>2 DEF Message
  <2>3. CASE Timeout     BY <2>3 DEF Timeout
  <2>4. CASE CheckBegin  BY <2>4 DEF CheckBegin
  <2>5. CASE CheckEnd    BY <2>5 DEF CheckEnd
  <2>6. CASE Tick
    <3>1. now' \in 0..(Word - 1)
      BY <2>6, PlusIs DEF Tick, Words
    <3>2. wake' \in 0..(Word - 1) /\ lag' \in 0..MaxLag
      BY SMTT(30), <2>6 DEF Tick
    <3> QED BY <2>6, <3>1, <3>2 DEF Tick
  <2>7. CASE UNCHANGED vars
    BY <2>7 DEF vars
  <2> QED BY <2>1, <2>2, <2>3, <2>4, <2>5, <2>6, <2>7, <2>8
<1>4. Waits'
  <2>1. CASE Fetch
    <3>1. Sleeptime \in Nat
      BY SleeptimeIs, HalfFacts DEF Words
    <3> QED BY <2>1, <3>1 DEF Fetch, Goto, Waits
  <2>2. CASE Sleep \/ Message \/ Timeout \/ CheckBegin \/ CheckEnd
    BY <2>2 DEF Sleep, Message, Timeout, CheckBegin, CheckEnd, Goto, Waits
  <2>3. CASE Tick \/ UNCHANGED vars
    BY <2>3 DEF Tick, vars, Waits
  <2> QED BY <2>1, <2>2, <2>3
<1> QED BY <1>2, <1>3, <1>4 DEF TypeInv

LEMMA TypeInit == Init => TypeInv
<1> SUFFICES ASSUME Init PROVE TypeInv
  OBVIOUS
<1>1. TypeOK
  BY HalfFacts, TimerFacts, MaxLagAssumption DEF Init, TypeOK, NTimers
<1>2. Listed
  BY TimerFacts DEF Init, Listed, Armed
<1> QED BY <1>1, <1>2 DEF TypeInv, Init, Waits

LEMMA TypeInductive == Spec => []TypeInv
<1>1. TypeInv /\ [Next]_vars => TypeInv'
  BY TypeStart, TypeCyclic, TypeExpire, TypeRest DEF Next, Thread
<1> QED BY <1>1, TypeInit, PTL DEF Spec

(* Every variable keeps its type: times, sleeptime and timeouts are words, whatever *)
(* the arithmetic of u32_t makes of them.                                           *)
THEOREM TypeCorrect == Spec => []TypeOK
<1>1. TypeInv => TypeOK
  BY DEF TypeInv
<1> QED BY <1>1, TypeInductive, PTL

(* No cyclic timer is lost or armed twice: the pool has as many entries as there   *)
(* are timers, and that is enough.                                                  *)
THEOREM TimersKept == Spec => []NoTimerLost
<1>1. TypeInv => NoTimerLost
  <2> SUFFICES ASSUME TypeInv, pc # "init", NEW t \in Timer
               PROVE  IF pc = "handler" /\ cur = t THEN \A i \in DOMAIN list : list[i].timer # t
                      ELSE \E i \in DOMAIN list :
                             list[i].timer = t /\ \A j \in DOMAIN list : list[j].timer = t => j = i
    BY DEF NoTimerLost
  <2>1. CASE pc = "handler" /\ cur = t
    BY <2>1 DEF TypeInv, Listed, Armed
  <2>2. CASE ~(pc = "handler" /\ cur = t)
    <3>1. t \in Armed
      BY <2>2 DEF Armed
    <3>2. PICK i \in DOMAIN list : list[i].timer = t
      BY <3>1 DEF TypeInv, Listed
    <3>3. \A j \in DOMAIN list : list[j].timer = t => j = i
      BY <3>2 DEF TypeInv, Listed
    <3> QED BY <2>2, <3>2, <3>3
  <2> QED BY <2>1, <2>2
<1> QED BY <1>1, TypeInductive, PTL

-----------------------------------------------------------------------------
(* The order of the list.  All times that the list, dueTime and limit hold at once *)
(* are less than half a turn of the tick apart, so that TIME_LESS_THAN compares    *)
(* them as if words did not wrap; that needs a bound on how late the thread is.    *)

\* How late a timer can get in tcpip_thread is within a quarter of the range of u32_t.
Prompt == 4 * (NTimers + 1) * MaxLag < Word \div 4

Round == NTimers * MaxLag

LEMMA RoundFacts ==
  /\ MaxLag \in Nat /\ Round \in Nat /\ NTimers \in Nat
  /\ Prompt => 4 * Round + 4 * MaxLag < Word \div 4
  /\ MaxLag <= Round
  /\ \A m \in 0..NTimers : m * MaxLag \in Nat /\ m * MaxLag <= Round
  /\ \A m \in 0..NTimers : (m + 1) * MaxLag = m * MaxLag + MaxLag
<1>1. MaxLag \in Nat /\ NTimers \in Nat
  BY MaxLagAssumption, TimerFacts
<1>2. \A m \in 0..NTimers : m * MaxLag \in Nat /\ m * MaxLag <= Round
  <2> SUFFICES ASSUME NEW m \in 0..NTimers PROVE m * MaxLag \in Nat /\ m * MaxLag <= Round
    OBVIOUS
  <2>1. (NTimers - m) * MaxLag >= 0 /\ m * MaxLag >= 0
    BY <1>1
  <2>2. (NTimers - m) * MaxLag = NTimers * MaxLag - m * MaxLag
    BY <1>1
  <2> QED BY <1>1, <2>1, <2>2 DEF Round
<1>3. \A m \in 0..NTimers : (m + 1) * MaxLag = m * MaxLag + MaxLag
  BY <1>1
<1>4. 4 * (NTimers + 1) * MaxLag = 4 * Round + 4 * MaxLag
  BY <1>1 DEF Round
<1>5. Round \in Nat
  BY <1>1, <1>2 DEF Round
<1>6. 1 \in 0..NTimers /\ 1 * MaxLag = MaxLag
  BY <1>1, TimerFacts
<1> QED BY <1>1, <1>2, <1>3, <1>4, <1>5, <1>6 DEF Prompt

Due == [i \in DOMAIN list |-> Until[list[i].time]]

Dues ==
  TypeOK => \A i \in DOMAIN list : Due[i] = Until[list[i].time] /\ Due[i] \in (-Half)..(Half - 1)

LEMMA DuesHold == Dues
  BY ListFacts, UntilIs DEF Dues, Due, TypeOK, Words

Sorted == \A i, j \in DOMAIN list : i < j => Due[i] <= Due[j]

Soon == \A i \in DOMAIN list : Due[i] <= Word \div 4

Late(b) == \A i \in DOMAIN list : Due[i] >= -b - lag

\* The first m entries have expired at "limit", and b ticks have passed since.
Expired(m, b) ==
  /\ \A i \in DOMAIN list : i <= m <=> Due[i] <= Until[limit]
  /\ Until[limit] >= -b - lag

\* sys_check_timeouts has read the time.
Checking ==
  /\ Until[limit] <= 0
  /\ \A i \in DOMAIN list : Due[i] >= Until[limit] - (2 * Round + 3 * MaxLag)
  /\ pc = "next" => \E m \in 0..NTimers : Expired(m, 2 * ((NTimers - m) * MaxLag))
  /\ pc = "handler" =>
       /\ Until[dueTime] <= Until[limit]
       /\ Until[dueTime] >= Until[limit] - (2 * Round + 3 * MaxLag)
       /\ \A i \in DOMAIN list : Until[dueTime] <= Due[i]
       /\ \E m \in 0..(NTimers - 1) : Expired(m, 2 * ((NTimers - m) * MaxLag) - MaxLag)

Punctual ==
  /\ pc = "init" => Late((cur - 1) * MaxLag)
  /\ pc = "fetch" => Late(2 * Round + MaxLag)
  /\ pc = "unlocked" => sleeptime # Infinite /\ \A i \in DOMAIN list : Due[i] >= sleeptime - lag
  /\ pc = "asleep" =>
       /\ wake # Infinite /\ (wake > 0 => lag = 0)
       /\ \A i \in DOMAIN list : Due[i] >= wake - MaxLag - lag
  /\ pc = "check" => Late(2 * Round + 2 * MaxLag)
  /\ pc \in {"next", "handler"} => Checking

Order == Sorted /\ Soon /\ Punctual

\* No time of the list is further away than a quarter of a turn.
LEMMA Near ==
  ASSUME TypeInv, Order, Prompt
  PROVE  /\ \A i \in DOMAIN list : Due[i] \in (-(Word \div 4) + 1)..(Word \div 4)
         /\ pc \in {"next", "handler"} => Until[limit] \in (-(Word \div 4) + 1)..0
         /\ pc = "handler" => Until[dueTime] \in (-(Word \div 4) + 1)..0
<1>1. /\ \A i \in DOMAIN list : Due[i] \in Int /\ Due[i] <= Word \div 4
      /\ Until[limit] \in Int /\ Until[dueTime] \in Int /\ lag \in 0..MaxLag /\ wake \in Nat /\ sleeptime \in Nat
  BY DuesHold, UntilIs, HalfFacts DEF TypeInv, TypeOK, Dues, Order, Soon, Words
<1>2. 4 * Round + 4 * MaxLag < Word \div 4 /\ Round \in Nat /\ MaxLag \in Nat /\ Word \div 4 \in Nat
  BY RoundFacts, HalfFacts
<1>3. pc \in {"next", "handler"} => Until[limit] >= -(2 * Round + MaxLag) /\ Until[limit] <= 0
  <2> SUFFICES ASSUME pc \in {"next", "handler"}
               PROVE  Until[limit] >= -(2 * Round + MaxLag) /\ Until[limit] <= 0
    OBVIOUS
  <2>1. Checking
    BY DEF Order, Punctual
  <2>2. PICK m \in 0..NTimers : Until[limit] >= -(2 * ((NTimers - m) * MaxLag)) - lag
    <3>1. CASE pc = "next"
      BY <2>1, <3>1 DEF Checking, Expired
    <3>2. CASE pc = "handler"
      <4>1. PICK m \in 0..(NTimers - 1) :
              Until[limit] >= -(2 * ((NTimers - m) * MaxLag) - MaxLag) - lag
        BY <2>1, <3>2 DEF Checking, Expired
      <4>2. m \in 0..NTimers /\ NTimers - m \in 0..NTimers
        BY RoundFacts
      <4>3. (NTimers - m) * MaxLag \in Nat
        BY <4>2, RoundFacts
      <4>4. (NTimers - m) * MaxLag >= MaxLag
        <5>1. NTimers - m - 1 \in 0..NTimers /\ NTimers - m - 1 + 1 = NTimers - m
          BY RoundFacts
        <5>2. (NTimers - m) * MaxLag = (NTimers - m - 1) * MaxLag + MaxLag
          BY <5>1, RoundFacts
        <5> QED BY <5>1, <5>2, RoundFacts
      <4> QED BY <1>1, <1>2, <4>1, <4>2, <4>3, <4>4
    <3> QED BY <3>1, <3>2
  <2>3. (NTimers - m) * MaxLag \in Nat /\ (NTimers - m) * MaxLag <= Round
    <3>1. NTimers - m \in 0..NTimers
      BY RoundFacts
    <3> QED BY <3>1, RoundFacts
  <2> QED BY <1>1, <1>2, <2>1, <2>2, <2>3 DEF Checking
<1>4. \A i \in DOMAIN list : Due[i] >= -(4 * Round + 4 * MaxLag)
  <2>1. CASE pc = "init"
    <3>1. cur - 1 \in 0..NTimers
      BY <2>1, TimerFacts DEF TypeInv, Listed
    <3>2. (cur - 1) * MaxLag \in Nat /\ (cur - 1) * MaxLag <= Round
      BY <3>1, RoundFacts
    <3> QED BY <1>1, <1>2, <2>1, <3>2 DEF Order, Punctual, Late
  <2>2. CASE pc \in {"fetch", "check"}
    BY <1>1, <1>2, <2>2 DEF Order, Punctual, Late
  <2>3. CASE pc \in {"unlocked", "asleep"}
    BY <1>1, <1>2, <2>3 DEF Order, Punctual
  <2>4. CASE pc \in {"next", "handler"}
    BY <1>1, <1>2, <1>3, <2>4 DEF Order, Punctual, Checking
  <2> QED BY <2>1, <2>2, <2>3, <2>4 DEF TypeInv, TypeOK
<1>5. pc = "handler" => Until[dueTime] >= -(4 * Round + 4 * MaxLag) /\ Until[dueTime] <= 0
  BY <1>1, <1>2, <1>3 DEF Order, Punctual, Checking
<1> QED BY <1>1, <1>2, <1>3, <1>4, <1>5

\* The next state's distances, when time stands still and when it passes.
LEMMA SameTime == UNCHANGED now => Until' = Until
  BY DEF Until, Ahead, Minus, LessThan, Words

LEMMA DueTick ==
  ASSUME TypeInv, Order, Prompt, Tick
  PROVE  /\ UNCHANGED <<list, dueTime, pc, cur, limit>>
         /\ \A i \in DOMAIN list : Due'[i] = Due[i] - 1 /\ Due[i] \in Int
         /\ pc \in {"next", "handler"} => Until'[limit'] = Until[limit] - 1 /\ Until[limit] \in Int
         /\ pc = "handler" => Until'[dueTime'] = Until[dueTime] - 1 /\ Until[dueTime] \in Int
<1>1. /\ now \in Words /\ now' = Plus(now, 1) /\ UNCHANGED <<list, dueTime, pc, cur, limit>>
      /\ \A i \in DOMAIN list : list[i].time \in Words
      /\ limit \in Words /\ dueTime \in Words
  BY ListFacts DEF Tick, TypeInv, TypeOK, Words
<1>2. \A i \in DOMAIN list : Due'[i] = Due[i] - 1 /\ Due[i] \in Int
  <2> SUFFICES ASSUME NEW i \in DOMAIN list PROVE Due'[i] = Due[i] - 1 /\ Due[i] \in Int
    OBVIOUS
  <2>1. Due[i] = Until[list[i].time] /\ Due[i] > -Half /\ Due[i] \in Int
    BY DuesHold, Near, HalfFacts DEF Dues, TypeInv
  <2>2. Until'[list[i].time] = Until[list[i].time] - 1
    BY <1>1, <2>1, UntilTick
  <2>3. Due'[i] = Until'[list[i].time]
    BY <1>1 DEF Due
  <2> QED BY <2>1, <2>2, <2>3
<1>3. pc \in {"next", "handler"} => Until'[limit'] = Until[limit] - 1 /\ Until[limit] \in Int
  <2> SUFFICES ASSUME pc \in {"next", "handler"} PROVE Until'[limit] = Until[limit] - 1 /\ Until[limit] \in Int
    BY <1>1
  <2>1. Until[limit] > -Half /\ Until[limit] \in Int
    BY Near, HalfFacts
  <2> QED BY <1>1, <2>1, UntilTick
<1>4. pc = "handler" => Until'[dueTime'] = Until[dueTime] - 1 /\ Until[dueTime] \in Int
  <2> SUFFICES ASSUME pc = "handler" PROVE Until'[dueTime] = Until[dueTime] - 1 /\ Until[dueTime] \in Int
    BY <1>1
  <2>1. Until[dueTime] > -Half /\ Until[dueTime] \in Int
    BY Near, HalfFacts
  <2> QED BY <1>1, <2>1, UntilTick
<1> QED BY <1>1, <1>2, <1>3, <1>4

LEMMA OrderTick ==
  ASSUME TypeInv, Order, Prompt, TypeInv', Tick
  PROVE  Order'
<1>1. UNCHANGED <<list, dueTime, pc, cur, limit>>
  BY DueTick
<1>2. \A i \in DOMAIN list : Due'[i] = Due[i] - 1 /\ Due[i] \in Int
  BY DueTick
<1>3. pc \in {"next", "handler"} => Until'[limit'] = Until[limit] - 1 /\ Until[limit] \in Int
  BY DueTick
<1>4. pc = "handler" => Until'[dueTime'] = Until[dueTime] - 1 /\ Until[dueTime] \in Int
  BY DueTick
<1>5. /\ lag \in Nat /\ wake \in Nat /\ MaxLag \in Nat /\ Round \in Nat
      /\ sleeptime \in Nat /\ sleeptime' = sleeptime
      /\ \/ lag' = lag + 1 /\ wake' = wake /\ ~(pc = "asleep" /\ wake > 0)
         \/ /\ pc = "asleep" /\ wake > 0 /\ lag' = lag
            /\ wake' = (IF wake = Infinite THEN wake ELSE wake - 1)
  BY RoundFacts, HalfFacts DEF Tick, TypeInv, TypeOK
<1>6. DOMAIN list' = DOMAIN list
  BY <1>1
<1>7. \A b \in Int : pc # "asleep" /\ Late(b) =>
        \A i \in DOMAIN list' : Due'[i] >= -b - lag'
  BY <1>2, <1>5, <1>6 DEF Late
<1>8. Sorted' /\ Soon'
  BY <1>2, <1>6, HalfFacts DEF Order, Sorted, Soon
<1>9. /\ pc = "init" => Late((cur - 1) * MaxLag)'
      /\ pc = "fetch" => Late(2 * Round + MaxLag)'
      /\ pc = "check" => Late(2 * Round + 2 * MaxLag)'
  <2>1. CASE pc = "init"
    <3>1. (cur - 1) * MaxLag \in Int
      BY <2>1, TimerFacts, RoundFacts DEF TypeInv, Listed
    <3>2. Late((cur - 1) * MaxLag)
      BY <2>1 DEF Order, Punctual
    <3> QED BY <1>1, <1>7, <2>1, <3>1, <3>2 DEF Late
  <2>2. CASE pc = "fetch"
    <3>1. 2 * Round + MaxLag \in Int /\ Late(2 * Round + MaxLag)
      BY <1>5, <2>2 DEF Order, Punctual
    <3> QED BY <1>7, <2>2, <3>1 DEF Late, Round, NTimers
  <2>3. CASE pc = "check"
    <3>1. 2 * Round + 2 * MaxLag \in Int /\ Late(2 * Round + 2 * MaxLag)
      BY <1>5, <2>3 DEF Order, Punctual
    <3> QED BY <1>7, <2>3, <3>1 DEF Late, Round, NTimers
  <2> QED BY <2>1, <2>2, <2>3
<1>10. pc = "asleep" =>
         /\ wake' # Infinite /\ (wake' > 0 => lag' = 0)
         /\ \A i \in DOMAIN list' : Due'[i] >= wake' - MaxLag - lag'
  <2> SUFFICES ASSUME pc = "asleep"
               PROVE  /\ wake' # Infinite /\ (wake' > 0 => lag' = 0)
                      /\ \A i \in DOMAIN list' : Due'[i] >= wake' - MaxLag - lag'
    OBVIOUS
  <2>1. /\ wake # Infinite /\ (wake > 0 => lag = 0)
        /\ \A i \in DOMAIN list : Due[i] >= wake - MaxLag - lag
    BY DEF Order, Punctual
  <2>2. wake <= Infinite
    BY HalfFacts DEF TypeInv, TypeOK, Infinite
  <2>3. Infinite \in Int
    BY HalfFacts DEF Infinite
  <2> QED BY <1>2, <1>5, <1>6, <2>1, <2>2, <2>3
<1>13. pc = "unlocked" =>
         sleeptime' # Infinite /\ \A i \in DOMAIN list' : Due'[i] >= sleeptime' - lag'
  BY <1>2, <1>5, <1>6 DEF Order, Punctual
<1>11. ASSUME pc \in {"next", "handler"}, NEW m \in 0..NTimers, NEW b \in Int, Expired(m, b)
       PROVE  Expired(m, b)'
  BY <1>2, <1>3, <1>5, <1>6, <1>11 DEF Expired
<1>12. pc \in {"next", "handler"} => Checking'
  <2> SUFFICES ASSUME pc \in {"next", "handler"}, Checking PROVE Checking'
    BY DEF Order, Punctual
  <2>1. /\ Until'[limit'] <= 0
        /\ \A i \in DOMAIN list' : Due'[i] >= Until'[limit'] - (2 * Round + 3 * MaxLag)
    BY <1>2, <1>3, <1>5, <1>6 DEF Checking
  <2>2. pc = "next" => \E m \in 0..NTimers : Expired(m, 2 * ((NTimers - m) * MaxLag))'
    <3> SUFFICES ASSUME pc = "next"
                 PROVE  \E m \in 0..NTimers : Expired(m, 2 * ((NTimers - m) * MaxLag))'
      OBVIOUS
    <3>1. PICK m \in 0..NTimers : Expired(m, 2 * ((NTimers - m) * MaxLag))
      BY DEF Checking
    <3>2. 2 * ((NTimers - m) * MaxLag) \in Int
      BY RoundFacts
    <3>3. Expired(m, 2 * ((NTimers - m) * MaxLag))'
      BY <1>11, <3>1, <3>2
    <3> QED BY <3>3
  <2>3. pc = "handler" =>
          /\ Until'[dueTime'] <= Until'[limit']
          /\ Until'[dueTime'] >= Until'[limit'] - (2 * Round + 3 * MaxLag)
          /\ \A i \in DOMAIN list' : Until'[dueTime'] <= Due'[i]
    BY <1>2, <1>3, <1>4, <1>5, <1>6 DEF Checking
  <2>4. pc = "handler" => \E m \in 0..(NTimers - 1) : Expired(m, 2 * ((NTimers - m) * MaxLag) - MaxLag)'
    <3> SUFFICES ASSUME pc = "handler"
                 PROVE  \E m \in 0..(NTimers - 1) : Expired(m, 2 * ((NTimers - m) * MaxLag) - MaxLag)'
      OBVIOUS
    <3>1. PICK m \in 0..(NTimers - 1) : Expired(m, 2 * ((NTimers - m) * MaxLag) - MaxLag)
      BY DEF Checking
    <3>2. 2 * ((NTimers - m) * MaxLag) - MaxLag \in Int /\ m \in 0..NTimers
      BY RoundFacts
    <3>3. Expired(m, 2 * ((NTimers - m) * MaxLag) - MaxLag)'
      BY <1>11, <3>1, <3>2
    <3> QED BY <3>3
  <2> QED BY <1>1, <2>1, <2>2, <2>3, <2>4 DEF Checking, Round, NTimers
<1> QED BY <1>1, <1>8, <1>9, <1>10, <1>12, <1>13 DEF Order, Punctual, Infinite

\* Putting the timer t at time x, in front of the first entry that is due later.
LEMMA SortedGrows ==
  ASSUME TypeInv, Order, Prompt, UNCHANGED now, NEW t \in Timer, NEW x \in Words,
         Len(list) < NTimers, list' = TimeoutAbs(list, Entry(t, x)),
         Until[x] \in 0..(Word \div 4)
  PROVE  /\ DOMAIN list' = 1..(Len(list) + 1) /\ Sorted' /\ Soon'
         /\ \A i \in DOMAIN list' : Due'[i] = Until[x] \/ \E j \in DOMAIN list : Due'[i] = Due[j]
         /\ \E p \in 1..(Len(list) + 1) :
              /\ \A i \in DOMAIN list : i < p <=> Due[i] <= Until[x]
              /\ \A i \in DOMAIN list' :
                   Due'[i] = IF i < p THEN Due[i] ELSE IF i = p THEN Until[x] ELSE Due[i - 1]
<1> DEFINE e == Entry(t, x)
           p == Place(list, e)
           a == Until[x]
<1>1. e \in Entries /\ e.time = x
  BY DEF Entry, Entries
<1>2. /\ list \in Seq(Entries) /\ DOMAIN list = 1..Len(list) /\ Len(list) \in Nat /\ now \in Words
      /\ \A i \in DOMAIN list : list[i].time \in Words
  BY ListFacts DEF TypeInv, TypeOK, Words
<1>3. /\ list' \in Seq(Entries) /\ Len(list') = Len(list) + 1
      /\ \A i \in 1..(Len(list) + 1) :
           list'[i] = IF i < p THEN list[i] ELSE IF i = p THEN e ELSE list[i - 1]
  BY <1>1, <1>2, Inserted, TimerFacts
<1>4. DOMAIN list' = 1..(Len(list) + 1)
  BY <1>3, LenProperties
<1>5. /\ p \in 1..(Len(list) + 1)
      /\ \A i \in 1..Len(list) : i < p => ~LessThan(x, list[i].time)
      /\ p <= Len(list) => LessThan(x, list[p].time)
  BY <1>1, <1>2, PlaceFacts
<1> HIDE DEF e, p
<1>6. \A i \in 1..Len(list) : Due[i] = Until[list[i].time] /\ Due[i] \in (-(Word \div 4) + 1)..(Word \div 4)
  BY <1>2, DuesHold, Near DEF Dues, TypeInv
<1>7. \A i \in 1..Len(list) : LessThan(x, list[i].time) <=> a < Due[i]
  <2> SUFFICES ASSUME NEW i \in 1..Len(list) PROVE LessThan(x, list[i].time) <=> a < Due[i]
    OBVIOUS
  <2>1. list[i].time \in Words /\ Due[i] = Until[list[i].time]
    BY <1>2, <1>6
  <2>2. Until[x] - Until[list[i].time] < Half /\ Until[list[i].time] - Until[x] < Half
    BY <1>6, HalfFacts
  <2> QED BY <1>2, <2>1, <2>2, LessFacts
<1>8. a \in 0..(Word \div 4) /\ \A i \in 1..Len(list) : Due[i] \in Int
  BY <1>6, HalfFacts
<1>9. \A i, j \in 1..Len(list) : i < j => Due[i] <= Due[j]
  BY <1>2 DEF Order, Sorted
<1>10. \A i \in 1..(Len(list) + 1) :
         Due'[i] = IF i < p THEN Due[i] ELSE IF i = p THEN a ELSE Due[i - 1]
  <2> SUFFICES ASSUME NEW i \in 1..(Len(list) + 1)
               PROVE  Due'[i] = IF i < p THEN Due[i] ELSE IF i = p THEN a ELSE Due[i - 1]
    OBVIOUS
  <2>1. Due'[i] = Until[list'[i].time]
    BY <1>4, SameTime DEF Due
  <2>2. i < p => i \in 1..Len(list)
    BY <1>2, <1>5
  <2>3. i > p => i - 1 \in 1..Len(list)
    BY <1>2, <1>5
  <2>4. CASE i < p
    BY <1>3, <1>6, <2>1, <2>2, <2>4
  <2>5. CASE i = p
    BY <1>1, <1>3, <2>1, <2>5
  <2>6. CASE i > p
    BY <1>3, <1>5, <1>6, <2>1, <2>3, <2>6
  <2> QED BY <1>5, <2>4, <2>5, <2>6
<1> HIDE DEF a
<1>11. \A i \in 1..Len(list) : i < p <=> Due[i] <= a
  <2> SUFFICES ASSUME NEW i \in 1..Len(list) PROVE i < p <=> Due[i] <= a
    OBVIOUS
  <2>1. CASE i < p
    BY <1>5, <1>7, <1>8, <2>1
  <2>2. CASE ~(i < p)
    <3>1. p \in 1..Len(list) /\ a < Due[p]
      BY <1>2, <1>5, <1>7, <2>2
    <3>2. Due[p] <= Due[i]
      BY <1>2, <1>8, <1>9, <2>2, <3>1
    <3> QED BY <1>8, <2>2, <3>1, <3>2
  <2> QED BY <2>1, <2>2
<1>12. \A i \in 1..(Len(list) + 1) : Due'[i] = a \/ \E j \in 1..Len(list) : Due'[i] = Due[j]
  <2> SUFFICES ASSUME NEW i \in 1..(Len(list) + 1), i # p
               PROVE  \E j \in 1..Len(list) : Due'[i] = Due[j]
    BY <1>5, <1>10
  <2>1. CASE i < p
    <3>1. i \in 1..Len(list)
      BY <1>2, <1>5, <2>1
    <3> QED BY <1>10, <2>1, <3>1
  <2>2. CASE i > p
    <3>1. i - 1 \in 1..Len(list)
      BY <1>2, <1>5, <2>2
    <3> QED BY SMTT(30), <1>5, <1>10, <2>2, <3>1
  <2> QED BY <1>5, <2>1, <2>2
<1>13. \A i, j \in 1..(Len(list) + 1) : i < j => Due'[i] <= Due'[j]
  <2> SUFFICES ASSUME NEW i \in 1..(Len(list) + 1), NEW j \in 1..(Len(list) + 1), i < j
               PROVE  Due'[i] <= Due'[j]
    OBVIOUS
  <2>1. CASE j < p
    <3>1. i \in 1..Len(list) /\ j \in 1..Len(list) /\ i < p
      BY <1>2, <1>5, <2>1
    <3> QED BY <1>9, <1>10, <2>1, <3>1
  <2>2. CASE j = p
    <3>1. i \in 1..Len(list) /\ i < p
      BY <1>2, <1>5, <2>2
    <3> QED BY <1>10, <1>11, <2>2, <3>1
  <2>3. CASE j > p
    <3>1. j - 1 \in 1..Len(list) /\ ~(j - 1 < p) /\ Due'[j] = Due[j - 1]
      BY <1>2, <1>5, <1>10, <2>3
    <3>2. a < Due[j - 1]
      BY <1>8, <1>11, <3>1
    <3>3. CASE i < p
      <4>1. i \in 1..Len(list)
        BY <1>2, <1>5, <3>3
      <4>2. Due'[i] = Due[i] /\ Due[i] <= a
        BY <1>10, <1>11, <3>3, <4>1
      <4> QED BY <1>8, <3>1, <3>2, <4>1, <4>2
    <3>4. CASE i = p
      BY <1>8, <1>10, <3>1, <3>2, <3>4
    <3>5. CASE i > p
      <4>1. i - 1 \in 1..Len(list) /\ i - 1 < j - 1 /\ Due'[i] = Due[i - 1]
        BY <1>2, <1>5, <1>10, <3>5
      <4> QED BY <1>9, <3>1, <4>1
    <3> QED BY <1>5, <3>3, <3>4, <3>5
  <2> QED BY <1>5, <2>1, <2>2, <2>3
<1>14. \A i \in 1..(Len(list) + 1) : Due'[i] <= Word \div 4
  BY <1>6, <1>8, <1>12, HalfFacts
<1>15. Sorted' /\ Soon'
  BY <1>4, <1>13, <1>14 DEF Sorted, Soon
<1> QED BY <1>2, <1>4, <1>5, <1>10, <1>11, <1>12, <1>15 DEF a

LEMMA OrderStart ==
  ASSUME TypeInv, Order, Prompt, StartTimer
  PROVE  Order'
<1> DEFINE x == Plus(now, Interval[cur])
<1>1. /\ pc = "init" /\ cur \in Timer /\ cur \in 1..NTimers /\ Len(list) = cur - 1
      /\ pc' = (IF cur = NTimers THEN "fetch" ELSE "init") /\ cur' = (IF cur = NTimers THEN 0 ELSE cur + 1)
      /\ lag' = 0 /\ UNCHANGED now /\ list' = TimeoutAbs(list, Entry(cur, x)) /\ lag \in 0..MaxLag
  BY TimerFacts DEF StartTimer, Goto, TypeInv, Listed, TypeOK, NTimers
<1>2. now \in Words /\ Interval[cur] \in 1..(Word \div 4) /\ Until[now] = 0
  BY <1>1, NowFacts, TimerFacts DEF TypeInv, TypeOK, Words
<1>3. x \in Words /\ Until[x] = Interval[cur]
  <2>1. Interval[cur] \in 0..(Word \div 4) /\ Until[now] + Interval[cur] < Half
        /\ Until[now] + Interval[cur] = Interval[cur]
    BY <1>2, HalfFacts
  <2> QED BY <1>2, <2>1, UntilPlus
<1> HIDE DEF x
<1>4. Until[x] \in 0..(Word \div 4)
  BY <1>2, <1>3, HalfFacts
<1>5. /\ Sorted' /\ Soon'
      /\ \A i \in DOMAIN list' : Due'[i] = Until[x] \/ \E j \in DOMAIN list : Due'[i] = Due[j]
  <2>1. Len(list) < NTimers
    BY <1>1, TimerFacts
  <2> QED BY <1>1, <1>3, <1>4, <2>1, SortedGrows
<1>6. cur - 1 \in 0..NTimers /\ cur \in 0..NTimers /\ cur - 1 + 1 = cur
  BY <1>1, TimerFacts
<1>7. (cur - 1) * MaxLag \in Nat /\ cur * MaxLag = (cur - 1) * MaxLag + MaxLag /\ cur * MaxLag <= Round
      /\ cur * MaxLag \in Nat /\ MaxLag \in Nat /\ Round \in Nat
  BY <1>6, RoundFacts
<1>8. \A i \in DOMAIN list : Due[i] >= -((cur - 1) * MaxLag) - lag /\ Due[i] \in Int
  BY <1>1, DuesHold, HalfFacts DEF Order, Punctual, Late, Dues, TypeInv
<1>9. \A i \in DOMAIN list' : Due'[i] >= -(cur * MaxLag) /\ Due'[i] \in Int
  <2> DEFINE b == (cur - 1) * MaxLag
             c == cur * MaxLag
  <2>1. b \in Nat /\ c = b + MaxLag /\ MaxLag \in Nat /\ lag \in 0..MaxLag /\ Until[x] \in Nat
    BY <1>1, <1>4, <1>7, HalfFacts
  <2> HIDE DEF b, c
  <2> SUFFICES ASSUME NEW i \in DOMAIN list' PROVE Due'[i] >= -c /\ Due'[i] \in Int
    BY DEF c
  <2>2. CASE Due'[i] = Until[x]
    BY <2>1, <2>2
  <2>3. ASSUME NEW j \in DOMAIN list, Due'[i] = Due[j] PROVE Due'[i] >= -c /\ Due'[i] \in Int
    <3>1. Due[j] >= -b - lag /\ Due[j] \in Int
      BY <1>8 DEF b
    <3> QED BY <2>1, <2>3, <3>1
  <2> QED BY <1>5, <2>2, <2>3
<1>10. CASE cur = NTimers
  BY <1>1, <1>5, <1>7, <1>9, <1>10 DEF Order, Punctual, Late, Round, NTimers
<1>11. CASE cur # NTimers
  <2>1. cur' - 1 = cur
    BY <1>1, <1>11
  <2> QED BY <1>1, <1>5, <1>7, <1>9, <1>11, <2>1 DEF Order, Punctual, Late
<1> QED BY <1>10, <1>11

\* Where lwip_cyclic_timer puts its timer.
LEMMA CyclicTime ==
  ASSUME TypeInv, Order, Prompt, pc = "handler"
  PROVE  /\ cur \in Timer /\ NextTime(cur) \in Words /\ Until[NextTime(cur)] \in 0..(Word \div 4)
         /\ Until[NextTime(cur)] = IF Until[dueTime] + Interval[cur] < 0 THEN Interval[cur]
                                   ELSE Until[dueTime] + Interval[cur]
<1> DEFINE x == NextTime(cur)
           y == Plus(dueTime, Interval[cur])
           z == Plus(now, Interval[cur])
<1>1. cur \in Timer /\ now \in Words /\ dueTime \in Words
  BY DEF TypeInv, Listed, TypeOK, Words
<1>2. /\ Until[dueTime] \in (-(Word \div 4) + 1)..0
      /\ Interval[cur] \in 1..(Word \div 4) /\ Until[now] = 0
  BY <1>1, Near, NowFacts, TimerFacts
<1>3. y \in Words /\ Until[y] = Until[dueTime] + Interval[cur]
  <2>1. Interval[cur] \in 0..(Word \div 4) /\ Until[dueTime] + Interval[cur] < Half
    BY <1>2, HalfFacts
  <2> QED BY <1>1, <2>1, UntilPlus
<1>4. z \in Words /\ Until[z] = Interval[cur]
  <2>1. Interval[cur] \in 0..(Word \div 4) /\ Until[now] + Interval[cur] < Half
        /\ Until[now] + Interval[cur] = Interval[cur]
    BY <1>2, HalfFacts
  <2> QED BY <1>1, <1>2, <2>1, UntilPlus
<1>5. LessThan(y, now) <=> Until[y] < 0
  BY <1>1, <1>3, UntilLess
<1>6. x = IF LessThan(y, now) THEN z ELSE y
  BY DEF NextTime
<1> HIDE DEF x, y, z
<1>7. CASE Until[y] < 0
  <2>1. x = z
    BY <1>5, <1>6, <1>7
  <2> QED BY <1>1, <1>2, <1>3, <1>4, <1>7, <2>1, HalfFacts DEF x
<1>8. CASE ~(Until[y] < 0)
  <2>1. x = y
    BY <1>5, <1>6, <1>8
  <2> QED BY <1>1, <1>2, <1>3, <1>8, <2>1, HalfFacts DEF x
<1> QED BY <1>7, <1>8

LEMMA OrderCyclic ==
  ASSUME TypeInv, Order, Prompt, CyclicTimer
  PROVE  Order'
<1> DEFINE x == NextTime(cur)
           a == Until[x]
           lim == Until[limit]
<1>1. /\ pc = "handler" /\ cur \in Timer /\ Len(list) = NTimers - 1
      /\ pc' = "next" /\ lag' = 0 /\ UNCHANGED <<now, limit>>
      /\ list' = TimeoutAbs(list, Entry(cur, x)) /\ lag \in 0..MaxLag
      /\ now \in Words /\ dueTime \in Words /\ limit \in Words
  BY DEF CyclicTimer, Goto, TypeInv, Listed, TypeOK, Words
<1>2. Checking
  BY <1>1 DEF Order, Punctual
<1>3. /\ Until[dueTime] \in (-(Word \div 4) + 1)..0 /\ lim \in (-(Word \div 4) + 1)..0
      /\ Interval[cur] \in 1..(Word \div 4) /\ Until[now] = 0
  BY <1>1, Near, NowFacts, TimerFacts
<1>4. x \in Words /\ a \in 0..(Word \div 4)
  BY <1>1, CyclicTime
<1> HIDE DEF x
<1>5. Len(list) < NTimers /\ Len(list) + 1 = NTimers
  BY <1>1, TimerFacts
<1>6. /\ DOMAIN list' = 1..NTimers /\ Sorted' /\ Soon'
      /\ \A i \in DOMAIN list' : Due'[i] = a \/ \E j \in DOMAIN list : Due'[i] = Due[j]
      /\ \E p \in 1..NTimers :
           /\ \A i \in DOMAIN list : i < p <=> Due[i] <= a
           /\ \A i \in DOMAIN list' :
                Due'[i] = IF i < p THEN Due[i] ELSE IF i = p THEN a ELSE Due[i - 1]
  BY <1>1, <1>4, <1>5, SortedGrows
<1>7. DOMAIN list = 1..(NTimers - 1) /\ \A i \in DOMAIN list : Due[i] \in Int
  BY <1>1, ListFacts, DuesHold, HalfFacts DEF TypeInv, Dues
<1>8. Until'[limit'] = lim
  BY <1>1, SameTime
<1> HIDE DEF a, lim
<1>9. /\ a \in Nat /\ lim \in Int /\ lim <= 0 /\ Round \in Nat /\ MaxLag \in Nat /\ NTimers \in Nat
  BY <1>3, <1>4, RoundFacts, HalfFacts
<1>10. \A i \in DOMAIN list' : Due'[i] >= lim - (2 * Round + 3 * MaxLag)
  <2>1. \A j \in DOMAIN list : Due[j] >= lim - (2 * Round + 3 * MaxLag)
    BY <1>2 DEF Checking, lim
  <2>2. a >= lim - (2 * Round + 3 * MaxLag)
    BY <1>9
  <2> QED BY <1>6, <2>1, <2>2
<1>11. \E m \in 0..NTimers : /\ \A i \in DOMAIN list' : i <= m <=> Due'[i] <= lim
                             /\ lim >= -(2 * ((NTimers - m) * MaxLag))
  <2>1. PICK p \in 1..NTimers :
           /\ \A i \in DOMAIN list : i < p <=> Due[i] <= a
           /\ \A i \in DOMAIN list' :
                Due'[i] = IF i < p THEN Due[i] ELSE IF i = p THEN a ELSE Due[i - 1]
    BY <1>6
  <2>2. PICK m \in 0..(NTimers - 1) : Expired(m, 2 * ((NTimers - m) * MaxLag) - MaxLag)
    BY <1>1, <1>2 DEF Checking
  <2>3. /\ \A i \in 1..(NTimers - 1) : i <= m <=> Due[i] <= lim
        /\ lim >= -(2 * ((NTimers - m) * MaxLag) - MaxLag) - lag
    BY <1>7, <2>2 DEF Expired, lim
  <2>4. \A i \in 1..NTimers : i > p => i - 1 \in 1..(NTimers - 1)
    BY <1>9
  <2>5. \A i \in 1..NTimers : i < p => i \in 1..(NTimers - 1)
    BY <1>9
  <2>6. \A i \in 1..NTimers : i > p => a < Due[i - 1]
    <3> SUFFICES ASSUME NEW i \in 1..NTimers, i > p PROVE a < Due[i - 1]
      OBVIOUS
    <3>1. i - 1 \in 1..(NTimers - 1) /\ ~(i - 1 < p)
      BY <2>4
    <3> QED BY <1>7, <1>9, <2>1, <3>1
  <2>7. CASE a > lim
    <3>1. m < p
      <4>1. CASE p = NTimers
        BY <1>9, <4>1
      <4>2. CASE p # NTimers
        <5>1. p \in 1..(NTimers - 1) /\ ~(p < p)
          BY <1>9, <4>2
        <5>2. ~(Due[p] <= a)
          BY <1>7, <2>1, <5>1
        <5>3. ~(Due[p] <= lim)
          BY <1>7, <1>9, <2>7, <5>1, <5>2
        <5> QED BY <1>9, <2>3, <5>1, <5>3
      <4> QED BY <4>1, <4>2
    <3>2. ASSUME NEW i \in 1..NTimers PROVE i <= m <=> Due'[i] <= lim
      <4>1. CASE i < p
        BY <1>6, <2>1, <2>3, <2>5, <4>1
      <4>2. CASE i = p
        BY <1>6, <1>9, <2>1, <2>7, <3>1, <4>2
      <4>3. CASE i > p
        <5>1. i - 1 \in 1..(NTimers - 1) /\ Due'[i] = Due[i - 1] /\ a < Due[i - 1]
          BY <1>6, <2>1, <2>4, <2>6, <4>3
        <5> QED BY <1>7, <1>9, <2>7, <3>1, <4>3, <5>1
      <4> QED BY <4>1, <4>2, <4>3
    <3>3. lim >= -(2 * ((NTimers - m) * MaxLag))
      <4>1. (NTimers - m) * MaxLag \in Int
        BY <1>9
      <4> QED BY <1>1, <1>9, <2>3, <4>1
    <3>4. m \in 0..NTimers
      BY <1>9
    <3> QED BY <1>6, <3>2, <3>3, <3>4
  <2>8. CASE ~(a > lim)
    <3>1. a = 0 /\ lim = 0
      BY <1>9, <2>8
    <3>2. p = m + 1
      <4>1. CASE p = NTimers
        <5>1. \A i \in 1..(NTimers - 1) : Due[i] <= lim
          BY <1>7, <2>1, <3>1, <4>1
        <5>2. CASE NTimers = 1
          BY <1>9, <4>1, <5>2
        <5>3. CASE NTimers # 1
          <6>1. NTimers - 1 \in 1..(NTimers - 1)
            BY <1>9, <5>3
          <6> QED BY <1>9, <2>3, <4>1, <5>1, <6>1
        <5> QED BY <5>2, <5>3
      <4>2. CASE p # NTimers
        <5>1. p \in 1..(NTimers - 1)
          BY <1>9, <4>2
        <5>2. ~(Due[p] <= lim)
          BY <1>7, <2>1, <3>1, <5>1
        <5>3. ~(p <= m)
          BY <2>3, <5>1, <5>2
        <5>4. CASE p = 1
          BY <1>9, <5>3, <5>4
        <5>5. CASE p # 1
          <6>1. p - 1 \in 1..(NTimers - 1) /\ p - 1 < p
            BY <1>9, <5>1, <5>5
          <6>2. p - 1 <= m
            BY <1>7, <2>1, <2>3, <3>1, <6>1
          <6> QED BY <1>9, <5>3, <6>2
        <5> QED BY <5>4, <5>5
      <4> QED BY <4>1, <4>2
    <3>3. ASSUME NEW i \in 1..NTimers PROVE i <= m + 1 <=> Due'[i] <= lim
      <4>1. CASE i < p
        BY <1>6, <1>7, <2>1, <2>5, <3>1, <3>2, <4>1
      <4>2. CASE i = p
        BY <1>6, <2>1, <3>1, <3>2, <4>2
      <4>3. CASE i > p
        <5>1. i - 1 \in 1..(NTimers - 1) /\ Due'[i] = Due[i - 1] /\ a < Due[i - 1]
          BY <1>6, <2>1, <2>4, <2>6, <4>3
        <5> QED BY <1>7, <1>9, <3>1, <3>2, <4>3, <5>1
      <4> QED BY <4>1, <4>2, <4>3
    <3>4. m + 1 \in 0..NTimers /\ NTimers - (m + 1) \in 0..NTimers
      BY <1>9
    <3>5. lim >= -(2 * ((NTimers - (m + 1)) * MaxLag))
      <4>1. (NTimers - (m + 1)) * MaxLag \in Nat
        BY <3>4, RoundFacts
      <4> QED BY <3>1, <4>1
    <3> QED BY <1>6, <3>3, <3>4, <3>5
  <2> QED BY <2>7, <2>8
<1>12. Checking'
  <2>1. \E m \in 0..NTimers : Expired(m, 2 * ((NTimers - m) * MaxLag))'
    <3>1. PICK m \in 0..NTimers : /\ \A i \in DOMAIN list' : i <= m <=> Due'[i] <= lim
                                  /\ lim >= -(2 * ((NTimers - m) * MaxLag))
      BY <1>11
    <3>2. (NTimers - m) * MaxLag \in Int
      BY <1>9
    <3>3. lim >= -(2 * ((NTimers - m) * MaxLag)) - lag'
      BY <1>1, <1>9, <3>1, <3>2
    <3>4. Expired(m, 2 * ((NTimers - m) * MaxLag))'
      BY <1>8, <3>1, <3>3 DEF Expired, NTimers
    <3> QED BY <3>4
  <2> QED BY <1>1, <1>8, <1>9, <1>10, <2>1 DEF Checking, Round, NTimers
<1> QED BY <1>1, <1>6, <1>12 DEF Order, Punctual

\* The comparison of the first entry with limit.
LEMMA HeadAgainstLimit ==
  ASSUME TypeInv, Order, Prompt, pc = "next"
  PROVE  /\ DOMAIN list = 1..NTimers /\ 1 \in DOMAIN list /\ list # <<>>
         /\ LessThan(limit, list[1].time) <=> Until[limit] < Due[1]
<1>1. DOMAIN list = 1..NTimers /\ 1 \in DOMAIN list
  BY ListFacts, TimerFacts DEF TypeInv, Listed
<1>2. /\ now \in Words /\ limit \in Words /\ list[1].time \in Words
      /\ Due[1] = Until[list[1].time] /\ Due[1] \in (-(Word \div 4) + 1)..(Word \div 4)
      /\ Until[limit] \in (-(Word \div 4) + 1)..0
  BY <1>1, ListFacts, DuesHold, Near DEF TypeInv, TypeOK, Words, Dues
<1>3. /\ Until[limit] - Until[list[1].time] < Half
      /\ Until[list[1].time] - Until[limit] < Half
  BY <1>2, HalfFacts
<1>4. LessThan(limit, list[1].time) <=> Until[limit] < Until[list[1].time]
  BY <1>2, <1>3, LessFacts
<1>5. list # <<>>
  <2>1. DOMAIN <<>> = {}
    OBVIOUS
  <2> QED BY <1>1, <2>1
<1> QED BY <1>1, <1>2, <1>4, <1>5

LEMMA OrderExpire ==
  ASSUME TypeInv, Order, Prompt, Expire
  PROVE  Order'
<1> DEFINE lim == Until[limit]
<1>1. /\ pc = "next" /\ pc' = "handler" /\ dueTime' = list[1].time /\ lag' = 0
      /\ UNCHANGED <<now, limit>> /\ list' = Tail(list) /\ lag \in 0..MaxLag
      /\ ~LessThan(limit, list[1].time) /\ Len(list) = NTimers /\ list # <<>>
  BY DEF Expire, Goto, TypeInv, Listed, TypeOK
<1>2. Checking
  BY <1>1 DEF Order, Punctual
<1>3. /\ DOMAIN list = 1..NTimers /\ 1 \in DOMAIN list /\ list \in Seq(Entries)
      /\ ~(lim < Due[1])
  BY <1>1, HeadAgainstLimit, ListFacts DEF TypeInv
<1>4. /\ list' \in Seq(Entries) /\ Len(list') = NTimers - 1
      /\ \A i \in 1..(NTimers - 1) : list'[i] = list[i + 1]
  BY <1>1, <1>3, HeadTailProperties
<1>5. DOMAIN list' = 1..(NTimers - 1)
  BY <1>4, LenProperties
<1>6. /\ \A i \in 1..NTimers : Due[i] = Until[list[i].time] /\ Due[i] \in Int
      /\ lim \in Int /\ NTimers \in Nat \ {0} /\ Round \in Nat /\ MaxLag \in Nat
  <2>1. \A i \in 1..NTimers : Due[i] = Until[list[i].time] /\ Due[i] \in Int
    BY <1>3, DuesHold, HalfFacts DEF TypeInv, Dues
  <2>2. lim \in Int
    BY <1>1, Near, HalfFacts
  <2> QED BY <2>1, <2>2, TimerFacts, RoundFacts
<1>7. \A i \in 1..(NTimers - 1) : i + 1 \in 1..NTimers /\ Due'[i] = Due[i + 1]
  BY <1>3, <1>4, <1>5, <1>6, <1>1, SameTime DEF Due
<1>8. Until'[limit'] = lim /\ Until'[dueTime'] = Due[1]
  BY <1>1, <1>3, <1>6, SameTime
<1> HIDE DEF lim
<1>9. \A i, j \in 1..NTimers : i < j => Due[i] <= Due[j]
  BY <1>3 DEF Order, Sorted
<1>10. Sorted' /\ Soon'
  <2>1. \A i, j \in 1..(NTimers - 1) : i < j => Due'[i] <= Due'[j]
    BY <1>6, <1>7, <1>9
  <2>2. \A i \in 1..NTimers : Due[i] <= Word \div 4
    BY <1>3 DEF Order, Soon
  <2> QED BY <1>5, <1>7, <2>1, <2>2 DEF Sorted, Soon
<1>11. /\ \A i \in 1..NTimers : Due[i] >= lim - (2 * Round + 3 * MaxLag)
       /\ lim <= 0
  BY <1>2, <1>3 DEF Checking, lim
<1>12. \A i \in 1..(NTimers - 1) : Due[1] <= Due'[i]
  <2> SUFFICES ASSUME NEW i \in 1..(NTimers - 1) PROVE Due[1] <= Due'[i]
    OBVIOUS
  <2>1. i + 1 \in 1..NTimers /\ 1 < i + 1 /\ 1 \in 1..NTimers
    BY <1>6
  <2> QED BY <1>7, <1>9, <2>1
<1>13. \E m \in 0..(NTimers - 1) : Expired(m, 2 * ((NTimers - m) * MaxLag) - MaxLag)'
  <2>1. PICK m \in 0..NTimers : Expired(m, 2 * ((NTimers - m) * MaxLag))
    BY <1>1, <1>2 DEF Checking
  <2>2. /\ \A i \in 1..NTimers : i <= m <=> Due[i] <= lim
        /\ lim >= -(2 * ((NTimers - m) * MaxLag)) - lag
    BY <1>3, <2>1 DEF Expired, lim
  <2>3. m >= 1
    BY <1>3, <1>6, <2>2
  <2>4. m - 1 \in 0..(NTimers - 1) /\ NTimers - m \in 0..NTimers /\ NTimers - (m - 1) = NTimers - m + 1
    BY <1>6, <2>3
  <2>5. (NTimers - (m - 1)) * MaxLag = (NTimers - m) * MaxLag + MaxLag /\ (NTimers - m) * MaxLag \in Nat
    BY <2>4, RoundFacts
  <2>6. lim >= -(2 * ((NTimers - (m - 1)) * MaxLag) - MaxLag) - lag'
    BY <1>1, <1>6, <2>2, <2>5
  <2>7. \A i \in 1..(NTimers - 1) : i <= m - 1 <=> Due'[i] <= lim
    BY <1>6, <1>7, <2>2
  <2>8. Expired(m - 1, 2 * ((NTimers - (m - 1)) * MaxLag) - MaxLag)'
    BY <1>5, <1>8, <2>6, <2>7 DEF Expired, NTimers
  <2> QED BY <2>4, <2>8
<1>14. Checking'
  <2>1. Due[1] <= lim /\ Due[1] >= lim - (2 * Round + 3 * MaxLag)
    BY <1>3, <1>6, <1>11
  <2>2. \A i \in 1..(NTimers - 1) : Due'[i] >= lim - (2 * Round + 3 * MaxLag)
    BY <1>7, <1>11
  <2> QED BY <1>1, <1>5, <1>8, <1>11, <1>12, <1>13, <2>1, <2>2 DEF Checking, Round, NTimers
<1> QED BY <1>1, <1>10, <1>14 DEF Order, Punctual

LEMMA OrderCheckBegin ==
  ASSUME TypeInv, Order, Prompt, CheckBegin
  PROVE  Order'
<1>1. /\ pc = "check" /\ pc' = "next" /\ lag' = 0 /\ limit' = now
      /\ UNCHANGED <<now, list>> /\ lag \in 0..MaxLag /\ now \in Words
  BY DEF CheckBegin, Goto, TypeInv, TypeOK, Words
<1>2. Due' = Due /\ Until'[limit'] = 0
  BY <1>1, SameTime, NowFacts DEF Due
<1>3. /\ DOMAIN list = 1..NTimers /\ NTimers \in Nat \ {0} /\ Round \in Nat /\ MaxLag \in Nat
      /\ \A i \in 1..NTimers : Due[i] \in Int
  <2>1. DOMAIN list = 1..NTimers
    BY <1>1, ListFacts DEF TypeInv, Listed
  <2>2. \A i \in DOMAIN list : Due[i] \in Int
    BY DuesHold, HalfFacts DEF TypeInv, Dues
  <2> QED BY <2>1, <2>2, TimerFacts, RoundFacts
<1>4. \A i \in DOMAIN list : Due[i] >= -(2 * Round + 3 * MaxLag)
  BY <1>1, <1>3 DEF Order, Punctual, Late
<1>5. \E m \in 0..NTimers : \A i \in 1..NTimers : i <= m <=> Due[i] <= 0
  <2> DEFINE later == {i \in 1..(NTimers + 1) : i = NTimers + 1 \/ Due[i] > 0}
  <2>1. later \subseteq Nat /\ NTimers + 1 \in later
    BY <1>3
  <2>2. PICK p \in later : \A j \in later : p <= j
    <3> HIDE DEF later
    <3> QED BY <2>1, Smallest
  <2>3. p - 1 \in 0..NTimers
    BY <1>3, <2>2
  <2>4. ASSUME NEW i \in 1..NTimers PROVE i <= p - 1 <=> Due[i] <= 0
    <3>1. CASE i < p
      <4>1. i \notin later
        BY <1>3, <2>1, <2>2, <3>1
      <4>2. Due[i] <= 0
        BY <1>3, <4>1
      <4> QED BY <1>3, <2>3, <3>1, <4>2
    <3>2. CASE i = p
      BY <1>3, <2>2, <2>3, <3>2
    <3>3. CASE i > p
      <4>1. p \in 1..NTimers /\ Due[p] > 0
        BY <1>3, <2>2, <2>3, <3>3
      <4>2. Due[p] <= Due[i]
        BY <1>3, <3>3, <4>1 DEF Order, Sorted
      <4> QED BY <1>3, <2>3, <3>3, <4>1, <4>2
    <3> QED BY <1>3, <2>3, <3>1, <3>2, <3>3
  <2> QED BY <2>3, <2>4
<1>6. \E m \in 0..NTimers : Expired(m, 2 * ((NTimers - m) * MaxLag))'
  <2>1. PICK m \in 0..NTimers : \A i \in 1..NTimers : i <= m <=> Due[i] <= 0
    BY <1>5
  <2>2. NTimers - m \in 0..NTimers
    BY <1>3
  <2>3. (NTimers - m) * MaxLag \in Nat
    BY <2>2, RoundFacts
  <2>4. 0 >= -(2 * ((NTimers - m) * MaxLag)) - lag'
    BY <1>1, <2>3
  <2>5. Expired(m, 2 * ((NTimers - m) * MaxLag))'
    BY <1>1, <1>2, <1>3, <2>1, <2>4 DEF Expired, NTimers
  <2> QED BY <2>5
<1>7. Checking'
  BY <1>1, <1>2, <1>3, <1>4, <1>6 DEF Checking, Round, NTimers
<1>8. Sorted' /\ Soon'
  BY <1>1, <1>2 DEF Order, Sorted, Soon
<1> QED BY <1>1, <1>7, <1>8 DEF Order, Punctual

LEMMA OrderRest ==
  ASSUME TypeInv, Order, Prompt,
         Fetch \/ Sleep \/ Message \/ Timeout \/ CheckEnd \/ UNCHANGED vars
  PROVE  Order'
<1>1. /\ UNCHANGED <<now, list>> /\ lag \in 0..MaxLag /\ MaxLag \in Nat /\ Round \in Nat
      /\ NTimers \in Nat \ {0} /\ wake \in Nat /\ sleeptime \in Nat /\ MaxLag <= Round
  BY TimerFacts, RoundFacts, HalfFacts
  DEF Fetch, Sleep, Message, Timeout, CheckEnd, vars, Goto, TypeInv, TypeOK
<1>2. Due' = Due /\ Until' = Until
  BY <1>1, SameTime DEF Due
<1>3. Sorted' /\ Soon'
  BY <1>1, <1>2 DEF Order, Sorted, Soon
<1>4. \A i \in DOMAIN list : Due[i] \in Int /\ Due[i] = Until[list[i].time]
  BY DuesHold, HalfFacts DEF TypeInv, Dues
<1>5. CASE Message
  <2>1. pc = "asleep" /\ pc' = "fetch" /\ lag' = 0
    BY <1>5 DEF Message, Goto
  <2>2. \A i \in DOMAIN list : Due[i] >= -(2 * Round + MaxLag)
    BY <1>1, <1>4, <2>1 DEF Order, Punctual
  <2> QED BY <1>1, <1>2, <1>3, <2>1, <2>2 DEF Order, Punctual, Late, Round, NTimers
<1>6. CASE Timeout
  <2>1. pc = "asleep" /\ pc' = "check" /\ lag' = 0
    BY <1>6 DEF Timeout, Goto
  <2>2. \A i \in DOMAIN list : Due[i] >= -(2 * Round + 2 * MaxLag)
    BY <1>1, <1>4, <2>1 DEF Order, Punctual
  <2> QED BY <1>1, <1>2, <1>3, <2>1, <2>2 DEF Order, Punctual, Late, Round, NTimers
<1>7. CASE CheckEnd
  <2>1. pc = "next" /\ pc' = "fetch" /\ lag' = 0
    BY <1>7 DEF CheckEnd, Goto
  <2>2. Checking
    BY <2>1 DEF Order, Punctual
  <2>3. DOMAIN list = 1..NTimers /\ Until[limit] < Due[1] /\ Until[limit] \in Int
    BY <1>7, <2>1, HeadAgainstLimit, Near, HalfFacts DEF CheckEnd
  <2>4. PICK m \in 0..NTimers : Until[limit] >= -(2 * ((NTimers - m) * MaxLag)) - lag
    BY <2>1, <2>2 DEF Checking, Expired
  <2>5. (NTimers - m) * MaxLag \in Nat /\ (NTimers - m) * MaxLag <= Round
    <3>1. NTimers - m \in 0..NTimers
      BY <1>1
    <3> QED BY <3>1, RoundFacts
  <2>6. Until[limit] >= -(2 * Round + MaxLag)
    BY <1>1, <2>3, <2>4, <2>5
  <2>7. \A i \in DOMAIN list : Due[1] <= Due[i]
    BY <1>1, <1>4, <2>3 DEF Order, Sorted
  <2>8. \A i \in DOMAIN list : Due[i] >= -(2 * Round + MaxLag)
    BY <1>1, <1>4, <2>3, <2>6, <2>7
  <2> QED BY <1>1, <1>2, <1>3, <2>1, <2>8 DEF Order, Punctual, Late, Round, NTimers
<1>8. CASE Fetch
  <2>1. pc = "fetch" /\ lag' = 0 /\ DOMAIN list = 1..NTimers /\ 1 \in DOMAIN list /\ list # <<>>
    BY <1>1, <1>8, ListFacts DEF Fetch, Goto, TypeInv, Listed
  <2>2. Sleeptime = (IF Due[1] <= 0 THEN 0 ELSE Due[1])
    <3>1. now \in Words /\ list[1].time \in Words /\ Due[1] = Until[list[1].time] /\ Due[1] \in Int
      BY <1>4, <2>1, ListFacts DEF TypeInv, TypeOK, Words
    <3>2. /\ LessThan(list[1].time, now) <=> Due[1] < 0
          /\ Due[1] >= 0 => Minus(list[1].time, now) = Due[1]
      BY <3>1, UntilLess
    <3> QED BY <2>1, <3>1, <3>2 DEF Sleeptime
  <2>3. CASE Sleeptime = 0
    <3>1. pc' = "check"
      BY <1>8, <2>1, <2>3 DEF Fetch, Goto
    <3>2. \A i \in DOMAIN list : Due[i] >= -(2 * Round + 2 * MaxLag)
      BY SMTT(30), <1>1, <1>4, <2>1 DEF Order, Punctual, Late
    <3> QED BY <1>1, <1>2, <1>3, <2>1, <3>1, <3>2 DEF Order, Punctual, Late, Round, NTimers
  <2>4. CASE Sleeptime # 0
    <3>1. pc' = "unlocked" /\ sleeptime' = Due[1] /\ Due[1] \in Int /\ Due[1] > 0
      BY <1>4, <1>8, <2>1, <2>2, <2>4 DEF Fetch, Goto
    <3>2. \A i \in DOMAIN list : Due[1] <= Due[i]
      BY <1>1, <1>4, <2>1 DEF Order, Sorted
    <3>3. \A i \in DOMAIN list : Due[i] >= sleeptime' - lag'
      BY <1>4, <2>1, <3>1, <3>2
    <3>4. sleeptime' # Infinite
      <4>1. Due[1] <= Word \div 4
        BY <2>1 DEF Order, Soon
      <4>2. Word \div 4 < Word - 1 /\ Word - 1 \in Int /\ Word \div 4 \in Int
        BY HalfFacts
      <4> QED BY <3>1, <4>1, <4>2 DEF Infinite
    <3> QED BY <1>1, <1>2, <1>3, <2>1, <3>1, <3>3, <3>4 DEF Order, Punctual, Infinite
  <2> QED BY <2>3, <2>4
<1>9. CASE UNCHANGED vars
  BY <1>2, <1>3, <1>9
  DEF vars, Order, Punctual, Late, Checking, Expired, Round, NTimers, Infinite
<1>10. CASE Sleep
  <2>1. /\ pc = "unlocked" /\ pc' = "asleep" /\ lag' = 0
        /\ sleeptime # Infinite /\ \A i \in DOMAIN list : Due[i] >= sleeptime - lag
    BY <1>10 DEF Sleep, Goto, Order, Punctual
  <2>2. wake' \in {sleeptime - 1, sleeptime}
    BY <1>10, <2>1 DEF Sleep
  <2>3. sleeptime <= Infinite /\ Infinite \in Int
    BY HalfFacts DEF TypeInv, TypeOK, Infinite
  <2>4. wake' # Infinite
    BY <1>1, <2>1, <2>2, <2>3
  <2>5. \A i \in DOMAIN list : Due[i] >= wake' - MaxLag - lag'
    BY <1>1, <1>4, <2>1, <2>2
  <2> QED BY <1>1, <1>2, <1>3, <2>1, <2>4, <2>5 DEF Order, Punctual, Infinite
<1> QED BY <1>5, <1>6, <1>7, <1>8, <1>9, <1>10

LEMMA OrderInit == Init => Order
  BY DEF Init, Order, Sorted, Soon, Punctual, Late

LEMMA OrderInductive == ASSUME Prompt PROVE Spec => [](TypeInv /\ Order)
<1>1. TypeInv /\ TypeInv' /\ Order /\ [Next]_vars => Order'
  BY OrderStart, OrderCyclic, OrderExpire, OrderCheckBegin, OrderRest, OrderTick DEF Next, Thread
<1> QED BY <1>1, OrderInit, TypeInductive, PTL DEF Spec

(* While tcpip_thread is asleep it sleeps past the time of no timer by more than   *)
(* the ticks before its wait began: its timeout, computed from the first entry,     *)
(* covers the whole list, also across the wrap of the tick and however late the     *)
(* thread was before.                                                               *)
THEOREM SleepsInTime == ASSUME Prompt PROVE Spec => []NeverOversleeps
<1>1. TypeInv /\ Order => NeverOversleeps
  <2> SUFFICES ASSUME TypeInv, Order, pc = "asleep", wake > 0, NEW i \in DOMAIN list
               PROVE  wake <= Ahead(list[i].time) + MaxLag
    BY DEF NeverOversleeps
  <2>1. Due[i] >= wake - MaxLag - lag /\ lag = 0 /\ MaxLag \in Nat
    BY MaxLagAssumption DEF Order, Punctual
  <2>2. Due[i] = Ahead(list[i].time) /\ Due[i] \in Int /\ wake \in Nat
    <3>1. Due[i] = Until[list[i].time] /\ Due[i] \in Int /\ list[i].time \in Words
      BY ListFacts, DuesHold, HalfFacts DEF TypeInv, Dues
    <3>2. wake \in Nat
      BY HalfFacts DEF TypeInv, TypeOK
    <3> QED BY <3>1, <3>2 DEF Until
  <2> QED BY <2>1, <2>2
<1> QED BY <1>1, OrderInductive, PTL

-----------------------------------------------------------------------------
(* The list implements the timers of CyclicTimers.                         *)

Lefts ==
  TypeInv /\ pc # "init" =>
    /\ \A i \in DOMAIN list : list[i].timer \in Timer /\ Left[list[i].timer] = Due[i]
    /\ pc = "handler" => Left[cur] = Until[dueTime]

LEMMA LeftsHold == Lefts
<1> SUFFICES ASSUME TypeInv, pc # "init"
             PROVE  /\ \A i \in DOMAIN list : list[i].timer \in Timer /\ Left[list[i].timer] = Due[i]
                    /\ pc = "handler" => Left[cur] = Until[dueTime]
  BY DEF Lefts
<1>1. ASSUME NEW i \in DOMAIN list
      PROVE  list[i].timer \in Timer /\ Left[list[i].timer] = Due[i]
  <2> DEFINE t == list[i].timer
             at == {j \in DOMAIN list : list[j].timer = t}
  <2>1. t \in Timer /\ list[i].time \in Words /\ ~(pc = "handler" /\ cur = t)
    BY ListFacts DEF TypeInv, Listed, Armed
  <2>2. at = {i}
    BY DEF TypeInv, Listed
  <2>3. (CHOOSE j \in at : TRUE) = i /\ at # {}
    BY <2>2
  <2>4. TimeOf(t) = list[i].time
    BY <2>1, <2>3 DEF TimeOf
  <2>5. Left[t] = Ahead(TimeOf(t))
    BY <2>1 DEF Left
  <2> QED BY <2>1, <2>4, <2>5 DEF Due, Until
<1>2. ASSUME pc = "handler" PROVE Left[cur] = Until[dueTime]
  BY <1>2 DEF TypeInv, Listed, TypeOK, Left, TimeOf, Until, Words
<1> QED BY <1>1, <1>2

\* Each timer is in the list, or its handler runs.
LEMMA LeftIs ==
  ASSUME TypeInv, pc # "init", NEW t \in Timer
  PROVE  \/ pc = "handler" /\ cur = t /\ Left[t] = Until[dueTime]
         \/ /\ ~(pc = "handler" /\ cur = t)
            /\ \E i \in DOMAIN list : list[i].timer = t /\ Left[t] = Due[i]
<1>1. CASE pc = "handler" /\ cur = t
  BY <1>1, LeftsHold DEF Lefts
<1>2. CASE ~(pc = "handler" /\ cur = t)
  <2>1. t \in Armed
    BY <1>2 DEF Armed
  <2>2. PICK i \in DOMAIN list : list[i].timer = t
    BY <2>1 DEF TypeInv, Listed
  <2> QED BY <1>2, <2>2, LeftsHold DEF Lefts
<1> QED BY <1>1, <1>2

LEMMA PassStep ==
  ASSUME TypeInv, TypeInv', Order, Prompt, pc # "init", Tick
  PROVE  Abstract!Pass
<1>1. /\ UNCHANGED <<list, dueTime, pc, cur>>
      /\ \A i \in DOMAIN list : Due'[i] = Due[i] - 1
      /\ pc = "handler" => Until'[dueTime'] = Until[dueTime] - 1
  BY DueTick
<1>2. Lefts'
  BY LeftsHold, PTL
<1>3. ASSUME NEW t \in Timer PROVE Left'[t] = Left[t] - 1
  <2>1. CASE pc = "handler" /\ cur = t
    BY <1>1, <1>2, <2>1, LeftIs DEF Lefts
  <2>2. CASE ~(pc = "handler" /\ cur = t)
    <3>1. PICK i \in DOMAIN list : list[i].timer = t /\ Left[t] = Due[i]
      BY <2>2, LeftIs
    <3>2. Left'[list'[i].timer] = Due'[i]
      BY <1>1, <1>2, <3>1 DEF Lefts
    <3> QED BY <1>1, <3>1, <3>2
  <2> QED BY <2>1, <2>2
<1>4. Left' = [t \in Timer |-> Left'[t]]
  BY DEF Left, Timer
<1>5. Left' = [t \in Timer |-> Left[t] - 1]
  BY <1>3, <1>4
<1> QED BY <1>5 DEF Abstract!Pass, Abstract!Timer, Timer

LEMMA RunStep ==
  ASSUME TypeInv, TypeInv', Order, Prompt, CyclicTimer
  PROVE  Abstract!Run(cur) /\ cur \in Timer
<1> DEFINE x == NextTime(cur)
<1>1. /\ pc = "handler" /\ pc' = "next" /\ UNCHANGED now /\ Len(list) = NTimers - 1
      /\ list' = TimeoutAbs(list, Entry(cur, x))
  BY DEF CyclicTimer, Goto, TypeInv, Listed
<1>2. /\ cur \in Timer /\ x \in Words
      /\ Until[x] = IF Until[dueTime] + Interval[cur] < 0 THEN Interval[cur]
                     ELSE Until[dueTime] + Interval[cur]
  BY <1>1, CyclicTime
<1> HIDE DEF x
<1>3. Lefts'
  BY LeftsHold, PTL
<1>4. Left[cur] = Until[dueTime] /\ Checking
  BY <1>1, LeftsHold DEF Lefts, Order, Punctual
<1>5. /\ Len(list) < NTimers /\ \A i \in DOMAIN list : list[i].timer # cur
      /\ \A i, j \in DOMAIN list : list[i].timer = list[j].timer => i = j
  BY <1>1, TimerFacts DEF TypeInv, Listed, Armed
<1>6. /\ \E i \in DOMAIN list' : list'[i] = Entry(cur, x)
      /\ \A j \in DOMAIN list : \E i \in DOMAIN list' : list'[i] = list[j]
  BY <1>1, <1>2, <1>5, ListGrows DEF TypeInv
<1>7. \A i \in DOMAIN list' : Due'[i] = Until[list'[i].time] /\ Left'[list'[i].timer] = Due'[i]
  BY <1>1, <1>3, SameTime DEF Lefts, Due
<1>8. Left'[cur] = Until[x]
  BY <1>6, <1>7 DEF Entry
<1>9. ASSUME NEW t \in Timer, t # cur PROVE Left'[t] = Left[t]
  <2>1. PICK j \in DOMAIN list : list[j].timer = t /\ Left[t] = Due[j]
    BY <1>1, <1>9, LeftIs
  <2>2. PICK i \in DOMAIN list' : list'[i] = list[j]
    BY <1>6
  <2> QED BY <1>7, <2>1, <2>2 DEF Due
<1>10. Left[cur] <= 0 /\ \A u \in Timer : Left[cur] <= Left[u]
  <2>1. Until[dueTime] \in Int /\ Until[dueTime] <= 0
    BY <1>1, Near, HalfFacts
  <2>2. ASSUME NEW u \in Timer PROVE Left[cur] <= Left[u]
    <3>1. CASE u = cur
      BY <1>4, <2>1, <3>1
    <3>2. CASE u # cur
      <4>1. PICK j \in DOMAIN list : Left[u] = Due[j]
        BY <1>1, <3>2, LeftIs
      <4> QED BY <1>1, <1>4, <4>1 DEF Checking
    <3> QED BY <3>1, <3>2
  <2> QED BY <1>4, <2>1, <2>2
<1>11. Left' = [Left EXCEPT ![cur] = Until[x]]
  <2>1. DOMAIN Left = Timer /\ DOMAIN Left' = Timer
        /\ Left' = [t \in Timer |-> Left'[t]]
    BY DEF Left, Timer
  <2> QED BY <1>2, <1>8, <1>9, <2>1
<1>12. Abstract!NextTime(cur) = Until[x]
  BY <1>2, <1>4 DEF Abstract!NextTime
<1> QED BY <1>2, <1>10, <1>11, <1>12 DEF Abstract!Run, Abstract!Timer, Timer

\* The other steps change no timer.
LEMMA StillStep ==
  ASSUME TypeInv, TypeInv', Order, pc # "init",
         Fetch \/ Sleep \/ Message \/ Timeout \/ CheckBegin \/ CheckEnd \/ Expire
  PROVE  UNCHANGED Left
<1>1. Lefts'
  BY LeftsHold, PTL
<1>2. UNCHANGED now /\ pc # "handler" /\ Until' = Until /\ pc' # "init"
  BY SameTime DEF Fetch, Sleep, Message, Timeout, CheckBegin, CheckEnd, Expire, Goto
<1>3. Left' = [t \in Timer |-> Left'[t]] /\ Left = [t \in Timer |-> Left[t]]
  BY DEF Left, Timer
<1>4. CASE Expire
  <2>1. /\ pc = "next" /\ pc' = "handler" /\ cur' = list[1].timer /\ dueTime' = list[1].time
        /\ list' = Tail(list) /\ Len(list) = NTimers /\ list # <<>>
    BY <1>4 DEF Expire, Goto, TypeInv, Listed
  <2>2. list \in Seq(Entries) /\ DOMAIN list = 1..NTimers /\ 1 \in DOMAIN list /\ NTimers \in Nat
    BY <2>1, ListFacts, TimerFacts DEF TypeInv
  <2>3. /\ list' \in Seq(Entries) /\ Len(list') = NTimers - 1
        /\ \A i \in 1..(NTimers - 1) : list'[i] = list[i + 1]
    BY <2>1, <2>2, HeadTailProperties
  <2>4. DOMAIN list' = 1..(NTimers - 1)
    BY <2>3, LenProperties
  <2>5. ASSUME NEW t \in Timer PROVE Left'[t] = Left[t]
    <3>1. PICK i \in DOMAIN list : list[i].timer = t /\ Left[t] = Due[i]
      BY <1>2, LeftIs
    <3>2. CASE i = 1
      BY <1>1, <1>2, <2>1, <2>2, <3>1, <3>2 DEF Lefts, Due
    <3>3. CASE i # 1
      <4>1. i - 1 \in DOMAIN list' /\ list'[i - 1] = list[i]
        <5>1. i - 1 \in 1..(NTimers - 1) /\ i - 1 + 1 = i
          BY <2>2, <3>1, <3>3
        <5> QED BY <2>3, <2>4, <5>1
      <4>2. Left'[t] = Due'[i - 1]
        BY <1>1, <1>2, <3>1, <4>1 DEF Lefts
      <4> QED BY <1>2, <3>1, <4>1, <4>2 DEF Due
    <3> QED BY <3>2, <3>3
  <2> QED BY <1>3, <2>5
<1>5. CASE ~Expire
  <2>1. UNCHANGED list /\ pc' # "handler"
    BY <1>5 DEF Fetch, Sleep, Message, Timeout, CheckBegin, CheckEnd, Goto
  <2>2. ASSUME NEW t \in Timer PROVE Left'[t] = Left[t]
    <3>1. PICK i \in DOMAIN list : list[i].timer = t /\ Left[t] = Due[i]
      BY <1>2, LeftIs
    <3>2. Left'[t] = Due'[i]
      BY <1>1, <1>2, <2>1, <3>1 DEF Lefts
    <3> QED BY <1>2, <2>1, <3>1, <3>2 DEF Due
  <2> QED BY <1>3, <2>2
<1> QED BY <1>4, <1>5

(* Once the timers are started, the sorted list of u32_t times behaves like timers *)
(* that count down in integers: the earliest runs first, never early, and its next *)
(* time does not depend on how late it was, unless it was late by an interval.      *)
THEOREM TimersImplemented == ASSUME Prompt PROVE Spec => ImplementsTimers
<1>1. TypeInv /\ TypeInv' /\ Order /\ [Next]_vars
        => [pc # "init" => Abstract!Next \/ UNCHANGED Left]_vars
  <2> SUFFICES ASSUME TypeInv, TypeInv', Order, Next, pc # "init"
               PROVE  Abstract!Next \/ UNCHANGED Left
    OBVIOUS
  <2>1. CASE Tick
    BY <2>1, PassStep DEF Abstract!Next
  <2>2. CASE CyclicTimer
    BY <2>2, RunStep DEF Abstract!Next, Abstract!Timer, Timer
  <2>3. CASE Fetch \/ Sleep \/ Message \/ Timeout \/ CheckBegin \/ CheckEnd \/ Expire
    BY <2>3, StillStep
  <2>4. ~StartTimer
    BY DEF StartTimer, Goto
  <2> QED BY <2>1, <2>2, <2>3, <2>4 DEF Next, Thread
<1> QED BY <1>1, OrderInductive, PTL DEF Spec, ImplementsTimers

=============================================================================
