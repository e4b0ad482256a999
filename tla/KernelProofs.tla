----------------------------- MODULE KernelProofs -----------------------------
(***************************************************************************)
(* Proofs about the kernel, for any tasks, priorities, objects and         *)
(* programs.                                                               *)
(*                                                                         *)
(* For every action there is one lemma on what it does, and one for each   *)
(* part of the inductive invariant on why the action keeps that part:      *)
(* Typed, Control (who may be where in a call, and what the scheduler, the *)
(* path and the locks of the queues look like then) and Mutexes (a thread  *)
(* holds the mutexes that its program holds at its position), Lists (who   *)
(* is in which list), Placing and Wakeups (nobody waits in vain).          *)
(***************************************************************************)
EXTENDS Kernel, SequenceTheorems, FiniteSetTheorems, TLAPS

(* Induction and recursion up to a bound.                                  *)

\* Every set of naturals that is not empty has a least element.
LEMMA Least ==
  ASSUME NEW S, S \subseteq Nat, S # {}
  PROVE  \E i \in S : \A j \in S : i <= j
<1> SUFFICES ASSUME ~\E i \in S : \A j \in S : i <= j PROVE FALSE
  OBVIOUS
<1> DEFINE below == {i \in Nat : \A j \in S : i < j}
           f == [i \in below |-> i + 1]
<1>1. 0 \in below /\ \A i \in below : i + 1 \in below \ {0}
  <2>1. 0 \in below
    <3>1. 0 \notin S
      OBVIOUS
    <3> QED BY <3>1
  <2>2. ASSUME NEW i \in below PROVE i + 1 \in below \ {0}
    <3>1. i + 1 \notin S
      BY <2>2
    <3> QED BY <2>2, <3>1
  <2> QED BY <2>1, <2>2
<1>2. IsFiniteSet(below)
  <2>1. PICK n \in S : TRUE
    OBVIOUS
  <2>2. n \in Nat /\ below \in SUBSET Nat /\ \A i \in below : i <= n
    BY <2>1
  <2> QED BY <2>2, FS_BoundedSetOfNaturals
<1>3. /\ IsFiniteSet(below \ {0}) /\ Cardinality(below) \in Nat
      /\ Cardinality(below \ {0}) = Cardinality(below) - 1
  BY <1>1, <1>2, FS_RemoveElement, FS_CardinalityType
<1>4. f \in [below -> below \ {0}] /\ \A x, y \in below : f[x] = f[y] => x = y
  BY <1>1
<1> HIDE DEF below, f
<1>5. \E x, y \in below : x # y /\ f[x] = f[y]
  BY <1>2, <1>3, <1>4, FS_PigeonHole
<1> QED BY <1>4, <1>5

\* Induction on the members of a set up to n.
LEMMA BoundedInduction ==
  ASSUME NEW n \in Nat, NEW S, 0 \in S, \A i \in 0..n - 1 : i \in S => i + 1 \in S
  PROVE  \A i \in 0..n : i \in S
<1> SUFFICES ASSUME NEW m \in 0..n, m \notin S PROVE FALSE
  OBVIOUS
<1> DEFINE bad == {i \in 0..n : i \notin S}
<1>1. PICK i \in bad : \A j \in bad : i <= j
  <2>1. bad \subseteq Nat /\ bad # {}
    OBVIOUS
  <2> QED BY <2>1, Least
<1>2. i - 1 \in 0..n - 1 /\ i - 1 \notin bad
  BY <1>1
<1> QED BY <1>1, <1>2

\* f goes from base to f[n] in n steps.
Follows(f, n, base, step) == f[0] = base /\ \A i \in 1..n : f[i] = step[i][f[i - 1]]

\* A function defined by recursion up to n has its values in V.
LEMMA BoundedRecursion ==
  ASSUME NEW n \in Nat, NEW V, NEW base \in V, NEW step \in [1..n -> [V -> V]]
  PROVE  \E f \in [0..n -> V] : Follows(f, n, base, step)
<1> DEFINE good == {m \in 0..n : \E f \in [0..m -> V] :
                        /\ f[0] = base
                        /\ \A i \in 1..m : f[i] = step[i][f[i - 1]]}
<1>1. 0 \in good
  <2> DEFINE f == [i \in 0..0 |-> base]
  <2>1. f \in [0..0 -> V] /\ f[0] = base /\ \A i \in 1..0 : f[i] = step[i][f[i - 1]]
    OBVIOUS
  <2> HIDE DEF f
  <2> QED BY <2>1
<1>2. ASSUME NEW m \in 0..n - 1, m \in good PROVE m + 1 \in good
  <2>1. PICK f \in [0..m -> V] : f[0] = base /\ \A i \in 1..m : f[i] = step[i][f[i - 1]]
    BY <1>2
  <2> DEFINE g == [i \in 0..m + 1 |-> IF i = m + 1 THEN step[m + 1][f[m]] ELSE f[i]]
  <2>2. step[m + 1] \in [V -> V] /\ f[m] \in V
    BY <2>1
  <2>3. g \in [0..m + 1 -> V]
    BY <2>1, <2>2
  <2>4. g[0] = base /\ \A i \in 1..m + 1 : g[i] = step[i][g[i - 1]]
    BY <2>1
  <2> HIDE DEF g
  <2> QED BY SMTT(40), <2>3, <2>4
<1> HIDE DEF good
<1>3. n \in good
  <2>1. \A i \in 0..n : i \in good
    BY <1>1, <1>2, BoundedInduction
  <2> QED BY <2>1
<1> QED BY <1>3 DEF good, Follows

-----------------------------------------------------------------------------
(* Sequences of tasks.                                                      *)

\* No task is twice in s.
Distinct(s) == \A i, j \in DOMAIN s : s[i] = s[j] => i = j

\* Length, domain and elements of a list of tasks.
LEMMA SeqFacts ==
  ASSUME NEW s \in Seq(Task)
  PROVE  /\ Len(s) \in Nat /\ DOMAIN s = 1..Len(s) /\ ToSet(s) \subseteq Task
         /\ s = <<>> <=> Len(s) = 0
         /\ s = <<>> <=> ToSet(s) = {}
         /\ \A t : t \in ToSet(s) <=> \E i \in 1..Len(s) : s[i] = t
<1>1. Len(s) \in Nat /\ DOMAIN s = 1..Len(s) /\ s \in [1..Len(s) -> Task]
  BY LenProperties
<1>2. s = <<>> <=> Len(s) = 0
  BY EmptySeq
<1>3. \A t : t \in ToSet(s) <=> \E i \in 1..Len(s) : s[i] = t
  BY <1>1 DEF ToSet
<1>4. ToSet(s) \subseteq Task
  BY <1>1, <1>3
<1>5. s = <<>> <=> ToSet(s) = {}
  <2>1. CASE Len(s) = 0
    BY <1>2, <1>3, <2>1
  <2>2. CASE Len(s) # 0
    <3>1. 1 \in 1..Len(s)
      BY <1>1, <2>2
    <3> QED BY <1>2, <1>3, <2>2, <3>1
  <2> QED BY <2>1, <2>2
<1> QED BY <1>1, <1>2, <1>3, <1>4, <1>5

\* uxListRemove, of the head.
LEMMA TailSet ==
  ASSUME NEW s \in Seq(Task), s # <<>>
  PROVE  /\ Tail(s) \in Seq(Task) /\ Head(s) \in ToSet(s) /\ Head(s) \in Task /\ Head(s) = s[1]
         /\ Len(s) >= 1 /\ Len(Tail(s)) = Len(s) - 1
         /\ \A i \in 1..Len(s) - 1 : Tail(s)[i] = s[i + 1]
         /\ ToSet(Tail(s)) \subseteq ToSet(s)
         /\ Distinct(s) => Distinct(Tail(s)) /\ ToSet(Tail(s)) = ToSet(s) \ {Head(s)}
<1>1. /\ Head(s) \in Task /\ Tail(s) \in Seq(Task) /\ Len(Tail(s)) = Len(s) - 1
      /\ \A i \in 1..Len(Tail(s)) : Tail(s)[i] = s[i + 1]
  BY HeadTailProperties
<1>2. Head(s) = s[1]
  OBVIOUS
<1>3. Len(s) \in Nat /\ Len(s) >= 1 /\ DOMAIN s = 1..Len(s) /\ DOMAIN Tail(s) = 1..Len(s) - 1
  BY <1>1, SeqFacts
<1>4. \A t : t \in ToSet(Tail(s)) <=> \E i \in 2..Len(s) : s[i] = t
  <2> SUFFICES ASSUME NEW t PROVE t \in ToSet(Tail(s)) <=> \E i \in 2..Len(s) : s[i] = t
    OBVIOUS
  <2>1. t \in ToSet(Tail(s)) <=> \E i \in 1..Len(s) - 1 : s[i + 1] = t
    <3>1. t \in ToSet(Tail(s)) <=> \E i \in 1..Len(Tail(s)) : Tail(s)[i] = t
      BY <1>1, SeqFacts
    <3> QED BY <1>1, <3>1
  <2>2. ASSUME NEW i \in 2..Len(s), s[i] = t PROVE \E j \in 1..Len(s) - 1 : s[j + 1] = t
    <3>1. i - 1 \in 1..Len(s) - 1 /\ i - 1 + 1 = i
      BY <1>3
    <3> QED BY <2>2, <3>1
  <2>3. ASSUME NEW i \in 1..Len(s) - 1, s[i + 1] = t PROVE \E j \in 2..Len(s) : s[j] = t
    <3>1. i + 1 \in 2..Len(s)
      BY <1>3
    <3> QED BY <2>3, <3>1
  <2> QED BY <2>1, <2>2, <2>3
<1>5. \A t : t \in ToSet(s) <=> \E i \in 1..Len(s) : s[i] = t
  BY SeqFacts
<1>6. Head(s) \in ToSet(s) /\ ToSet(Tail(s)) \subseteq ToSet(s)
  BY <1>2, <1>3, <1>4, <1>5
<1>7. ASSUME Distinct(s) PROVE Distinct(Tail(s)) /\ ToSet(Tail(s)) = ToSet(s) \ {Head(s)}
  <2>1. \A i, j \in 1..Len(s) : s[i] = s[j] => i = j
    BY <1>3, <1>7 DEF Distinct
  <2>2. Distinct(Tail(s))
    BY <1>1, <1>3, <2>1 DEF Distinct
  <2>3. ToSet(Tail(s)) = ToSet(s) \ {Head(s)}
    BY <1>2, <1>3, <1>4, <1>5, <2>1
  <2> QED BY <2>2, <2>3
<1> QED BY <1>1, <1>2, <1>3, <1>6, <1>7

\* vListInsertEnd.
LEMMA AppendSet ==
  ASSUME NEW s \in Seq(Task), NEW t \in Task
  PROVE  /\ Append(s, t) \in Seq(Task) /\ ToSet(Append(s, t)) = ToSet(s) \cup {t}
         /\ Distinct(s) /\ t \notin ToSet(s) => Distinct(Append(s, t))
<1>1. /\ Append(s, t) \in Seq(Task) /\ Len(Append(s, t)) = Len(s) + 1
      /\ \A i \in 1..Len(s) : Append(s, t)[i] = s[i]
      /\ Append(s, t)[Len(s) + 1] = t
  BY AppendProperties
<1>2. Len(s) \in Nat /\ DOMAIN s = 1..Len(s) /\ DOMAIN Append(s, t) = 1..Len(s) + 1
  BY <1>1, SeqFacts
<1>3. \A u : u \in ToSet(s) <=> \E i \in 1..Len(s) : s[i] = u
  BY SeqFacts
<1>4. \A u : u \in ToSet(Append(s, t)) <=> \E i \in 1..Len(s) + 1 : Append(s, t)[i] = u
  BY <1>1, SeqFacts
<1>5. ToSet(Append(s, t)) = ToSet(s) \cup {t}
  BY <1>1, <1>2, <1>3, <1>4
<1>6. ASSUME Distinct(s), t \notin ToSet(s) PROVE Distinct(Append(s, t))
  BY <1>1, <1>2, <1>3, <1>6 DEF Distinct
<1> QED BY <1>1, <1>5, <1>6

\* vListInsert, in front of the item at p.
LEMMA InsertSet ==
  ASSUME NEW s \in Seq(Task), NEW p \in 1..Len(s) + 1, NEW t \in Task
  PROVE  /\ InsertAt(s, p, t) \in Seq(Task) /\ Len(InsertAt(s, p, t)) = Len(s) + 1
         /\ \A i \in 1..Len(s) + 1 :
              InsertAt(s, p, t)[i] = IF i < p THEN s[i] ELSE IF i = p THEN t ELSE s[i - 1]
         /\ ToSet(InsertAt(s, p, t)) = ToSet(s) \cup {t}
         /\ Distinct(s) /\ t \notin ToSet(s) => Distinct(InsertAt(s, p, t))
<1> DEFINE before == SubSeq(s, 1, p - 1)
           after == SubSeq(s, p, Len(s))
           new == InsertAt(s, p, t)
<1>1. Len(s) \in Nat /\ DOMAIN s = 1..Len(s) /\ \A i \in 1..Len(s) : s[i] \in Task
  BY SeqFacts, ElementOfSeq
<1>2. /\ before \in Seq(Task) /\ Len(before) = p - 1
      /\ \A i \in 1..p - 1 : before[i] = s[i]
  <2>1. /\ before \in Seq(Task)
        /\ Len(before) = IF 1 <= p - 1 THEN p - 1 - 1 + 1 ELSE 0
        /\ \A i \in 1..(p - 1 - 1 + 1) : before[i] = s[1 + i - 1]
    BY <1>1, SubSeqProperties
  <2> QED BY <1>1, <2>1
<1>3. /\ after \in Seq(Task) /\ Len(after) = Len(s) - p + 1
      /\ \A i \in 1..(Len(s) - p + 1) : after[i] = s[p + i - 1]
  <2>1. /\ after \in Seq(Task)
        /\ Len(after) = IF p <= Len(s) THEN Len(s) - p + 1 ELSE 0
        /\ \A i \in 1..(Len(s) - p + 1) : after[i] = s[p + i - 1]
    BY <1>1, SubSeqProperties
  <2> QED BY <1>1, <2>1
<1>4. new = (before \o <<t>>) \o after
  BY DEF InsertAt
<1> HIDE DEF before, after, new
<1>5. <<t>> \in Seq(Task) /\ Len(<<t>>) = 1 /\ <<t>>[1] = t
  OBVIOUS
<1>6. PICK front \in Seq(Task) : /\ front = before \o <<t>> /\ Len(front) = p
                                 /\ \A i \in 1..p : front[i] = IF i < p THEN s[i] ELSE t
  <2>1. /\ before \o <<t>> \in Seq(Task) /\ Len(before \o <<t>>) = p - 1 + 1
        /\ \A i \in 1..(p - 1 + 1) :
             (before \o <<t>>)[i] = IF i <= p - 1 THEN before[i] ELSE <<t>>[i - (p - 1)]
    BY <1>2, <1>5, ConcatProperties
  <2>2. p - 1 + 1 = p
    OBVIOUS
  <2>3. \A i \in 1..p : (before \o <<t>>)[i] = IF i < p THEN s[i] ELSE t
    BY <1>2, <1>5, <2>1, <2>2
  <2> QED BY <2>1, <2>2, <2>3
<1>7. /\ new \in Seq(Task) /\ Len(new) = Len(s) + 1
      /\ \A i \in 1..Len(s) + 1 : new[i] = IF i <= p THEN front[i] ELSE after[i - p]
  <2>1. /\ front \o after \in Seq(Task) /\ Len(front \o after) = p + (Len(s) - p + 1)
        /\ \A i \in 1..(p + (Len(s) - p + 1)) :
             (front \o after)[i] = IF i <= p THEN front[i] ELSE after[i - p]
    BY <1>3, <1>6, ConcatProperties
  <2>2. p + (Len(s) - p + 1) = Len(s) + 1
    BY <1>1
  <2> QED BY <1>4, <1>6, <2>1, <2>2
<1>8. \A i \in 1..Len(s) + 1 : new[i] = IF i < p THEN s[i] ELSE IF i = p THEN t ELSE s[i - 1]
  <2> SUFFICES ASSUME NEW i \in 1..Len(s) + 1
               PROVE  new[i] = IF i < p THEN s[i] ELSE IF i = p THEN t ELSE s[i - 1]
    OBVIOUS
  <2>1. CASE i <= p
    <3>1. i \in 1..p
      BY <2>1
    <3>2. front[i] = IF i < p THEN s[i] ELSE t
      BY <1>6, <3>1
    <3>3. new[i] = front[i]
      BY <1>7, <2>1
    <3> QED BY <2>1, <3>2, <3>3
  <2>2. CASE i > p
    <3>1. i - p \in 1..(Len(s) - p + 1) /\ p + (i - p) - 1 = i - 1
      BY <1>1, <2>2
    <3>2. after[i - p] = s[p + (i - p) - 1]
      BY <1>3, <3>1
    <3>3. new[i] = after[i - p]
      BY SMTT(40), <1>7, <2>2
    <3> QED BY <2>2, <3>1, <3>2, <3>3
  <2> QED BY <1>1, <2>1, <2>2
<1>9. DOMAIN new = 1..Len(s) + 1 /\ \A u : u \in ToSet(new) <=> \E i \in 1..Len(s) + 1 : new[i] = u
  BY <1>7, SeqFacts
<1>10. \A u : u \in ToSet(s) <=> \E i \in 1..Len(s) : s[i] = u
  BY SeqFacts
<1>11. ToSet(new) = ToSet(s) \cup {t}
  <2>1. ASSUME NEW i \in 1..Len(s) + 1 PROVE new[i] \in ToSet(s) \cup {t}
    <3>1. CASE i < p
      BY <1>1, <1>8, <1>10, <3>1
    <3>2. CASE i = p
      BY <1>8, <3>2
    <3>3. CASE i > p
      <4>1. i - 1 \in 1..Len(s)
        BY <1>1, <3>3
      <4> QED BY <1>8, <1>10, <3>3, <4>1
    <3> QED BY <1>1, <3>1, <3>2, <3>3
  <2>2. ASSUME NEW i \in 1..Len(s) PROVE s[i] \in ToSet(new)
    <3>1. CASE i < p
      BY <1>1, <1>8, <1>9, <3>1
    <3>2. CASE i >= p
      <4>1. i + 1 \in 1..Len(s) + 1 /\ i + 1 - 1 = i /\ i + 1 > p
        BY <1>1, <3>2
      <4>2. new[i + 1] = s[i]
        BY <1>8, <4>1
      <4> QED BY <1>9, <4>1, <4>2
    <3> QED BY <1>1, <3>1, <3>2
  <2>3. t \in ToSet(new)
    <3>1. p \in 1..Len(s) + 1 /\ new[p] = t
      BY <1>8
    <3> QED BY <1>9, <3>1
  <2> QED BY <1>9, <1>10, <2>1, <2>2, <2>3
<1>12. ASSUME Distinct(s), t \notin ToSet(s) PROVE Distinct(new)
  <2>1. \A i, j \in 1..Len(s) : s[i] = s[j] => i = j
    BY <1>1, <1>12 DEF Distinct
  <2>2. \A i \in 1..Len(s) : s[i] # t
    BY <1>10, <1>12
  <2>3. \A i \in 1..Len(s) + 1 : \/ i < p /\ i \in 1..Len(s) /\ new[i] = s[i]
                                 \/ i = p /\ new[i] = t
                                 \/ i > p /\ i - 1 \in 1..Len(s) /\ new[i] = s[i - 1]
    BY <1>1, <1>8
  <2> SUFFICES ASSUME NEW i \in 1..Len(s) + 1, NEW j \in 1..Len(s) + 1, new[i] = new[j], i < j
               PROVE  FALSE
    BY <1>1, <1>9 DEF Distinct
  <2>4. CASE i = p \/ j = p
    BY <2>2, <2>3, <2>4
  <2>5. CASE i < p /\ j < p
    BY <1>1, <2>1, <2>3, <2>5
  <2>6. CASE i < p /\ j > p
    <3>1. i \in 1..Len(s) /\ j - 1 \in 1..Len(s) /\ i # j - 1 /\ s[i] = s[j - 1]
      BY <1>1, <2>3, <2>6
    <3> QED BY <2>1, <3>1
  <2>7. CASE i > p /\ j > p
    <3>1. i - 1 \in 1..Len(s) /\ j - 1 \in 1..Len(s) /\ i - 1 # j - 1 /\ s[i - 1] = s[j - 1]
      BY <1>1, <2>3, <2>7
    <3> QED BY <2>1, <3>1
  <2> QED BY <1>1, <2>4, <2>5, <2>6, <2>7
<1> QED BY <1>7, <1>8, <1>11, <1>12 DEF new

\* A list cut in two.
LEMMA SplitSet ==
  ASSUME NEW s \in Seq(Task), NEW n \in 0..Len(s)
  PROVE  LET front == SubSeq(s, 1, n)
             back == SubSeq(s, n + 1, Len(s))
         IN /\ front \in Seq(Task) /\ back \in Seq(Task) /\ Len(front) = n
            /\ ToSet(s) = ToSet(front) \cup ToSet(back)
            /\ n = 0 => front = <<>> /\ back = s
            /\ Distinct(s) => /\ Distinct(front) /\ Distinct(back)
                              /\ ToSet(front) \cap ToSet(back) = {}
<1> DEFINE front == SubSeq(s, 1, n)
           back == SubSeq(s, n + 1, Len(s))
<1>1. Len(s) \in Nat /\ DOMAIN s = 1..Len(s) /\ \A i \in 1..Len(s) : s[i] \in Task
  BY SeqFacts, ElementOfSeq
<1>2. /\ front \in Seq(Task) /\ Len(front) = n
      /\ \A i \in 1..n : front[i] = s[i]
  <2>1. /\ front \in Seq(Task)
        /\ Len(front) = IF 1 <= n THEN n - 1 + 1 ELSE 0
        /\ \A i \in 1..(n - 1 + 1) : front[i] = s[1 + i - 1]
    BY <1>1, SubSeqProperties
  <2> QED BY <1>1, <2>1
<1>3. /\ back \in Seq(Task) /\ Len(back) = Len(s) - n
      /\ \A i \in 1..(Len(s) - n) : back[i] = s[n + i]
  <2>1. /\ back \in Seq(Task)
        /\ Len(back) = IF n + 1 <= Len(s) THEN Len(s) - (n + 1) + 1 ELSE 0
        /\ \A i \in 1..(Len(s) - (n + 1) + 1) : back[i] = s[n + 1 + i - 1]
    BY <1>1, SubSeqProperties
  <2>2. ASSUME NEW i \in 1..(Len(s) - n) PROVE back[i] = s[n + i]
    <3>1. i \in 1..(Len(s) - (n + 1) + 1) /\ n + 1 + i - 1 = n + i
      BY <1>1
    <3>2. back[i] = s[n + 1 + i - 1]
      BY <2>1, <3>1
    <3> QED BY <3>1, <3>2
  <2>3. Len(back) = Len(s) - n
    BY <1>1, <2>1
  <2> QED BY <2>1, <2>2, <2>3
<1>4. n = 0 => front = <<>> /\ back = s
  BY <1>1, <1>2, SubSeqFull, EmptySeq
<1> HIDE DEF front, back
<1>5. /\ DOMAIN front = 1..n /\ \A u : u \in ToSet(front) <=> \E i \in 1..n : front[i] = u
      /\ DOMAIN back = 1..(Len(s) - n)
      /\ \A u : u \in ToSet(back) <=> \E i \in 1..(Len(s) - n) : back[i] = u
  <2>1. /\ DOMAIN front = 1..Len(front)
        /\ \A u : u \in ToSet(front) <=> \E i \in 1..Len(front) : front[i] = u
    BY <1>2, SeqFacts
  <2>2. /\ DOMAIN back = 1..Len(back)
        /\ \A u : u \in ToSet(back) <=> \E i \in 1..Len(back) : back[i] = u
    BY <1>3, SeqFacts
  <2> QED BY <1>2, <1>3, <2>1, <2>2
<1>6. \A u : u \in ToSet(back) <=> \E i \in n + 1..Len(s) : s[i] = u
  <2>1. ASSUME NEW i \in n + 1..Len(s) PROVE s[i] \in ToSet(back)
    <3>1. i - n \in 1..(Len(s) - n) /\ n + (i - n) = i
      BY <1>1
    <3>2. back[i - n] = s[i]
      BY <1>3, <3>1
    <3> QED BY <1>5, <3>1, <3>2
  <2>2. ASSUME NEW i \in 1..(Len(s) - n) PROVE \E j \in n + 1..Len(s) : s[j] = back[i]
    <3>1. n + i \in n + 1..Len(s)
      BY <1>1
    <3> QED BY <1>3, <3>1
  <2> QED BY <1>5, <2>1, <2>2
<1>7. \A u : u \in ToSet(front) <=> \E i \in 1..n : s[i] = u
  BY <1>2, <1>5
<1>8. \A u : u \in ToSet(s) <=> \E i \in 1..Len(s) : s[i] = u
  BY SeqFacts
<1>9. ToSet(s) = ToSet(front) \cup ToSet(back)
  BY <1>1, <1>6, <1>7, <1>8
<1>10. ASSUME Distinct(s)
       PROVE  Distinct(front) /\ Distinct(back) /\ ToSet(front) \cap ToSet(back) = {}
  <2>1. \A i, j \in 1..Len(s) : s[i] = s[j] => i = j
    BY <1>1, <1>10 DEF Distinct
  <2>2. Distinct(front)
    BY <1>1, <1>2, <1>5, <2>1 DEF Distinct
  <2>3. Distinct(back)
    <3> SUFFICES ASSUME NEW i \in 1..(Len(s) - n), NEW j \in 1..(Len(s) - n), back[i] = back[j]
                 PROVE  i = j
      BY <1>5 DEF Distinct
    <3>1. n + i \in 1..Len(s) /\ n + j \in 1..Len(s) /\ s[n + i] = s[n + j]
      BY <1>1, <1>3
    <3> QED BY <1>1, <2>1, <3>1
  <2>4. ToSet(front) \cap ToSet(back) = {}
    BY <1>1, <1>6, <1>7, <2>1
  <2> QED BY <2>2, <2>3, <2>4
<1> QED BY <1>2, <1>3, <1>4, <1>9, <1>10 DEF front, back

\* A list behind another one.
LEMMA ConcatSet ==
  ASSUME NEW s \in Seq(Task), NEW r \in Seq(Task)
  PROVE  /\ s \o r \in Seq(Task) /\ ToSet(s \o r) = ToSet(s) \cup ToSet(r)
         /\ Distinct(s) /\ Distinct(r) /\ ToSet(s) \cap ToSet(r) = {} => Distinct(s \o r)
<1> DEFINE both == s \o r
<1>1. /\ Len(s) \in Nat /\ DOMAIN s = 1..Len(s) /\ Len(r) \in Nat /\ DOMAIN r = 1..Len(r)
  BY SeqFacts
<1>2. /\ both \in Seq(Task) /\ Len(both) = Len(s) + Len(r)
      /\ \A i \in 1..(Len(s) + Len(r)) : both[i] = IF i <= Len(s) THEN s[i] ELSE r[i - Len(s)]
  BY ConcatProperties
<1> HIDE DEF both
<1>3. /\ \A u : u \in ToSet(s) <=> \E i \in 1..Len(s) : s[i] = u
      /\ \A u : u \in ToSet(r) <=> \E i \in 1..Len(r) : r[i] = u
      /\ DOMAIN both = 1..(Len(s) + Len(r))
      /\ \A u : u \in ToSet(both) <=> \E i \in 1..(Len(s) + Len(r)) : both[i] = u
  BY <1>2, SeqFacts
<1>4. \A i \in 1..(Len(s) + Len(r)) :
        \/ i \in 1..Len(s) /\ both[i] = s[i]
        \/ i > Len(s) /\ i - Len(s) \in 1..Len(r) /\ both[i] = r[i - Len(s)]
  BY <1>1, <1>2
<1>5. \A i \in 1..Len(s) : i \in 1..(Len(s) + Len(r)) /\ both[i] = s[i]
  BY <1>1, <1>2
<1>6. ASSUME NEW i \in 1..Len(r)
      PROVE  Len(s) + i \in 1..(Len(s) + Len(r)) /\ both[Len(s) + i] = r[i]
  <2>1. Len(s) + i \in 1..(Len(s) + Len(r)) /\ ~(Len(s) + i <= Len(s)) /\ Len(s) + i - Len(s) = i
    BY <1>1
  <2> QED BY <1>2, <2>1
<1>7. ToSet(both) = ToSet(s) \cup ToSet(r)
  <2>1. ToSet(both) \subseteq ToSet(s) \cup ToSet(r)
    BY <1>3, <1>4
  <2>2. ToSet(s) \subseteq ToSet(both)
    BY <1>3, <1>5
  <2>3. ToSet(r) \subseteq ToSet(both)
    BY <1>3, <1>6
  <2> QED BY <2>1, <2>2, <2>3
<1>8. ASSUME Distinct(s), Distinct(r), ToSet(s) \cap ToSet(r) = {} PROVE Distinct(both)
  <2>1. /\ \A i, j \in 1..Len(s) : s[i] = s[j] => i = j
        /\ \A i, j \in 1..Len(r) : r[i] = r[j] => i = j
        /\ \A i \in 1..Len(s), j \in 1..Len(r) : s[i] # r[j]
    BY <1>1, <1>3, <1>8 DEF Distinct
  <2> SUFFICES ASSUME NEW i \in 1..(Len(s) + Len(r)), NEW j \in 1..(Len(s) + Len(r)),
                      both[i] = both[j]
               PROVE  i = j
    BY <1>3 DEF Distinct
  <2>2. CASE i > Len(s) /\ j > Len(s)
    <3>1. i - Len(s) \in 1..Len(r) /\ j - Len(s) \in 1..Len(r) /\ r[i - Len(s)] = r[j - Len(s)]
      BY <1>1, <1>4, <2>2
    <3>2. i - Len(s) = j - Len(s)
      BY <2>1, <3>1
    <3> QED BY <1>1, <3>2
  <2>3. CASE i \in 1..Len(s) /\ j \in 1..Len(s)
    BY <1>5, <2>1, <2>3
  <2>4. CASE i \in 1..Len(s) /\ j > Len(s)
    BY <1>4, <1>5, <2>1, <2>4
  <2>5. CASE i > Len(s) /\ j \in 1..Len(s)
    BY <1>4, <1>5, <2>1, <2>5
  <2> QED BY <1>1, <2>2, <2>3, <2>4, <2>5
<1> QED BY <1>2, <1>7, <1>8 DEF both

\* Without takes out these tasks and leaves the others.
LEMMA WithoutSet ==
  ASSUME NEW s \in Seq(Task), NEW T
  PROVE  /\ Without(s, T) \in Seq(Task)
         /\ ToSet(Without(s, T)) = ToSet(s) \ T
         /\ Distinct(s) => Distinct(Without(s, T))
         /\ ToSet(s) \cap T = {} => Without(s, T) = s
<1> DEFINE left == CHOOSE f : f = [n \in 0..Len(s) |->
                     IF n = 0 THEN <<>> ELSE IF s[n] \in T THEN f[n - 1] ELSE Append(f[n - 1], s[n])]
           seen(n) == {s[i] : i \in 1..n}
<1>1. Without(s, T) = left[Len(s)]
  BY DEF Without
<1>2. Len(s) \in Nat /\ DOMAIN s = 1..Len(s) /\ \A i \in 1..Len(s) : s[i] \in Task
  BY SeqFacts, ElementOfSeq
<1>3. \E f : f = [n \in 0..Len(s) |->
                   IF n = 0 THEN <<>> ELSE IF s[n] \in T THEN f[n - 1] ELSE Append(f[n - 1], s[n])]
  <2> DEFINE step == [n \in 1..Len(s) |-> [v \in Seq(Task) |->
                        IF s[n] \in T THEN v ELSE Append(v, s[n])]]
  <2>1. step \in [1..Len(s) -> [Seq(Task) -> Seq(Task)]]
    BY <1>2, AppendProperties
  <2>2. <<>> \in Seq(Task)
    BY EmptySeq
  <2> HIDE DEF step
  <2>3. PICK f \in [0..Len(s) -> Seq(Task)] : Follows(f, Len(s), <<>>, step)
    BY <1>2, <2>1, <2>2, BoundedRecursion
  <2>4. ASSUME NEW n \in 0..Len(s)
        PROVE  f[n] = IF n = 0 THEN <<>> ELSE IF s[n] \in T THEN f[n - 1] ELSE Append(f[n - 1], s[n])
    <3>1. CASE n = 0
      BY <2>3, <3>1 DEF Follows
    <3>2. CASE n # 0
      <4>1. n \in 1..Len(s) /\ f[n - 1] \in Seq(Task) /\ f[n] = step[n][f[n - 1]]
        BY <1>2, <2>3, <3>2 DEF Follows
      <4> QED BY <3>2, <4>1 DEF step
    <3> QED BY <3>1, <3>2
  <2>5. f = [n \in 0..Len(s) |->
              IF n = 0 THEN <<>> ELSE IF s[n] \in T THEN f[n - 1] ELSE Append(f[n - 1], s[n])]
    BY <2>4
  <2> QED BY <2>5
<1>4. left = [n \in 0..Len(s) |->
         IF n = 0 THEN <<>> ELSE IF s[n] \in T THEN left[n - 1] ELSE Append(left[n - 1], s[n])]
  BY <1>3
<1> HIDE DEF left
<1>5. left[0] = <<>> /\ \A n \in 1..Len(s) :
         left[n] = IF s[n] \in T THEN left[n - 1] ELSE Append(left[n - 1], s[n])
  <2>1. \A n \in 0..Len(s) : left[n] =
         IF n = 0 THEN <<>> ELSE IF s[n] \in T THEN left[n - 1] ELSE Append(left[n - 1], s[n])
    BY <1>4, Zenon
  <2>2. 0 \in 0..Len(s) /\ \A n \in 1..Len(s) : n \in 0..Len(s) /\ n # 0
    BY <1>2
  <2> QED BY <2>1, <2>2
<1> DEFINE whole(n) == ToSet(s) \cap T = {} =>
                         Len(left[n]) = n /\ \A i \in 1..n : left[n][i] = s[i]
<1> DEFINE good == {n \in 0..Len(s) : /\ left[n] \in Seq(Task)
                                      /\ ToSet(left[n]) = seen(n) \ T
                                      /\ Distinct(s) => Distinct(left[n])
                                      /\ whole(n)}
<1>6. 0 \in good
  <2>1. left[0] \in Seq(Task) /\ ToSet(left[0]) = {} /\ Distinct(left[0])
       /\ Len(left[0]) = 0
    <3>1. <<>> \in Seq(Task) /\ DOMAIN <<>> = {}
      BY EmptySeq
    <3>2. ToSet(<<>>) = {} /\ Distinct(<<>>) /\ Len(<<>>) = 0
      BY <3>1, SeqFacts DEF Distinct
    <3> QED BY <1>5, <3>1, <3>2
  <2> QED BY <1>2, <2>1
<1>7. ASSUME NEW n \in 0..Len(s) - 1, n \in good PROVE n + 1 \in good
  <2>1. /\ n + 1 \in 1..Len(s) /\ n + 1 - 1 = n /\ s[n + 1] \in Task
        /\ left[n] \in Seq(Task) /\ ToSet(left[n]) = seen(n) \ T
        /\ Distinct(s) => Distinct(left[n])
        /\ whole(n)
    BY <1>2, <1>7
  <2>2. left[n + 1] = IF s[n + 1] \in T THEN left[n] ELSE Append(left[n], s[n + 1])
    BY <1>5, <2>1
  <2>3. seen(n + 1) = seen(n) \cup {s[n + 1]}
    <3>1. 1..n + 1 = 1..n \cup {n + 1}
      OBVIOUS
    <3> QED BY <3>1
  <2>4. Distinct(s) => s[n + 1] \notin seen(n)
    BY <1>2, <2>1 DEF Distinct
  <2> HIDE DEF seen
  <2>5. /\ left[n + 1] \in Seq(Task)
        /\ ToSet(left[n + 1]) = seen(n + 1) \ T
        /\ Distinct(s) => Distinct(left[n + 1])
    <3>1. CASE s[n + 1] \in T
      BY <2>1, <2>2, <2>3, <3>1
    <3>2. CASE s[n + 1] \notin T
      BY <2>1, <2>2, <2>3, <2>4, <3>2, AppendSet
    <3> QED BY <3>1, <3>2
  <2>6. whole(n + 1)
    <3> SUFFICES ASSUME ToSet(s) \cap T = {}
                 PROVE  Len(left[n + 1]) = n + 1 /\ \A i \in 1..n + 1 : left[n + 1][i] = s[i]
      OBVIOUS
    <3>1. s[n + 1] \notin T
      BY <1>2, <2>1, SeqFacts
    <3>2. left[n + 1] = Append(left[n], s[n + 1]) /\ Len(left[n]) = n
          /\ \A i \in 1..n : left[n][i] = s[i]
      BY <2>1, <2>2, <3>1
    <3>3. /\ Len(left[n + 1]) = n + 1 /\ left[n + 1][n + 1] = s[n + 1]
          /\ \A i \in 1..n : left[n + 1][i] = left[n][i]
      BY <2>1, <3>2, AppendProperties
    <3> QED BY <1>7, <3>2, <3>3
  <2> HIDE DEF whole
  <2> QED BY <1>2, <2>1, <2>5, <2>6 DEF seen
<1>8. Len(s) \in good
  <2> HIDE DEF good
  <2>1. \A n \in 0..Len(s) : n \in good
    BY <1>2, <1>6, <1>7, BoundedInduction
  <2> QED BY <1>2, <2>1
<1>9. seen(Len(s)) = ToSet(s)
  BY <1>2 DEF ToSet
<1>10. ASSUME ToSet(s) \cap T = {} PROVE left[Len(s)] = s
  <2>1. /\ left[Len(s)] \in Seq(Task) /\ Len(left[Len(s)]) = Len(s)
        /\ \A i \in 1..Len(s) : left[Len(s)][i] = s[i]
    BY <1>8, <1>10
  <2> QED BY <2>1, SeqEqual
<1> QED BY <1>1, <1>8, <1>9, <1>10

\* TickType_t.
Ticks == 0..TickMod - 1
States == {"ready", "delayed", "overflow", "suspended"}

\* The type of k.
Sched ==
  [tick : Ticks, unblock : 0..Forever, over : SUBSET Task, pended : 0..MaxPended,
   susp : BOOLEAN, yield : BOOLEAN, pend : Seq(Task), cur : Task,
   state : [Task -> States], wake : [Task -> Ticks],
   prio : [Task -> Nat], held : [Task -> Nat], event : [Event -> Seq(Task)]]

\* What r and s have in common: the time; the waiting tasks; the event lists; the
\* priorities; the running task.
SameTime(r, s) == r.tick = s.tick /\ r.over = s.over /\ r.pended = s.pended
SameWait(r, s) == r.state = s.state /\ r.wake = s.wake /\ r.unblock = s.unblock
SameLists(r, s) == r.event = s.event /\ r.pend = s.pend
SamePrio(r, s) == r.prio = s.prio /\ r.held = s.held
SameRun(r, s) == r.cur = s.cur /\ r.susp = s.susp

\* Sums of ticks, and portMAX_DELAY, are ticks.
LEMMA Tock ==
  /\ 0 \in Ticks /\ Forever \in Nat /\ Forever \in 0..Forever /\ Forever >= 1
  /\ \A t \in Ticks : t \in 0..Forever /\ (t + 1) % TickMod \in Ticks
  /\ \A t \in Ticks, n \in 0..Forever : (t + n) % TickMod \in Ticks
  BY TickAssumption DEF Ticks, Forever

\* A context switch changes the running task only: if it happens, to one of the highest priority.
LEMMA SwitchFacts ==
  ASSUME NEW s \in Sched, NEW b \in BOOLEAN, NEW r, r \in YieldIf(b, s)
  PROVE  /\ r \in Sched /\ SameTime(r, s) /\ SameWait(r, s) /\ SameLists(r, s) /\ SamePrio(r, s)
         /\ r.susp = s.susp
         /\ s.susp => r.cur = s.cur
         /\ r.cur = s.cur \/ (~s.susp /\ r.cur \in Highest(s))
         /\ b /\ ~s.susp => r.cur \in Highest(s)
         /\ ~b => r = s
<1> USE DEF SameTime, SameWait, SameLists, SamePrio
<1>1. CASE ~b
  BY <1>1 DEF YieldIf
<1>2. CASE b /\ s.susp
  <2>1. r = [s EXCEPT !.yield = TRUE]
    BY <1>2 DEF YieldIf, Switched
  <2> QED BY <1>2, <2>1 DEF Sched
<1>3. CASE b /\ ~s.susp
  <2>1. PICK t \in Highest(s) : r = [s EXCEPT !.cur = t, !.yield = FALSE]
    BY <1>3 DEF YieldIf, Switched
  <2>2. t \in Task
    BY DEF Highest, Ready
  <2> QED BY <1>3, <2>1, <2>2 DEF Sched
<1> QED BY <1>1, <1>2, <1>3

\* MakeReady changes the state of these tasks only.
LEMMA ReadyFacts ==
  ASSUME NEW s \in Sched, NEW T
  PROVE  LET r == MakeReady(s, T) IN
         /\ r \in Sched /\ SameTime(r, s) /\ SameLists(r, s) /\ SamePrio(r, s) /\ SameRun(r, s)
         /\ r.unblock = s.unblock /\ r.yield = s.yield
         /\ \A t \in Task : r.state[t] = IF t \in T THEN "ready" ELSE s.state[t]
         /\ \A t \in Task : r.wake[t] = IF t \in T THEN 0 ELSE s.wake[t]
<1> DEFINE state == [t \in Task |-> IF t \in T THEN "ready" ELSE s.state[t]]
           wake == [t \in Task |-> IF t \in T THEN 0 ELSE s.wake[t]]
           r == [s EXCEPT !.state = state, !.wake = wake]
<1>1. MakeReady(s, T) = r
  BY DEF MakeReady, Sched
<1>2. state \in [Task -> States]
  BY DEF Sched, States
<1>3. wake \in [Task -> Ticks]
  BY Tock DEF Sched
<1>4. \A t \in Task : state[t] = IF t \in T THEN "ready" ELSE s.state[t]
  OBVIOUS
<1>5. \A t \in Task : wake[t] = IF t \in T THEN 0 ELSE s.wake[t]
  OBVIOUS
<1> HIDE DEF state, wake
<1>6. r \in Sched /\ r.state = state /\ r.wake = wake
  BY <1>2, <1>3 DEF Sched
<1>7. /\ SameTime(r, s) /\ SameLists(r, s) /\ SamePrio(r, s) /\ SameRun(r, s)
      /\ r.unblock = s.unblock /\ r.yield = s.yield
  BY DEF Sched, SameTime, SameLists, SamePrio, SameRun
<1> HIDE DEF r
<1> QED BY <1>1, <1>4, <1>5, <1>6, <1>7

\* The event lists when the head of e has been served.
Served(event, e) == [event EXCEPT ![e] = Tail(@)]

\* Wake makes the head of e ready, or pending with the scheduler suspended.
LEMMA WakeFacts ==
  ASSUME NEW s \in Sched, NEW e \in Event
  PROVE  LET r == Wake(s, e)
             t == Head(s.event[e])
         IN /\ r \in Sched /\ SameTime(r, s) /\ SamePrio(r, s) /\ SameRun(r, s)
            /\ r.unblock = s.unblock
            /\ s.event[e] = <<>> => r = s
            /\ s.event[e] # <<>> =>
                 /\ t \in Task /\ r.event = Served(s.event, e)
                 /\ r.yield = (s.yield \/ s.prio[t] > s.prio[s.cur])
                 /\ s.susp => r.pend = Append(s.pend, t) /\ r.state = s.state /\ r.wake = s.wake
                 /\ ~s.susp => /\ r.pend = s.pend
                               /\ \A u \in Task : r.state[u] = IF u = t THEN "ready" ELSE s.state[u]
                               /\ \A u \in Task : r.wake[u] = IF u = t THEN 0 ELSE s.wake[u]
<1>1. CASE s.event[e] = <<>>
  BY <1>1 DEF Wake, SameTime, SamePrio, SameRun
<1>2. CASE s.event[e] # <<>>
  <2> DEFINE t == Head(s.event[e])
             yield == s.yield \/ s.prio[t] > s.prio[s.cur]
             event == Served(s.event, e)
             removed == [s EXCEPT !.event = event, !.yield = yield]
             r == Wake(s, e)
  <2>1. t \in Task /\ Tail(s.event[e]) \in Seq(Task)
    BY <1>2, HeadTailProperties DEF Sched
  <2>2. r = IF s.susp THEN [removed EXCEPT !.pend = Append(@, t)] ELSE MakeReady(removed, {t})
    BY <1>2 DEF Wake, Sched, Served
  <2>3. event \in [Event -> Seq(Task)] /\ yield \in BOOLEAN
    BY <2>1 DEF Sched, Served
  <2> HIDE DEF event, yield, t
  <2>4. /\ removed \in Sched /\ removed.event = event /\ removed.yield = yield
        /\ SameTime(removed, s) /\ SamePrio(removed, s) /\ SameRun(removed, s)
        /\ SameWait(removed, s) /\ removed.pend = s.pend
    BY <2>3 DEF Sched, SameTime, SamePrio, SameRun, SameWait
  <2> HIDE DEF removed, r
  <2>5. CASE s.susp
    <3>1. Append(s.pend, t) \in Seq(Task)
      BY <2>1, AppendProperties DEF Sched
    <3>2. r = [removed EXCEPT !.pend = Append(s.pend, t)]
      BY <2>2, <2>4, <2>5
    <3>3. /\ r \in Sched /\ SameTime(r, removed) /\ SamePrio(r, removed) /\ SameRun(r, removed)
          /\ SameWait(r, removed) /\ r.pend = Append(s.pend, t)
          /\ r.event = removed.event /\ r.yield = removed.yield
      BY <2>4, <3>1, <3>2 DEF Sched, SameTime, SamePrio, SameRun, SameWait
    <3> QED BY <1>2, <2>1, <2>4, <2>5, <3>3
            DEF SameTime, SamePrio, SameRun, SameWait, event, yield, t, r
  <2>6. CASE ~s.susp
    <3>1. r = MakeReady(removed, {t})
      BY <2>2, <2>6
    <3>2. /\ r \in Sched /\ SameTime(r, removed) /\ SamePrio(r, removed) /\ SameRun(r, removed)
          /\ SameLists(r, removed) /\ r.unblock = removed.unblock /\ r.yield = removed.yield
          /\ \A u \in Task : r.state[u] = IF u = t THEN "ready" ELSE removed.state[u]
          /\ \A u \in Task : r.wake[u] = IF u = t THEN 0 ELSE removed.wake[u]
      BY <2>4, <3>1, ReadyFacts
    <3> QED BY <1>2, <2>1, <2>4, <2>6, <3>2
            DEF SameTime, SamePrio, SameRun, SameWait, SameLists, event, yield, t, r
  <2> QED BY <2>5, <2>6
<1> QED BY <1>1, <1>2

\* Min of a set of naturals.
LEMMA MinFacts ==
  ASSUME NEW S, S \subseteq Nat, S # {}
  PROVE  Min(S) \in S /\ \A i \in S : Min(S) <= i
<1>1. \E i \in S : \A j \in S : i <= j
  BY Least
<1> QED BY <1>1 DEF Min

\* No task of the delayed list wakes before xNextTaskUnblockTime.
Unblocks(s) == \A t \in Task : s.state[t] = "delayed" => s.unblock <= s.wake[t]

\* NextUnblock is not later than any wake time in the delayed list.
LEMMA NextFacts ==
  ASSUME NEW s \in Sched
  PROVE  /\ NextUnblock(s) \in 0..Forever
         /\ \A t \in Task : s.state[t] = "delayed" => NextUnblock(s) <= s.wake[t]
<1> DEFINE times == {Forever} \cup {s.wake[t] : t \in {u \in Task : s.state[u] = "delayed"}}
<1>1. times \subseteq 0..Forever /\ times # {} /\ times \subseteq Nat
  <2>1. \A t \in Task : s.wake[t] \in Ticks
    BY DEF Sched
  <2>2. times \subseteq 0..Forever /\ times # {}
    BY Tock, <2>1
  <2> QED BY <2>2
<1>2. \A t \in Task : s.state[t] = "delayed" => s.wake[t] \in times
  OBVIOUS
<1>4. NextUnblock(s) = Min(times)
  BY DEF NextUnblock
<1> HIDE DEF times
<1>5. Min(times) \in times /\ \A i \in times : Min(times) <= i
  BY <1>1, MinFacts
<1> QED BY <1>1, <1>2, <1>4, <1>5

\* Block puts t in one of three lists and touches nothing of the others.
LEMMA BlockFacts ==
  ASSUME NEW s \in Sched, NEW t \in Task, NEW ticks \in 0..Forever, NEW forever \in BOOLEAN
  PROVE  LET r == Block(s, t, ticks, forever)
             at == (s.tick + ticks) % TickMod
         IN /\ r \in Sched /\ SameTime(r, s) /\ SameLists(r, s) /\ SamePrio(r, s) /\ SameRun(r, s)
            /\ r.yield = s.yield
            /\ \A u \in Task \ {t} : r.state[u] = s.state[u] /\ r.wake[u] = s.wake[u]
            /\ \/ /\ ticks = Forever /\ forever /\ r.state[t] = "suspended"
                  /\ r.unblock = s.unblock /\ r.wake = s.wake
               \/ /\ ~(ticks = Forever /\ forever) /\ at < s.tick /\ r.state[t] = "overflow"
                  /\ r.unblock = s.unblock /\ r.wake[t] = at
               \/ /\ ~(ticks = Forever /\ forever) /\ at >= s.tick /\ r.state[t] = "delayed"
                  /\ r.unblock <= s.unblock /\ r.unblock <= at /\ r.unblock \in {s.unblock, at}
                  /\ r.wake[t] = at
<1> DEFINE at == (s.tick + ticks) % TickMod
           r == Block(s, t, ticks, forever)
<1>1. at \in Ticks /\ at \in 0..Forever /\ at \in Int /\ s.tick \in Int /\ s.unblock \in 0..Forever
  <2>1. s.tick \in Ticks /\ s.unblock \in 0..Forever
    BY DEF Sched
  <2>2. at \in Ticks
    BY Tock, <2>1
  <2> QED BY Tock, <2>1, <2>2 DEF Ticks
<1>2. r = IF ticks = Forever /\ forever THEN [s EXCEPT !.state[t] = "suspended"]
          ELSE IF at < s.tick THEN [s EXCEPT !.state[t] = "overflow", !.wake[t] = at]
          ELSE [s EXCEPT !.state[t] = "delayed", !.wake[t] = at, !.unblock = Min({@, at})]
  BY DEF Block
<1> HIDE DEF at, r
<1>3. CASE ticks = Forever /\ forever
  <2>1. r = [s EXCEPT !.state[t] = "suspended"]
    BY <1>2, <1>3
  <2>2. r \in Sched /\ r.state = [s.state EXCEPT ![t] = "suspended"] /\ r.wake = s.wake
    BY <2>1 DEF Sched, States
  <2>3. /\ SameTime(r, s) /\ SameLists(r, s) /\ SamePrio(r, s) /\ SameRun(r, s)
        /\ r.yield = s.yield /\ r.unblock = s.unblock
    BY <2>1 DEF Sched, SameTime, SameLists, SamePrio, SameRun
  <2>4. \A u \in Task : r.state[u] = IF u = t THEN "suspended" ELSE s.state[u]
    BY <2>2 DEF Sched
  <2> QED BY <1>3, <2>2, <2>3, <2>4 DEF r, at
<1>4. CASE ~(ticks = Forever /\ forever) /\ at < s.tick
  <2>1. r = [s EXCEPT !.state[t] = "overflow", !.wake[t] = at]
    BY <1>2, <1>4
  <2>2. /\ r \in Sched /\ r.state = [s.state EXCEPT ![t] = "overflow"]
        /\ r.wake = [s.wake EXCEPT ![t] = at]
    BY <1>1, <2>1 DEF Sched, States
  <2>3. /\ SameTime(r, s) /\ SameLists(r, s) /\ SamePrio(r, s) /\ SameRun(r, s)
        /\ r.yield = s.yield /\ r.unblock = s.unblock
    BY <2>1 DEF Sched, SameTime, SameLists, SamePrio, SameRun
  <2>4. \A u \in Task : /\ r.state[u] = IF u = t THEN "overflow" ELSE s.state[u]
                        /\ r.wake[u] = IF u = t THEN at ELSE s.wake[u]
    BY <2>2 DEF Sched
  <2> QED BY <1>4, <2>2, <2>3, <2>4 DEF r, at
<1>5. CASE ~(ticks = Forever /\ forever) /\ ~(at < s.tick)
  <2> DEFINE first == Min({s.unblock, at})
  <2>1. r = [s EXCEPT !.state[t] = "delayed", !.wake[t] = at, !.unblock = first]
    BY <1>2, <1>5
  <2>2. first \in {s.unblock, at} /\ first <= s.unblock /\ first <= at
    <3>1. {s.unblock, at} \subseteq Nat /\ {s.unblock, at} # {}
      BY <1>1, Tock
    <3> QED BY <3>1, MinFacts
  <2>3. first \in 0..Forever
    BY <1>1, <2>2
  <2> HIDE DEF first
  <2>4. /\ r \in Sched /\ r.state = [s.state EXCEPT ![t] = "delayed"]
        /\ r.wake = [s.wake EXCEPT ![t] = at] /\ r.unblock = first
    BY <1>1, <2>1, <2>3 DEF Sched, States
  <2>5. /\ SameTime(r, s) /\ SameLists(r, s) /\ SamePrio(r, s) /\ SameRun(r, s)
        /\ r.yield = s.yield
    BY <2>1 DEF Sched, SameTime, SameLists, SamePrio, SameRun
  <2>6. \A u \in Task : /\ r.state[u] = IF u = t THEN "delayed" ELSE s.state[u]
                        /\ r.wake[u] = IF u = t THEN at ELSE s.wake[u]
    BY <2>4 DEF Sched
  <2> QED BY <1>1, <1>5, <2>2, <2>4, <2>5, <2>6 DEF r, at
<1> QED BY <1>3, <1>4, <1>5

\* The two delayed lists change places.
Other == [delayed |-> "overflow", overflow |-> "delayed", ready |-> "ready", suspended |-> "suspended"]

\* Switched delayed lists: xNextTaskUnblockTime is right for the new one.
LEMMA SwitchListsFacts ==
  ASSUME NEW s \in Sched
  PROVE  LET r == SwitchLists(s) IN
         /\ r \in Sched /\ SameLists(r, s) /\ SamePrio(r, s) /\ SameRun(r, s)
         /\ r.tick = s.tick /\ r.over = Task /\ r.pended = s.pended /\ r.yield = s.yield
         /\ r.wake = s.wake /\ Unblocks(r)
         /\ \A t \in Task : r.state[t] = Other[s.state[t]]
<1> DEFINE state == [t \in Task |-> Other[s.state[t]]]
           switched == [s EXCEPT !.state = state, !.over = Task]
           r == SwitchLists(s)
<1>1. state \in [Task -> States] /\ \A t \in Task : state[t] = Other[s.state[t]]
  BY DEF Sched, States, Other
<1>2. r = [switched EXCEPT !.unblock = NextUnblock(switched)]
  BY DEF SwitchLists, Other, Sched
<1> HIDE DEF state, r
<1>3. /\ switched \in Sched /\ switched.state = state /\ switched.over = Task
      /\ SameLists(switched, s) /\ SamePrio(switched, s) /\ SameRun(switched, s)
      /\ switched.tick = s.tick /\ switched.pended = s.pended /\ switched.yield = s.yield
      /\ switched.wake = s.wake
  BY <1>1 DEF Sched, SameLists, SamePrio, SameRun
<1> HIDE DEF switched
<1>4. NextUnblock(switched) \in 0..Forever
  BY <1>3, NextFacts
<1>5. /\ r \in Sched /\ r.state = switched.state /\ r.over = switched.over
      /\ SameLists(r, switched) /\ SamePrio(r, switched) /\ SameRun(r, switched)
      /\ r.tick = switched.tick /\ r.pended = switched.pended /\ r.yield = switched.yield
      /\ r.wake = switched.wake /\ r.unblock = NextUnblock(switched)
  BY <1>2, <1>3, <1>4 DEF Sched, SameLists, SamePrio, SameRun
<1>6. Unblocks(r)
  BY <1>3, <1>5, NextFacts DEF Unblocks
<1> QED BY <1>1, <1>3, <1>5, <1>6 DEF SameLists, SamePrio, SameRun, r

(* xTaskIncrementTick in steps: the tick, the turn of the lists, who is due. *)
Ticked(s) == [s EXCEPT !.tick = (@ + 1) % TickMod]
TickCounted(s) == IF Ticked(s).tick = 0 THEN SwitchLists(Ticked(s)) ELSE Ticked(s)
DueOf(s) ==
  IF s.tick < s.unblock THEN {}
                        ELSE {t \in Task : s.state[t] = "delayed" /\ s.wake[t] <= s.tick}
Dropped(s) == [s EXCEPT !.event = [e \in Event |-> Without(@[e], DueOf(s))]]

\* The tick counts on; when it wraps around the delayed lists are switched.
LEMMA TurnFacts ==
  ASSUME NEW s \in Sched
  PROVE  LET r == TickCounted(s) IN
         /\ r \in Sched /\ SameLists(r, s) /\ SamePrio(r, s) /\ SameRun(r, s)
         /\ r.tick = (s.tick + 1) % TickMod /\ r.pended = s.pended /\ r.yield = s.yield
         /\ r.wake = s.wake
         /\ r.tick = 0 => /\ r.over = Task /\ Unblocks(r)
                          /\ \A t \in Task : r.state[t] = Other[s.state[t]]
         /\ r.tick # 0 => r.over = s.over /\ SameWait(r, s)
<1> DEFINE n == Ticked(s)
           r == TickCounted(s)
<1>1. (s.tick + 1) % TickMod \in Ticks
  BY Tock DEF Sched
<1>2. /\ n \in Sched /\ SameLists(n, s) /\ SamePrio(n, s) /\ SameRun(n, s) /\ SameWait(n, s)
      /\ n.tick = (s.tick + 1) % TickMod /\ n.pended = s.pended /\ n.yield = s.yield
      /\ n.over = s.over
  BY <1>1 DEF Ticked, Sched, SameLists, SamePrio, SameRun, SameWait
<1>3. r = IF n.tick = 0 THEN SwitchLists(n) ELSE n
  BY DEF TickCounted
<1> HIDE DEF n, r
<1>4. CASE n.tick = 0
  BY <1>2, <1>3, <1>4, SwitchListsFacts DEF SameLists, SamePrio, SameRun, SameWait, r
<1>5. CASE n.tick # 0
  BY <1>2, <1>3, <1>5 DEF SameLists, SamePrio, SameRun, SameWait, r
<1> QED BY <1>4, <1>5

\* IncrementTick wakes those that are due, takes them out of the event lists, and asks for a
\* yield unless all of them have lower priorities than the running task.
LEMMA TickFacts ==
  ASSUME NEW s \in Sched
  PROVE  LET r == IncrementTick(s)
             n == TickCounted(s)
             due == DueOf(n)
         IN /\ r \in Sched /\ SamePrio(r, s) /\ SameRun(r, s)
            /\ r.tick = n.tick /\ r.over = n.over /\ r.pended = s.pended /\ r.pend = s.pend
            /\ due \subseteq Task
            /\ \A t \in Task : r.state[t] = IF t \in due THEN "ready" ELSE n.state[t]
            /\ \A t \in Task : r.wake[t] = IF t \in due THEN 0 ELSE n.wake[t]
            /\ \A e \in Event : r.event[e] = Without(s.event[e], due)
            /\ Unblocks(n) => Unblocks(r)
            /\ ~r.yield => ~s.yield /\ \A t \in due : s.prio[t] < s.prio[s.cur]
<1> DEFINE r == IncrementTick(s)
           n == TickCounted(s)
           due == DueOf(n)
           event == [e \in Event |-> Without(n.event[e], due)]
           dropped == [n EXCEPT !.event = event]
           woken == MakeReady(dropped, due)
           unblock == IF n.tick < woken.unblock THEN woken.unblock ELSE NextUnblock(woken)
           yield == woken.yield \/ Sliced(woken)
                      \/ \E t \in due : woken.prio[t] >= woken.prio[woken.cur]
<1>1. /\ n \in Sched /\ SameLists(n, s) /\ SamePrio(n, s) /\ SameRun(n, s)
      /\ n.tick = (s.tick + 1) % TickMod /\ n.pended = s.pended /\ n.yield = s.yield
  BY TurnFacts
<1>2. r = [woken EXCEPT !.unblock = unblock, !.yield = yield]
  <2> DEFINE now == IF Ticked(s).tick = 0 THEN SwitchLists(Ticked(s)) ELSE Ticked(s)
             gone == IF now.tick < now.unblock THEN {}
                     ELSE {t \in Task : now.state[t] = "delayed" /\ now.wake[t] <= now.tick}
  <2>1. now = n /\ gone = due
    BY DEF TickCounted, DueOf
  <2> DEFINE up == MakeReady([now EXCEPT !.event = [e \in Event |-> Without(@[e], gone)]], gone)
  <2>2. r = [up EXCEPT !.unblock = IF now.tick < @ THEN @ ELSE NextUnblock(up),
                       !.yield = @ \/ Sliced(up) \/ \E t \in gone : up.prio[t] >= up.prio[up.cur]]
    BY DEF IncrementTick, Ticked
  <2> HIDE DEF now, gone, n, due
  <2>3. up = woken
    BY <1>1, <2>1 DEF Sched
  <2> HIDE DEF up, woken
  <2>4. r = [woken EXCEPT !.unblock = IF n.tick < @ THEN @ ELSE NextUnblock(woken),
                    !.yield = @ \/ Sliced(woken) \/ \E t \in due : woken.prio[t] >= woken.prio[woken.cur]]
    BY <2>1, <2>2, <2>3
  <2> QED BY <2>4
<1>3. due \subseteq Task
  BY DEF DueOf
<1> HIDE DEF n, due, r
<1>4. event \in [Event -> Seq(Task)] /\ \A e \in Event : event[e] = Without(s.event[e], due)
  <2>1. \A e \in Event : n.event[e] \in Seq(Task) /\ n.event[e] = s.event[e]
    BY <1>1 DEF Sched, SameLists
  <2> QED BY <2>1, WithoutSet
<1> HIDE DEF event
<1>5. /\ dropped \in Sched /\ dropped.event = event /\ SameTime(dropped, n) /\ SameWait(dropped, n)
      /\ SamePrio(dropped, n) /\ SameRun(dropped, n) /\ dropped.pend = n.pend
      /\ dropped.yield = n.yield
  BY <1>1, <1>4 DEF Sched, SameTime, SameWait, SamePrio, SameRun
<1> HIDE DEF dropped
<1>6. /\ woken \in Sched /\ SameTime(woken, dropped) /\ SameLists(woken, dropped)
      /\ SamePrio(woken, dropped) /\ SameRun(woken, dropped)
      /\ woken.unblock = dropped.unblock /\ woken.yield = dropped.yield
      /\ \A t \in Task : woken.state[t] = IF t \in due THEN "ready" ELSE dropped.state[t]
      /\ \A t \in Task : woken.wake[t] = IF t \in due THEN 0 ELSE dropped.wake[t]
  BY <1>5, ReadyFacts
<1> HIDE DEF woken
<1>7. /\ unblock \in 0..Forever
      /\ Unblocks(n) => \A t \in Task : woken.state[t] = "delayed" => unblock <= woken.wake[t]
  <2>1. CASE n.tick < woken.unblock
    <3>1. unblock = n.unblock /\ n.unblock \in 0..Forever
      BY <1>1, <1>5, <1>6, <2>1 DEF Sched, SameWait
    <3>2. \A t \in Task : woken.state[t] = "delayed"
                            => n.state[t] = "delayed" /\ woken.wake[t] = n.wake[t]
      BY <1>5, <1>6 DEF SameWait
    <3> QED BY <3>1, <3>2 DEF Unblocks
  <2>2. CASE ~(n.tick < woken.unblock)
    BY <1>6, <2>2, NextFacts
  <2> QED BY <2>1, <2>2
<1>8. yield \in BOOLEAN /\ (~yield => ~s.yield /\ \A t \in due : ~(s.prio[t] >= s.prio[s.cur]))
  <2>1. /\ woken.yield = s.yield /\ woken.prio = s.prio /\ woken.cur = s.cur
        /\ s.yield \in BOOLEAN
    BY <1>1, <1>5, <1>6 DEF Sched, SamePrio, SameRun
  <2> QED BY <2>1
<1> HIDE DEF unblock, yield
<1>9. /\ r \in Sched /\ r.unblock = unblock /\ r.yield = yield /\ SameTime(r, woken)
      /\ SameLists(r, woken) /\ SamePrio(r, woken) /\ SameRun(r, woken)
      /\ r.state = woken.state /\ r.wake = woken.wake
  BY <1>2, <1>6, <1>7, <1>8 DEF Sched, SameTime, SameLists, SamePrio, SameRun
<1>10. Unblocks(n) => Unblocks(r)
  BY <1>7, <1>9 DEF Unblocks
<1>11. ~r.yield => ~s.yield /\ \A t \in due : s.prio[t] < s.prio[s.cur]
  <2>1. \A t \in Task : s.prio[t] \in Int
    BY DEF Sched
  <2>2. s.cur \in Task
    BY DEF Sched
  <2> QED BY <1>3, <1>8, <1>9, <2>1, <2>2
<1>12. /\ SamePrio(r, s) /\ SameRun(r, s)
       /\ r.tick = n.tick /\ r.over = n.over /\ r.pended = s.pended /\ r.pend = s.pend
  BY <1>1, <1>5, <1>6, <1>9 DEF SameTime, SameLists, SamePrio, SameRun
<1>13. /\ \A t \in Task : r.state[t] = IF t \in due THEN "ready" ELSE n.state[t]
       /\ \A t \in Task : r.wake[t] = IF t \in due THEN 0 ELSE n.wake[t]
       /\ \A e \in Event : r.event[e] = Without(s.event[e], due)
  BY <1>4, <1>5, <1>6, <1>9 DEF SameWait, SameLists
<1> QED BY <1>3, <1>9, <1>10, <1>11, <1>12, <1>13 DEF n, due, r

(* From s to r some tasks have timed out; nothing else has happened to the lists. *)
Passed(s, r, woken) ==
  /\ SamePrio(r, s) /\ SameRun(r, s) /\ r.pend = s.pend
  /\ woken \subseteq Task
  /\ \A t \in woken : s.state[t] \in {"delayed", "overflow"} /\ r.state[t] = "ready"
  /\ \A t \in Task \ woken : /\ r.state[t] = "ready" <=> s.state[t] = "ready"
                             /\ r.state[t] = "suspended" <=> s.state[t] = "suspended"
  /\ \A e \in Event :
       /\ ToSet(r.event[e]) = ToSet(s.event[e]) \ woken
       /\ Distinct(s.event[e]) => Distinct(r.event[e])
       /\ ToSet(s.event[e]) \cap woken = {} => r.event[e] = s.event[e]
  /\ ~r.yield => ~s.yield /\ \A t \in woken : s.prio[t] < s.prio[s.cur]

\* A tick is such a passage.
LEMMA PassedTick ==
  ASSUME NEW s \in Sched
  PROVE  \E woken : Passed(s, IncrementTick(s), woken)
<1> DEFINE n == TickCounted(s)
           r == IncrementTick(s)
           due == DueOf(n)
<1>1. /\ n \in Sched
      /\ n.tick = 0 => \A t \in Task : n.state[t] = Other[s.state[t]]
      /\ n.tick # 0 => n.state = s.state
  BY TurnFacts DEF SameWait
<1>2. /\ SamePrio(r, s) /\ SameRun(r, s) /\ r.pended = s.pended /\ r.pend = s.pend
      /\ due \subseteq Task
      /\ \A t \in Task : r.state[t] = IF t \in due THEN "ready" ELSE n.state[t]
      /\ \A e \in Event : r.event[e] = Without(s.event[e], due)
      /\ ~r.yield => ~s.yield /\ \A t \in due : s.prio[t] < s.prio[s.cur]
  BY TickFacts
<1>3. \A t \in due : n.state[t] = "delayed"
  BY DEF DueOf
<1> HIDE DEF n, r, due
<1>4. \A t \in Task : /\ n.state[t] = "ready" <=> s.state[t] = "ready"
                      /\ n.state[t] = "suspended" <=> s.state[t] = "suspended"
                      /\ n.state[t] = "delayed" => s.state[t] \in {"delayed", "overflow"}
  <2> SUFFICES ASSUME NEW t \in Task
               PROVE  /\ n.state[t] = "ready" <=> s.state[t] = "ready"
                      /\ n.state[t] = "suspended" <=> s.state[t] = "suspended"
                      /\ n.state[t] = "delayed" => s.state[t] \in {"delayed", "overflow"}
    OBVIOUS
  <2>1. s.state[t] \in States
    BY DEF Sched
  <2> QED BY <1>1, <2>1 DEF Other, States
<1>5. \A e \in Event : s.event[e] \in Seq(Task)
  BY DEF Sched
<1>6. \A e \in Event :
       /\ ToSet(r.event[e]) = ToSet(s.event[e]) \ due
       /\ Distinct(s.event[e]) => Distinct(r.event[e])
       /\ ToSet(s.event[e]) \cap due = {} => r.event[e] = s.event[e]
  BY <1>2, <1>5, WithoutSet
<1>7. Passed(s, r, due)
  BY <1>2, <1>3, <1>4, <1>6 DEF Passed
<1> QED BY <1>7 DEF r

\* Two passages make one.
LEMMA PassedTwice ==
  ASSUME NEW s \in Sched, NEW r \in Sched, NEW q \in Sched, NEW w, NEW x, Passed(s, r, w), Passed(r, q, x)
  PROVE  Passed(s, q, w \cup x)
<1>1. SamePrio(q, s) /\ SameRun(q, s) /\ q.pend = s.pend
  BY DEF Passed, SamePrio, SameRun
<1>2. /\ w \cup x \subseteq Task
      /\ \A t \in w \cup x : s.state[t] \in {"delayed", "overflow"} /\ q.state[t] = "ready"
      /\ \A t \in Task \ (w \cup x) : /\ q.state[t] = "ready" <=> s.state[t] = "ready"
                                      /\ q.state[t] = "suspended" <=> s.state[t] = "suspended"
  <2>1. w \subseteq Task /\ x \subseteq Task
    BY DEF Passed
  <2>2. \A t \in Task : s.state[t] \in States /\ r.state[t] \in States /\ q.state[t] \in States
    BY DEF Sched
  <2>3. ASSUME NEW t \in w PROVE s.state[t] \in {"delayed", "overflow"} /\ q.state[t] = "ready"
    BY <2>1 DEF Passed
  <2>4. ASSUME NEW t \in x PROVE s.state[t] \in {"delayed", "overflow"} /\ q.state[t] = "ready"
    BY <2>1, <2>2 DEF Passed, States
  <2>5. ASSUME NEW t \in Task \ (w \cup x)
        PROVE  /\ q.state[t] = "ready" <=> s.state[t] = "ready"
               /\ q.state[t] = "suspended" <=> s.state[t] = "suspended"
    BY DEF Passed
  <2> QED BY <2>1, <2>3, <2>4, <2>5
<1>3. \A e \in Event :
       /\ ToSet(q.event[e]) = ToSet(s.event[e]) \ (w \cup x)
       /\ Distinct(s.event[e]) => Distinct(q.event[e])
       /\ ToSet(s.event[e]) \cap (w \cup x) = {} => q.event[e] = s.event[e]
  <2> SUFFICES ASSUME NEW e \in Event
               PROVE  /\ ToSet(q.event[e]) = ToSet(s.event[e]) \ (w \cup x)
                      /\ Distinct(s.event[e]) => Distinct(q.event[e])
                      /\ ToSet(s.event[e]) \cap (w \cup x) = {} => q.event[e] = s.event[e]
    OBVIOUS
  <2>1. /\ ToSet(r.event[e]) = ToSet(s.event[e]) \ w
        /\ Distinct(s.event[e]) => Distinct(r.event[e])
        /\ ToSet(s.event[e]) \cap w = {} => r.event[e] = s.event[e]
        /\ ToSet(q.event[e]) = ToSet(r.event[e]) \ x
        /\ Distinct(r.event[e]) => Distinct(q.event[e])
        /\ ToSet(r.event[e]) \cap x = {} => q.event[e] = r.event[e]
    BY DEF Passed
  <2>2. ASSUME ToSet(s.event[e]) \cap (w \cup x) = {} PROVE q.event[e] = s.event[e]
    <3>1. ToSet(s.event[e]) \cap w = {} /\ ToSet(s.event[e]) \cap x = {}
      BY <2>2
    <3> QED BY <2>1, <3>1
  <2> QED BY <2>1, <2>2
<1>4. ~q.yield => ~s.yield /\ \A t \in w \cup x : s.prio[t] < s.prio[s.cur]
  BY DEF Passed, SamePrio, SameRun
<1> QED BY <1>1, <1>2, <1>3, <1>4 DEF Passed

\* xTaskResumeAll before it makes up for the pending ticks.
Back(s) ==
  LET awake == MakeReady(s, ToSet(s.pend)) IN
  [awake EXCEPT !.susp = FALSE, !.pend = <<>>,
                !.unblock = IF s.pend = <<>> THEN @ ELSE NextUnblock(awake),
                !.yield = @ \/ \E t \in ToSet(s.pend) : s.prio[t] >= s.prio[s.cur]]

\* The tasks that were pending are ready; a yield is asked for unless they have lower priorities.
LEMMA BackFacts ==
  ASSUME NEW s \in Sched
  PROVE  LET r == Back(s) IN
         /\ r \in Sched /\ SameTime(r, s) /\ SamePrio(r, s) /\ r.cur = s.cur
         /\ ~r.susp /\ r.pend = <<>> /\ r.event = s.event
         /\ \A t \in Task : r.state[t] = IF t \in ToSet(s.pend) THEN "ready" ELSE s.state[t]
         /\ \A t \in Task : r.wake[t] = IF t \in ToSet(s.pend) THEN 0 ELSE s.wake[t]
         /\ ~r.yield => ~s.yield /\ \A t \in ToSet(s.pend) : s.prio[t] < s.prio[s.cur]
         /\ Unblocks(s) => Unblocks(r)
<1> DEFINE set == ToSet(s.pend)
           awake == MakeReady(s, set)
           unblock == IF s.pend = <<>> THEN awake.unblock ELSE NextUnblock(awake)
           yield == awake.yield \/ \E t \in set : s.prio[t] >= s.prio[s.cur]
           r == Back(s)
<1>1. r = [awake EXCEPT !.susp = FALSE, !.pend = <<>>, !.unblock = unblock, !.yield = yield]
  BY DEF Back
<1>2. set \subseteq Task
  BY SeqFacts DEF Sched
<1> HIDE DEF set, r
<1>3. /\ awake \in Sched /\ SameTime(awake, s) /\ SameLists(awake, s) /\ SamePrio(awake, s)
      /\ SameRun(awake, s) /\ awake.unblock = s.unblock /\ awake.yield = s.yield
      /\ \A t \in Task : awake.state[t] = IF t \in set THEN "ready" ELSE s.state[t]
      /\ \A t \in Task : awake.wake[t] = IF t \in set THEN 0 ELSE s.wake[t]
  BY ReadyFacts
<1> HIDE DEF awake
<1>4. unblock \in 0..Forever
      /\ (Unblocks(s) => \A t \in Task : awake.state[t] = "delayed" => unblock <= awake.wake[t])
  <2>1. CASE s.pend = <<>>
    <3>1. unblock = s.unblock /\ s.unblock \in 0..Forever
      BY <1>3, <2>1 DEF Sched
    <3>2. \A t \in Task : awake.state[t] = "delayed"
                            => s.state[t] = "delayed" /\ awake.wake[t] = s.wake[t]
      BY <1>3
    <3> QED BY <3>1, <3>2 DEF Unblocks
  <2>2. CASE s.pend # <<>>
    BY <1>3, <2>2, NextFacts
  <2> QED BY <2>1, <2>2
<1>5. yield \in BOOLEAN /\ (~yield => ~s.yield /\ \A t \in set : s.prio[t] < s.prio[s.cur])
  <2>1. \A t \in Task : s.prio[t] \in Int
    BY DEF Sched
  <2>2. s.cur \in Task /\ s.yield \in BOOLEAN
    BY DEF Sched
  <2> QED BY <1>2, <1>3, <2>1, <2>2
<1> HIDE DEF unblock, yield
<1>6. /\ r \in Sched /\ SameTime(r, awake) /\ SamePrio(r, awake) /\ r.cur = awake.cur
      /\ ~r.susp /\ r.pend = <<>> /\ r.event = awake.event
      /\ r.state = awake.state /\ r.wake = awake.wake /\ r.yield = yield /\ r.unblock = unblock
  <2>1. <<>> \in Seq(Task)
    BY EmptySeq
  <2> QED BY <1>1, <1>3, <1>4, <1>5, <2>1 DEF Sched, SameTime, SamePrio
<1>7. Unblocks(s) => Unblocks(r)
  BY <1>4, <1>6 DEF Unblocks
<1>8. SameTime(r, s) /\ SamePrio(r, s) /\ r.cur = s.cur /\ r.event = s.event
  BY <1>3, <1>6 DEF SameTime, SamePrio, SameLists, SameRun
<1> QED BY <1>3, <1>5, <1>6, <1>7, <1>8 DEF set, r

\* The pending ticks are one xTaskIncrementTick after the other.
LEMMA ResumedChain ==
  ASSUME NEW s \in Sched
  PROVE  \E f \in [0..s.pended -> Sched] :
           /\ f[0] = Back(s) /\ \A n \in 1..s.pended : f[n] = IncrementTick(f[n - 1])
           /\ Resumed(s) = [f[s.pended] EXCEPT !.pended = 0]
<1> DEFINE ticked == CHOOSE f : f = [n \in 0..s.pended |->
                       IF n = 0 THEN Back(s) ELSE IncrementTick(f[n - 1])]
           step == [n \in 1..s.pended |-> [v \in Sched |-> IncrementTick(v)]]
<1>1. Resumed(s) = [ticked[s.pended] EXCEPT !.pended = 0]
  BY DEF Resumed, Back
<1>2. s.pended \in Nat /\ Back(s) \in Sched
  <2>1. s.pended \in 0..MaxPended
    BY DEF Sched
  <2>2. s.pended \in Nat
    BY <2>1, TickAssumption
  <2> QED BY <2>2, BackFacts
<1>3. \A v \in Sched : IncrementTick(v) \in Sched
  BY TickFacts
<1>4. step \in [1..s.pended -> [Sched -> Sched]]
  BY <1>3
<1> HIDE DEF step
<1>5. PICK f \in [0..s.pended -> Sched] : Follows(f, s.pended, Back(s), step)
  BY <1>2, <1>4, BoundedRecursion
<1>6. ASSUME NEW n \in 0..s.pended
      PROVE  f[n] = IF n = 0 THEN Back(s) ELSE IncrementTick(f[n - 1])
  <2>1. CASE n = 0
    BY <1>5, <2>1 DEF Follows
  <2>2. CASE n # 0
    <3>1. n \in 1..s.pended /\ f[n - 1] \in Sched /\ f[n] = step[n][f[n - 1]]
      BY <1>2, <1>5, <2>2 DEF Follows
    <3> QED BY <2>2, <3>1 DEF step
  <2> QED BY <2>1, <2>2
<1>7. f = [n \in 0..s.pended |-> IF n = 0 THEN Back(s) ELSE IncrementTick(f[n - 1])]
  BY <1>6
<1>8. ticked = [n \in 0..s.pended |-> IF n = 0 THEN Back(s) ELSE IncrementTick(ticked[n - 1])]
  BY <1>7
<1> HIDE DEF ticked
<1>12. \A n \in 0..s.pended : ticked[n] = IF n = 0 THEN Back(s) ELSE IncrementTick(ticked[n - 1])
  BY <1>8, Zenon
<1> DEFINE good == {n \in 0..s.pended : ticked[n] = f[n]}
<1>9. s.pended \in good
  <2>1. 0 \in good
    BY <1>2, <1>6, <1>8
  <2>2. ASSUME NEW n \in 0..s.pended - 1, n \in good PROVE n + 1 \in good
    <3>1. n + 1 \in 0..s.pended /\ n + 1 # 0 /\ n + 1 - 1 = n /\ ticked[n] = f[n]
      BY <1>2, <2>2
    <3>2. f[n + 1] = IncrementTick(f[n])
      BY <1>6, <3>1
    <3>3. ticked[n + 1] = IncrementTick(ticked[n])
      BY <1>12, <3>1
    <3> QED BY <3>1, <3>2, <3>3
  <2> HIDE DEF good
  <2>3. \A n \in 0..s.pended : n \in good
    BY <1>2, <2>1, <2>2, BoundedInduction
  <2> QED BY <1>2, <2>3
<1>10. \A n \in 1..s.pended : f[n] = IncrementTick(f[n - 1])
  BY <1>2, <1>6
<1>11. f[0] = Back(s)
  BY <1>2, <1>6
<1> QED BY <1>1, <1>9, <1>10, <1>11

\* Resumed is the end of the chain: a passage of time from Back.
LEMMA ResumedFacts ==
  ASSUME NEW s \in Sched
  PROVE  LET r == Resumed(s) IN
         /\ r \in Sched /\ r.pended = 0
         /\ \E q \in Sched : \E woken : /\ Passed(Back(s), q, woken)
                                        /\ r = [q EXCEPT !.pended = 0]
<1>1. PICK f \in [0..s.pended -> Sched] :
           /\ f[0] = Back(s) /\ \A n \in 1..s.pended : f[n] = IncrementTick(f[n - 1])
           /\ Resumed(s) = [f[s.pended] EXCEPT !.pended = 0]
  BY ResumedChain
<1>2. s.pended \in Nat
  <2>1. s.pended \in 0..MaxPended
    BY DEF Sched
  <2> QED BY <2>1, TickAssumption
<1> DEFINE good == {n \in 0..s.pended : \E woken : Passed(Back(s), f[n], woken)}
<1>3. s.pended \in good
  <2>1. 0 \in good
    <3>1. Passed(f[0], f[0], {})
      BY DEF Passed, SamePrio, SameRun
    <3> QED BY <1>1, <1>2, <3>1
  <2>2. ASSUME NEW n \in 0..s.pended - 1, n \in good PROVE n + 1 \in good
    <3>1. n + 1 \in 1..s.pended /\ n + 1 - 1 = n /\ n \in 0..s.pended /\ n + 1 \in 0..s.pended
      BY <1>2
    <3>2. f[n] \in Sched /\ f[n + 1] \in Sched /\ f[0] \in Sched /\ f[n + 1] = IncrementTick(f[n])
      BY <1>1, <1>2, <3>1
    <3>3. PICK w : Passed(f[0], f[n], w)
      BY <1>1, <2>2
    <3>4. PICK x : Passed(f[n], f[n + 1], x)
      BY <3>2, PassedTick
    <3>5. Passed(f[0], f[n + 1], w \cup x)
      BY <3>2, <3>3, <3>4, PassedTwice
    <3> QED BY <1>1, <3>1, <3>5
  <2> HIDE DEF good
  <2>3. \A n \in 0..s.pended : n \in good
    BY <1>2, <2>1, <2>2, BoundedInduction
  <2> QED BY <1>2, <2>3
<1>4. f[s.pended] \in Sched
  BY <1>1, <1>2
<1>5. [f[s.pended] EXCEPT !.pended = 0] \in Sched /\ [f[s.pended] EXCEPT !.pended = 0].pended = 0
  <2>1. 0 \in 0..MaxPended
    BY TickAssumption
  <2> QED BY <1>4, <2>1 DEF Sched
<1> QED BY <1>1, <1>3, <1>4, <1>5

\* A program begins with no mutex.
LEMMA HasFirst == \A p, m : ~Has(p, m, 1)
  BY DEF Has

\* What a program holds after its n-th call.
LEMMA HasNext ==
  ASSUME NEW p, NEW m, NEW n \in Nat \ {0}
  PROVE  Has(p, m, n + 1) <=> Takes(p[n], m) \/ (Has(p, m, n) /\ ~Gives(p[n], m))
<1>1. ASSUME Takes(p[n], m) PROVE Has(p, m, n + 1)
  <2>1. n \in 1..n + 1 - 1 /\ \A l \in n + 1..n + 1 - 1 : ~Gives(p[l], m)
    OBVIOUS
  <2> QED BY <1>1, <2>1 DEF Has
<1>2. ASSUME Has(p, m, n), ~Gives(p[n], m) PROVE Has(p, m, n + 1)
  <2>1. PICK j \in 1..n - 1 : Takes(p[j], m) /\ \A l \in j + 1..n - 1 : ~Gives(p[l], m)
    BY <1>2 DEF Has
  <2>2. j \in 1..n + 1 - 1 /\ \A l \in j + 1..n + 1 - 1 : l \in j + 1..n - 1 \/ l = n
    OBVIOUS
  <2> QED BY <1>2, <2>1, <2>2 DEF Has
<1>3. ASSUME Has(p, m, n + 1), ~Takes(p[n], m) PROVE Has(p, m, n) /\ ~Gives(p[n], m)
  <2>1. PICK j \in 1..n + 1 - 1 : Takes(p[j], m) /\ \A l \in j + 1..n + 1 - 1 : ~Gives(p[l], m)
    BY <1>3 DEF Has
  <2>2. j # n
    BY <1>3, <2>1
  <2>3. j \in 1..n - 1 /\ n \in j + 1..n + 1 - 1 /\ \A l \in j + 1..n - 1 : l \in j + 1..n + 1 - 1
    BY <2>2
  <2> QED BY <2>1, <2>3 DEF Has
<1> QED BY <1>1, <1>2, <1>3

\* The calls of a program from the n-th on.
LEMMA FromFacts ==
  ASSUME NEW p \in Seq(Calls) \ {<<>>}, NEW n \in 1..Len(p), NEW todo, todo = SubSeq(p, n, Len(p))
  PROVE  /\ todo \in Seq(Calls) \ {<<>>} /\ Head(todo) = p[n] /\ p[n] \in Calls
         /\ Tail(todo) \in Seq(Calls)
         /\ Tail(todo) = SubSeq(p, n + 1, Len(p))
         /\ Tail(todo) # <<>> <=> n < Len(p)
<1>1. Len(p) \in Nat /\ n \in Nat /\ p[n] \in Calls
  BY LenProperties, ElementOfSeq
<1>2. /\ todo \in Seq(Calls) /\ Len(todo) = Len(p) - n + 1
      /\ \A i \in 1..Len(p) - n + 1 : todo[i] = p[n + i - 1]
  <2>1. \A i \in n..Len(p) : p[i] \in Calls
    BY <1>1, ElementOfSeq
  <2>2. n \in Int /\ Len(p) \in Int /\ n <= Len(p)
    BY <1>1
  <2>3. /\ todo \in Seq(Calls) /\ Len(todo) = IF n <= Len(p) THEN Len(p) - n + 1 ELSE 0
        /\ \A i \in 1..Len(p) - n + 1 : todo[i] = p[n + i - 1]
    BY <2>1, <2>2, SubSeqProperties
  <2> QED BY <2>2, <2>3
<1>3. todo # <<>> /\ 1 \in 1..Len(p) - n + 1
  <2>1. Len(todo) # 0 /\ 1 \in 1..Len(p) - n + 1
    BY <1>1, <1>2
  <2> QED BY <1>2, <2>1, EmptySeq
<1>4. Head(todo) = p[n]
  <2>1. Head(todo) = todo[1] /\ n + 1 - 1 = n
    BY <1>1, <1>2, <1>3, HeadTailProperties
  <2> QED BY <1>2, <1>3, <2>1
<1>5. /\ Tail(todo) \in Seq(Calls) /\ Len(Tail(todo)) = Len(p) - n
      /\ \A i \in 1..Len(p) - n : Tail(todo)[i] = todo[i + 1]
  <2>1. /\ Tail(todo) \in Seq(Calls) /\ Len(Tail(todo)) = Len(todo) - 1
        /\ \A i \in 1..Len(Tail(todo)) : Tail(todo)[i] = todo[i + 1]
    BY <1>2, <1>3, HeadTailProperties
  <2> QED BY <1>1, <1>2, <2>1
<1>6. Tail(todo) # <<>> <=> n < Len(p)
  <2>1. Tail(todo) = <<>> <=> Len(Tail(todo)) = 0
    BY <1>5, EmptySeq
  <2> QED BY SMTT(40), <1>1, <1>5, <2>1
<1>7. Tail(todo) = SubSeq(p, n + 1, Len(p))
  <2> DEFINE rest == SubSeq(p, n + 1, Len(p))
  <2>1. CASE n < Len(p)
    <3>1. /\ rest \in Seq(Calls) /\ Len(rest) = Len(p) - n
          /\ \A i \in 1..Len(p) - n : rest[i] = p[n + i]
      <4>1. n + 1 \in 1..Len(p) + 1 /\ Len(p) \in n + 1 - 1..Len(p)
        BY <1>1, <2>1
      <4> HIDE DEF rest
      <4>2. /\ rest \in Seq(Calls) /\ Len(rest) = Len(p) - (n + 1) + 1
            /\ \A i \in 1..Len(p) - (n + 1) + 1 : rest[i] = p[n + 1 + i - 1]
        BY <1>1, <4>1, SubSeqProperties DEF rest
      <4> QED BY <1>1, <4>2
    <3> HIDE DEF rest
    <3>2. \A i \in 1..Len(p) - n : todo[i + 1] = p[n + i]
      BY <1>1, <1>2
    <3>3. \A i \in 1..Len(Tail(todo)) : Tail(todo)[i] = rest[i]
      BY SMTT(40), <1>5, <3>1, <3>2
    <3>4. Tail(todo) = rest
      BY <1>5, <3>1, <3>3, SeqEqual
    <3> QED BY <3>4 DEF rest
  <2>2. CASE ~(n < Len(p))
    <3>1. Tail(todo) = <<>>
      BY <1>6, <2>2
    <3>2. rest = <<>>
      <4>1. n + 1 > Len(p)
        BY <1>1, <2>2
      <4> QED BY <1>1, <4>1, SubSeqEmpty
    <3> QED BY <3>1, <3>2
  <2> QED BY <2>1, <2>2
<1> QED BY <1>1, <1>2, <1>3, <1>4, <1>5, <1>6, <1>7

\* A program from its first call on.
LEMMA WholeProgram ==
  ASSUME NEW p \in Seq(Calls) \ {<<>>}
  PROVE  p = SubSeq(p, 1, Len(p)) /\ 1 \in 1..Len(p)
<1>1. Len(p) \in Nat /\ Len(p) # 0
  BY LenProperties, EmptySeq
<1> QED BY <1>1, SubSeqFull

\* The fields of a call.
LEMMA CallFacts ==
  ASSUME NEW c \in Calls
  PROVE  /\ c.do \in {"delay", "take", "give"}
         /\ c.do = "delay" => c.on = None /\ c.wait \in 1..TickMod - 2
         /\ c.do # "delay" => c.on \in Object
         /\ c.wait \in 0..Forever
<1>1. \A w \in 1..TickMod - 2 : w \in 0..Forever
  BY TickAssumption DEF Forever
<1> QED BY <1>1 DEF Calls

\* The type of a thread.
Rec ==
  [pc : Pcs, todo : Seq(Calls) \ {<<>>}, left : 0..Forever, entered : BOOLEAN, start : Ticks,
   inherited : BOOLEAN]

\* The type of an object.
Queue == [count : Nat, lock : Int, holder : Task \cup {None}]

(* Types, and the bounds of what an object holds.                          *)
Typed ==
  /\ k \in Sched /\ queue \in [Object -> Queue] /\ thread \in [Thread -> Rec]
  /\ path \in {None, "again", "blocked", "expired"} /\ waited \in [Thread -> 0..TickMod]
  /\ \A o \in Object : /\ queue[o].count <= Size[o]
                       /\ Unlocked <= queue[o].lock /\ queue[o].lock <= queue[o].count
                       /\ o \notin FromISR => queue[o].lock <= 0

\* A thread is here while it has suspended the scheduler.
Inside == {"lock", "test", "place", "unlock", "resume"}

\* prvLockQueue has locked o: the running thread is between Lock and Unlock.
Locking(o) ==
  k.susp /\ thread[k.cur].pc \in {"test", "place", "unlock"} /\ On(k.cur) = o /\ Op(k.cur).do # "delay"

(* Where a thread is says what the scheduler, its path and its queue look  *)
(* like.                                                                   *)
Sound(t) ==
  /\ thread[t].pc \in Inside <=> k.susp /\ t = k.cur
  /\ Op(t).do = "delay" => thread[t].pc \in {"suspend", "place", "resume", "try"}
  /\ thread[t].pc = "lock" => Op(t).do # "delay"
  /\ thread[t].left = Forever <=> Op(t).wait = Forever
  /\ thread[t].pc \in {"expired", "restore"} => Op(t).do = "take" /\ thread[t].left # Forever
  /\ thread[t].pc = "restore" => thread[t].inherited
  /\ thread[t].inherited => OnMutex(t)

\* Only the running thread may be between vTaskSuspendAll and xTaskResumeAll; path says where
\* it goes on; nothing is pending while the scheduler runs; only its queue is locked.
Control ==
  /\ k.susp => k.cur \in Thread
  /\ \A t \in Thread : Sound(t)
  /\ path # None <=> k.susp /\ thread[k.cur].pc \in {"unlock", "resume"}
  /\ path = "expired" => thread[k.cur].left # Forever
  /\ path = "blocked" => k.state[k.cur] # "ready"
  /\ path # "blocked" => k.state[k.cur] = "ready"
  /\ ~k.susp => k.pend = <<>> /\ k.pended = 0
  /\ \A o \in Object : queue[o].lock # Unlocked <=> Locking(o)

-----------------------------------------------------------------------------
\* The values of pc.
LEMMA Strings ==
  /\ "try" \in Pcs /\ "suspend" \in Pcs /\ "lock" \in Pcs /\ "test" \in Pcs /\ "place" \in Pcs
  /\ "unlock" \in Pcs /\ "resume" \in Pcs /\ "expired" \in Pcs /\ "restore" \in Pcs /\ "halted" \in Pcs
  BY DEF Pcs

\* The record of a thread that begins a program.
LEMMA CallingFacts ==
  ASSUME NEW p \in Seq(Calls) \ {<<>>}
  PROVE  /\ Calling(p) \in Rec /\ Head(p) \in Calls
         /\ Calling(p).todo = p /\ Calling(p).left = Head(p).wait /\ ~Calling(p).entered
         /\ ~Calling(p).inherited
         /\ Calling(p).pc = IF Head(p).do = "delay" THEN "suspend" ELSE "try"
<1>1. Head(p) \in Calls
  BY HeadTailProperties
<1>2. Head(p).wait \in 0..Forever /\ 0 \in Ticks
  BY <1>1, CallFacts, Tock
<1> QED BY <1>1, <1>2, Strings DEF Calling, Rec

\* The call of a thread is a call, on an object.
LEMMA ThreadFacts ==
  ASSUME Typed, NEW t \in Thread
  PROVE  /\ t \in Task /\ thread[t] \in Rec
         /\ Op(t) \in Calls /\ Op(t).do \in {"delay", "take", "give"} /\ Op(t).wait \in 0..Forever
         /\ Op(t).do # "delay" => /\ On(t) \in Object /\ queue[On(t)] \in Queue
                                  /\ Waits(t) \in Event /\ <<On(t), "receive">> \in Event
                                  /\ <<On(t), "send">> \in Event
<1>1. t \in Task /\ thread[t] \in Rec
  BY DEF Typed, Thread
<1>2. thread[t].todo \in Seq(Calls) \ {<<>>}
  BY <1>1 DEF Rec
<1>3. Op(t) \in Calls
  BY <1>2, HeadTailProperties DEF Op
<1>4. Op(t).do # "delay" => On(t) \in Object
  BY <1>3, CallFacts DEF On
<1>5. Op(t).do # "delay" => queue[On(t)] \in Queue
  BY <1>4 DEF Typed
<1> QED BY <1>1, <1>3, <1>4, <1>5, CallFacts DEF Waits, Event

\* t goes on with the record r.
Goes(t, r) == thread' = [thread EXCEPT ![t] = r]

\* Then the others stay where they are.
LEMMA GoesFacts ==
  ASSUME thread \in [Thread -> Rec], NEW t \in Thread, NEW r \in Rec, Goes(t, r)
  PROVE  /\ thread' \in [Thread -> Rec] /\ thread'[t] = r
         /\ \A u \in Thread \ {t} : thread'[u] = thread[u]
  BY DEF Goes

\* A call returns: to the next one or to the beginning of a program.
LEMMA ReturnFacts ==
  ASSUME Typed, NEW t \in Thread, NEW ok, Return(t, ok)
  PROVE  /\ waited' \in [Thread -> 0..TickMod]
         /\ \E p \in Seq(Calls) \ {<<>>} :
              /\ Goes(t, Calling(p))
              /\ \/ p = Tail(thread[t].todo) /\ (ok \/ ~OnMutex(t))
                 \/ p \in Programs[t] /\ (Tail(thread[t].todo) = <<>> \/ (~ok /\ OnMutex(t)))
<1>1. waited' \in [Thread -> 0..TickMod]
  <2>1. 0 \in 0..TickMod
    BY TickAssumption
  <2> QED BY <2>1 DEF Return, Typed
<1>2. thread[t].todo \in Seq(Calls) \ {<<>>}
  BY DEF Typed, Rec
<1>3. Tail(thread[t].todo) \in Seq(Calls)
  BY <1>2, HeadTailProperties
<1>4. Programs[t] \subseteq Seq(Calls) \ {<<>>}
  BY ProgramsAssumption DEF Thread
<1>5. PICK p \in IF Tail(thread[t].todo) # <<>> /\ (ok \/ ~OnMutex(t)) THEN {Tail(thread[t].todo)}
                 ELSE Programs[t] :
        thread' = [thread EXCEPT ![t] = Calling(p)]
  BY DEF Return
<1> QED BY <1>1, <1>3, <1>4, <1>5 DEF Goes

\* Wake and the switch it may lead to.
LEMMA WakeYield ==
  ASSUME NEW s \in Sched, NEW e \in Event, NEW b \in BOOLEAN, NEW r, r \in YieldIf(b, Wake(s, e))
  PROVE  LET h == Head(s.event[e]) IN
         /\ r \in Sched /\ SamePrio(r, s) /\ SameTime(r, s) /\ r.susp = s.susp
         /\ s.susp => r.cur = s.cur
         /\ ~s.susp => r.pend = s.pend
         /\ ~b => r.cur = s.cur
         /\ r.cur = s.cur \/ r.cur \in Highest(r)
         /\ b /\ ~s.susp => r.cur \in Highest(r)
         /\ s.event[e] = <<>> => r.event = s.event /\ r.pend = s.pend /\ r.state = s.state
         /\ s.event[e] # <<>> =>
              /\ h \in Task /\ r.event = Served(s.event, e)
              /\ s.susp => r.pend = Append(s.pend, h) /\ r.state = s.state
              /\ ~s.susp => \A u \in Task : r.state[u] = IF u = h THEN "ready" ELSE s.state[u]
<1> DEFINE w == Wake(s, e)
           h == Head(s.event[e])
<1>1. /\ w \in Sched /\ SameTime(w, s) /\ SamePrio(w, s) /\ SameRun(w, s)
      /\ s.event[e] = <<>> => w = s
      /\ s.event[e] # <<>> =>
           /\ h \in Task /\ w.event = Served(s.event, e)
           /\ s.susp => w.pend = Append(s.pend, h) /\ w.state = s.state
           /\ ~s.susp => /\ w.pend = s.pend
                         /\ \A u \in Task : w.state[u] = IF u = h THEN "ready" ELSE s.state[u]
  BY WakeFacts
<1> HIDE DEF w, h
<1>2. /\ r \in Sched /\ SameTime(r, w) /\ SameWait(r, w) /\ SameLists(r, w) /\ SamePrio(r, w)
      /\ r.susp = w.susp
      /\ w.susp => r.cur = w.cur
      /\ r.cur = w.cur \/ (~w.susp /\ r.cur \in Highest(w))
      /\ b /\ ~w.susp => r.cur \in Highest(w)
      /\ ~b => r = w
  BY <1>1, SwitchFacts DEF w
<1>3. Highest(r) = Highest(w)
  BY <1>2 DEF Highest, Ready, SameWait, SamePrio
<1> QED BY <1>1, <1>2, <1>3 DEF SameTime, SameWait, SameLists, SamePrio, SameRun, h

\* A task of the highest priority is ready.
LEMMA HighestReady ==
  ASSUME NEW s, NEW t \in Highest(s) PROVE t \in Task /\ s.state[t] = "ready"
  BY DEF Highest, Ready

\* With the scheduler running, whoever runs after a Wake is ready.
LEMMA WakeAwake ==
  ASSUME NEW s \in Sched, NEW e \in Event, NEW b \in BOOLEAN, NEW r, r \in YieldIf(b, Wake(s, e)),
         ~s.susp, s.state[s.cur] = "ready"
  PROVE  /\ r \in Sched /\ SameTime(r, s) /\ ~r.susp /\ r.pend = s.pend
         /\ r.state[r.cur] = "ready"
<1>1. s.cur \in Task
  BY DEF Sched
<1> DEFINE h == Head(s.event[e])
<1>2. /\ r \in Sched /\ SameTime(r, s) /\ r.susp = s.susp
      /\ ~s.susp => r.pend = s.pend
      /\ r.cur = s.cur \/ r.cur \in Highest(r)
      /\ s.event[e] = <<>> => r.state = s.state
      /\ s.event[e] # <<>> =>
           (~s.susp => \A u \in Task : r.state[u] = IF u = h THEN "ready" ELSE s.state[u])
  BY WakeYield
<1> HIDE DEF h
<1>3. r.state[r.cur] = "ready"
  <2>1. CASE r.cur \in Highest(r)
    BY <2>1, HighestReady
  <2>2. CASE r.cur = s.cur
    BY <1>1, <1>2, <2>2
  <2> QED BY <1>2, <2>1, <2>2
<1> QED BY <1>2, <1>3

\* A thread that stays where it is stays sound.
LEMMA SoundOther ==
  ASSUME NEW u \in Thread, Sound(u), thread'[u] = thread[u],
         (k'.susp /\ u = k'.cur) <=> (k.susp /\ u = k.cur)
  PROVE  Sound(u)'
  BY DEF Sound, Op, On, OnMutex

\* A thread that begins a call.
LEMMA SoundCalling ==
  ASSUME NEW t \in Thread, NEW p \in Seq(Calls) \ {<<>>}, thread'[t] = Calling(p),
         ~(k'.susp /\ t = k'.cur)
  PROVE  Sound(t)'
<1>1. /\ Calling(p).todo = p /\ Calling(p).left = Head(p).wait /\ ~Calling(p).inherited
      /\ Calling(p).pc = IF Head(p).do = "delay" THEN "suspend" ELSE "try"
  BY CallingFacts
<1>2. Op(t)' = Head(p) /\ thread'[t].left = Op(t)'.wait /\ thread'[t].inherited = FALSE
      /\ thread'[t].pc = IF Op(t)'.do = "delay" THEN "suspend" ELSE "try"
  BY <1>1 DEF Op, Calling
<1> QED BY <1>2 DEF Sound, Inside

\* Steps outside vTaskSuspendAll.
LEMMA AwakeControl ==
  ASSUME Control, ~k.susp, ~k'.susp, path' = path, \A u \in Thread : Sound(u)',
         k'.state[k'.cur] = "ready", k'.pend = k.pend, k'.pended = k.pended,
         \A o \in Object : queue'[o].lock = queue[o].lock
  PROVE  Control'
<1>1. path = None
  BY DEF Control
<1>2. \A o \in Object : ~Locking(o) /\ ~Locking(o)'
  BY DEF Locking
<1> QED BY <1>1, <1>2 DEF Control, None

\* ... of which the running thread takes one.
LEMMA AwakeRun ==
  ASSUME Control, NEW t \in Thread, k.cur = t, thread[t].pc \notin Inside
  PROVE  ~k.susp /\ path = None /\ k.pend = <<>> /\ k.pended = 0 /\ k.state[t] = "ready"
         /\ \A o \in Object : queue[o].lock = Unlocked
<1>1. Sound(t)
  BY DEF Control
<1>2. ~k.susp
  BY <1>1 DEF Sound
<1> QED BY <1>2 DEF Control, Locking, None

\* The other threads stay sound while the scheduler runs.
LEMMA AwakeOthers ==
  ASSUME Control, NEW t \in Thread, ~k.susp, ~k'.susp, Sound(t)',
         \A u \in Thread \ {t} : thread'[u] = thread[u]
  PROVE  \A u \in Thread : Sound(u)'
<1>1. \A u \in Thread : Sound(u)
  BY DEF Control
<1>2. ASSUME NEW u \in Thread \ {t} PROVE Sound(u)'
  BY <1>1, SoundOther
<1> QED BY <1>2

\* After a return all threads are sound.
LEMMA ReturnControl ==
  ASSUME Typed, Control, NEW t \in Thread, NEW ok, Return(t, ok), ~k.susp, ~k'.susp
  PROVE  /\ thread' \in [Thread -> Rec] /\ waited' \in [Thread -> 0..TickMod]
         /\ \A u \in Thread : Sound(u)'
         /\ \A u \in Thread \ {t} : thread'[u] = thread[u]
<1>1. waited' \in [Thread -> 0..TickMod]
  BY ReturnFacts
<1>2. PICK p \in Seq(Calls) \ {<<>>} : Goes(t, Calling(p))
  BY ReturnFacts
<1>3. thread' \in [Thread -> Rec] /\ thread'[t] = Calling(p)
      /\ \A u \in Thread \ {t} : thread'[u] = thread[u]
  BY <1>2, CallingFacts, GoesFacts DEF Typed
<1>4. Sound(t)'
  BY <1>3, SoundCalling
<1>5. \A u \in Thread : Sound(u)'
  BY <1>3, <1>4, AwakeOthers
<1> QED BY <1>1, <1>3, <1>5

\* A step to another place, outside.
LEMMA GotoControl ==
  ASSUME Typed, Control, NEW t \in Thread, NEW pc \in Pcs, Goto(t, pc), ~k.susp, ~k'.susp,
         pc \in {"try", "expired", "restore", "halted"},
         pc # "try" => Op(t).do # "delay",
         pc \in {"expired", "restore"} => Op(t).do = "take" /\ thread[t].left # Forever,
         pc = "restore" => thread[t].inherited
  PROVE  /\ thread' \in [Thread -> Rec]
         /\ \A u \in Thread : Sound(u)'
         /\ \A u \in Thread \ {t} : thread'[u] = thread[u]
         /\ thread'[t] = [thread[t] EXCEPT !.pc = pc]
<1>1. Goes(t, [thread[t] EXCEPT !.pc = pc]) /\ thread[t] \in Rec
  BY DEF Goto, Goes, Typed
<1>2. [thread[t] EXCEPT !.pc = pc] \in Rec
  BY <1>1 DEF Rec
<1>3. thread' \in [Thread -> Rec] /\ thread'[t] = [thread[t] EXCEPT !.pc = pc]
      /\ \A u \in Thread \ {t} : thread'[u] = thread[u]
  BY <1>1, <1>2, GoesFacts DEF Typed
<1>4. Op(t)' = Op(t) /\ thread'[t].pc = pc /\ thread'[t].left = thread[t].left
      /\ thread'[t].inherited = thread[t].inherited
  BY <1>1, <1>3 DEF Op, Rec
<1>5. Sound(t)'
  <2>1. Sound(t) /\ ~(k'.susp /\ t = k'.cur) /\ On(t)' = On(t) /\ OnMutex(t)' = OnMutex(t)
    BY <1>4 DEF Control, On, OnMutex
  <2> QED BY <1>4, <2>1 DEF Sound, Inside
<1>6. \A u \in Thread : Sound(u)'
  BY <1>3, <1>5, AwakeOthers
<1> QED BY <1>3, <1>6

-----------------------------------------------------------------------------
\* The running thread takes or gives: the event list that is served is e.
TakenK(t) == [k EXCEPT !.held[t] = IF OnMutex(t) THEN @ + 1 ELSE @]
GivenK(t) == IF OnMutex(t) THEN Disinherit(t) ELSE k

\* Taking a mutex counts it.
LEMMA TakenFacts ==
  ASSUME k \in Sched, NEW t \in Task
  PROVE  LET s == TakenK(t) IN
         /\ s \in Sched /\ SameTime(s, k) /\ SameWait(s, k) /\ SameLists(s, k) /\ SameRun(s, k)
         /\ s.prio = k.prio /\ s.yield = k.yield
         /\ \A u \in Task : s.held[u] = IF u = t /\ OnMutex(t) THEN k.held[u] + 1 ELSE k.held[u]
<1> DEFINE held == [k.held EXCEPT ![t] = IF OnMutex(t) THEN @ + 1 ELSE @]
           s == [k EXCEPT !.held = held]
<1>1. TakenK(t) = s
  BY DEF TakenK, Sched
<1>2. held \in [Task -> Nat]
      /\ \A u \in Task : held[u] = IF u = t /\ OnMutex(t) THEN k.held[u] + 1 ELSE k.held[u]
  <2>1. k.held \in [Task -> Nat]
    BY DEF Sched
  <2>2. k.held[t] \in Nat /\ k.held[t] + 1 \in Nat
    BY <2>1
  <2> QED BY <2>1, <2>2
<1> HIDE DEF held
<1>3. /\ s \in Sched /\ SameTime(s, k) /\ SameWait(s, k) /\ SameLists(s, k) /\ SameRun(s, k)
      /\ s.prio = k.prio /\ s.yield = k.yield /\ s.held = held
  BY <1>2 DEF Sched, SameTime, SameWait, SameLists, SameRun
<1> QED BY <1>1, <1>2, <1>3

\* Giving a mutex uncounts it; with the last one goes the inherited priority.
LEMMA GivenFacts ==
  ASSUME k \in Sched, NEW t \in Task, OnMutex(t) => k.held[t] >= 1
  PROVE  LET s == GivenK(t) IN
         /\ s \in Sched /\ SameTime(s, k) /\ SameWait(s, k) /\ SameLists(s, k) /\ SameRun(s, k)
         /\ s.yield = k.yield
         /\ \A u \in Task : s.held[u] = IF u = t /\ OnMutex(t) THEN k.held[u] - 1 ELSE k.held[u]
         /\ \A u \in Task : s.prio[u] = IF u = t /\ OnMutex(t) /\ k.held[t] = 1 THEN Base[u]
                                        ELSE k.prio[u]
<1>1. CASE ~OnMutex(t)
  BY <1>1 DEF GivenK, SameTime, SameWait, SameLists, SameRun
<1>2. CASE OnMutex(t)
  <2> DEFINE held == [k.held EXCEPT ![t] = @ - 1]
             prio == [k.prio EXCEPT ![t] = IF k.held[t] = 1 THEN Base[t] ELSE @]
             s == [k EXCEPT !.held = held, !.prio = prio]
  <2>1. GivenK(t) = s
    BY <1>2 DEF GivenK, Disinherit, Sched
  <2>2. k.held \in [Task -> Nat] /\ k.prio \in [Task -> Nat] /\ Base \in [Task -> Nat]
    BY TaskAssumption DEF Sched
  <2>3. held \in [Task -> Nat] /\ \A u \in Task : held[u] = IF u = t THEN k.held[u] - 1 ELSE k.held[u]
    <3>1. k.held[t] - 1 \in Nat
      BY <1>2, <2>2
    <3> QED BY <2>2, <3>1
  <2>4. /\ prio \in [Task -> Nat]
        /\ \A u \in Task : prio[u] = IF u = t /\ k.held[t] = 1 THEN Base[u] ELSE k.prio[u]
    BY <2>2
  <2> HIDE DEF held, prio
  <2>5. /\ s \in Sched /\ SameTime(s, k) /\ SameWait(s, k) /\ SameLists(s, k) /\ SameRun(s, k)
        /\ s.yield = k.yield /\ s.held = held /\ s.prio = prio
    BY <2>3, <2>4 DEF Sched, SameTime, SameWait, SameLists, SameRun
  <2> QED BY <1>2, <2>1, <2>3, <2>4, <2>5
<1> QED BY <1>1, <1>2

(* What taking does: to k, to the object and to the thread.                *)
LEMMA TakeEffect ==
  ASSUME Typed, Control, NEW t \in Thread, Take(t)
  PROVE  /\ k.cur = t /\ thread[t].pc = "try" /\ ~k.susp /\ ~k'.susp
         /\ Op(t).do = "take" /\ On(t) \in Object /\ queue[On(t)].count > 0
         /\ k' \in YieldIf(Wake(TakenK(t), <<On(t), "send">>).yield, Wake(TakenK(t), <<On(t), "send">>))
         /\ k' \in Sched /\ k'.pend = k.pend /\ k'.pended = k.pended /\ k'.state[k'.cur] = "ready"
         /\ queue' \in [Object -> Queue]
         /\ queue'[On(t)].count = queue[On(t)].count - 1
         /\ queue'[On(t)].lock = queue[On(t)].lock
         /\ queue'[On(t)].holder = IF OnMutex(t) THEN t ELSE queue[On(t)].holder
         /\ \A o \in Object \ {On(t)} : queue'[o] = queue[o]
         /\ Return(t, TRUE) /\ path' = path
<1> DEFINE s == TakenK(t)
           e == <<On(t), "send">>
<1>1. k.cur = t /\ thread[t].pc = "try" /\ Op(t).do = "take" /\ queue[On(t)].count > 0
      /\ Return(t, TRUE) /\ path' = path
  BY DEF Take, At, Possible
<1>2. On(t) \in Object /\ queue[On(t)] \in Queue /\ t \in Task /\ e \in Event
  BY <1>1, ThreadFacts
<1>3. ~k.susp /\ k.state[t] = "ready"
  BY <1>1, AwakeRun DEF Inside
<1>4. k' \in YieldIf(Wake(s, e).yield, Wake(s, e))
  BY DEF Take, TakenK
<1>5. /\ s \in Sched /\ SameTime(s, k) /\ SameWait(s, k) /\ SameLists(s, k) /\ SameRun(s, k)
  BY <1>2, TakenFacts DEF Typed
<1> HIDE DEF s, e
<1>6. Wake(s, e).yield \in BOOLEAN
  BY <1>2, <1>5, WakeFacts DEF Sched
<1>7. ~s.susp /\ s.state[s.cur] = "ready"
  BY <1>1, <1>3, <1>5 DEF SameRun, SameWait
<1>8. k' \in Sched /\ SameTime(k', s) /\ ~k'.susp /\ k'.pend = s.pend /\ k'.state[k'.cur] = "ready"
  BY <1>2, <1>4, <1>5, <1>6, <1>7, WakeAwake
<1>9. /\ queue' \in [Object -> Queue]
      /\ queue'[On(t)].count = queue[On(t)].count - 1
      /\ queue'[On(t)].lock = queue[On(t)].lock
      /\ queue'[On(t)].holder = IF OnMutex(t) THEN t ELSE queue[On(t)].holder
      /\ \A o \in Object \ {On(t)} : queue'[o] = queue[o]
  <2>1. queue \in [Object -> Queue] /\ queue[On(t)].count - 1 \in Nat
    BY <1>1, <1>2 DEF Typed, Queue
  <2> QED BY <1>2, <2>1 DEF Queue, Take
<1> QED BY <1>1, <1>2, <1>3, <1>4, <1>5, <1>8, <1>9 DEF SameTime, SameLists, SameRun, s, e

\* Take keeps Typed and Control.
LEMMA TakeControl ==
  ASSUME Typed, Control, NEW t \in Thread, Take(t) PROVE Typed' /\ Control'
<1>1. /\ ~k.susp /\ ~k'.susp /\ On(t) \in Object /\ k.cur = t /\ thread[t].pc = "try"
      /\ k' \in Sched /\ k'.pend = k.pend /\ k'.pended = k.pended /\ k'.state[k'.cur] = "ready"
      /\ queue[On(t)].count > 0
      /\ queue' \in [Object -> Queue]
      /\ queue'[On(t)].count = queue[On(t)].count - 1
      /\ queue'[On(t)].lock = queue[On(t)].lock
      /\ \A o \in Object \ {On(t)} : queue'[o] = queue[o]
      /\ Return(t, TRUE) /\ path' = path
  BY TakeEffect
<1>2. /\ thread' \in [Thread -> Rec] /\ waited' \in [Thread -> 0..TickMod]
      /\ \A u \in Thread : Sound(u)'
  BY <1>1, ReturnControl
<1>3. queue[On(t)].lock = Unlocked
  BY <1>1, AwakeRun DEF Inside
<1>4. Typed'
  <2>1. \A o \in Object : /\ queue'[o].count <= Size[o]
                          /\ Unlocked <= queue'[o].lock /\ queue'[o].lock <= queue'[o].count
                          /\ o \notin FromISR => queue'[o].lock <= 0
    <3>1. queue[On(t)].count \in Nat /\ Size[On(t)] \in Nat /\ queue[On(t)].count <= Size[On(t)]
      BY <1>1, ObjectAssumption DEF Typed, Queue
    <3> QED BY <1>1, <1>3, <3>1 DEF Typed, Unlocked
  <2> QED BY <1>1, <1>2, <2>1 DEF Typed
<1>5. Control'
  BY <1>1, <1>2, AwakeControl
<1> QED BY <1>4, <1>5

\* k of Give before the yield.
Handed(t) == Wake(GivenK(t), <<On(t), "receive">>)
GiveYields(t) ==
  Handed(t).yield \/ (k.event[<<On(t), "receive">>] = <<>> /\ GivenK(t).prio[t] # k.prio[t])

\* What Give does.
LEMMA GiveEffect ==
  ASSUME Typed, Control, NEW t \in Thread, Give(t), OnMutex(t) => k.held[t] >= 1
  PROVE  /\ k.cur = t /\ thread[t].pc = "try" /\ ~k.susp /\ ~k'.susp
         /\ Op(t).do = "give" /\ On(t) \in Object /\ queue[On(t)].count < Size[On(t)]
         /\ GiveYields(t) \in BOOLEAN /\ k' \in YieldIf(GiveYields(t), Handed(t))
         /\ k' \in Sched /\ k'.pend = k.pend /\ k'.pended = k.pended /\ k'.state[k'.cur] = "ready"
         /\ queue' \in [Object -> Queue]
         /\ queue'[On(t)].count = queue[On(t)].count + 1
         /\ queue'[On(t)].lock = queue[On(t)].lock
         /\ queue'[On(t)].holder = None
         /\ \A o \in Object \ {On(t)} : queue'[o] = queue[o]
         /\ Return(t, TRUE) /\ path' = path
<1> DEFINE s == GivenK(t)
           e == <<On(t), "receive">>
<1>1. k.cur = t /\ thread[t].pc = "try" /\ Op(t).do = "give" /\ queue[On(t)].count < Size[On(t)]
      /\ Return(t, TRUE) /\ path' = path
  BY DEF Give, At, Possible
<1>2. On(t) \in Object /\ queue[On(t)] \in Queue /\ t \in Task /\ e \in Event
  BY <1>1, ThreadFacts
<1>3. ~k.susp /\ k.state[t] = "ready"
  BY <1>1, AwakeRun DEF Inside
<1>4. k' \in YieldIf(GiveYields(t), Handed(t))
  BY Zenon DEF Give, GivenK, GiveYields, Handed
<1>5. /\ s \in Sched /\ SameTime(s, k) /\ SameWait(s, k) /\ SameLists(s, k) /\ SameRun(s, k)
  BY <1>2, GivenFacts DEF Typed
<1>6. Handed(t) = Wake(s, e)
  BY DEF Handed
<1> HIDE DEF s, e
<1>7. GiveYields(t) \in BOOLEAN
  <2>1. Wake(s, e).yield \in BOOLEAN
    BY <1>2, <1>5, WakeFacts DEF Sched
  <2> QED BY <1>6, <2>1 DEF GiveYields
<1>8. ~s.susp /\ s.state[s.cur] = "ready"
  BY <1>1, <1>3, <1>5 DEF SameRun, SameWait
<1>9. k' \in Sched /\ SameTime(k', s) /\ ~k'.susp /\ k'.pend = s.pend /\ k'.state[k'.cur] = "ready"
  BY <1>2, <1>4, <1>5, <1>6, <1>7, <1>8, WakeAwake
<1>10. /\ queue' \in [Object -> Queue]
       /\ queue'[On(t)].count = queue[On(t)].count + 1
       /\ queue'[On(t)].lock = queue[On(t)].lock
       /\ queue'[On(t)].holder = None
       /\ \A o \in Object \ {On(t)} : queue'[o] = queue[o]
  <2>1. queue \in [Object -> Queue] /\ queue[On(t)].count + 1 \in Nat
    BY <1>1, <1>2 DEF Typed, Queue
  <2> QED BY <1>2, <2>1 DEF Queue, Give
<1> QED BY <1>1, <1>2, <1>3, <1>4, <1>5, <1>7, <1>9, <1>10 DEF SameTime, SameLists, SameRun

\* Give keeps Typed and Control.
LEMMA GiveControl ==
  ASSUME Typed, Control, NEW t \in Thread, Give(t), OnMutex(t) => k.held[t] >= 1
  PROVE  Typed' /\ Control'
<1>1. /\ ~k.susp /\ ~k'.susp /\ On(t) \in Object /\ k.cur = t /\ thread[t].pc = "try"
      /\ k' \in Sched /\ k'.pend = k.pend /\ k'.pended = k.pended /\ k'.state[k'.cur] = "ready"
      /\ queue[On(t)].count < Size[On(t)]
      /\ queue' \in [Object -> Queue]
      /\ queue'[On(t)].count = queue[On(t)].count + 1
      /\ queue'[On(t)].lock = queue[On(t)].lock
      /\ \A o \in Object \ {On(t)} : queue'[o] = queue[o]
      /\ Return(t, TRUE) /\ path' = path
  BY GiveEffect
<1>2. /\ thread' \in [Thread -> Rec] /\ waited' \in [Thread -> 0..TickMod]
      /\ \A u \in Thread : Sound(u)'
  BY <1>1, ReturnControl
<1>3. queue[On(t)].lock = Unlocked
  BY <1>1, AwakeRun DEF Inside
<1>4. Typed'
  <2>1. \A o \in Object : /\ queue'[o].count <= Size[o]
                          /\ Unlocked <= queue'[o].lock /\ queue'[o].lock <= queue'[o].count
                          /\ o \notin FromISR => queue'[o].lock <= 0
    <3>1. queue[On(t)].count \in Nat /\ Size[On(t)] \in Nat
      BY <1>1, ObjectAssumption DEF Typed, Queue
    <3> QED BY <1>1, <1>3, <3>1 DEF Typed, Unlocked
  <2> QED BY <1>1, <1>2, <2>1 DEF Typed
<1>5. Control'
  BY <1>1, <1>2, AwakeControl
<1> QED BY <1>4, <1>5

-----------------------------------------------------------------------------
\* Types, when no object changes.
LEMMA TypedSame ==
  ASSUME Typed, k' \in Sched, queue' = queue, thread' \in [Thread -> Rec],
         path' \in {None, "again", "blocked", "expired"}, waited' \in [Thread -> 0..TickMod]
  PROVE  Typed'
  BY DEF Typed

\* The steps outside vTaskSuspendAll that leave objects and scheduler alone.
LEMMA QuietControl ==
  ASSUME Typed, Control, NEW t \in Thread, k.cur = t, thread[t].pc \notin Inside,
         k' = k, queue' = queue, path' = path,
         \/ \E ok \in BOOLEAN : Return(t, ok)
         \/ /\ waited' = waited
            /\ \E pc \in {"try", "restore", "halted"} :
                 /\ Goto(t, pc) /\ Op(t).do # "delay"
                 /\ pc = "restore" => thread[t].inherited /\ Op(t).do = "take"
                                      /\ thread[t].left # Forever
  PROVE  Typed' /\ Control'
<1>1. ~k.susp /\ ~k'.susp /\ k'.state[k'.cur] = "ready"
  BY AwakeRun
<1>2. thread' \in [Thread -> Rec] /\ waited' \in [Thread -> 0..TickMod] /\ \A u \in Thread : Sound(u)'
  <2>1. CASE \E ok \in BOOLEAN : Return(t, ok)
    BY <1>1, <2>1, ReturnControl
  <2>2. CASE /\ waited' = waited
             /\ \E pc \in {"try", "restore", "halted"} :
                 /\ Goto(t, pc) /\ Op(t).do # "delay"
                 /\ pc = "restore" => thread[t].inherited /\ Op(t).do = "take"
                                      /\ thread[t].left # Forever
    <3>1. PICK pc \in {"try", "restore", "halted"} :
                 /\ Goto(t, pc) /\ Op(t).do # "delay"
                 /\ pc = "restore" => thread[t].inherited /\ Op(t).do = "take"
                                      /\ thread[t].left # Forever
      BY <2>2
    <3>2. pc \in Pcs
      BY Strings
    <3>3. thread' \in [Thread -> Rec] /\ \A u \in Thread : Sound(u)'
      BY <1>1, <3>1, <3>2, GotoControl
    <3> QED BY <2>2, <3>3 DEF Typed
  <2> QED BY <2>1, <2>2
<1>3. Typed'
  BY <1>2, TypedSame DEF Typed
<1>4. Control'
  BY <1>1, <1>2, AwakeControl
<1> QED BY <1>3, <1>4

\* Refuse keeps Typed and Control.
LEMMA RefuseControl ==
  ASSUME Typed, Control, NEW t \in Thread, Refuse(t) PROVE Typed' /\ Control'
<1>1. k.cur = t /\ thread[t].pc \notin Inside /\ k' = k /\ queue' = queue /\ path' = path
      /\ Op(t).do # "delay"
      /\ ((Goto(t, "halted") /\ waited' = waited) \/ Return(t, FALSE))
  BY DEF Refuse, At, Inside
<1> QED BY <1>1, QuietControl

\* DelayOver keeps Typed and Control.
LEMMA DelayOverControl ==
  ASSUME Typed, Control, NEW t \in Thread, DelayOver(t) PROVE Typed' /\ Control'
<1>1. k.cur = t /\ thread[t].pc \notin Inside /\ k' = k /\ queue' = queue /\ path' = path
      /\ Return(t, TRUE)
  BY DEF DelayOver, At, Inside
<1> QED BY <1>1, QuietControl

\* Expire keeps Typed and Control.
LEMMA ExpireControl ==
  ASSUME Typed, Control, NEW t \in Thread, Expire(t) PROVE Typed' /\ Control'
<1>1. k.cur = t /\ thread[t].pc = "expired" /\ k' = k /\ queue' = queue /\ path' = path
  BY DEF Expire, At
<1>2. \/ Goto(t, "try") /\ waited' = waited
      \/ thread[t].inherited /\ Goto(t, "restore") /\ waited' = waited
      \/ Return(t, FALSE)
  BY DEF Expire
<1>3. Op(t).do = "take" /\ thread[t].left # Forever
  BY <1>1 DEF Control, Sound
<1> QED BY <1>1, <1>2, <1>3, QuietControl DEF Inside

\* A change of k.over only.
LEMMA OverFacts ==
  ASSUME k \in Sched, NEW over \in SUBSET Task, NEW r, r = [k EXCEPT !.over = over]
  PROVE  /\ r \in Sched /\ r.tick = k.tick /\ r.pended = k.pended /\ r.over = over
         /\ SameWait(r, k) /\ SameLists(r, k) /\ SamePrio(r, k) /\ SameRun(r, k)
  BY DEF Sched, SameWait, SameLists, SamePrio, SameRun

\* What Enter does.
LEMMA EnterEffect ==
  ASSUME Typed, Control, NEW t \in Thread, Enter(t)
  PROVE  /\ k.cur = t /\ thread[t].pc = "try" /\ Op(t).do # "delay" /\ ~Possible(t)
         /\ thread[t].left # 0
         /\ k' \in Sched /\ k'.pended = k.pended /\ k'.tick = k.tick
         /\ SameWait(k', k) /\ SameLists(k', k) /\ SamePrio(k', k) /\ SameRun(k', k)
         /\ queue' = queue /\ path' = path /\ waited' = waited
         /\ \E r \in Rec : /\ Goes(t, r) /\ r.pc = "suspend" /\ r.todo = thread[t].todo
                           /\ r.left = thread[t].left /\ r.inherited = thread[t].inherited
                           /\ r.entered
<1>1. /\ k.cur = t /\ thread[t].pc = "try" /\ Op(t).do # "delay" /\ ~Possible(t)
      /\ thread[t].left # 0 /\ queue' = queue /\ path' = path /\ waited' = waited
      /\ thread[t] \in Rec /\ k \in Sched
  BY DEF Enter, At, Typed
<1>2. CASE thread[t].entered
  <2>1. k' = k /\ Goes(t, [thread[t] EXCEPT !.pc = "suspend"])
    BY <1>2 DEF Enter, Goto, Goes
  <2>2. [thread[t] EXCEPT !.pc = "suspend"] \in Rec
    BY <1>1, Strings DEF Rec
  <2>3. \E r \in Rec : /\ Goes(t, r) /\ r.pc = "suspend" /\ r.todo = thread[t].todo
                       /\ r.left = thread[t].left /\ r.inherited = thread[t].inherited /\ r.entered
    BY <1>1, <1>2, <2>1, <2>2 DEF Rec
  <2> QED BY <1>1, <2>1, <2>3 DEF SameWait, SameLists, SamePrio, SameRun
<1>3. CASE ~thread[t].entered
  <2> DEFINE r == [thread[t] EXCEPT !.pc = "suspend", !.entered = TRUE, !.start = k.tick]
             over == k.over \ {t}
  <2>1. k' = [k EXCEPT !.over = over] /\ Goes(t, r)
    BY <1>3 DEF Enter, Goes
  <2>2. k.tick \in Ticks /\ over \in SUBSET Task
    BY <1>1 DEF Sched
  <2>3. /\ r \in Rec /\ r.pc = "suspend" /\ r.todo = thread[t].todo
        /\ r.left = thread[t].left /\ r.inherited = thread[t].inherited /\ r.entered
    BY <1>1, <2>2, Strings DEF Rec
  <2> HIDE DEF r, over
  <2>4. /\ k' \in Sched /\ k'.pended = k.pended /\ k'.tick = k.tick
        /\ SameWait(k', k) /\ SameLists(k', k) /\ SamePrio(k', k) /\ SameRun(k', k)
    BY <1>1, <2>1, <2>2 DEF Sched, SameWait, SameLists, SamePrio, SameRun
  <2> QED BY <1>1, <2>1, <2>3, <2>4
<1> QED BY <1>2, <1>3

\* Enter keeps Typed and Control.
LEMMA EnterControl ==
  ASSUME Typed, Control, NEW t \in Thread, Enter(t) PROVE Typed' /\ Control'
<1>1. /\ k.cur = t /\ thread[t].pc = "try" /\ Op(t).do # "delay"
      /\ k' \in Sched /\ k'.pended = k.pended
      /\ SameWait(k', k) /\ SameLists(k', k) /\ SamePrio(k', k) /\ SameRun(k', k)
      /\ queue' = queue /\ path' = path /\ waited' = waited
  BY EnterEffect
<1>2. PICK r \in Rec : /\ Goes(t, r) /\ r.pc = "suspend" /\ r.todo = thread[t].todo
                       /\ r.left = thread[t].left /\ r.inherited = thread[t].inherited
  BY EnterEffect
<1>3. thread' \in [Thread -> Rec] /\ thread'[t] = r /\ \A u \in Thread \ {t} : thread'[u] = thread[u]
  BY <1>2, GoesFacts DEF Typed
<1>4. ~k.susp /\ ~k'.susp /\ k'.state[k'.cur] = "ready" /\ k'.pend = k.pend
  BY <1>1, AwakeRun DEF Inside, SameRun, SameWait, SameLists
<1>5. Sound(t)'
  <2>1. Op(t)' = Op(t) /\ On(t)' = On(t) /\ OnMutex(t)' = OnMutex(t)
    BY <1>2, <1>3 DEF Op, On, OnMutex
  <2>2. Sound(t)
    BY DEF Control
  <2> QED BY <1>1, <1>2, <1>3, <1>4, <2>1, <2>2 DEF Sound, Inside
<1>6. \A u \in Thread : Sound(u)'
  BY <1>3, <1>4, <1>5, AwakeOthers
<1>7. Typed'
  BY <1>1, <1>3, TypedSame DEF Typed
<1>8. Control'
  BY <1>1, <1>4, <1>6, AwakeControl
<1> QED BY <1>7, <1>8

\* Inherit changes the priority of the holder only, and only upwards.
LEMMA InheritFacts ==
  ASSUME NEW s \in Sched, NEW h \in Task, NEW t \in Task
  PROVE  LET r == Inherit(s, h, t) IN
         /\ r \in Sched /\ SameTime(r, s) /\ SameWait(r, s) /\ SameLists(r, s) /\ SameRun(r, s)
         /\ r.held = s.held /\ r.yield = s.yield
         /\ \A u \in Task : r.prio[u] = IF u = h /\ s.prio[h] < s.prio[t] THEN s.prio[t] ELSE s.prio[u]
<1> DEFINE prio == [s.prio EXCEPT ![h] = s.prio[t]]
           r == [s EXCEPT !.prio = prio]
<1>1. CASE ~(s.prio[h] < s.prio[t])
  BY <1>1 DEF Inherit, SameTime, SameWait, SameLists, SameRun
<1>2. CASE s.prio[h] < s.prio[t]
  <2>1. Inherit(s, h, t) = r
    BY <1>2 DEF Inherit, Sched
  <2>2. prio \in [Task -> Nat] /\ \A u \in Task : prio[u] = IF u = h THEN s.prio[t] ELSE s.prio[u]
    BY DEF Sched
  <2> HIDE DEF prio
  <2>3. /\ r \in Sched /\ SameTime(r, s) /\ SameWait(r, s) /\ SameLists(r, s) /\ SameRun(r, s)
        /\ r.held = s.held /\ r.yield = s.yield /\ r.prio = prio
    BY <2>2 DEF Sched, SameTime, SameWait, SameLists, SameRun
  <2> QED BY <1>2, <2>1, <2>2, <2>3
<1> QED BY <1>1, <1>2

\* A beginning of 1..n that is closed downwards.
LEMMA Prefix ==
  ASSUME NEW n \in Nat, NEW S, S \subseteq 1..n, \A i \in S : \A j \in 1..i : j \in S
  PROVE  /\ Cardinality(S) + 1 \in 1..n + 1
         /\ \A i \in 1..n : i \in S <=> i < Cardinality(S) + 1
<1> DEFINE out == {i \in 1..n + 1 : i \notin S}
<1>1. PICK b \in out : \A i \in out : b <= i
  <2>1. out \subseteq Nat /\ n + 1 \in out
    OBVIOUS
  <2> HIDE DEF out
  <2> QED BY <2>1, Least
<1>2. S = 1..b - 1
  <2>1. ASSUME NEW i \in S PROVE i \in 1..b - 1
    <3>1. i \in 1..n /\ b \in 1..n + 1 /\ b \notin S
      BY <1>1
    <3>2. ~(b <= i)
      <4>1. SUFFICES ASSUME b <= i PROVE FALSE
        OBVIOUS
      <4>2. b \in 1..i
        BY <3>1, <4>1
      <4> QED BY <3>1, <4>2
    <3> QED BY <3>1, <3>2
  <2>2. ASSUME NEW i \in 1..b - 1 PROVE i \in S
    <3>1. i \in 1..n + 1 /\ ~(b <= i)
      BY <1>1
    <3> QED BY <1>1, <3>1
  <2> QED BY <2>1, <2>2
<1>3. b \in 1..n + 1
  BY <1>1
<1>4. Cardinality(1..b - 1) = b - 1
  <2>1. 1 \in Int /\ b - 1 \in Int
    BY <1>3
  <2>2. Cardinality(1..b - 1) = IF 1 > b - 1 THEN 0 ELSE b - 1 - 1 + 1
    BY <2>1, FS_Interval
  <2> QED BY <1>3, <2>2
<1> QED BY <1>2, <1>3, <1>4

\* Where vListInsert puts a task among those that wait.
Behind(w, prio, t, p) ==
  /\ p \in 1..Len(w) + 1
  /\ \A i \in 1..p - 1 : prio[w[i]] >= prio[t]
  /\ p <= Len(w) => prio[w[p]] < prio[t]

\* Insert puts t at its place in e.
LEMMA InsertFacts ==
  ASSUME NEW s \in Sched, NEW e \in Event, NEW t \in Task
  PROVE  LET r == Insert(s, e, t) IN
         /\ r \in Sched /\ SameTime(r, s) /\ SameWait(r, s) /\ SamePrio(r, s) /\ SameRun(r, s)
         /\ r.pend = s.pend /\ r.yield = s.yield
         /\ \A d \in Event \ {e} : r.event[d] = s.event[d]
         /\ \E p : Behind(s.event[e], s.prio, t, p) /\ r.event[e] = InsertAt(s.event[e], p, t)
<1> DEFINE w == s.event[e]
           ahead == {i \in 1..Len(w) : \A j \in 1..i : s.prio[w[j]] >= s.prio[t]}
           p == Cardinality(ahead) + 1
           event == [s.event EXCEPT ![e] = InsertAt(w, p, t)]
           r == [s EXCEPT !.event = event]
<1>1. w \in Seq(Task) /\ Len(w) \in Nat /\ (\A i \in 1..Len(w) : w[i] \in Task) /\ s.prio \in [Task -> Nat]
  <2>1. w \in Seq(Task) /\ s.prio \in [Task -> Nat]
    BY DEF Sched
  <2> HIDE DEF w
  <2> QED BY <2>1, LenProperties, ElementOfSeq
<1>2. Insert(s, e, t) = r
  BY DEF Insert, Sched
<1> HIDE DEF w
<1>3. p \in 1..Len(w) + 1 /\ \A i \in 1..Len(w) : i \in ahead <=> i < p
  <2>1. \A i \in ahead : \A j \in 1..i : j \in ahead
    <3> SUFFICES ASSUME NEW i \in ahead, NEW j \in 1..i PROVE j \in ahead
      OBVIOUS
    <3>1. i \in 1..Len(w) /\ \A l \in 1..i : s.prio[w[l]] >= s.prio[t]
      OBVIOUS
    <3>2. j \in 1..Len(w) /\ \A l \in 1..j : l \in 1..i
      BY <1>1, <3>1
    <3> QED BY <3>1, <3>2
  <2>2. ahead \subseteq 1..Len(w)
    OBVIOUS
  <2> HIDE DEF ahead
  <2> QED BY <1>1, <2>1, <2>2, Prefix
<1>4. Behind(w, s.prio, t, p)
  <2> HIDE DEF p
  <2>1. ASSUME NEW i \in 1..p - 1 PROVE s.prio[w[i]] >= s.prio[t]
    <3>1. i \in 1..Len(w) /\ i < p
      BY <1>1, <1>3
    <3>2. i \in ahead /\ i \in 1..i
      BY <1>3, <3>1
    <3> QED BY <3>2
  <2>2. ASSUME p <= Len(w) PROVE s.prio[w[p]] < s.prio[t]
    <3>1. p \in 1..Len(w) /\ p \notin ahead
      BY <1>1, <1>3, <2>2
    <3>2. PICK j \in 1..p : ~(s.prio[w[j]] >= s.prio[t])
      BY <3>1
    <3>3. ~(j \in 1..p - 1)
      BY <2>1, <3>2
    <3>4. j = p
      BY <3>1, <3>2, <3>3
    <3>5. s.prio[w[p]] \in Nat /\ s.prio[t] \in Nat
      BY <1>1, <3>1
    <3> QED BY <3>2, <3>4, <3>5
  <2> QED BY <1>3, <2>1, <2>2 DEF Behind
<1> HIDE DEF p
<1>5. InsertAt(w, p, t) \in Seq(Task)
  BY <1>1, <1>3, InsertSet
<1>6. /\ event \in [Event -> Seq(Task)] /\ event[e] = InsertAt(w, p, t)
      /\ \A d \in Event \ {e} : event[d] = s.event[d]
  BY <1>5 DEF Sched
<1> HIDE DEF event
<1>7. /\ r \in Sched /\ SameTime(r, s) /\ SameWait(r, s) /\ SamePrio(r, s) /\ SameRun(r, s)
      /\ r.pend = s.pend /\ r.yield = s.yield /\ r.event = event
  BY <1>6 DEF Sched, SameTime, SameWait, SamePrio, SameRun
<1> HIDE DEF r
<1> QED BY <1>2, <1>4, <1>6, <1>7 DEF w

-----------------------------------------------------------------------------
\* prvUnlockQueue: n tasks of the event list e go to the pending ones.
UnlockedK(s, r, e, n) ==
  /\ n \in 0..Len(s.event[e])
  /\ r.event[e] = SubSeq(s.event[e], n + 1, Len(s.event[e]))
  /\ \A d \in Event \ {e} : r.event[d] = s.event[d]
  /\ r.pend = s.pend \o SubSeq(s.event[e], 1, n)

\* prvUnlockQueue moves the first n waiting tasks to the pending list.
LEMMA UnlockFacts ==
  ASSUME k \in Sched, NEW t \in Task, NEW e \in Event, NEW l \in Nat,
         LET n == Min({l, Len(k.event[e])})
             woken == SubSeq(k.event[e], 1, n)
         IN k' = [k EXCEPT !.event[e] = SubSeq(@, n + 1, Len(@)), !.pend = @ \o woken,
                           !.yield = @ \/ \E u \in ToSet(woken) : k.prio[u] > k.prio[t]]
  PROVE  /\ k' \in Sched /\ SameTime(k', k) /\ SameWait(k', k) /\ SamePrio(k', k) /\ SameRun(k', k)
         /\ \E n : UnlockedK(k, k', e, n) /\ n <= l /\ (n = l \/ n = Len(k.event[e]))
<1> DEFINE w == k.event[e]
           n == Min({l, Len(w)})
           woken == SubSeq(w, 1, n)
           event == [k.event EXCEPT ![e] = SubSeq(w, n + 1, Len(w))]
           yield == k.yield \/ \E u \in ToSet(woken) : k.prio[u] > k.prio[t]
           pend == k.pend \o woken
<1>1. w \in Seq(Task) /\ k.pend \in Seq(Task) /\ k.event \in [Event -> Seq(Task)]
  BY DEF Sched
<1>2. k' = [k EXCEPT !.event = event, !.pend = pend, !.yield = yield]
  BY DEF Sched
<1> HIDE DEF w
<1>3. Len(w) \in Nat
  BY <1>1, LenProperties
<1>4. n \in 0..Len(w) /\ n <= l /\ (n = l \/ n = Len(w))
  <2>1. {l, Len(w)} \subseteq Nat /\ {l, Len(w)} # {}
    BY <1>3
  <2>2. n \in {l, Len(w)} /\ \A i \in {l, Len(w)} : n <= i
    BY <2>1, MinFacts
  <2> HIDE DEF n
  <2> QED BY <1>3, <2>2
<1> HIDE DEF n
<1>5. SubSeq(w, n + 1, Len(w)) \in Seq(Task) /\ woken \in Seq(Task)
  BY <1>1, <1>4, SplitSet
<1> HIDE DEF woken
<1>6. pend \in Seq(Task)
  BY <1>1, <1>5, ConcatSet
<1>7. /\ event \in [Event -> Seq(Task)] /\ event[e] = SubSeq(w, n + 1, Len(w))
      /\ \A d \in Event \ {e} : event[d] = k.event[d]
  BY <1>1, <1>5
<1>8. yield \in BOOLEAN
  BY DEF Sched
<1> HIDE DEF event, pend, yield
<1>9. /\ k' \in Sched /\ SameTime(k', k) /\ SameWait(k', k) /\ SamePrio(k', k) /\ SameRun(k', k)
      /\ k'.event = event /\ k'.pend = pend
  BY ZenonT(40), <1>2, <1>6, <1>7, <1>8 DEF Sched, SameTime, SameWait, SamePrio, SameRun
<1>10. UnlockedK(k, k', e, n)
  BY <1>4, <1>7, <1>9 DEF UnlockedK, w, pend, woken
<1> QED BY <1>4, <1>9, <1>10 DEF w

\* From s to r the scheduler has caught up: the pending tasks are ready, and so are those
\* whose time is over.  r has a running task of the highest priority, or the one of s, which
\* none of the woken tasks outranks.
Tidied(r, s, woken) ==
  /\ r \in Sched /\ SamePrio(r, s) /\ ~r.susp /\ r.pend = <<>> /\ r.pended = 0
  /\ woken \subseteq Task
  /\ \A t \in woken : s.state[t] \in {"delayed", "overflow"} /\ t \notin ToSet(s.pend)
  /\ \A t \in Task : /\ r.state[t] = "ready"
                          <=> s.state[t] = "ready" \/ t \in ToSet(s.pend) \/ t \in woken
                     /\ r.state[t] = "suspended" <=> s.state[t] = "suspended" /\ t \notin ToSet(s.pend)
  /\ \A e \in Event :
       /\ ToSet(r.event[e]) = ToSet(s.event[e]) \ woken
       /\ Distinct(s.event[e]) => Distinct(r.event[e])
       /\ ToSet(s.event[e]) \cap woken = {} => r.event[e] = s.event[e]
  /\ \/ r.cur \in Highest(r)
     \/ r.cur = s.cur /\ \A t \in woken \cup ToSet(s.pend) : s.prio[t] < s.prio[s.cur]

\* A tick, or the ticks that are made up for, and the switch.
LEMMA TidyFacts ==
  ASSUME NEW s \in Sched, ~s.susp, s.pend = <<>>, NEW q \in Sched, NEW woken, Passed(s, q, woken),
         q.pended = 0, NEW b \in BOOLEAN, q.yield => b, NEW r, r \in YieldIf(b, q)
  PROVE  Tidied(r, s, woken) /\ (b => r.cur \in Highest(r))
<1>1. /\ r \in Sched /\ SameTime(r, q) /\ SameWait(r, q) /\ SameLists(r, q) /\ SamePrio(r, q)
      /\ r.susp = q.susp
      /\ r.cur = q.cur \/ (~q.susp /\ r.cur \in Highest(q))
      /\ b /\ ~q.susp => r.cur \in Highest(q)
      /\ ~b => r = q
  BY SwitchFacts
<1>2. Highest(r) = Highest(q)
  BY <1>1 DEF Highest, Ready, SameWait, SamePrio
<1>3. ~q.susp /\ q.pend = <<>> /\ SamePrio(q, s) /\ q.cur = s.cur /\ woken \subseteq Task
      /\ ToSet(s.pend) = {}
  <2>1. s.pend \in Seq(Task)
    BY DEF Sched
  <2>2. ToSet(s.pend) = {}
    BY <2>1, SeqFacts
  <2> QED BY <2>2 DEF Passed, SameRun
<1>4. r \in Sched /\ SamePrio(r, s) /\ ~r.susp /\ r.pend = <<>> /\ r.pended = 0
  BY <1>1, <1>3 DEF SameTime, SameLists, SamePrio
<1>5. \A t \in woken : s.state[t] \in {"delayed", "overflow"} /\ t \notin ToSet(s.pend)
  BY <1>3 DEF Passed
<1>6. \A t \in Task : /\ r.state[t] = "ready"
                           <=> s.state[t] = "ready" \/ t \in ToSet(s.pend) \/ t \in woken
                      /\ r.state[t] = "suspended" <=> s.state[t] = "suspended" /\ t \notin ToSet(s.pend)
  <2> SUFFICES ASSUME NEW t \in Task
               PROVE  /\ r.state[t] = "ready"
                           <=> s.state[t] = "ready" \/ t \in ToSet(s.pend) \/ t \in woken
                      /\ r.state[t] = "suspended" <=> s.state[t] = "suspended" /\ t \notin ToSet(s.pend)
    OBVIOUS
  <2>1. r.state[t] = q.state[t]
    BY <1>1 DEF SameWait
  <2>2. CASE t \in woken
    BY <1>3, <2>1, <2>2 DEF Passed
  <2>3. CASE t \notin woken
    BY <1>3, <2>1, <2>3 DEF Passed
  <2> QED BY <2>2, <2>3
<1>7. \A e \in Event :
       /\ ToSet(r.event[e]) = ToSet(s.event[e]) \ woken
       /\ Distinct(s.event[e]) => Distinct(r.event[e])
       /\ ToSet(s.event[e]) \cap woken = {} => r.event[e] = s.event[e]
  <2>1. r.event = q.event
    BY <1>1 DEF SameLists
  <2> QED BY <2>1 DEF Passed
<1>8. CASE b
  <2>1. r.cur \in Highest(r)
    BY <1>1, <1>2, <1>3, <1>8
  <2> QED BY <1>3, <1>4, <1>5, <1>6, <1>7, <2>1 DEF Tidied
<1>9. CASE ~b
  <2>1. r.cur = s.cur /\ ~q.yield
    BY <1>1, <1>3, <1>9
  <2>2. \A t \in woken : s.prio[t] < s.prio[s.cur]
    BY <2>1 DEF Passed
  <2>3. \A t \in woken \cup ToSet(s.pend) : s.prio[t] < s.prio[s.cur]
    BY <1>3, <2>2
  <2> QED BY <1>3, <1>4, <1>5, <1>6, <1>7, <1>9, <2>1, <2>3 DEF Tidied
<1> QED BY <1>8, <1>9

\* SysTick with the scheduler running.
LEMMA TickTidies ==
  ASSUME k \in Sched, ~k.susp, k.pend = <<>>, k.pended = 0,
         NEW r, r \in YieldIf(IncrementTick(k).yield, IncrementTick(k))
  PROVE  \E woken : Tidied(r, k, woken)
<1> DEFINE q == IncrementTick(k)
<1>1. PICK woken : Passed(k, q, woken)
  BY PassedTick
<1>2. q \in Sched /\ q.pended = 0
  BY TickFacts
<1> HIDE DEF q
<1>3. q.yield \in BOOLEAN
  BY <1>2 DEF Sched
<1>4. r \in YieldIf(q.yield, q)
  BY DEF q
<1>5. Tidied(r, k, woken)
  BY <1>1, <1>2, <1>3, <1>4, TidyFacts
<1> QED BY <1>5

\* xTaskResumeAll and its yield.
LEMMA ResumeTidies ==
  ASSUME k \in Sched, NEW blocked \in BOOLEAN,
         NEW r, r \in YieldIf(Resumed(k).yield \/ blocked, Resumed(k))
  PROVE  \E woken : Tidied(r, k, woken) /\ (blocked => r.cur \in Highest(r))
<1> DEFINE s == Back(k)
           v == Resumed(k)
           b == v.yield \/ blocked
<1>1. /\ v \in Sched /\ v.pended = 0
      /\ \E q \in Sched : \E woken : Passed(s, q, woken) /\ v = [q EXCEPT !.pended = 0]
  BY ResumedFacts
<1>2. /\ s \in Sched /\ SamePrio(s, k) /\ s.cur = k.cur
      /\ ~s.susp /\ s.pend = <<>> /\ s.event = k.event
      /\ \A t \in Task : s.state[t] = IF t \in ToSet(k.pend) THEN "ready" ELSE k.state[t]
      /\ ~s.yield => \A t \in ToSet(k.pend) : k.prio[t] < k.prio[k.cur]
  BY BackFacts
<1>3. r \in YieldIf(b, v)
  OBVIOUS
<1> HIDE DEF s, v
<1>31. PICK q \in Sched : \E woken : Passed(s, q, woken) /\ v = [q EXCEPT !.pended = 0]
  BY <1>1
<1>4. PICK woken : Passed(s, q, woken) /\ v = [q EXCEPT !.pended = 0]
  BY <1>31
<1>5. Passed(s, v, woken)
  <2>1. /\ v.state = q.state /\ v.event = q.event /\ v.prio = q.prio /\ v.held = q.held
        /\ v.cur = q.cur /\ v.susp = q.susp /\ v.pend = q.pend /\ v.yield = q.yield
    BY <1>4 DEF Sched
  <2> QED BY <1>4, <2>1 DEF Passed, SamePrio, SameRun
<1>6. b \in BOOLEAN /\ (v.yield => b) /\ (blocked => b)
  BY <1>1 DEF Sched
<1>7. Tidied(r, s, woken) /\ (b => r.cur \in Highest(r))
  <2> HIDE DEF b
  <2> QED BY <1>1, <1>2, <1>3, <1>5, <1>6, TidyFacts
<1>8. ToSet(s.pend) = {} /\ ToSet(k.pend) \subseteq Task
  <2>1. s.pend \in Seq(Task) /\ k.pend \in Seq(Task)
    BY <1>2 DEF Sched
  <2> QED BY <1>2, <2>1, SeqFacts
<1>9. woken \subseteq Task /\ \A t \in woken : s.state[t] \in {"delayed", "overflow"}
  BY <1>7 DEF Tidied
<1>10. \A t \in woken : k.state[t] \in {"delayed", "overflow"} /\ t \notin ToSet(k.pend)
  BY <1>2, <1>9
<1>11. \A t \in Task : /\ r.state[t] = "ready"
                            <=> k.state[t] = "ready" \/ t \in ToSet(k.pend) \/ t \in woken
                       /\ r.state[t] = "suspended" <=> k.state[t] = "suspended" /\ t \notin ToSet(k.pend)
  <2> SUFFICES ASSUME NEW t \in Task
               PROVE  /\ r.state[t] = "ready"
                            <=> k.state[t] = "ready" \/ t \in ToSet(k.pend) \/ t \in woken
                      /\ r.state[t] = "suspended" <=> k.state[t] = "suspended" /\ t \notin ToSet(k.pend)
    OBVIOUS
  <2>1. /\ r.state[t] = "ready" <=> s.state[t] = "ready" \/ t \in woken
        /\ r.state[t] = "suspended" <=> s.state[t] = "suspended"
    BY <1>7, <1>8 DEF Tidied
  <2>2. s.state[t] = IF t \in ToSet(k.pend) THEN "ready" ELSE k.state[t]
    BY <1>2
  <2> QED BY <2>1, <2>2
<1>12. \/ r.cur \in Highest(r)
       \/ r.cur = k.cur /\ \A t \in woken \cup ToSet(k.pend) : k.prio[t] < k.prio[k.cur]
  <2>1. CASE b
    BY <1>7, <2>1
  <2>2. CASE ~b
    <3>1. ~v.yield
      BY <1>6, <2>2
    <3>2. ~s.yield /\ (\A t \in woken : s.prio[t] < s.prio[s.cur])
      BY <1>5, <3>1 DEF Passed
    <3>3. r.cur = v.cur
      <4>1. r = v
        <5> HIDE DEF b
        <5> QED BY <1>1, <1>3, <1>6, <2>2, SwitchFacts
      <4> QED BY <4>1
    <3>4. v.cur = k.cur
      BY <1>2, <1>5 DEF Passed, SameRun
    <3> QED BY <1>2, <3>2, <3>3, <3>4 DEF SamePrio
  <2> QED BY <2>1, <2>2
<1>13. Tidied(r, k, woken)
  BY <1>2, <1>7, <1>10, <1>11, <1>12 DEF Tidied, SamePrio
<1>14. blocked => r.cur \in Highest(r)
  BY <1>6, <1>7
<1> QED BY <1>13, <1>14

\* What Control says of the thread that has suspended the scheduler.
LEMMA InsideRun ==
  ASSUME Typed, Control, NEW t \in Thread, k.cur = t, thread[t].pc \in Inside
  PROVE  /\ k.susp /\ t \in Task /\ thread[t] \in Rec
         /\ path # None <=> thread[t].pc \in {"unlock", "resume"}
         /\ \A o \in Object : queue[o].lock # Unlocked <=>
              thread[t].pc \in {"test", "place", "unlock"} /\ On(t) = o /\ Op(t).do # "delay"
         /\ path = "expired" => thread[t].left # Forever
         /\ path = "blocked" => k.state[t] # "ready"
         /\ path # "blocked" => k.state[t] = "ready"
<1>1. k.susp
  BY DEF Control, Sound
<1> QED BY <1>1, ThreadFacts DEF Control, Locking

\* A step of the thread that has suspended the scheduler.
LEMMA InsideControl ==
  ASSUME Typed, Control, NEW t \in Thread, k.cur = t, k.susp, k'.susp, k'.cur = t, Sound(t)',
         \A u \in Thread \ {t} : thread'[u] = thread[u],
         path' # None <=> thread'[t].pc \in {"unlock", "resume"},
         path' = "expired" => thread'[t].left # Forever,
         path' = "blocked" => k'.state[t] # "ready",
         path' # "blocked" => k'.state[t] = "ready",
         \A o \in Object : queue'[o].lock # Unlocked <=>
            thread'[t].pc \in {"test", "place", "unlock"} /\ On(t)' = o /\ Op(t)'.do # "delay"
  PROVE  Control'
<1>1. ASSUME NEW u \in Thread \ {t} PROVE Sound(u)'
  BY SoundOther DEF Control
<1>2. \A u \in Thread : Sound(u)'
  BY <1>1
<1>4. \A o \in Object : queue'[o].lock # Unlocked <=> Locking(o)'
  BY DEF Locking, On, Op
<1> QED BY <1>2, <1>4 DEF Control

\* A thread that goes on with its call.
Moves(t, r) ==
  /\ Goes(t, r) /\ r \in Rec /\ r.todo = thread[t].todo

\* Then it has the same operation and object, and the others stay where they are.
LEMMA MovesFacts ==
  ASSUME Typed, NEW t \in Thread, NEW r, Moves(t, r)
  PROVE  /\ thread' \in [Thread -> Rec] /\ thread'[t] = r
         /\ \A u \in Thread \ {t} : thread'[u] = thread[u]
         /\ Op(t)' = Op(t) /\ On(t)' = On(t) /\ OnMutex(t)' = OnMutex(t) /\ Waits(t)' = Waits(t)
<1>1. thread' \in [Thread -> Rec] /\ thread'[t] = r /\ \A u \in Thread \ {t} : thread'[u] = thread[u]
  BY GoesFacts DEF Moves, Typed
<1> QED BY <1>1 DEF Moves, Op, On, OnMutex, Waits

\* What SuspendAll does.
LEMMA SuspendAllEffect ==
  ASSUME Typed, Control, NEW t \in Thread, SuspendAll(t)
  PROVE  /\ k.cur = t /\ thread[t].pc = "suspend"
         /\ k' \in Sched /\ k'.susp /\ k'.cur = t /\ k'.yield = k.yield /\ k'.unblock = k.unblock
         /\ SameTime(k', k) /\ SameWait(k', k) /\ SameLists(k', k) /\ SamePrio(k', k)
         /\ queue' = queue /\ path' = path /\ waited' = waited
         /\ \E r : /\ Moves(t, r) /\ r.pc = IF Op(t).do = "delay" THEN "place" ELSE "lock"
                   /\ r.left = thread[t].left /\ r.inherited = thread[t].inherited /\ r.entered
                   /\ r.start = thread[t].start
<1> DEFINE pc == IF Op(t).do = "delay" THEN "place" ELSE "lock"
           r == [thread[t] EXCEPT !.pc = pc, !.entered = TRUE]
<1>1. /\ k.cur = t /\ thread[t].pc = "suspend" /\ queue' = queue /\ path' = path /\ waited' = waited
      /\ k' = [k EXCEPT !.susp = TRUE] /\ k \in Sched /\ thread[t] \in Rec /\ Goes(t, r)
  BY DEF SuspendAll, At, Typed, Goes
<1>2. pc \in Pcs
  BY Strings
<1> HIDE DEF pc
<1>3. Moves(t, r) /\ r.pc = pc /\ r.left = thread[t].left /\ r.inherited = thread[t].inherited /\ r.entered
      /\ r.start = thread[t].start
  BY <1>1, <1>2 DEF Rec, Moves
<1> HIDE DEF r
<1>4. /\ k' \in Sched /\ k'.susp /\ k'.cur = k.cur /\ k'.yield = k.yield /\ k'.unblock = k.unblock
      /\ SameTime(k', k) /\ SameWait(k', k) /\ SameLists(k', k) /\ SamePrio(k', k)
  BY <1>1 DEF Sched, SameTime, SameWait, SameLists, SamePrio
<1> QED BY <1>1, <1>3, <1>4 DEF pc

\* SuspendAll keeps Typed and Control.
LEMMA SuspendAllControl ==
  ASSUME Typed, Control, NEW t \in Thread, SuspendAll(t) PROVE Typed' /\ Control'
<1>1. /\ k.cur = t /\ thread[t].pc = "suspend"
      /\ k' \in Sched /\ k'.susp /\ k'.cur = t
      /\ SameTime(k', k) /\ SameWait(k', k) /\ SameLists(k', k) /\ SamePrio(k', k)
      /\ queue' = queue /\ path' = path /\ waited' = waited
  BY SuspendAllEffect
<1>2. PICK r : /\ Moves(t, r) /\ r.pc = IF Op(t).do = "delay" THEN "place" ELSE "lock"
               /\ r.left = thread[t].left /\ r.inherited = thread[t].inherited
  BY SuspendAllEffect
<1>3. /\ thread' \in [Thread -> Rec] /\ thread'[t] = r
      /\ \A u \in Thread \ {t} : thread'[u] = thread[u]
      /\ Op(t)' = Op(t) /\ On(t)' = On(t) /\ OnMutex(t)' = OnMutex(t)
  BY <1>2, MovesFacts
<1>4. ~k.susp /\ path = None /\ k.state[t] = "ready" /\ \A o \in Object : queue[o].lock = Unlocked
  BY <1>1, AwakeRun DEF Inside
<1>5. Sound(t)'
  <2>1. Sound(t)
    BY DEF Control
  <2> QED BY <1>1, <1>2, <1>3, <2>1 DEF Sound, Inside
<1>6. ASSUME NEW u \in Thread \ {t} PROVE Sound(u)'
  <2>1. Sound(u)
    BY DEF Control
  <2> QED BY <1>1, <1>3, <1>4, <2>1, SoundOther
<1>7. Typed'
  BY <1>1, <1>3, TypedSame DEF Typed
<1>8. \A o \in Object : queue'[o].lock = Unlocked /\ ~Locking(o)'
  <2>1. r.pc \in {"place", "lock"} /\ (r.pc = "place" => Op(t)'.do = "delay")
    BY <1>2, <1>3
  <2> QED BY <1>1, <1>3, <1>4, <2>1 DEF Locking, Op
<1>9. Control'
  <2>1. \A u \in Thread : Sound(u)'
    BY <1>5, <1>6
  <2>2. k'.state[k'.cur] = "ready" /\ path' = None /\ thread'[k'.cur].pc \in {"place", "lock"}
    BY <1>1, <1>2, <1>3, <1>4 DEF SameWait
  <2> QED BY <1>1, <1>8, <2>1, <2>2 DEF Control, None
<1> QED BY <1>7, <1>9

-----------------------------------------------------------------------------
\* While the time is not over something of it is left.
LEMMA TimedOutFacts ==
  ASSUME Typed, NEW t \in Thread
  PROVE  /\ Elapsed(t) \in Ticks /\ thread[t].left \in 0..Forever /\ 0 # Forever
         /\ TimedOut(t) => thread[t].left # Forever
         /\ ~TimedOut(t) /\ thread[t].left # Forever =>
              thread[t].left - Elapsed(t) \in 1..Forever - 1
<1>1. k.tick \in Ticks /\ thread[t].start \in Ticks /\ thread[t].left \in 0..Forever
  BY DEF Typed, Sched, Rec
<1>2. k.tick \in Int /\ thread[t].start \in Int /\ TickMod \in Nat \ {0}
  BY <1>1, TickAssumption DEF Ticks
<1>3. Elapsed(t) \in Ticks
  BY <1>2 DEF Elapsed, Ticks
<1>4. 0 # Forever
  BY Tock
<1>5. TimedOut(t) => thread[t].left # Forever
  BY DEF TimedOut
<1>6. ASSUME ~TimedOut(t), thread[t].left # Forever PROVE thread[t].left - Elapsed(t) \in 1..Forever - 1
  <2>1. ~(Elapsed(t) >= thread[t].left)
    BY <1>6 DEF TimedOut
  <2>2. Elapsed(t) \in Nat /\ thread[t].left \in Nat /\ thread[t].left <= Forever /\ Forever \in Nat
    BY <1>1, <1>3, Tock DEF Ticks
  <2> QED BY <1>6, <2>1, <2>2
<1> QED BY <1>1, <1>3, <1>4, <1>5, <1>6

\* What Lock does.
LEMMA LockEffect ==
  ASSUME Typed, Control, NEW t \in Thread, Lock(t)
  PROVE  /\ k.cur = t /\ thread[t].pc = "lock" /\ waited' = waited
         /\ Op(t).do # "delay" /\ On(t) \in Object
         /\ k' \in Sched /\ k'.pended = k.pended /\ k'.tick = k.tick
         /\ SameWait(k', k) /\ SameLists(k', k) /\ SamePrio(k', k) /\ SameRun(k', k)
         /\ queue' \in [Object -> Queue]
         /\ queue'[On(t)].count = queue[On(t)].count /\ queue'[On(t)].holder = queue[On(t)].holder
         /\ queue'[On(t)].lock = 0
         /\ \A o \in Object \ {On(t)} : queue'[o] = queue[o]
         /\ \E r : /\ Moves(t, r) /\ r.inherited = thread[t].inherited /\ r.entered = thread[t].entered
                   /\ r.left = Forever <=> thread[t].left = Forever
                   /\ \/ r.pc = "unlock" /\ path' = "expired" /\ r.left # Forever /\ k' = k
                      \/ r.pc = "test" /\ path' = path
<1>1. k.cur = t /\ thread[t].pc = "lock" /\ waited' = waited /\ k \in Sched /\ thread[t] \in Rec
      /\ queue \in [Object -> Queue]
  BY DEF Lock, At, Typed
<1>2. Op(t).do # "delay" /\ On(t) \in Object
  <2>1. Op(t).do # "delay"
    BY <1>1 DEF Control, Sound
  <2> QED BY <2>1, ThreadFacts
<1>3. queue[On(t)].lock = Unlocked
  BY <1>1, <1>2, InsideRun DEF Inside
<1>4. /\ queue' \in [Object -> Queue]
      /\ queue'[On(t)].count = queue[On(t)].count /\ queue'[On(t)].holder = queue[On(t)].holder
      /\ queue'[On(t)].lock = 0
      /\ \A o \in Object \ {On(t)} : queue'[o] = queue[o]
  BY <1>1, <1>2, <1>3 DEF Lock, Queue, Unlocked
<1>5. CASE TimedOut(t)
  <2> DEFINE left == IF Turned(t) THEN thread[t].left ELSE 0
             r == [thread[t] EXCEPT !.pc = "unlock", !.left = left]
  <2>1. left \in 0..Forever /\ left # Forever /\ thread[t].left # Forever
    BY <1>5, TimedOutFacts, Tock
  <2>2. Goes(t, r) /\ path' = "expired" /\ k' = k
    BY <1>1, <1>5 DEF Lock, CheckForTimeOut, Goes
  <2> HIDE DEF left
  <2>3. /\ Moves(t, r) /\ r.inherited = thread[t].inherited /\ r.entered = thread[t].entered
        /\ r.left = left /\ r.pc = "unlock"
    BY <1>1, <2>1, <2>2, Strings DEF Rec, Moves
  <2> HIDE DEF r
  <2>4. \E rr : /\ Moves(t, rr) /\ rr.inherited = thread[t].inherited /\ rr.entered = thread[t].entered
                /\ rr.left = Forever <=> thread[t].left = Forever
                /\ \/ rr.pc = "unlock" /\ path' = "expired" /\ rr.left # Forever /\ k' = k
                   \/ rr.pc = "test" /\ path' = path
    BY <2>1, <2>2, <2>3
  <2> QED BY <1>1, <1>2, <1>4, <2>2, <2>4 DEF SameWait, SameLists, SamePrio, SameRun
<1>6. CASE ~TimedOut(t)
  <2> DEFINE forever == thread[t].left = Forever
             left == IF forever THEN thread[t].left ELSE thread[t].left - Elapsed(t)
             start == IF forever THEN thread[t].start ELSE k.tick
             over == IF forever THEN k.over ELSE k.over \ {t}
             r == [thread[t] EXCEPT !.pc = "test", !.left = left, !.start = start]
  <2>1. left \in 0..Forever /\ (left = Forever <=> forever)
    BY <1>6, TimedOutFacts, Tock
  <2>2. start \in Ticks /\ over \in SUBSET Task
    BY <1>1 DEF Sched, Rec
  <2>3. Goes(t, r) /\ path' = path
    BY ZenonT(40), <1>1, <1>6 DEF Lock, CheckForTimeOut, Goes
  <2>4. k' = [k EXCEPT !.over = over]
    <3>1. k' = IF forever THEN k ELSE [k EXCEPT !.over = k.over \ {t}]
      BY <1>6 DEF Lock, CheckForTimeOut
    <3>2. k = [k EXCEPT !.over = k.over]
      BY <1>1 DEF Sched
    <3> QED BY <3>1, <3>2
  <2> HIDE DEF left, start, over
  <2>5. /\ Moves(t, r) /\ r.inherited = thread[t].inherited /\ r.entered = thread[t].entered
        /\ r.left = left /\ r.pc = "test"
    BY <1>1, <2>1, <2>2, <2>3, Strings DEF Rec, Moves
  <2>6. /\ k' \in Sched /\ k'.pended = k.pended /\ k'.tick = k.tick
        /\ SameWait(k', k) /\ SameLists(k', k) /\ SamePrio(k', k) /\ SameRun(k', k)
    BY <1>1, <2>2, <2>4 DEF Sched, SameWait, SameLists, SamePrio, SameRun
  <2> HIDE DEF r
  <2>7. \E rr : /\ Moves(t, rr) /\ rr.inherited = thread[t].inherited /\ rr.entered = thread[t].entered
                /\ rr.left = Forever <=> thread[t].left = Forever
                /\ \/ rr.pc = "unlock" /\ path' = "expired" /\ rr.left # Forever /\ k' = k
                   \/ rr.pc = "test" /\ path' = path
    BY <2>1, <2>3, <2>5
  <2> QED BY <1>1, <1>2, <1>4, <2>6, <2>7
<1> QED BY <1>5, <1>6

\* Lock keeps Typed and Control.
LEMMA LockControl ==
  ASSUME Typed, Control, NEW t \in Thread, Lock(t) PROVE Typed' /\ Control'
<1>1. /\ k.cur = t /\ thread[t].pc = "lock" /\ waited' = waited
      /\ Op(t).do # "delay" /\ On(t) \in Object
      /\ k' \in Sched /\ SameWait(k', k) /\ SameRun(k', k)
      /\ queue' \in [Object -> Queue]
      /\ queue'[On(t)].count = queue[On(t)].count /\ queue'[On(t)].lock = 0
      /\ \A o \in Object \ {On(t)} : queue'[o] = queue[o]
  BY LockEffect
<1>2. PICK r : /\ Moves(t, r) /\ r.inherited = thread[t].inherited
               /\ r.left = Forever <=> thread[t].left = Forever
               /\ \/ r.pc = "unlock" /\ path' = "expired" /\ r.left # Forever
                  \/ r.pc = "test" /\ path' = path
  BY LockEffect
<1>3. /\ thread' \in [Thread -> Rec] /\ thread'[t] = r
      /\ \A u \in Thread \ {t} : thread'[u] = thread[u]
      /\ Op(t)' = Op(t) /\ On(t)' = On(t) /\ OnMutex(t)' = OnMutex(t)
  BY <1>2, MovesFacts
<1>4. k.susp /\ path = None /\ k.state[t] = "ready" /\ \A o \in Object : queue[o].lock = Unlocked
  BY <1>1, InsideRun DEF Inside, None
<1>5. Sound(t)'
  <2>1. Sound(t)
    BY DEF Control
  <2> QED BY <1>1, <1>2, <1>3, <1>4, <2>1 DEF Sound, Inside, SameRun
<1>6. Typed'
  <2>1. \A o \in Object : /\ queue'[o].count <= Size[o]
                          /\ Unlocked <= queue'[o].lock /\ queue'[o].lock <= queue'[o].count
                          /\ o \notin FromISR => queue'[o].lock <= 0
    <3>1. queue[On(t)].count \in Nat
      BY <1>1 DEF Typed, Queue
    <3> QED BY <1>1, <3>1 DEF Typed, Unlocked
  <2> QED BY <1>1, <1>2, <1>3, <2>1 DEF Typed
<1>7. \A o \in Object : queue'[o].lock # Unlocked <=>
            thread'[t].pc \in {"test", "place", "unlock"} /\ On(t)' = o /\ Op(t)'.do # "delay"
  BY <1>1, <1>2, <1>3, <1>4 DEF Unlocked
<1>8. Control'
  BY <1>1, <1>2, <1>3, <1>4, <1>5, <1>7, InsideControl DEF SameRun, SameWait, None
<1> QED BY <1>6, <1>8

\* What Test does.
LEMMA TestEffect ==
  ASSUME Typed, Control, NEW t \in Thread, Test(t)
  PROVE  /\ k.cur = t /\ thread[t].pc = "test" /\ waited' = waited /\ k' = k /\ queue' = queue
         /\ \E r : /\ Moves(t, r) /\ r.left = thread[t].left /\ r.inherited = thread[t].inherited
                   /\ r.entered = thread[t].entered
                   /\ \/ r.pc = "unlock" /\ path' = "again" /\ Possible(t)
                      \/ r.pc = "place" /\ path' = path /\ ~Possible(t)
<1>1. k.cur = t /\ thread[t].pc = "test" /\ waited' = waited /\ k' = k /\ queue' = queue
      /\ thread[t] \in Rec
  BY DEF Test, At, Typed
<1>2. ASSUME NEW pc \in {"unlock", "place"}, Goto(t, pc)
      PROVE  LET r == [thread[t] EXCEPT !.pc = pc] IN
             /\ Moves(t, r) /\ r.left = thread[t].left /\ r.inherited = thread[t].inherited
             /\ r.entered = thread[t].entered /\ r.pc = pc
  <2>1. pc \in Pcs /\ Goes(t, [thread[t] EXCEPT !.pc = pc])
    BY <1>2, Strings DEF Goto, Goes
  <2> QED BY <1>1, <2>1 DEF Rec, Moves
<1>3. \/ Goto(t, "unlock") /\ path' = "again" /\ Possible(t)
      \/ Goto(t, "place") /\ path' = path /\ ~Possible(t)
  BY DEF Test
<1>4. CASE Goto(t, "unlock") /\ path' = "again" /\ Possible(t)
  <2> DEFINE r == [thread[t] EXCEPT !.pc = "unlock"]
  <2>1. Moves(t, r) /\ r.left = thread[t].left /\ r.inherited = thread[t].inherited
        /\ r.entered = thread[t].entered /\ r.pc = "unlock"
    BY <1>2, <1>4
  <2> QED BY <1>1, <1>4, <2>1
<1>5. CASE Goto(t, "place") /\ path' = path /\ ~Possible(t)
  <2> DEFINE r == [thread[t] EXCEPT !.pc = "place"]
  <2>1. Moves(t, r) /\ r.left = thread[t].left /\ r.inherited = thread[t].inherited
        /\ r.entered = thread[t].entered /\ r.pc = "place"
    BY <1>2, <1>5
  <2> QED BY <1>1, <1>5, <2>1
<1> QED BY <1>3, <1>4, <1>5

\* Test keeps Typed and Control.
LEMMA TestControl ==
  ASSUME Typed, Control, NEW t \in Thread, Test(t) PROVE Typed' /\ Control'
<1>1. k.cur = t /\ thread[t].pc = "test" /\ waited' = waited /\ k' = k /\ queue' = queue
  BY TestEffect
<1>2. PICK r : /\ Moves(t, r) /\ r.left = thread[t].left /\ r.inherited = thread[t].inherited
               /\ \/ r.pc = "unlock" /\ path' = "again"
                  \/ r.pc = "place" /\ path' = path
  BY TestEffect
<1>3. /\ thread' \in [Thread -> Rec] /\ thread'[t] = r
      /\ \A u \in Thread \ {t} : thread'[u] = thread[u]
      /\ Op(t)' = Op(t) /\ On(t)' = On(t) /\ OnMutex(t)' = OnMutex(t)
  BY <1>2, MovesFacts
<1>4. /\ k.susp /\ path = None /\ k.state[t] = "ready"
      /\ \A o \in Object : queue[o].lock # Unlocked <=> On(t) = o /\ Op(t).do # "delay"
  BY <1>1, InsideRun DEF Inside, None
<1>5. Op(t).do # "delay"
  BY <1>1 DEF Control, Sound
<1>6. Sound(t)'
  <2>1. Sound(t)
    BY DEF Control
  <2> QED BY <1>1, <1>2, <1>3, <1>4, <1>5, <2>1 DEF Sound, Inside
<1>7. Typed'
  BY <1>1, <1>2, <1>3, TypedSame DEF Typed
<1>8. Control'
  BY <1>1, <1>2, <1>3, <1>4, <1>6, InsideControl DEF None
<1> QED BY <1>7, <1>8

-----------------------------------------------------------------------------
\* A task that blocks is not ready; it is suspended when it waits without a timeout.
LEMMA BlockWaits ==
  ASSUME NEW s \in Sched, NEW t \in Task, NEW ticks \in 0..Forever, NEW b \in BOOLEAN
  PROVE  LET r == Block(s, t, ticks, b) IN
         /\ r \in Sched /\ SameTime(r, s) /\ SameLists(r, s) /\ SamePrio(r, s) /\ SameRun(r, s)
         /\ \A u \in Task \ {t} : r.state[u] = s.state[u] /\ r.wake[u] = s.wake[u]
         /\ r.state[t] # "ready" /\ (b => (ticks = Forever <=> r.state[t] = "suspended"))
         /\ ~b => r.state[t] # "suspended"
  BY BlockFacts

\* The same of the record r.
LEMMA BlockEffect ==
  ASSUME NEW s \in Sched, NEW t \in Task, NEW ticks \in 0..Forever, NEW b \in BOOLEAN, NEW r,
         r = Block(s, t, ticks, b)
  PROVE  /\ r \in Sched /\ SameTime(r, s) /\ SameLists(r, s) /\ SamePrio(r, s) /\ SameRun(r, s)
         /\ \A u \in Task \ {t} : r.state[u] = s.state[u] /\ r.wake[u] = s.wake[u]
         /\ r.state[t] # "ready" /\ (b => (ticks = Forever <=> r.state[t] = "suspended"))
         /\ ~b => r.state[t] # "suspended"
  BY BlockWaits

\* What Place does.
LEMMA PlaceEffect ==
  ASSUME Typed, Control, NEW t \in Thread, Place(t), OnMutex(t) => queue[On(t)].holder \in Task
  PROVE  LET h == queue[On(t)].holder
             e == Waits(t)
         IN
         /\ k.cur = t /\ thread[t].pc = "place" /\ waited' = waited /\ queue' = queue
         /\ path' = "blocked" /\ Op(t).do # "delay" /\ On(t) \in Object /\ e \in Event
         /\ k' \in Sched /\ SameRun(k', k) /\ SameTime(k', k) /\ k'.pend = k.pend /\ k'.held = k.held
         /\ \A u \in Task \ {t} : k'.state[u] = k.state[u] /\ k'.wake[u] = k.wake[u]
         /\ k'.state[t] # "ready" /\ (thread[t].left = Forever <=> k'.state[t] = "suspended")
         /\ \A d \in Event \ {e} : k'.event[d] = k.event[d]
         /\ \E p : Behind(k.event[e], k'.prio, t, p) /\ k'.event[e] = InsertAt(k.event[e], p, t)
         /\ \A u \in Task : k'.prio[u] = IF OnMutex(t) /\ u = h /\ k.prio[h] < k.prio[t] THEN k.prio[t]
                                         ELSE k.prio[u]
         /\ \E r : /\ Moves(t, r) /\ r.left = thread[t].left /\ (r.inherited => OnMutex(t))
                   /\ r.pc = "unlock" /\ r.entered = thread[t].entered /\ r.start = thread[t].start
<1> DEFINE h == queue[On(t)].holder
           e == Waits(t)
           s == IF OnMutex(t) THEN Inherit(k, h, t) ELSE k
           i == Insert(s, e, t)
           inherited == OnMutex(t) /\ Base[h] < k.prio[t]
           r == [thread[t] EXCEPT !.pc = "unlock", !.inherited = inherited]
<1>1. /\ k.cur = t /\ thread[t].pc = "place" /\ waited' = waited /\ queue' = queue
      /\ path' = "blocked" /\ Op(t).do # "delay" /\ thread[t] \in Rec /\ k \in Sched
      /\ thread[t].left \in 0..Forever
  BY DEF Place, At, Typed, Rec
<1>2. t \in Task /\ On(t) \in Object /\ e \in Event
  BY <1>1, ThreadFacts
<1>3. k' = Block(i, t, thread[t].left, TRUE) /\ Goes(t, r)
  BY DEF Place, Goes
<1> HIDE DEF h, e
<1>4. /\ s \in Sched /\ SameTime(s, k) /\ SameWait(s, k) /\ SameLists(s, k) /\ SameRun(s, k)
      /\ s.held = k.held
      /\ \A u \in Task : s.prio[u] = IF OnMutex(t) /\ u = h /\ k.prio[h] < k.prio[t] THEN k.prio[t]
                                     ELSE k.prio[u]
  <2>1. CASE OnMutex(t)
    <3>1. h \in Task
      BY <2>1 DEF h
    <3>2. s = Inherit(k, h, t)
      BY <2>1
    <3> HIDE DEF s
    <3>3. /\ s \in Sched /\ SameTime(s, k) /\ SameWait(s, k) /\ SameLists(s, k) /\ SameRun(s, k)
          /\ s.held = k.held
      BY <1>1, <1>2, <3>1, <3>2, InheritFacts
    <3>4. \A u \in Task : s.prio[u] = IF u = h /\ k.prio[h] < k.prio[t] THEN k.prio[t] ELSE k.prio[u]
      <4>1. k \in Sched /\ t \in Task
        BY <1>1, <1>2
      <4> QED BY ZenonT(40), <3>1, <3>2, <4>1, InheritFacts
    <3> QED BY <2>1, <3>3, <3>4
  <2>2. CASE ~OnMutex(t)
    BY <1>1, <2>2 DEF SameTime, SameWait, SameLists, SameRun
  <2> QED BY <2>1, <2>2
<1> HIDE DEF s
<1>5. /\ i \in Sched /\ SameTime(i, s) /\ SameWait(i, s) /\ SamePrio(i, s) /\ SameRun(i, s)
      /\ i.pend = s.pend
      /\ \A d \in Event \ {e} : i.event[d] = s.event[d]
      /\ \E p : Behind(s.event[e], s.prio, t, p) /\ i.event[e] = InsertAt(s.event[e], p, t)
  BY <1>2, <1>4, InsertFacts
<1> HIDE DEF i
<1>6. /\ k' \in Sched /\ SameTime(k', i) /\ SameLists(k', i) /\ SamePrio(k', i) /\ SameRun(k', i)
      /\ \A u \in Task \ {t} : k'.state[u] = i.state[u] /\ k'.wake[u] = i.wake[u]
      /\ k'.state[t] # "ready" /\ (thread[t].left = Forever <=> k'.state[t] = "suspended")
  <2>1. PICK b \in BOOLEAN : b = TRUE
    OBVIOUS
  <2>2. k' = Block(i, t, thread[t].left, b)
    BY <1>3, <2>1 DEF Block
  <2>3. i \in Sched /\ t \in Task /\ thread[t].left \in 0..Forever
    BY <1>1, <1>2, <1>5
  <2>4. /\ k' \in Sched /\ SameTime(k', i) /\ SameLists(k', i) /\ SamePrio(k', i) /\ SameRun(k', i)
        /\ \A u \in Task \ {t} : k'.state[u] = i.state[u] /\ k'.wake[u] = i.wake[u]
    BY <2>2, <2>3, BlockEffect
  <2>5. k'.state[t] # "ready" /\ (b => (thread[t].left = Forever <=> k'.state[t] = "suspended"))
    BY <2>2, <2>3, BlockEffect
  <2> QED BY <2>1, <2>4, <2>5
<1>7. /\ Moves(t, r) /\ r.left = thread[t].left /\ (r.inherited => OnMutex(t)) /\ r.pc = "unlock"
      /\ r.entered = thread[t].entered /\ r.start = thread[t].start
  <2>1. inherited \in BOOLEAN /\ (inherited => OnMutex(t))
    OBVIOUS
  <2> HIDE DEF inherited
  <2> QED BY <1>1, <1>3, <2>1, Strings DEF Moves, Rec
<1> HIDE DEF r
<1>8. \E p : Behind(k.event[e], k'.prio, t, p) /\ k'.event[e] = InsertAt(k.event[e], p, t)
  <2>1. k'.prio = s.prio /\ k'.event = i.event /\ s.event = k.event
    BY <1>4, <1>5, <1>6 DEF SamePrio, SameLists
  <2> QED BY <1>5, <2>1
<1>9. /\ SameRun(k', k) /\ SameTime(k', k) /\ k'.pend = k.pend /\ k'.held = k.held
      /\ \A u \in Task \ {t} : k'.state[u] = k.state[u] /\ k'.wake[u] = k.wake[u]
      /\ \A d \in Event \ {e} : k'.event[d] = k.event[d]
  BY <1>4, <1>5, <1>6 DEF SameRun, SameTime, SameLists, SamePrio, SameWait
<1>10. \A u \in Task : k'.prio[u] = IF OnMutex(t) /\ u = h /\ k.prio[h] < k.prio[t] THEN k.prio[t]
                                    ELSE k.prio[u]
  BY <1>4, <1>5, <1>6 DEF SamePrio
<1> QED BY <1>1, <1>2, <1>6, <1>7, <1>8, <1>9, <1>10 DEF h, e

\* Place keeps Typed and Control.
LEMMA PlaceControl ==
  ASSUME Typed, Control, NEW t \in Thread, Place(t), OnMutex(t) => queue[On(t)].holder \in Task
  PROVE  Typed' /\ Control'
<1>1. /\ k.cur = t /\ thread[t].pc = "place" /\ waited' = waited /\ queue' = queue
      /\ path' = "blocked" /\ Op(t).do # "delay"
      /\ k' \in Sched /\ SameRun(k', k) /\ k'.state[t] # "ready"
  BY PlaceEffect
<1>2. PICK r : /\ Moves(t, r) /\ r.left = thread[t].left /\ (r.inherited => OnMutex(t)) /\ r.pc = "unlock"
  BY PlaceEffect
<1>3. /\ thread' \in [Thread -> Rec] /\ thread'[t] = r
      /\ \A u \in Thread \ {t} : thread'[u] = thread[u]
      /\ Op(t)' = Op(t) /\ On(t)' = On(t) /\ OnMutex(t)' = OnMutex(t)
  BY <1>2, MovesFacts
<1>4. /\ k.susp
      /\ \A o \in Object : queue[o].lock # Unlocked <=> On(t) = o /\ Op(t).do # "delay"
  BY <1>1, InsideRun DEF Inside
<1>5. Sound(t)'
  <2>1. Sound(t)
    BY DEF Control
  <2> QED BY <1>1, <1>2, <1>3, <1>4, <2>1 DEF Sound, Inside, SameRun
<1>6. Typed'
  BY <1>1, <1>2, <1>3, TypedSame DEF Typed
<1>7. Control'
  BY <1>1, <1>2, <1>3, <1>4, <1>5, InsideControl DEF None, SameRun
<1> QED BY <1>6, <1>7

\* What PlaceDelay does.
LEMMA PlaceDelayEffect ==
  ASSUME Typed, Control, NEW t \in Thread, PlaceDelay(t)
  PROVE  /\ k.cur = t /\ thread[t].pc = "place" /\ waited' = waited /\ queue' = queue
         /\ path' = "blocked" /\ Op(t).do = "delay"
         /\ k' \in Sched /\ SameRun(k', k) /\ SameTime(k', k) /\ SameLists(k', k) /\ SamePrio(k', k)
         /\ \A u \in Task \ {t} : k'.state[u] = k.state[u] /\ k'.wake[u] = k.wake[u]
         /\ k'.state[t] \notin {"ready", "suspended"}
         /\ \E r : /\ Moves(t, r) /\ r.left = thread[t].left /\ r.inherited = thread[t].inherited
                   /\ r.pc = "resume" /\ r.entered = thread[t].entered
<1> DEFINE r == [thread[t] EXCEPT !.pc = "resume"]
<1>1. /\ k.cur = t /\ thread[t].pc = "place" /\ waited' = waited /\ queue' = queue
      /\ path' = "blocked" /\ Op(t).do = "delay" /\ thread[t] \in Rec /\ k \in Sched
      /\ thread[t].left \in 0..Forever /\ t \in Task
  BY DEF PlaceDelay, At, Typed, Rec, Thread
<1>2. k' = Block(k, t, thread[t].left, FALSE) /\ Goes(t, r)
  BY DEF PlaceDelay, Goes, Goto
<1>3. /\ k' \in Sched /\ SameTime(k', k) /\ SameLists(k', k) /\ SamePrio(k', k) /\ SameRun(k', k)
      /\ \A u \in Task \ {t} : k'.state[u] = k.state[u] /\ k'.wake[u] = k.wake[u]
      /\ k'.state[t] \notin {"ready", "suspended"}
  <2>1. PICK b \in BOOLEAN : b = FALSE
    OBVIOUS
  <2>2. k' = Block(k, t, thread[t].left, b)
    BY <1>2, <2>1 DEF Block
  <2> QED BY <1>1, <2>1, <2>2, BlockEffect
<1>4. /\ Moves(t, r) /\ r.left = thread[t].left /\ r.inherited = thread[t].inherited
      /\ r.pc = "resume" /\ r.entered = thread[t].entered
  BY <1>1, <1>2, Strings DEF Moves, Rec
<1> QED BY <1>1, <1>3, <1>4

\* PlaceDelay keeps Typed and Control.
LEMMA PlaceDelayControl ==
  ASSUME Typed, Control, NEW t \in Thread, PlaceDelay(t) PROVE Typed' /\ Control'
<1>1. /\ k.cur = t /\ thread[t].pc = "place" /\ waited' = waited /\ queue' = queue
      /\ path' = "blocked" /\ Op(t).do = "delay"
      /\ k' \in Sched /\ SameRun(k', k) /\ k'.state[t] # "ready"
  BY PlaceDelayEffect
<1>2. PICK r : /\ Moves(t, r) /\ r.left = thread[t].left /\ r.inherited = thread[t].inherited
               /\ r.pc = "resume"
  BY PlaceDelayEffect
<1>3. /\ thread' \in [Thread -> Rec] /\ thread'[t] = r
      /\ \A u \in Thread \ {t} : thread'[u] = thread[u]
      /\ Op(t)' = Op(t) /\ On(t)' = On(t) /\ OnMutex(t)' = OnMutex(t)
  BY <1>2, MovesFacts
<1>4. /\ k.susp
      /\ \A o \in Object : queue[o].lock # Unlocked <=> On(t) = o /\ Op(t).do # "delay"
  BY <1>1, InsideRun DEF Inside
<1>5. Sound(t)'
  <2>1. Sound(t)
    BY DEF Control
  <2> QED BY <1>1, <1>2, <1>3, <1>4, <2>1 DEF Sound, Inside, SameRun
<1>6. Typed'
  BY <1>1, <1>2, <1>3, TypedSame DEF Typed
<1>7. Control'
  BY <1>1, <1>2, <1>3, <1>4, <1>5, InsideControl DEF None, SameRun
<1> QED BY <1>6, <1>7

\* Goto changes pc only.
LEMMA GotoGoes ==
  ASSUME Typed, NEW t \in Thread, NEW pc \in Pcs, Goto(t, pc)
  PROVE  \E r : /\ Moves(t, r) /\ r.pc = pc /\ r.left = thread[t].left
                /\ r.inherited = thread[t].inherited /\ r.entered = thread[t].entered
                /\ r.start = thread[t].start
<1> DEFINE r == [thread[t] EXCEPT !.pc = pc]
<1>1. Goes(t, r) /\ thread[t] \in Rec
  BY DEF Goto, Goes, Typed
<1>2. /\ Moves(t, r) /\ r.pc = pc /\ r.left = thread[t].left
      /\ r.inherited = thread[t].inherited /\ r.entered = thread[t].entered
      /\ r.start = thread[t].start
  BY <1>1 DEF Rec, Moves
<1> HIDE DEF r
<1> QED BY <1>2

\* What Unlock does.
LEMMA UnlockEffect ==
  ASSUME Typed, Control, NEW t \in Thread, Unlock(t)
  PROVE  LET e == <<On(t), "receive">>
             l == queue[On(t)].lock
         IN
         /\ k.cur = t /\ thread[t].pc = "unlock" /\ waited' = waited /\ path' = path
         /\ Op(t).do # "delay" /\ On(t) \in Object /\ e \in Event /\ l \in Nat
         /\ k' \in Sched /\ SameTime(k', k) /\ SameWait(k', k) /\ SamePrio(k', k) /\ SameRun(k', k)
         /\ \E n : UnlockedK(k, k', e, n) /\ n <= l /\ (n = l \/ n = Len(k.event[e]))
         /\ queue' \in [Object -> Queue]
         /\ queue'[On(t)].count = queue[On(t)].count /\ queue'[On(t)].holder = queue[On(t)].holder
         /\ queue'[On(t)].lock = Unlocked
         /\ \A o \in Object \ {On(t)} : queue'[o] = queue[o]
         /\ \E r : /\ Moves(t, r) /\ r.pc = "resume" /\ r.left = thread[t].left
                   /\ r.inherited = thread[t].inherited /\ r.entered = thread[t].entered
                   /\ r.start = thread[t].start
<1> DEFINE e == <<On(t), "receive">>
           l == queue[On(t)].lock
<1>1. k.cur = t /\ thread[t].pc = "unlock" /\ waited' = waited /\ path' = path /\ Goto(t, "resume")
  BY DEF Unlock, At
<1>2. Op(t).do # "delay"
  BY <1>1 DEF Control, Sound
<1>3. On(t) \in Object /\ e \in Event /\ t \in Task /\ queue[On(t)] \in Queue
  BY <1>2, ThreadFacts
<1>4. l \in Nat
  <2>1. l # Unlocked
    BY <1>1, <1>2, <1>3, InsideRun DEF Inside
  <2>2. l \in Int /\ Unlocked <= l
    BY <1>3 DEF Typed, Queue
  <2> QED BY <2>1, <2>2 DEF Unlocked
<1>5. LET n == Min({l, Len(k.event[e])})
          woken == SubSeq(k.event[e], 1, n)
      IN k' = [k EXCEPT !.event[e] = SubSeq(@, n + 1, Len(@)), !.pend = @ \o woken,
                        !.yield = @ \/ \E u \in ToSet(woken) : k.prio[u] > k.prio[t]]
  BY DEF Unlock
<1>6. /\ queue' \in [Object -> Queue]
      /\ queue'[On(t)].count = queue[On(t)].count /\ queue'[On(t)].holder = queue[On(t)].holder
      /\ queue'[On(t)].lock = Unlocked
      /\ \A o \in Object \ {On(t)} : queue'[o] = queue[o]
  <2>1. queue \in [Object -> Queue] /\ Unlocked \in Int
    BY DEF Typed, Unlocked
  <2> QED BY <1>3, <2>1 DEF Unlock, Queue
<1>7. \E r : /\ Moves(t, r) /\ r.pc = "resume" /\ r.left = thread[t].left
             /\ r.inherited = thread[t].inherited /\ r.entered = thread[t].entered
             /\ r.start = thread[t].start
  BY <1>1, Strings, GotoGoes
<1>8. k \in Sched
  BY DEF Typed
<1> HIDE DEF e, l
<1>9. /\ k' \in Sched /\ SameTime(k', k) /\ SameWait(k', k) /\ SamePrio(k', k) /\ SameRun(k', k)
      /\ \E n : UnlockedK(k, k', e, n) /\ n <= l /\ (n = l \/ n = Len(k.event[e]))
  BY <1>3, <1>4, <1>5, <1>8, UnlockFacts
<1> QED BY <1>1, <1>2, <1>3, <1>4, <1>6, <1>7, <1>9 DEF e, l

\* Unlock keeps Typed and Control.
LEMMA UnlockControl ==
  ASSUME Typed, Control, NEW t \in Thread, Unlock(t) PROVE Typed' /\ Control'
<1>1. /\ k.cur = t /\ thread[t].pc = "unlock" /\ waited' = waited /\ path' = path
      /\ Op(t).do # "delay" /\ On(t) \in Object
      /\ k' \in Sched /\ SameTime(k', k) /\ SameWait(k', k) /\ SameRun(k', k)
      /\ queue' \in [Object -> Queue]
      /\ queue'[On(t)].count = queue[On(t)].count
      /\ queue'[On(t)].lock = Unlocked
      /\ \A o \in Object \ {On(t)} : queue'[o] = queue[o]
  BY UnlockEffect
<1>2. PICK r : /\ Moves(t, r) /\ r.pc = "resume" /\ r.left = thread[t].left
               /\ r.inherited = thread[t].inherited
  <2>1. Goto(t, "resume")
    BY DEF Unlock
  <2> QED BY <2>1, Strings, GotoGoes
<1>3. /\ thread' \in [Thread -> Rec] /\ thread'[t] = r
      /\ \A u \in Thread \ {t} : thread'[u] = thread[u]
      /\ Op(t)' = Op(t) /\ On(t)' = On(t) /\ OnMutex(t)' = OnMutex(t)
  BY <1>2, MovesFacts
<1>4. /\ k.susp
      /\ path # None
      /\ path = "expired" => thread[t].left # Forever
      /\ path = "blocked" => k.state[t] # "ready"
      /\ path # "blocked" => k.state[t] = "ready"
      /\ \A o \in Object : queue[o].lock # Unlocked <=> On(t) = o /\ Op(t).do # "delay"
  BY <1>1, InsideRun DEF Inside
<1>5. Sound(t)'
  <2>1. Sound(t)
    BY DEF Control
  <2> QED BY <1>1, <1>2, <1>3, <1>4, <2>1 DEF Sound, Inside, SameRun
<1>6. Typed'
  <2>1. \A o \in Object : /\ queue'[o].count <= Size[o]
                          /\ Unlocked <= queue'[o].lock /\ queue'[o].lock <= queue'[o].count
                          /\ o \notin FromISR => queue'[o].lock <= 0
    <3>1. queue[On(t)].count \in Nat
      BY <1>1 DEF Typed, Queue
    <3> QED BY <1>1, <3>1 DEF Typed, Unlocked
  <2> QED BY <1>1, <1>3, <2>1 DEF Typed
<1>7. \A o \in Object : queue'[o].lock = Unlocked
  BY <1>1, <1>4
<1>8. Control'
  BY <1>1, <1>2, <1>3, <1>4, <1>5, <1>7, InsideControl DEF SameRun, SameWait
<1> QED BY <1>6, <1>8

-----------------------------------------------------------------------------
\* What ResumeAll does.
LEMMA ResumeAllEffect ==
  ASSUME Typed, Control, NEW t \in Thread, ResumeAll(t)
  PROVE  /\ k.cur = t /\ thread[t].pc = "resume" /\ k.susp /\ queue' = queue /\ path' = None
         /\ path \in {"again", "blocked", "expired"}
         /\ \E woken : Tidied(k', k, woken) /\ (path = "blocked" => k'.cur \in Highest(k'))
         /\ \/ /\ waited' = waited
               /\ \E r : /\ Moves(t, r) /\ r.left = thread[t].left
                         /\ r.inherited = thread[t].inherited /\ r.entered = thread[t].entered
                         /\ r.start = thread[t].start
                         /\ \/ r.pc = "try" /\ path # "expired"
                            \/ r.pc = "expired" /\ path = "expired" /\ Op(t).do = "take"
            \/ path = "expired" /\ Op(t).do = "give" /\ Return(t, FALSE)
<1>1. /\ k.cur = t /\ thread[t].pc = "resume" /\ queue' = queue /\ path' = None
  BY DEF ResumeAll, At
<1>2. k.susp /\ path # None
  BY <1>1, InsideRun DEF Inside
<1>3. path \in {"again", "blocked", "expired"} /\ k \in Sched
  BY <1>2 DEF Typed
<1>4. \E woken : Tidied(k', k, woken) /\ (path = "blocked" => k'.cur \in Highest(k'))
  <2>1. PICK b \in BOOLEAN : b <=> path = "blocked"
    OBVIOUS
  <2>2. k' \in YieldIf(Resumed(k).yield \/ b, Resumed(k))
    BY <2>1 DEF ResumeAll, YieldIf
  <2>3. \E woken : Tidied(k', k, woken) /\ (b => k'.cur \in Highest(k'))
    BY <1>3, <2>2, ResumeTidies
  <2> QED BY <2>1, <2>3
<1>5. CASE path # "expired" /\ Goto(t, "try") /\ waited' = waited
  <2>1. \E r : /\ Moves(t, r) /\ r.pc = "try" /\ r.left = thread[t].left
               /\ r.inherited = thread[t].inherited /\ r.entered = thread[t].entered
               /\ r.start = thread[t].start
    BY <1>5, Strings, GotoGoes
  <2> QED BY <1>1, <1>2, <1>3, <1>4, <1>5, <2>1
<1>6. CASE path = "expired" /\ Op(t).do = "take" /\ Goto(t, "expired") /\ waited' = waited
  <2>1. \E r : /\ Moves(t, r) /\ r.pc = "expired" /\ r.left = thread[t].left
               /\ r.inherited = thread[t].inherited /\ r.entered = thread[t].entered
               /\ r.start = thread[t].start
    BY <1>6, Strings, GotoGoes
  <2> QED BY <1>1, <1>2, <1>3, <1>4, <1>6, <2>1
<1>7. CASE path = "expired" /\ Op(t).do = "give" /\ Return(t, FALSE)
  BY <1>1, <1>2, <1>3, <1>4, <1>7
<1> QED BY <1>5, <1>6, <1>7 DEF ResumeAll

\* The thread that has caught up runs, or another one of the highest priority.
LEMMA ResumedRuns ==
  ASSUME Typed, Control, NEW t \in Thread, k.cur = t, k.susp, NEW woken, Tidied(k', k, woken),
         path = "blocked" => k'.cur \in Highest(k')
  PROVE  k'.state[k'.cur] = "ready"
<1>1. CASE k'.cur \in Highest(k')
  BY <1>1, HighestReady
<1>2. CASE k'.cur \notin Highest(k')
  <2>1. path # "blocked" /\ k'.cur = t /\ t \in Task
    BY <1>2 DEF Tidied, Thread
  <2>2. k.state[t] = "ready"
    BY <2>1 DEF Control
  <2> QED BY <2>1, <2>2 DEF Tidied
<1> QED BY <1>1, <1>2

\* ResumeAll keeps Typed and Control.
LEMMA ResumeAllControl ==
  ASSUME Typed, Control, NEW t \in Thread, ResumeAll(t) PROVE Typed' /\ Control'
<1>1. /\ k.cur = t /\ thread[t].pc = "resume" /\ k.susp /\ queue' = queue /\ path' = None
  BY ResumeAllEffect
<1>2. PICK woken : Tidied(k', k, woken) /\ (path = "blocked" => k'.cur \in Highest(k'))
  BY ResumeAllEffect
<1>3. k' \in Sched /\ ~k'.susp /\ k'.pend = <<>> /\ k'.pended = 0
  BY <1>2 DEF Tidied
<1>4. k'.state[k'.cur] = "ready"
  BY <1>1, <1>2, ResumedRuns
<1>5. /\ thread' \in [Thread -> Rec] /\ waited' \in [Thread -> 0..TickMod] /\ Sound(t)'
      /\ \A u \in Thread \ {t} : thread'[u] = thread[u]
  <2>1. CASE path = "expired" /\ Op(t).do = "give" /\ Return(t, FALSE)
    <3>1. waited' \in [Thread -> 0..TickMod]
      BY <2>1, ReturnFacts
    <3>2. PICK p \in Seq(Calls) \ {<<>>} : Goes(t, Calling(p))
      BY <2>1, ReturnFacts
    <3>3. thread' \in [Thread -> Rec] /\ thread'[t] = Calling(p)
          /\ \A u \in Thread \ {t} : thread'[u] = thread[u]
      BY <3>2, CallingFacts, GoesFacts DEF Typed
    <3>4. Sound(t)'
      BY <1>3, <3>3, SoundCalling
    <3> QED BY <3>1, <3>3, <3>4
  <2>2. CASE /\ waited' = waited
             /\ \E r : /\ Moves(t, r) /\ r.left = thread[t].left
                       /\ r.inherited = thread[t].inherited
                       /\ \/ r.pc = "try"
                          \/ r.pc = "expired" /\ path = "expired" /\ Op(t).do = "take"
    <3>1. PICK r : /\ Moves(t, r) /\ r.left = thread[t].left
                   /\ r.inherited = thread[t].inherited
                   /\ \/ r.pc = "try"
                      \/ r.pc = "expired" /\ path = "expired" /\ Op(t).do = "take"
      BY <2>2
    <3>2. /\ thread' \in [Thread -> Rec] /\ thread'[t] = r
          /\ \A u \in Thread \ {t} : thread'[u] = thread[u]
          /\ Op(t)' = Op(t) /\ On(t)' = On(t) /\ OnMutex(t)' = OnMutex(t)
      BY <3>1, MovesFacts
    <3>3. Sound(t) /\ (path = "expired" => thread[t].left # Forever)
      BY <1>1 DEF Control
    <3>4. Sound(t)'
      BY <1>1, <1>3, <3>1, <3>2, <3>3 DEF Sound, Inside
    <3> QED BY <2>2, <3>2, <3>4 DEF Typed
  <2> QED BY ZenonT(40), <2>1, <2>2, ResumeAllEffect
<1>6. ASSUME NEW u \in Thread \ {t} PROVE Sound(u)'
  <2>1. Sound(u)
    BY DEF Control
  <2> QED BY <1>1, <1>3, <1>5, <2>1, SoundOther
<1>7. \A u \in Thread : Sound(u)'
  BY <1>5, <1>6
<1>8. \A o \in Object : queue[o].lock = Unlocked /\ ~Locking(o)'
  BY <1>1, <1>3, InsideRun DEF Inside, Locking
<1>9. Typed'
  BY <1>1, <1>3, <1>5, TypedSame
<1>10. Control'
  BY <1>1, <1>3, <1>4, <1>7, <1>8 DEF Control, None
<1> QED BY <1>9, <1>10

\* Max of two naturals.
LEMMA MaxFacts ==
  ASSUME NEW a \in Nat, NEW b \in Nat
  PROVE  Max({a, b}) \in {a, b} /\ Max({a, b}) >= a /\ Max({a, b}) >= b
<1> DEFINE is(x) == x \in {a, b} /\ \A y \in {a, b} : y <= x
<1>1. \E x : is(x)
  <2>1. CASE a <= b
    BY <2>1
  <2>2. CASE ~(a <= b)
    BY <2>2
  <2> QED BY <2>1, <2>2
<1>2. Max({a, b}) = CHOOSE x \in {a, b} : \A y \in {a, b} : x >= y
  BY DEF Max
<1>3. Max({a, b}) \in {a, b} /\ \A y \in {a, b} : Max({a, b}) >= y
  BY <1>1, <1>2
<1> QED BY <1>3

\* What Restore does.
LEMMA RestoreEffect ==
  ASSUME Typed, Control, NEW t \in Thread, Restore(t)
  PROVE  LET h == queue[On(t)].holder
             w == k.event[<<On(t), "receive">>]
             top == IF w = <<>> THEN k.prio[Idle] ELSE k.prio[Head(w)]
         IN
         /\ k.cur = t /\ thread[t].pc = "restore" /\ queue' = queue /\ path' = path /\ Return(t, FALSE)
         /\ On(t) \in Object /\ OnMutex(t) /\ Op(t).do = "take" /\ thread[t].left # Forever
         /\ k' \in Sched /\ SameTime(k', k) /\ SameWait(k', k) /\ SameLists(k', k) /\ SameRun(k', k)
         /\ k'.held = k.held
         /\ \E p : /\ h # None => p \in {Base[h], top} /\ p >= Base[h] /\ p >= top
                   /\ \A u \in Task : k'.prio[u] = IF u = h /\ k.held[u] = 1 THEN p ELSE k.prio[u]
<1> DEFINE h == queue[On(t)].holder
           w == k.event[<<On(t), "receive">>]
           top == IF w = <<>> THEN k.prio[Idle] ELSE k.prio[Head(w)]
<1>1. k.cur = t /\ thread[t].pc = "restore" /\ queue' = queue /\ path' = path /\ Return(t, FALSE)
  BY DEF Restore, At
<1>2. Op(t).do = "take" /\ OnMutex(t) /\ thread[t].left # Forever
  BY <1>1 DEF Control, Sound
<1>3. On(t) \in Object /\ queue[On(t)] \in Queue /\ <<On(t), "receive">> \in Event /\ k \in Sched
  BY <1>2, ThreadFacts DEF Typed
<1>4. w \in Seq(Task) /\ k.prio \in [Task -> Nat] /\ Idle \in Task
  BY <1>3, TaskAssumption DEF Sched
<1>5. top \in Nat
  <2>1. CASE w = <<>>
    BY <1>4, <2>1
  <2>2. CASE w # <<>>
    <3>1. Head(w) \in Task
      BY <1>4, <2>2, HeadTailProperties
    <3> QED BY <1>4, <2>2, <3>1
  <2> QED BY <2>1, <2>2
<1>6. h \in Task \cup {None} /\ None \notin Task
  BY <1>3, TaskAssumption DEF Queue
<1>7. HighestWaiting(On(t)) = top
  BY DEF HighestWaiting
<1>8. k' = IF h # None /\ k.held[h] = 1 THEN [k EXCEPT !.prio[h] = Max({Base[h], top})] ELSE k
  BY <1>7 DEF Restore
<1> HIDE DEF top, w, h
<1>9. CASE h = None
  <2>1. k' = k /\ \A u \in Task : u # h
    BY <1>6, <1>8, <1>9
  <2>2. /\ k' \in Sched /\ SameTime(k', k) /\ SameWait(k', k) /\ SameLists(k', k) /\ SameRun(k', k)
        /\ k'.held = k.held
        /\ \A u \in Task : k'.prio[u] = IF u = h /\ k.held[u] = 1 THEN 0 ELSE k.prio[u]
    BY <1>3, <2>1 DEF SameTime, SameWait, SameLists, SameRun
  <2> QED BY <1>1, <1>2, <1>3, <1>9, <2>2 DEF top, w, h
<1>10. CASE h # None
  <2> DEFINE p == Max({Base[h], top})
             prio == [k.prio EXCEPT ![h] = IF k.held[h] = 1 THEN p ELSE @]
  <2>1. h \in Task /\ Base[h] \in Nat
    BY <1>6, <1>10, TaskAssumption
  <2>2. p \in {Base[h], top} /\ p >= Base[h] /\ p >= top /\ p \in Nat
    BY <1>5, <2>1, MaxFacts
  <2> HIDE DEF p
  <2>3. /\ prio \in [Task -> Nat]
        /\ \A u \in Task : prio[u] = IF u = h /\ k.held[u] = 1 THEN p ELSE k.prio[u]
    BY <1>4, <2>1, <2>2
  <2>4. k' = [k EXCEPT !.prio = prio]
    <3>1. CASE k.held[h] = 1
      <4>1. k' = [k EXCEPT !.prio[h] = p]
        BY <1>8, <1>10, <3>1 DEF p
      <4> QED BY <1>3, <3>1, <4>1 DEF Sched
    <3>2. CASE k.held[h] # 1
      <4>1. prio = k.prio
        BY <1>4, <2>1, <3>2
      <4>2. k = [k EXCEPT !.prio = k.prio]
        BY <1>3 DEF Sched
      <4> HIDE DEF prio
      <4> QED BY <1>8, <3>2, <4>1, <4>2
    <3> QED BY <3>1, <3>2
  <2> HIDE DEF prio
  <2>5. /\ k' \in Sched /\ SameTime(k', k) /\ SameWait(k', k) /\ SameLists(k', k) /\ SameRun(k', k)
        /\ k'.held = k.held /\ k'.prio = prio
    BY <1>3, <2>3, <2>4 DEF Sched, SameTime, SameWait, SameLists, SameRun
  <2>6. \E pp : /\ h # None => pp \in {Base[h], top} /\ pp >= Base[h] /\ pp >= top
                /\ \A u \in Task : k'.prio[u] = IF u = h /\ k.held[u] = 1 THEN pp ELSE k.prio[u]
    BY <2>2, <2>3, <2>5
  <2> QED BY <1>1, <1>2, <1>3, <2>5, <2>6 DEF top, w, h
<1> QED BY <1>9, <1>10

\* Restore keeps Typed and Control.
LEMMA RestoreControl ==
  ASSUME Typed, Control, NEW t \in Thread, Restore(t) PROVE Typed' /\ Control'
<1>1. /\ k.cur = t /\ thread[t].pc = "restore" /\ queue' = queue /\ path' = path /\ Return(t, FALSE)
      /\ k' \in Sched /\ SameTime(k', k) /\ SameWait(k', k) /\ SameLists(k', k) /\ SameRun(k', k)
  BY RestoreEffect
<1>2. ~k.susp /\ ~k'.susp /\ k'.state[k'.cur] = "ready"
  BY <1>1, AwakeRun DEF Inside, SameRun, SameWait
<1>3. /\ thread' \in [Thread -> Rec] /\ waited' \in [Thread -> 0..TickMod]
      /\ \A u \in Thread : Sound(u)'
  BY <1>1, <1>2, ReturnControl
<1>4. Typed'
  BY <1>1, <1>3, TypedSame DEF Typed
<1>5. Control'
  BY <1>1, <1>2, <1>3, AwakeControl DEF SameTime, SameLists
<1> QED BY <1>4, <1>5

-----------------------------------------------------------------------------
\* What GiveFromISR does.
LEMMA GiveFromISREffect ==
  ASSUME Typed, Control, NEW o \in Object, GiveFromISR(o)
  PROVE  LET e == <<o, "receive">> IN
         /\ o \in FromISR /\ o \notin Mutex /\ e \in Event
         /\ thread' = thread /\ path' = path /\ waited' = waited /\ queue[o].count < Size[o]
         /\ queue' \in [Object -> Queue]
         /\ queue'[o].count = queue[o].count + 1 /\ queue'[o].holder = queue[o].holder
         /\ \A p \in Object \ {o} : queue'[p] = queue[p]
         /\ \/ /\ queue[o].lock = Unlocked /\ queue'[o].lock = Unlocked
               /\ Wake(k, e).yield \in BOOLEAN /\ k' \in YieldIf(Wake(k, e).yield, Wake(k, e))
            \/ queue[o].lock # Unlocked /\ queue'[o].lock = queue[o].lock + 1 /\ k' = k
<1> DEFINE e == <<o, "receive">>
<1>1. /\ o \in FromISR /\ o \notin Mutex /\ e \in Event
      /\ thread' = thread /\ path' = path /\ waited' = waited /\ queue[o].count < Size[o]
  BY ObjectAssumption DEF GiveFromISR, Event
<1>2. queue \in [Object -> Queue] /\ queue[o].count + 1 \in Nat /\ queue[o].lock + 1 \in Int /\ k \in Sched
  BY DEF Typed, Queue
<1>3. CASE queue[o].lock = Unlocked
  <2>1. queue' = [queue EXCEPT ![o].count = @ + 1] /\ k' \in YieldIf(Wake(k, e).yield, Wake(k, e))
    BY <1>3 DEF GiveFromISR
  <2>2. /\ queue' \in [Object -> Queue] /\ queue'[o].count = queue[o].count + 1
        /\ queue'[o].holder = queue[o].holder /\ queue'[o].lock = queue[o].lock
        /\ \A p \in Object \ {o} : queue'[p] = queue[p]
    BY <1>2, <2>1 DEF Queue
  <2> HIDE DEF e
  <2>3. Wake(k, e).yield \in BOOLEAN
    BY <1>1, <1>2, WakeFacts DEF Sched
  <2> QED BY <1>1, <1>3, <2>1, <2>2, <2>3 DEF e
<1>4. CASE queue[o].lock # Unlocked
  <2>1. queue' = [queue EXCEPT ![o].count = @ + 1, ![o].lock = @ + 1] /\ k' = k
    BY <1>4 DEF GiveFromISR
  <2>2. /\ queue' \in [Object -> Queue] /\ queue'[o].count = queue[o].count + 1
        /\ queue'[o].holder = queue[o].holder /\ queue'[o].lock = queue[o].lock + 1
        /\ \A p \in Object \ {o} : queue'[p] = queue[p]
    BY <1>2, <2>1 DEF Queue
  <2> QED BY <1>1, <1>4, <2>1, <2>2
<1> QED BY <1>3, <1>4

\* GiveFromISR keeps Typed and Control.
LEMMA GiveFromISRControl ==
  ASSUME Typed, Control, NEW o \in Object, GiveFromISR(o) PROVE Typed' /\ Control'
<1> DEFINE e == <<o, "receive">>
<1>1. /\ o \in FromISR /\ e \in Event
      /\ thread' = thread /\ path' = path /\ waited' = waited /\ queue[o].count < Size[o]
      /\ queue' \in [Object -> Queue]
      /\ queue'[o].count = queue[o].count + 1
      /\ \A p \in Object \ {o} : queue'[p] = queue[p]
  BY GiveFromISREffect
<1>2. \/ queue[o].lock = Unlocked /\ queue'[o].lock = Unlocked
      \/ queue[o].lock # Unlocked /\ queue'[o].lock = queue[o].lock + 1
  BY GiveFromISREffect
<1>3. /\ k' \in Sched /\ SameTime(k', k) /\ k'.susp = k.susp
      /\ k.susp => k'.cur = k.cur /\ k'.state = k.state
      /\ ~k.susp => k'.pend = k.pend /\ k'.state[k'.cur] = "ready"
  <2>1. CASE k' = k
    <3>1. ~k.susp => k.state[k.cur] = "ready"
      BY DEF Control, None
    <3> QED BY <2>1, <3>1 DEF Typed, SameTime
  <2>2. CASE \E b \in BOOLEAN : k' \in YieldIf(b, Wake(k, e))
    <3> HIDE DEF e
    <3>1. k \in Sched
      BY DEF Typed
    <3>2. PICK b \in BOOLEAN : k' \in YieldIf(b, Wake(k, e))
      BY <2>2
    <3>3. CASE k.susp
      <4>1. /\ k' \in Sched /\ SameTime(k', k) /\ k'.susp = k.susp
            /\ k.susp => k'.cur = k.cur
        BY <1>1, <3>1, <3>2, WakeYield
      <4>2. k'.state = k.state
        BY <1>1, <3>1, <3>2, <3>3, WakeYield
      <4> QED BY <3>3, <4>1, <4>2
    <3>4. CASE ~k.susp
      <4>1. k.state[k.cur] = "ready"
        BY <3>4 DEF Control, None
      <4>2. /\ k' \in Sched /\ SameTime(k', k) /\ ~k'.susp /\ k'.pend = k.pend
            /\ k'.state[k'.cur] = "ready"
        BY <1>1, <3>1, <3>2, <3>4, <4>1, WakeAwake
      <4>3. k'.susp = k.susp
        BY <1>1, <3>1, <3>2, WakeYield
      <4> QED BY <3>4, <4>2, <4>3
    <3> QED BY <3>3, <3>4
  <2>3. (\E b \in BOOLEAN : k' \in YieldIf(b, Wake(k, e))) \/ k' = k
    BY GiveFromISREffect
  <2> QED BY <2>1, <2>2, <2>3
<1>4. Typed'
  <2>1. \A p \in Object : /\ queue'[p].count <= Size[p]
                          /\ Unlocked <= queue'[p].lock /\ queue'[p].lock <= queue'[p].count
                          /\ p \notin FromISR => queue'[p].lock <= 0
    <3>1. queue[o].count \in Nat /\ Size[o] \in Nat /\ queue[o].lock \in Int /\ queue[o].lock <= queue[o].count
          /\ Unlocked <= queue[o].lock
      BY ObjectAssumption DEF Typed, Queue
    <3>2. queue'[o].count <= Size[o] /\ Unlocked <= queue'[o].lock /\ queue'[o].lock <= queue'[o].count
      BY <1>1, <1>2, <3>1 DEF Unlocked
    <3>3. ASSUME NEW p \in Object \ {o}
          PROVE  /\ queue'[p].count <= Size[p]
                 /\ Unlocked <= queue'[p].lock /\ queue'[p].lock <= queue'[p].count
                 /\ p \notin FromISR => queue'[p].lock <= 0
      BY <1>1 DEF Typed
    <3> QED BY <1>1, <3>2, <3>3
  <2> QED BY <1>1, <1>3, <2>1 DEF Typed
<1>5. \A p \in Object : queue'[p].lock # Unlocked <=> queue[p].lock # Unlocked
  <2>1. queue[o].lock \in Int /\ Unlocked <= queue[o].lock
    BY DEF Typed, Queue
  <2>2. queue'[o].lock # Unlocked <=> queue[o].lock # Unlocked
    BY <1>2, <2>1 DEF Unlocked
  <2> QED BY <1>1, <2>2
<1>6. \A t \in Thread : Sound(t)'
  <2>1. \A t \in Thread : Sound(t) /\ ((k'.susp /\ t = k'.cur) <=> (k.susp /\ t = k.cur))
    BY <1>3 DEF Control
  <2> QED BY <1>1, <2>1, SoundOther
<1>7. \A p \in Object : Locking(p)' <=> Locking(p)
  BY <1>1, <1>3 DEF Locking, On, Op
<1>8. CASE k.susp
  <2>1. k'.susp /\ k'.cur = k.cur /\ k'.state = k.state
    BY <1>3, <1>8
  <2>2. \A p \in Object : queue'[p].lock # Unlocked <=> Locking(p)'
    BY <1>5, <1>7 DEF Control
  <2>3. Control'
    BY <1>1, <1>6, <1>8, <2>1, <2>2 DEF Control
  <2> QED BY <1>4, <2>3
<1>9. CASE ~k.susp
  <2>1. ~k'.susp /\ k'.state[k'.cur] = "ready" /\ k'.pend = k.pend /\ k'.pended = k.pended /\ path = None
    BY <1>3, <1>9 DEF SameTime, Control
  <2>2. \A p \in Object : queue'[p].lock # Unlocked <=> Locking(p)'
    BY <1>5, <1>7 DEF Control
  <2>3. Control'
    BY <1>1, <1>6, <1>9, <2>1, <2>2 DEF Control, None
  <2> QED BY <1>4, <2>3
<1> QED BY <1>8, <1>9
-----------------------------------------------------------------------------
\* What SysTick does.
LEMMA SysTickEffect ==
  ASSUME Typed, Control, SysTick
  PROVE  /\ queue' = queue /\ thread' = thread /\ path' = path
         /\ waited' \in [Thread -> 0..TickMod]
         /\ \/ /\ k.susp /\ k' \in Sched /\ k'.pended = k.pended + 1 /\ k'.tick = k.tick /\ k'.over = k.over
               /\ SameWait(k', k) /\ SameLists(k', k) /\ SamePrio(k', k) /\ SameRun(k', k)
            \/ ~k.susp /\ \E woken : Tidied(k', k, woken)
<1>1. queue' = queue /\ thread' = thread /\ path' = path /\ k \in Sched
  BY DEF SysTick, Typed
<1>2. waited' \in [Thread -> 0..TickMod]
  <2>1. waited' = [t \in Thread |-> IF Timed(t) THEN waited[t] + 1 ELSE waited[t]]
    BY DEF SysTick
  <2>2. \A t \in Thread : waited[t] \in 0..TickMod /\ waited[t] < TickMod
    BY DEF SysTick, Typed
  <2>3. \A t \in Thread : waited[t] \in 0..TickMod /\ waited[t] + 1 \in 0..TickMod
    BY <2>2, TickAssumption
  <2> QED BY <2>1, <2>3
<1>3. CASE k.susp /\ k.pended < MaxPended /\ k' = [k EXCEPT !.pended = @ + 1]
  <2>1. k.pended + 1 \in 0..MaxPended
    <3>1. k.pended \in 0..MaxPended
      BY <1>1 DEF Sched
    <3> QED BY <1>3, <3>1, TickAssumption
  <2>2. /\ k' \in Sched /\ k'.pended = k.pended + 1 /\ k'.tick = k.tick /\ k'.over = k.over
        /\ SameWait(k', k) /\ SameLists(k', k) /\ SamePrio(k', k) /\ SameRun(k', k)
    BY <1>1, <1>3, <2>1 DEF Sched, SameWait, SameLists, SamePrio, SameRun
  <2> QED BY <1>1, <1>2, <1>3, <2>2
<1>4. CASE ~k.susp /\ k' \in YieldIf(IncrementTick(k).yield, IncrementTick(k))
  <2>1. k.pend = <<>> /\ k.pended = 0
    BY <1>4 DEF Control
  <2>2. \E woken : Tidied(k', k, woken)
    BY <1>1, <1>4, <2>1, TickTidies
  <2> QED BY <1>1, <1>2, <1>4, <2>2
<1> QED BY <1>3, <1>4 DEF SysTick

\* SysTick keeps Typed and Control.
LEMMA SysTickControl ==
  ASSUME Typed, Control, SysTick PROVE Typed' /\ Control'
<1>1. /\ queue' = queue /\ thread' = thread /\ path' = path
      /\ waited' \in [Thread -> 0..TickMod]
      /\ \/ /\ k.susp /\ k' \in Sched
            /\ SameWait(k', k) /\ SameLists(k', k) /\ SamePrio(k', k) /\ SameRun(k', k)
         \/ ~k.susp /\ \E woken : Tidied(k', k, woken)
  BY SysTickEffect
<1>2. CASE /\ k.susp /\ k' \in Sched
           /\ SameWait(k', k) /\ SameLists(k', k) /\ SamePrio(k', k) /\ SameRun(k', k)
  <2>1. \A t \in Thread : Sound(t) /\ ((k'.susp /\ t = k'.cur) <=> (k.susp /\ t = k.cur))
    BY <1>2 DEF Control, SameRun
  <2>2. \A t \in Thread : Sound(t)'
    BY <1>1, <2>1, SoundOther
  <2>3. \A o \in Object : queue'[o].lock # Unlocked <=> Locking(o)'
    BY <1>1, <1>2 DEF Locking, On, Op, Control, SameRun
  <2>4. k'.susp /\ k'.cur = k.cur /\ k'.state = k.state
    BY <1>2 DEF SameRun, SameWait
  <2>5. Control'
    BY <1>1, <1>2, <2>2, <2>3, <2>4 DEF Control
  <2> QED BY <1>1, <1>2, <2>5 DEF Typed
<1>3. ASSUME ~k.susp, NEW woken, Tidied(k', k, woken) PROVE Typed' /\ Control'
  <2>1. k' \in Sched /\ ~k'.susp /\ k'.pend = <<>> /\ k'.pended = 0
    BY <1>3 DEF Tidied
  <2>2. k.pend = <<>> /\ k.pended = 0 /\ k.state[k.cur] = "ready" /\ k.cur \in Task
    BY <1>3 DEF Control, None, Typed, Sched
  <2>3. k'.state[k'.cur] = "ready"
    <3>1. CASE k'.cur \in Highest(k')
      BY <3>1, HighestReady
    <3>2. CASE k'.cur = k.cur
      BY <1>3, <2>2, <3>2 DEF Tidied
    <3> QED BY <1>3, <3>1, <3>2 DEF Tidied
  <2>4. \A t \in Thread : Sound(t)'
    <3>1. \A t \in Thread : Sound(t) /\ ((k'.susp /\ t = k'.cur) <=> (k.susp /\ t = k.cur))
      BY <1>3, <2>1 DEF Control
    <3> QED BY <1>1, <3>1, SoundOther
  <2>5. Control'
    BY <1>1, <1>3, <2>1, <2>2, <2>3, <2>4, AwakeControl
  <2> QED BY <1>1, <2>1, <2>5 DEF Typed
<1> QED BY <1>1, <1>2, <1>3

\* Typed and Control hold at first.
LEMMA InitControl ==
  ASSUME Init PROVE Typed /\ Control
<1>1. PICK first \in [Thread -> UNION {Programs[t] : t \in Thread}] :
       /\ \A t \in Thread : first[t] \in Programs[t]
       /\ thread = [t \in Thread |-> Calling(first[t])]
  BY DEF Init
<1>2. \A t \in Thread : first[t] \in Seq(Calls) \ {<<>>}
  BY <1>1, ProgramsAssumption DEF Thread
<1>3. /\ k.tick = 0 /\ k.unblock = Forever /\ k.over = {} /\ k.pended = 0
      /\ k.susp = FALSE /\ k.yield = FALSE /\ k.pend = <<>> /\ k.cur \in Task
      /\ k.state = [t \in Task |-> "ready"] /\ k.wake = [t \in Task |-> 0]
      /\ k.prio = Base /\ k.held = [t \in Task |-> 0] /\ k.event = [e \in Event |-> <<>>]
      /\ k \in [tick : {0}, unblock : {Forever}, over : {{}}, pended : {0},
                susp : {FALSE}, yield : {FALSE}, pend : {<<>>}, cur : Task,
                state : {[t \in Task |-> "ready"]}, wake : {[t \in Task |-> 0]},
                prio : {Base}, held : {[t \in Task |-> 0]},
                event : {[e \in Event |-> <<>>]}]
  BY DEF Init
<1>4. k \in Sched
  <2>1. <<>> \in Seq(Task) /\ 0 \in Nat /\ 0 \in 0..MaxPended /\ "ready" \in States
    BY EmptySeq, TickAssumption DEF States
  <2>2. /\ k.tick \in Ticks /\ k.unblock \in 0..Forever /\ k.over \in SUBSET Task
        /\ k.pended \in 0..MaxPended /\ k.susp \in BOOLEAN /\ k.yield \in BOOLEAN
        /\ k.pend \in Seq(Task)
    BY <1>3, <2>1, Tock
  <2>3. /\ k.state \in [Task -> States] /\ k.wake \in [Task -> Ticks]
        /\ k.prio \in [Task -> Nat] /\ k.held \in [Task -> Nat] /\ k.event \in [Event -> Seq(Task)]
    BY <1>3, <2>1, Tock, TaskAssumption
  <2>4. k = [tick |-> k.tick, unblock |-> k.unblock, over |-> k.over, pended |-> k.pended,
             susp |-> k.susp, yield |-> k.yield, pend |-> k.pend, cur |-> k.cur,
             state |-> k.state, wake |-> k.wake, prio |-> k.prio, held |-> k.held,
             event |-> k.event]
    BY <1>3
  <2> QED BY <1>3, <2>2, <2>3, <2>4 DEF Sched
<1>5. /\ queue = [o \in Object |-> [count |-> Initial[o], lock |-> Unlocked, holder |-> None]]
      /\ path = None /\ waited = [t \in Thread |-> 0]
  BY DEF Init
<1>6. Typed
  <2>1. queue \in [Object -> Queue] /\ waited \in [Thread -> 0..TickMod]
    BY <1>5, ObjectAssumption, TickAssumption DEF Queue, Unlocked
  <2>2. thread \in [Thread -> Rec]
    BY <1>1, <1>2, CallingFacts
  <2>3. \A o \in Object : /\ queue[o].count <= Size[o]
                          /\ Unlocked <= queue[o].lock /\ queue[o].lock <= queue[o].count
                          /\ o \notin FromISR => queue[o].lock <= 0
    BY <1>5, ObjectAssumption DEF Unlocked
  <2> QED BY <1>4, <1>5, <2>1, <2>2, <2>3 DEF Typed
<1>7. Control
  <2>1. ASSUME NEW t \in Thread PROVE Sound(t)
    <3> DEFINE p == first[t]
    <3>1. /\ Calling(p).todo = p /\ Calling(p).left = Head(p).wait /\ ~Calling(p).inherited
          /\ Calling(p).pc = IF Head(p).do = "delay" THEN "suspend" ELSE "try"
      BY <1>2, CallingFacts
    <3>2. Op(t) = Head(p) /\ thread[t].left = Op(t).wait /\ thread[t].inherited = FALSE
          /\ thread[t].pc = IF Op(t).do = "delay" THEN "suspend" ELSE "try"
      BY <1>1, <3>1 DEF Op, Calling
    <3> QED BY <1>3, <3>2 DEF Sound, Inside
  <2>2. k.state[k.cur] = "ready"
    BY <1>3
  <2>3. \A o \in Object : queue[o].lock = Unlocked /\ ~Locking(o)
    BY <1>3, <1>5 DEF Locking
  <2> QED BY <1>3, <1>5, <2>1, <2>2, <2>3 DEF Control, None
<1> QED BY <1>6, <1>7

\* The mutexes that t holds.
Holds(t) == {m \in Mutex : queue[m].holder = t}

\* The calls that are left of the n-th on in p; the thread holds what p holds there.
Position(t, p, n) ==
  /\ p \in Programs[t] /\ n \in 1..Len(p) /\ thread[t].todo = SubSeq(p, n, Len(p))
  /\ Holds(t) = {m \in Mutex : Has(p, m, n)}

\* uxMutexesHeld is their number.
Counted(t) == IsFiniteSet(Holds(t)) /\ k.held[t] = Cardinality(Holds(t))

\* A mutex is given at once, and waited for only as long as it is held.
Waiting(t) ==
  /\ OnMutex(t) /\ Op(t).do = "give" => thread[t].pc = "try"
  /\ OnMutex(t) /\ Op(t).do = "take" /\ thread[t].pc = "place" => queue[On(t)].count = 0

\* A mutex is held by one thread or available; a thread holds what its program holds where it is.
Mutexes ==
  /\ \A m \in Mutex : /\ queue[m].holder = None <=> queue[m].count = 1
                      /\ queue[m].holder \in Thread \cup {None}
  /\ k.held[Idle] = 0
  /\ \A t \in Thread : Counted(t) /\ Waiting(t) /\ \E p, n : Position(t, p, n)

-----------------------------------------------------------------------------
\* The call at a position.
LEMMA PositionFacts ==
  ASSUME NEW t \in Thread, NEW p, NEW n, Position(t, p, n)
  PROVE  /\ p \in Seq(Calls) \ {<<>>} /\ Proper(p) /\ n \in 1..Len(p) /\ n \in Nat \ {0} /\ Len(p) \in Nat
         /\ Op(t) = p[n] /\ p[n] \in Calls
         /\ Tail(thread[t].todo) = SubSeq(p, n + 1, Len(p))
         /\ Tail(thread[t].todo) # <<>> <=> n < Len(p)
<1>1. p \in Seq(Calls) \ {<<>>} /\ Proper(p)
  BY ProgramsAssumption, BalanceAssumption DEF Position, Thread
<1>2. Len(p) \in Nat /\ n \in 1..Len(p) /\ thread[t].todo = SubSeq(p, n, Len(p))
  BY <1>1, LenProperties DEF Position
<1>3. /\ Head(thread[t].todo) = p[n] /\ p[n] \in Calls
      /\ Tail(thread[t].todo) = SubSeq(p, n + 1, Len(p))
      /\ Tail(thread[t].todo) # <<>> <=> n < Len(p)
  BY <1>1, <1>2, FromFacts
<1> QED BY <1>1, <1>2, <1>3 DEF Op

\* The program goes on, or another one begins with no mutex in hand.
LEMMA ReturnPosition ==
  ASSUME Typed, NEW t \in Thread, NEW ok, NEW p, NEW n, Position(t, p, n), Return(t, ok),
         ok \/ ~OnMutex(t) => Holds(t)' = {m \in Mutex : Has(p, m, n + 1)},
         ~ok /\ OnMutex(t) => Holds(t)' = {}
  PROVE  \E q, i : Position(t, q, i)' /\ (q = p \/ Holds(t)' = {})
<1>1. /\ p \in Seq(Calls) \ {<<>>} /\ Proper(p) /\ n \in 1..Len(p) /\ n \in Nat \ {0} /\ Len(p) \in Nat
      /\ Tail(thread[t].todo) = SubSeq(p, n + 1, Len(p))
      /\ Tail(thread[t].todo) # <<>> <=> n < Len(p)
  BY PositionFacts
<1>2. PICK q \in Seq(Calls) \ {<<>>} :
              /\ Goes(t, Calling(q))
              /\ \/ q = Tail(thread[t].todo) /\ (ok \/ ~OnMutex(t))
                 \/ q \in Programs[t] /\ (Tail(thread[t].todo) = <<>> \/ (~ok /\ OnMutex(t)))
  BY ReturnFacts
<1>3. thread'[t].todo = q
  <2>1. thread'[t] = Calling(q) /\ Calling(q).todo = q
    BY <1>2, CallingFacts, GoesFacts DEF Typed
  <2> QED BY <2>1
<1>4. CASE q = Tail(thread[t].todo) /\ (ok \/ ~OnMutex(t))
  <2>1. n + 1 \in 1..Len(p) /\ thread'[t].todo = SubSeq(p, n + 1, Len(p))
    BY <1>1, <1>2, <1>3, <1>4
  <2>2. Position(t, p, n + 1)'
    BY <1>4, <2>1 DEF Position
  <2> QED BY <2>2
<1>5. CASE q \in Programs[t] /\ (Tail(thread[t].todo) = <<>> \/ (~ok /\ OnMutex(t)))
  <2>1. Holds(t)' = {}
    <3>1. CASE ~ok /\ OnMutex(t)
      BY <3>1
    <3>2. CASE Tail(thread[t].todo) = <<>> /\ (ok \/ ~OnMutex(t))
      <4>1. n = Len(p)
        BY <1>1, <3>2
      <4>2. \A m \in Mutex : ~Has(p, m, n + 1)
        BY <1>1, <4>1 DEF Proper
      <4> QED BY <3>2, <4>2
    <3> QED BY <1>5, <3>1, <3>2
  <2>2. q = SubSeq(q, 1, Len(q)) /\ 1 \in 1..Len(q)
    BY WholeProgram
  <2>3. Position(t, q, 1)'
    BY <1>3, <1>5, <2>1, <2>2, HasFirst DEF Position
  <2> QED BY <2>1, <2>3
<1> QED BY <1>2, <1>4, <1>5

\* What the program holds before its next call.
LEMMA NextHolds ==
  ASSUME Typed, NEW t \in Thread, NEW p, NEW n, Position(t, p, n)
  PROVE  /\ Op(t).do = "take" =>
              {m \in Mutex : Has(p, m, n + 1)} = Holds(t) \cup ({On(t)} \cap Mutex)
         /\ Op(t).do = "give" =>
              {m \in Mutex : Has(p, m, n + 1)} = Holds(t) \ {On(t)}
         /\ ~OnMutex(t) \/ Op(t).do = "delay" => {m \in Mutex : Has(p, m, n + 1)} = Holds(t)
         /\ OnMutex(t) /\ Op(t).do = "take" => On(t) \notin Holds(t)
         /\ OnMutex(t) /\ Op(t).do = "take" /\ Op(t).wait # Forever => Holds(t) = {}
         /\ OnMutex(t) /\ Op(t).do = "give" => On(t) \in Holds(t)
<1>1. /\ p \in Seq(Calls) \ {<<>>} /\ Proper(p) /\ n \in 1..Len(p) /\ n \in Nat \ {0} /\ Op(t) = p[n]
  BY PositionFacts
<1>2. \A m : Has(p, m, n + 1) <=> Takes(p[n], m) \/ (Has(p, m, n) /\ ~Gives(p[n], m))
  BY <1>1, HasNext
<1>3. Holds(t) = {m \in Mutex : Has(p, m, n)}
  BY DEF Position
<1>4. /\ \A m : Takes(p[n], m) <=> Op(t).do = "take" /\ On(t) = m
      /\ \A m : Gives(p[n], m) <=> Op(t).do = "give" /\ On(t) = m
  BY <1>1 DEF Takes, Gives, On
<1>5. OnMutex(t) /\ Op(t).do = "take" => On(t) \notin Holds(t)
  BY <1>1, <1>3, <1>4 DEF Proper, OnMutex
<1>6. OnMutex(t) /\ Op(t).do = "take" /\ Op(t).wait # Forever => Holds(t) = {}
  BY <1>1, <1>3, <1>4 DEF Proper, OnMutex
<1>7. OnMutex(t) /\ Op(t).do = "give" => On(t) \in Holds(t)
  BY <1>1, <1>3, <1>4 DEF Proper, OnMutex
<1>8. Op(t).do = "take" => {m \in Mutex : Has(p, m, n + 1)} = Holds(t) \cup ({On(t)} \cap Mutex)
  BY <1>2, <1>3, <1>4
<1>9. Op(t).do = "give" => {m \in Mutex : Has(p, m, n + 1)} = Holds(t) \ {On(t)}
  BY <1>2, <1>3, <1>4
<1>10. ~OnMutex(t) \/ Op(t).do = "delay" => {m \in Mutex : Has(p, m, n + 1)} = Holds(t)
  BY <1>2, <1>3, <1>4 DEF OnMutex
<1> QED BY <1>5, <1>6, <1>7, <1>8, <1>9, <1>10

\* A thread that stays in its call, with its mutexes, keeps its position.
LEMMA PositionSame ==
  ASSUME NEW t, NEW p, NEW n, Position(t, p, n), thread'[t].todo = thread[t].todo, Holds(t)' = Holds(t)
  PROVE  Position(t, p, n)'
  BY DEF Position

\* Mutexes that nobody takes or gives.
SameMutexes == \A m \in Mutex : queue'[m].holder = queue[m].holder /\ queue'[m].count = queue[m].count

\* Without a change of the mutexes every thread holds what it held.
LEMMA SameHolds ==
  ASSUME SameMutexes, NEW t PROVE Holds(t)' = Holds(t)
  BY DEF SameMutexes, Holds

\* Another thread, without a change of the mutexes.
LEMMA OtherMutexes ==
  ASSUME Mutexes, SameMutexes, k'.held = k.held, NEW u \in Thread, thread'[u] = thread[u]
  PROVE  Counted(u)' /\ Waiting(u)' /\ \E p, n : Position(u, p, n)'
<1>1. Holds(u)' = Holds(u)
  BY SameHolds
<1>2. PICK p, n : Position(u, p, n)
  BY DEF Mutexes
<1>3. Position(u, p, n)'
  BY <1>1, <1>2, PositionSame
<1>4. Counted(u) /\ Waiting(u)
  BY DEF Mutexes
<1>5. Counted(u)'
  BY <1>1, <1>4 DEF Counted
<1>6. Waiting(u)'
  BY <1>4 DEF Waiting, OnMutex, On, Op, SameMutexes
<1> QED BY <1>3, <1>5, <1>6

\* A step in which nobody takes or gives a mutex.
LEMMA KeepMutexes ==
  ASSUME Mutexes, SameMutexes, k'.held = k.held, NEW t \in Thread,
         \A u \in Thread \ {t} : thread'[u] = thread[u],
         Waiting(t)', \E p, n : Position(t, p, n)'
  PROVE  Mutexes'
<1>1. Counted(t)'
  <2>1. Counted(t) /\ Holds(t)' = Holds(t)
    BY SameHolds DEF Mutexes
  <2> QED BY <2>1 DEF Counted
<1>2. ASSUME NEW u \in Thread PROVE Counted(u)' /\ Waiting(u)' /\ \E p, n : Position(u, p, n)'
  <2>1. CASE u = t
    BY <1>1, <2>1
  <2>2. CASE u # t
    BY <2>2, OtherMutexes
  <2> QED BY <2>1, <2>2
<1>3. \A m \in Mutex : /\ queue'[m].holder = None <=> queue'[m].count = 1
                       /\ queue'[m].holder \in Thread \cup {None}
  BY DEF Mutexes, SameMutexes
<1>4. k'.held[Idle] = 0
  BY DEF Mutexes
<1> QED BY <1>2, <1>3, <1>4 DEF Mutexes

\* Only interrupts.
LEMMA OutsideMutexes ==
  ASSUME Mutexes, SameMutexes, k'.held = k.held, thread' = thread PROVE Mutexes'
<1>1. ASSUME NEW u \in Thread PROVE Counted(u)' /\ Waiting(u)' /\ \E p, n : Position(u, p, n)'
  BY OtherMutexes
<1>2. \A m \in Mutex : /\ queue'[m].holder = None <=> queue'[m].count = 1
                       /\ queue'[m].holder \in Thread \cup {None}
  BY DEF Mutexes, SameMutexes
<1>3. k'.held[Idle] = 0
  BY DEF Mutexes
<1> QED BY <1>1, <1>2, <1>3 DEF Mutexes

\* A thread that begins a call waits for nothing.
LEMMA ReturnWaiting ==
  ASSUME Typed, NEW t \in Thread, NEW ok, Return(t, ok) PROVE Waiting(t)'
<1>1. PICK p \in Seq(Calls) \ {<<>>} : Goes(t, Calling(p))
  BY ReturnFacts
<1>2. thread'[t] = Calling(p) /\ Calling(p) \in Rec
  BY <1>1, CallingFacts, GoesFacts DEF Typed
<1>3. Calling(p).todo = p /\ Calling(p).pc = IF Head(p).do = "delay" THEN "suspend" ELSE "try"
  BY CallingFacts
<1> QED BY <1>2, <1>3 DEF Waiting, Op

\* A call that ends without a mutex.
LEMMA ReturnMutexes ==
  ASSUME Typed, Mutexes, SameMutexes, k'.held = k.held, NEW t \in Thread, NEW ok,
         Return(t, ok), ok => Op(t).do = "delay", OnMutex(t) => Holds(t) = {} \/ Op(t).do = "delay",
         ~ok => Op(t).do # "delay"
  PROVE  Mutexes'
<1>1. PICK p, n : Position(t, p, n)
  BY DEF Mutexes
<1>2. Holds(t)' = Holds(t)
  BY SameHolds
<1>3. ok \/ ~OnMutex(t) => Holds(t)' = {m \in Mutex : Has(p, m, n + 1)}
  BY <1>1, <1>2, NextHolds
<1>4. ~ok /\ OnMutex(t) => Holds(t)' = {}
  BY <1>2
<1>5. \E q, i : Position(t, q, i)' /\ (q = p \/ Holds(t)' = {})
  BY <1>1, <1>3, <1>4, ReturnPosition
<1>6. Waiting(t)'
  BY ReturnWaiting
<1>7. \A u \in Thread \ {t} : thread'[u] = thread[u]
  <2>1. PICK q \in Seq(Calls) \ {<<>>} : Goes(t, Calling(q))
    BY ReturnFacts
  <2> QED BY <2>1, CallingFacts, GoesFacts DEF Typed
<1> QED BY <1>5, <1>6, <1>7, KeepMutexes

\* A call that goes on.
LEMMA StayMutexes ==
  ASSUME Typed, Mutexes, SameMutexes, k'.held = k.held, NEW t \in Thread, NEW r,
         Moves(t, r), OnMutex(t) /\ Op(t).do = "give" => r.pc = "try",
         OnMutex(t) /\ Op(t).do = "take" /\ r.pc = "place" => queue[On(t)].count = 0
  PROVE  Mutexes'
<1>1. /\ thread'[t] = r /\ thread'[t].todo = thread[t].todo
      /\ \A u \in Thread \ {t} : thread'[u] = thread[u]
      /\ Op(t)' = Op(t) /\ On(t)' = On(t) /\ OnMutex(t)' = OnMutex(t)
  BY MovesFacts DEF Moves
<1>2. PICK p, n : Position(t, p, n)
  BY DEF Mutexes
<1>3. Holds(t)' = Holds(t)
  BY SameHolds
<1>4. Position(t, p, n)'
  BY <1>1, <1>2, <1>3, PositionSame
<1>5. Waiting(t)'
  BY <1>1 DEF Waiting, SameMutexes, OnMutex
<1> QED BY <1>1, <1>4, <1>5, KeepMutexes

\* A mutex is never given by an interrupt; it is available or a thread holds it.
LEMMA MutexFacts ==
  ASSUME Typed, Mutexes, NEW m \in Mutex
  PROVE  /\ m \in Object /\ Size[m] = 1 /\ m \notin FromISR
         /\ queue[m].count \in {0, 1} /\ queue[m].lock <= 0
         /\ queue[m].holder = None <=> queue[m].count = 1
         /\ queue[m].holder # None => queue[m].holder \in Thread /\ queue[m].holder \in Task
         /\ None \notin Thread
<1>1. m \in Object /\ Size[m] = 1 /\ m \notin FromISR /\ None \notin Thread
  BY ObjectAssumption, TaskAssumption DEF Thread
<1>2. queue[m].count \in Nat /\ queue[m].count <= 1
  BY <1>1 DEF Typed, Queue
<1>3. queue[m].count \in {0, 1}
  BY <1>2
<1> QED BY <1>1, <1>3 DEF Typed, Mutexes, Thread

\* Who gives a mutex holds it: it can be given at once.
LEMMA GiverHolds ==
  ASSUME Typed, Mutexes, NEW t \in Thread, OnMutex(t), Op(t).do = "give"
  PROVE  /\ queue[On(t)].holder = t /\ On(t) \in Holds(t) /\ Possible(t) /\ k.held[t] >= 1
         /\ thread[t].pc = "try"
<1>1. PICK p, n : Position(t, p, n)
  BY DEF Mutexes
<1>2. On(t) \in Holds(t)
  BY <1>1, NextHolds
<1>3. queue[On(t)].holder = t
  BY <1>2 DEF Holds
<1>4. On(t) \in Mutex
  BY DEF OnMutex
<1>5. queue[On(t)].count = 0 /\ Size[On(t)] = 1
  BY <1>3, <1>4, MutexFacts
<1>6. Possible(t)
  BY <1>5 DEF Possible
<1>7. k.held[t] >= 1
  <2>1. IsFiniteSet(Holds(t)) /\ k.held[t] = Cardinality(Holds(t))
    BY DEF Mutexes, Counted
  <2>2. Cardinality(Holds(t)) \in Nat /\ Cardinality(Holds(t)) # 0
    BY <1>2, <2>1, FS_CardinalityType, FS_EmptySet
  <2> QED BY <2>1, <2>2
<1>8. thread[t].pc = "try"
  BY DEF Mutexes, Waiting
<1> QED BY <1>2, <1>3, <1>6, <1>7, <1>8

\* Who waits for a mutex for a time only, holds none.
LEMMA TimedHolds ==
  ASSUME Typed, Control, Mutexes, NEW t \in Thread, OnMutex(t), thread[t].left # Forever,
         Op(t).do = "take"
  PROVE  Holds(t) = {}
<1>1. PICK p, n : Position(t, p, n)
  BY DEF Mutexes
<1>2. Op(t).wait # Forever
  BY DEF Control, Sound
<1> QED BY <1>1, <1>2, NextHolds

-----------------------------------------------------------------------------
\* SysTick keeps Mutexes.
LEMMA SysTickMutexes ==
  ASSUME Typed, Control, Mutexes, SysTick PROVE Mutexes'
<1>1. queue' = queue /\ thread' = thread /\ k'.held = k.held
  BY SysTickEffect DEF SamePrio, Tidied
<1> QED BY <1>1, OutsideMutexes DEF SameMutexes

\* GiveFromISR keeps Mutexes.
LEMMA GiveFromISRMutexes ==
  ASSUME Typed, Control, Mutexes, NEW o \in Object, GiveFromISR(o) PROVE Mutexes'
<1> DEFINE e == <<o, "receive">>
<1>1. o \notin Mutex /\ e \in Event /\ thread' = thread /\ \A p \in Object \ {o} : queue'[p] = queue[p]
  BY GiveFromISREffect
<1>2. (\E b \in BOOLEAN : k' \in YieldIf(b, Wake(k, e))) \/ k' = k
  BY GiveFromISREffect
<1> HIDE DEF e
<1>3. k'.held = k.held
  <2>1. CASE \E b \in BOOLEAN : k' \in YieldIf(b, Wake(k, e))
    <3>1. PICK b \in BOOLEAN : k' \in YieldIf(b, Wake(k, e))
      BY <2>1
    <3>2. SamePrio(k', k)
      BY <1>1, <3>1, WakeYield DEF Typed
    <3> QED BY <3>2 DEF SamePrio
  <2> QED BY <1>2, <2>1
<1>4. SameMutexes
  BY <1>1, ObjectAssumption DEF SameMutexes
<1> QED BY <1>1, <1>3, <1>4, OutsideMutexes

\* Refuse keeps Mutexes.
LEMMA RefuseMutexes ==
  ASSUME Typed, Control, Mutexes, NEW t \in Thread, Refuse(t) PROVE Mutexes'
<1>1. /\ k' = k /\ queue' = queue /\ Op(t).do # "delay" /\ ~Possible(t) /\ thread[t].left = 0
      /\ (Goto(t, "halted") \/ Return(t, FALSE))
  BY DEF Refuse
<1>2. SameMutexes /\ k'.held = k.held
  BY <1>1 DEF SameMutexes
<1>3. ~(OnMutex(t) /\ Op(t).do = "give")
  BY <1>1, GiverHolds
<1>4. Op(t).do \in {"take", "give"} /\ 0 # Forever
  <2>1. Op(t).do \in {"take", "give"}
    BY <1>1, ThreadFacts
  <2>2. 0 # Forever
    BY Tock
  <2> QED BY <2>1, <2>2
<1>5. CASE Goto(t, "halted")
  <2>1. PICK r : Moves(t, r) /\ r.pc = "halted"
    BY <1>5, Strings, GotoGoes
  <2> QED BY <1>2, <1>3, <2>1, StayMutexes
<1>6. CASE Return(t, FALSE)
  <2>1. OnMutex(t) => Holds(t) = {}
    BY <1>1, <1>3, <1>4, TimedHolds
  <2>2. PICK ok : ok = FALSE
    OBVIOUS
  <2>3. Return(t, ok)
    BY <1>6, <2>2
  <2> QED BY <1>1, <1>2, <2>1, <2>2, <2>3, ReturnMutexes
<1> QED BY <1>1, <1>5, <1>6

\* Expire keeps Mutexes.
LEMMA ExpireMutexes ==
  ASSUME Typed, Control, Mutexes, NEW t \in Thread, Expire(t) PROVE Mutexes'
<1>1. /\ k' = k /\ queue' = queue /\ thread[t].pc = "expired"
      /\ (Goto(t, "try") \/ Goto(t, "restore") \/ Return(t, FALSE))
  BY DEF Expire, At
<1>2. SameMutexes /\ k'.held = k.held
  BY <1>1 DEF SameMutexes
<1>3. Op(t).do = "take" /\ thread[t].left # Forever
  BY <1>1 DEF Control, Sound
<1>4. CASE Goto(t, "try") \/ Goto(t, "restore")
  <2>1. PICK r : Moves(t, r) /\ r.pc \in {"try", "restore"}
    BY <1>4, Strings, GotoGoes
  <2> QED BY <1>2, <1>3, <2>1, StayMutexes
<1>5. CASE Return(t, FALSE)
  <2>1. OnMutex(t) => Holds(t) = {}
    BY <1>3, TimedHolds
  <2>2. PICK ok : ok = FALSE
    OBVIOUS
  <2>3. Return(t, ok)
    BY <1>5, <2>2
  <2> QED BY <1>2, <1>3, <2>1, <2>2, <2>3, ReturnMutexes
<1> QED BY <1>1, <1>4, <1>5

\* Restore keeps Mutexes.
LEMMA RestoreMutexes ==
  ASSUME Typed, Control, Mutexes, NEW t \in Thread, Restore(t) PROVE Mutexes'
<1>1. /\ queue' = queue /\ Return(t, FALSE) /\ k'.held = k.held
      /\ Op(t).do = "take" /\ thread[t].left # Forever
  BY RestoreEffect
<1>2. SameMutexes
  BY <1>1 DEF SameMutexes
<1>3. OnMutex(t) => Holds(t) = {}
  BY <1>1, TimedHolds
<1>4. PICK ok : ok = FALSE
  OBVIOUS
<1>5. Return(t, ok)
  BY <1>1, <1>4
<1> QED BY <1>1, <1>2, <1>3, <1>4, <1>5, ReturnMutexes

\* DelayOver keeps Mutexes.
LEMMA DelayOverMutexes ==
  ASSUME Typed, Mutexes, NEW t \in Thread, DelayOver(t) PROVE Mutexes'
<1>1. queue' = queue /\ k' = k /\ Op(t).do = "delay" /\ Return(t, TRUE)
  BY DEF DelayOver
<1>2. SameMutexes /\ k'.held = k.held
  BY <1>1 DEF SameMutexes
<1>3. PICK ok : ok = TRUE
  OBVIOUS
<1>4. Return(t, ok)
  BY <1>1, <1>3
<1> QED BY <1>1, <1>2, <1>3, <1>4, ReturnMutexes

\* Enter keeps Mutexes.
LEMMA EnterMutexes ==
  ASSUME Typed, Control, Mutexes, NEW t \in Thread, Enter(t) PROVE Mutexes'
<1>1. ~Possible(t) /\ queue' = queue /\ SamePrio(k', k)
  BY EnterEffect DEF Enter
<1>2. PICK r : Moves(t, r) /\ r.pc = "suspend"
  BY EnterEffect DEF Moves
<1>3. ~(OnMutex(t) /\ Op(t).do = "give")
  BY <1>1, GiverHolds
<1> QED BY <1>1, <1>2, <1>3, StayMutexes DEF SameMutexes, SamePrio

\* SuspendAll keeps Mutexes.
LEMMA SuspendAllMutexes ==
  ASSUME Typed, Control, Mutexes, NEW t \in Thread, SuspendAll(t) PROVE Mutexes'
<1>1. queue' = queue /\ SamePrio(k', k) /\ thread[t].pc = "suspend"
  BY SuspendAllEffect
<1>2. PICK r : Moves(t, r) /\ r.pc = IF Op(t).do = "delay" THEN "place" ELSE "lock"
  BY SuspendAllEffect
<1>3. ~(OnMutex(t) /\ Op(t).do = "give")
  BY <1>1, GiverHolds
<1> QED BY <1>1, <1>2, <1>3, StayMutexes DEF SameMutexes, SamePrio

\* Lock keeps Mutexes.
LEMMA LockMutexes ==
  ASSUME Typed, Control, Mutexes, NEW t \in Thread, Lock(t) PROVE Mutexes'
<1>1. /\ On(t) \in Object /\ SamePrio(k', k) /\ thread[t].pc = "lock"
      /\ queue'[On(t)].count = queue[On(t)].count /\ queue'[On(t)].holder = queue[On(t)].holder
      /\ \A o \in Object \ {On(t)} : queue'[o] = queue[o]
  BY LockEffect
<1>2. PICK r : Moves(t, r) /\ (r.pc = "unlock" \/ r.pc = "test")
  BY LockEffect
<1>3. ~(OnMutex(t) /\ Op(t).do = "give")
  BY <1>1, GiverHolds
<1>4. SameMutexes
  BY <1>1, ObjectAssumption DEF SameMutexes
<1> QED BY <1>1, <1>2, <1>3, <1>4, StayMutexes DEF SamePrio

\* Test keeps Mutexes.
LEMMA TestMutexes ==
  ASSUME Typed, Control, Mutexes, NEW t \in Thread, Test(t) PROVE Mutexes'
<1>1. k' = k /\ queue' = queue /\ thread[t].pc = "test"
  BY TestEffect
<1>2. PICK r : Moves(t, r) /\ (r.pc = "unlock" \/ (r.pc = "place" /\ ~Possible(t)))
  BY TestEffect
<1>3. ~(OnMutex(t) /\ Op(t).do = "give")
  BY <1>1, GiverHolds
<1>4. OnMutex(t) /\ Op(t).do = "take" /\ r.pc = "place" => queue[On(t)].count = 0
  <2> SUFFICES ASSUME OnMutex(t), Op(t).do = "take", r.pc = "place" PROVE queue[On(t)].count = 0
    OBVIOUS
  <2>1. queue[On(t)].count \in {0, 1}
    BY MutexFacts DEF OnMutex
  <2>2. ~(queue[On(t)].count > 0)
    BY <1>2 DEF Possible
  <2> QED BY <2>1, <2>2
<1> QED BY <1>1, <1>2, <1>3, <1>4, StayMutexes DEF SameMutexes

\* Who blocks on a mutex finds it held.
LEMMA PlaceHeld ==
  ASSUME Typed, Control, Mutexes, NEW t \in Thread, thread[t].pc = "place", OnMutex(t),
         Op(t).do # "delay"
  PROVE  queue[On(t)].holder \in Thread /\ queue[On(t)].holder \in Task /\ Op(t).do = "take"
<1>1. Op(t).do = "take"
  <2>1. Op(t).do \in {"take", "give"}
    BY ThreadFacts
  <2> QED BY <2>1, GiverHolds
<1>2. queue[On(t)].count = 0
  BY <1>1 DEF Mutexes, Waiting
<1> QED BY <1>1, <1>2, MutexFacts DEF OnMutex

\* Place keeps Mutexes.
LEMMA PlaceMutexes ==
  ASSUME Typed, Control, Mutexes, NEW t \in Thread, Place(t) PROVE Mutexes'
<1>1. thread[t].pc = "place" /\ Op(t).do # "delay"
  BY DEF Place, At
<1>2. OnMutex(t) => queue[On(t)].holder \in Task /\ Op(t).do = "take"
  BY <1>1, PlaceHeld
<1>3. queue' = queue /\ k'.held = k.held
  BY <1>2, PlaceEffect
<1>4. PICK r : Moves(t, r) /\ r.pc = "unlock"
  BY <1>2, PlaceEffect
<1> QED BY <1>2, <1>3, <1>4, StayMutexes DEF SameMutexes

\* PlaceDelay keeps Mutexes.
LEMMA PlaceDelayMutexes ==
  ASSUME Typed, Control, Mutexes, NEW t \in Thread, PlaceDelay(t) PROVE Mutexes'
<1>1. queue' = queue /\ SamePrio(k', k) /\ Op(t).do = "delay"
  BY PlaceDelayEffect
<1>2. PICK r : Moves(t, r) /\ r.pc = "resume"
  BY PlaceDelayEffect
<1> QED BY <1>1, <1>2, StayMutexes DEF SameMutexes, SamePrio

\* Unlock keeps Mutexes.
LEMMA UnlockMutexes ==
  ASSUME Typed, Control, Mutexes, NEW t \in Thread, Unlock(t) PROVE Mutexes'
<1>1. /\ On(t) \in Object /\ SamePrio(k', k) /\ thread[t].pc = "unlock"
      /\ queue'[On(t)].count = queue[On(t)].count /\ queue'[On(t)].holder = queue[On(t)].holder
      /\ \A o \in Object \ {On(t)} : queue'[o] = queue[o]
  BY UnlockEffect
<1>2. PICK r : Moves(t, r) /\ r.pc = "resume"
  <2>1. Goto(t, "resume")
    BY DEF Unlock
  <2> QED BY <2>1, Strings, GotoGoes
<1>3. ~(OnMutex(t) /\ Op(t).do = "give")
  BY <1>1, GiverHolds
<1>4. SameMutexes
  BY <1>1, ObjectAssumption DEF SameMutexes
<1> QED BY <1>1, <1>2, <1>3, <1>4, StayMutexes DEF SamePrio

\* ResumeAll keeps Mutexes.
LEMMA ResumeAllMutexes ==
  ASSUME Typed, Control, Mutexes, NEW t \in Thread, ResumeAll(t) PROVE Mutexes'
<1>1. queue' = queue /\ thread[t].pc = "resume"
  BY ResumeAllEffect
<1>2. k'.held = k.held
  <2>1. PICK woken : Tidied(k', k, woken)
    BY ResumeAllEffect
  <2> QED BY <2>1 DEF Tidied, SamePrio
<1>3. SameMutexes
  BY <1>1 DEF SameMutexes
<1>4. ~(OnMutex(t) /\ Op(t).do = "give")
  BY <1>1, GiverHolds
<1>5. CASE \E r : Moves(t, r) /\ r.pc \in {"try", "expired"}
  BY <1>2, <1>3, <1>4, <1>5, StayMutexes
<1>6. CASE Op(t).do = "give" /\ Return(t, FALSE)
  <2>1. PICK ok : ok = FALSE
    OBVIOUS
  <2>2. Return(t, ok)
    BY <1>6, <2>1
  <2> QED BY <1>2, <1>3, <1>4, <1>6, <2>1, <2>2, ReturnMutexes
<1> QED BY <1>5, <1>6, ResumeAllEffect

\* Another thread, while one takes or gives.
LEMMA BesideMutexes ==
  ASSUME Mutexes, Control, ~k.susp, NEW u \in Thread, thread'[u] = thread[u],
         Holds(u)' = Holds(u), k'.held[u] = k.held[u]
  PROVE  Counted(u)' /\ Waiting(u)' /\ \E p, n : Position(u, p, n)'
<1>1. PICK p, n : Position(u, p, n)
  BY DEF Mutexes
<1>2. Position(u, p, n)'
  BY <1>1, PositionSame
<1>3. Counted(u) /\ Waiting(u)
  BY DEF Mutexes
<1>4. Counted(u)'
  BY <1>3 DEF Counted
<1>5. thread[u].pc # "place"
  BY DEF Control, Sound, Inside
<1>6. Waiting(u)'
  BY <1>3, <1>5 DEF Waiting, OnMutex, On, Op
<1> QED BY <1>2, <1>4, <1>6

\* The call has taken or given the mutex m.
LEMMA PassMutexes ==
  ASSUME Typed, Control, Mutexes, ~k.susp, NEW t \in Thread, Return(t, TRUE),
         NEW m \in Mutex, \A o \in Mutex \ {m} : queue'[o] = queue[o],
         queue[m].holder \in {t, None}, queue'[m].holder \in {t, None},
         queue'[m].holder = None <=> queue'[m].count = 1,
         NEW p, NEW n, Position(t, p, n), Holds(t)' = {o \in Mutex : Has(p, o, n + 1)},
         Counted(t)', \A u \in Task \ {t} : k'.held[u] = k.held[u]
  PROVE  Mutexes'
<1>1. None \notin Thread /\ t # Idle /\ Idle \in Task
  BY TaskAssumption DEF Thread
<1>2. PICK ok : ok = TRUE
  OBVIOUS
<1>3. Return(t, ok)
  BY <1>2
<1>4. \E q, i : Position(t, q, i)' /\ (q = p \/ Holds(t)' = {})
  BY <1>2, <1>3, ReturnPosition
<1>5. Waiting(t)'
  BY <1>3, ReturnWaiting
<1>6. \A u \in Thread \ {t} : thread'[u] = thread[u]
  <2>1. PICK q \in Seq(Calls) \ {<<>>} : Goes(t, Calling(q))
    BY <1>3, ReturnFacts
  <2> QED BY <2>1, CallingFacts, GoesFacts DEF Typed
<1>7. ASSUME NEW u \in Thread PROVE Counted(u)' /\ Waiting(u)' /\ \E q, i : Position(u, q, i)'
  <2>1. CASE u = t
    BY <1>4, <1>5, <2>1
  <2>2. CASE u # t
    <3>1. Holds(u)' = Holds(u)
      <4>1. queue[m].holder # u /\ queue'[m].holder # u
        BY <1>1, <2>2
      <4> QED BY <4>1 DEF Holds
    <3>2. k'.held[u] = k.held[u] /\ thread'[u] = thread[u]
      BY <1>6, <2>2 DEF Thread
    <3> QED BY <3>1, <3>2, BesideMutexes
  <2> QED BY <2>1, <2>2
<1>8. \A o \in Mutex : /\ queue'[o].holder = None <=> queue'[o].count = 1
                       /\ queue'[o].holder \in Thread \cup {None}
  BY DEF Mutexes
<1>9. k'.held[Idle] = 0
  BY <1>1 DEF Mutexes
<1> QED BY <1>7, <1>8, <1>9 DEF Mutexes

\* The call has taken or given something else.
LEMMA PassOther ==
  ASSUME Typed, Mutexes, SameMutexes, k'.held = k.held, NEW t \in Thread,
         Return(t, TRUE), ~OnMutex(t)
  PROVE  Mutexes'
<1>1. PICK p, n : Position(t, p, n)
  BY DEF Mutexes
<1>2. Holds(t)' = Holds(t)
  BY SameHolds
<1>3. Holds(t)' = {m \in Mutex : Has(p, m, n + 1)}
  BY <1>1, <1>2, NextHolds
<1>4. PICK ok : ok = TRUE
  OBVIOUS
<1>5. Return(t, ok)
  BY <1>4
<1>6. \E q, i : Position(t, q, i)' /\ (q = p \/ Holds(t)' = {})
  BY <1>1, <1>3, <1>5, ReturnPosition
<1>7. Waiting(t)'
  BY <1>5, ReturnWaiting
<1>8. \A u \in Thread \ {t} : thread'[u] = thread[u]
  <2>1. PICK q \in Seq(Calls) \ {<<>>} : Goes(t, Calling(q))
    BY <1>5, ReturnFacts
  <2> QED BY <2>1, CallingFacts, GoesFacts DEF Typed
<1> QED BY <1>6, <1>7, <1>8, KeepMutexes

\* Take: the count of mutexes held.
LEMMA TakeHeld ==
  ASSUME Typed, Control, NEW t \in Thread, Take(t)
  PROVE  \A u \in Task : k'.held[u] = IF u = t /\ OnMutex(t) THEN k.held[u] + 1 ELSE k.held[u]
<1> DEFINE s == TakenK(t)
           e == <<On(t), "send">>
<1>1. /\ k' \in YieldIf(Wake(s, e).yield, Wake(s, e)) /\ Op(t).do = "take"
  BY TakeEffect
<1>2. t \in Task /\ e \in Event /\ k \in Sched
  BY <1>1, ThreadFacts DEF Typed
<1>3. /\ s \in Sched
      /\ \A u \in Task : s.held[u] = IF u = t /\ OnMutex(t) THEN k.held[u] + 1 ELSE k.held[u]
  BY <1>2, TakenFacts
<1> HIDE DEF s, e
<1>4. PICK b \in BOOLEAN : k' \in YieldIf(b, Wake(s, e))
  <2>1. Wake(s, e).yield \in BOOLEAN
    BY <1>2, <1>3, WakeFacts DEF Sched
  <2> QED BY <1>1, <2>1
<1>5. SamePrio(k', s)
  BY <1>2, <1>3, <1>4, WakeYield
<1> QED BY <1>3, <1>5 DEF SamePrio

\* Take keeps Mutexes.
LEMMA TakeMutexes ==
  ASSUME Typed, Control, Mutexes, NEW t \in Thread, Take(t) PROVE Mutexes'
<1> DEFINE m == On(t)
<1>1. /\ ~k.susp /\ Op(t).do = "take" /\ m \in Object /\ queue[m].count > 0
      /\ queue'[m].count = queue[m].count - 1
      /\ queue'[m].holder = IF OnMutex(t) THEN t ELSE queue[m].holder
      /\ \A o \in Object \ {m} : queue'[o] = queue[o]
      /\ Return(t, TRUE)
  BY TakeEffect
<1>2. \A u \in Task : k'.held[u] = IF u = t /\ OnMutex(t) THEN k.held[u] + 1 ELSE k.held[u]
  BY TakeHeld
<1>3. t \in Task /\ k.held \in [Task -> Nat] /\ k'.held \in [Task -> Nat]
  <2>1. k' \in Sched
    BY TakeEffect
  <2> QED BY <2>1 DEF Typed, Sched, Thread
<1>4. CASE ~OnMutex(t)
  <2>1. SameMutexes
    BY <1>1, <1>4, ObjectAssumption DEF SameMutexes, OnMutex
  <2>2. k'.held = k.held
    BY <1>2, <1>3, <1>4
  <2> QED BY <1>1, <1>4, <2>1, <2>2, PassOther
<1>5. CASE OnMutex(t)
  <2>1. m \in Mutex
    BY <1>5 DEF OnMutex
  <2>2. queue[m].holder = None /\ queue[m].count = 1 /\ None \notin Thread
    <3>1. queue[m].count \in {0, 1}
      BY <2>1, MutexFacts
    <3>2. queue[m].count = 1
      BY <1>1, <3>1
    <3> QED BY <2>1, <3>2, MutexFacts
  <2>3. queue'[m].holder = t /\ queue'[m].count = 0
    BY <1>1, <1>5, <2>2
  <2>4. \A o \in Mutex \ {m} : queue'[o] = queue[o]
    BY <1>1, ObjectAssumption
  <2>5. Holds(t)' = Holds(t) \cup {m} /\ m \notin Holds(t)
    BY <2>1, <2>2, <2>3, <2>4 DEF Holds
  <2>6. PICK p, n : Position(t, p, n)
    BY DEF Mutexes
  <2>7. Holds(t)' = {o \in Mutex : Has(p, o, n + 1)}
    BY <1>1, <2>1, <2>5, <2>6, NextHolds
  <2>8. Counted(t)'
    <3>1. IsFiniteSet(Holds(t)) /\ k.held[t] = Cardinality(Holds(t))
      BY DEF Mutexes, Counted
    <3>2. /\ IsFiniteSet(Holds(t) \cup {m})
          /\ Cardinality(Holds(t) \cup {m}) = Cardinality(Holds(t)) + 1
      BY <2>5, <3>1, FS_AddElement
    <3> QED BY <1>2, <1>3, <1>5, <2>5, <3>1, <3>2 DEF Counted
  <2>9. \A u \in Task \ {t} : k'.held[u] = k.held[u]
    BY <1>2
  <2>10. queue[m].holder \in {t, None} /\ queue'[m].holder \in {t, None}
         /\ (queue'[m].holder = None <=> queue'[m].count = 1)
    BY <2>2, <2>3
  <2> HIDE DEF m
  <2> QED BY <1>1, <2>1, <2>4, <2>6, <2>7, <2>8, <2>9, <2>10, PassMutexes
<1> QED BY <1>4, <1>5

\* Give: the count of mutexes held.
LEMMA GiveHeld ==
  ASSUME Typed, Control, NEW t \in Thread, Give(t), OnMutex(t) => k.held[t] >= 1
  PROVE  \A u \in Task : k'.held[u] = IF u = t /\ OnMutex(t) THEN k.held[u] - 1 ELSE k.held[u]
<1> DEFINE s == GivenK(t)
           e == <<On(t), "receive">>
<1>1. /\ GiveYields(t) \in BOOLEAN /\ k' \in YieldIf(GiveYields(t), Wake(s, e)) /\ Op(t).do = "give"
  BY GiveEffect DEF Handed
<1>2. t \in Task /\ e \in Event /\ k \in Sched
  BY <1>1, ThreadFacts DEF Typed
<1>3. /\ s \in Sched
      /\ \A u \in Task : s.held[u] = IF u = t /\ OnMutex(t) THEN k.held[u] - 1 ELSE k.held[u]
  BY <1>2, GivenFacts
<1> HIDE DEF s, e
<1>4. PICK b \in BOOLEAN : k' \in YieldIf(b, Wake(s, e))
  BY <1>1
<1>5. SamePrio(k', s)
  BY <1>2, <1>3, <1>4, WakeYield
<1> QED BY <1>3, <1>5 DEF SamePrio

\* Give keeps Mutexes.
LEMMA GiveMutexes ==
  ASSUME Typed, Control, Mutexes, NEW t \in Thread, Give(t) PROVE Mutexes'
<1> DEFINE m == On(t)
<1>1. OnMutex(t) => k.held[t] >= 1 /\ queue[m].holder = t /\ m \in Holds(t)
  <2>1. Op(t).do = "give"
    BY DEF Give
  <2> QED BY <2>1, GiverHolds
<1>2. /\ ~k.susp /\ Op(t).do = "give" /\ m \in Object
      /\ queue'[m].count = queue[m].count + 1 /\ queue'[m].holder = None
      /\ \A o \in Object \ {m} : queue'[o] = queue[o]
      /\ Return(t, TRUE) /\ k' \in Sched
  BY <1>1, GiveEffect
<1>3. \A u \in Task : k'.held[u] = IF u = t /\ OnMutex(t) THEN k.held[u] - 1 ELSE k.held[u]
  BY <1>1, GiveHeld
<1>4. t \in Task /\ k.held \in [Task -> Nat] /\ k'.held \in [Task -> Nat]
  BY <1>2 DEF Typed, Sched, Thread
<1>5. CASE ~OnMutex(t)
  <2>1. SameMutexes
    BY <1>2, <1>5, ObjectAssumption DEF SameMutexes, OnMutex
  <2>2. k'.held = k.held
    BY <1>3, <1>4, <1>5
  <2> QED BY <1>2, <1>5, <2>1, <2>2, PassOther
<1>6. CASE OnMutex(t)
  <2>1. m \in Mutex
    BY <1>6 DEF OnMutex
  <2>2. queue[m].count = 0 /\ None \notin Thread
    <3>1. queue[m].count \in {0, 1} /\ (queue[m].holder = None <=> queue[m].count = 1) /\ None \notin Thread
      BY <2>1, MutexFacts
    <3> QED BY <1>1, <1>6, <3>1
  <2>3. queue'[m].holder = None /\ queue'[m].count = 1
    BY <1>2, <2>2
  <2>4. \A o \in Mutex \ {m} : queue'[o] = queue[o]
    BY <1>2, ObjectAssumption
  <2>5. Holds(t)' = Holds(t) \ {m} /\ m \in Holds(t)
    BY <1>1, <1>6, <2>1, <2>2, <2>3, <2>4 DEF Holds
  <2>6. PICK p, n : Position(t, p, n)
    BY DEF Mutexes
  <2>7. Holds(t)' = {o \in Mutex : Has(p, o, n + 1)}
    BY <1>2, <2>5, <2>6, NextHolds
  <2>8. Counted(t)'
    <3>1. IsFiniteSet(Holds(t)) /\ k.held[t] = Cardinality(Holds(t))
      BY DEF Mutexes, Counted
    <3>2. /\ IsFiniteSet(Holds(t) \ {m})
          /\ Cardinality(Holds(t) \ {m}) = Cardinality(Holds(t)) - 1
      BY <2>5, <3>1, FS_RemoveElement
    <3> QED BY <1>3, <1>4, <1>6, <2>5, <3>1, <3>2 DEF Counted
  <2>9. \A u \in Task \ {t} : k'.held[u] = k.held[u]
    BY <1>3
  <2>10. queue[m].holder \in {t, None} /\ queue'[m].holder \in {t, None}
         /\ (queue'[m].holder = None <=> queue'[m].count = 1)
    BY <1>1, <1>6, <2>3
  <2> HIDE DEF m
  <2> QED BY <1>2, <2>1, <2>4, <2>6, <2>7, <2>8, <2>9, <2>10, PassMutexes
<1> QED BY <1>5, <1>6

\* At first no mutex is held.
LEMMA InitMutexes ==
  ASSUME Init PROVE Mutexes
<1>1. PICK first \in [Thread -> UNION {Programs[t] : t \in Thread}] :
       /\ \A t \in Thread : first[t] \in Programs[t]
       /\ thread = [t \in Thread |-> Calling(first[t])]
  BY DEF Init
<1>2. k.held = [t \in Task |-> 0]
      /\ queue = [o \in Object |-> [count |-> Initial[o], lock |-> Unlocked, holder |-> None]]
  BY DEF Init
<1>3. \A m \in Mutex : queue[m].holder = None /\ queue[m].count = 1
  BY <1>2, ObjectAssumption
<1>4. ASSUME NEW t \in Thread PROVE Counted(t) /\ Waiting(t) /\ \E p, n : Position(t, p, n)
  <2> DEFINE p == first[t]
  <2>1. p \in Seq(Calls) \ {<<>>} /\ p \in Programs[t]
    BY <1>1, ProgramsAssumption DEF Thread
  <2>2. /\ Calling(p).todo = p /\ Calling(p).pc = IF Head(p).do = "delay" THEN "suspend" ELSE "try"
    BY <2>1, CallingFacts
  <2>3. thread[t].todo = p /\ Op(t) = Head(p)
        /\ thread[t].pc = IF Op(t).do = "delay" THEN "suspend" ELSE "try"
    BY <1>1, <2>2 DEF Op
  <2>4. Holds(t) = {}
    BY <1>3, TaskAssumption DEF Holds, Thread
  <2>5. Counted(t)
    BY <1>2, <2>4, FS_EmptySet DEF Counted, Thread
  <2>6. Waiting(t)
    BY <2>3 DEF Waiting
  <2>7. p = SubSeq(p, 1, Len(p)) /\ 1 \in 1..Len(p)
    BY <2>1, WholeProgram
  <2>8. Position(t, p, 1)
    BY <2>1, <2>3, <2>4, <2>7, HasFirst DEF Position
  <2> QED BY <2>5, <2>6, <2>8
<1>5. k.held[Idle] = 0
  BY <1>2, TaskAssumption
<1> QED BY <1>3, <1>4, <1>5 DEF Mutexes

\* The inductive invariant.
Safe == Typed /\ Control /\ Mutexes

\* It holds at first.
LEMMA SafeInit == ASSUME Init PROVE Safe
  BY InitControl, InitMutexes DEF Safe

\* Give keeps Safe.
LEMMA GiveSafe == ASSUME Safe, NEW t \in Thread, Give(t) PROVE Safe'
<1>1. OnMutex(t) => k.held[t] >= 1
  <2>1. Op(t).do = "give"
    BY DEF Give
  <2> QED BY <2>1, GiverHolds DEF Safe
<1> QED BY <1>1, GiveControl, GiveMutexes DEF Safe

\* Place keeps Safe.
LEMMA PlaceSafe == ASSUME Safe, NEW t \in Thread, Place(t) PROVE Safe'
<1>1. OnMutex(t) => queue[On(t)].holder \in Task
  <2>1. thread[t].pc = "place" /\ Op(t).do # "delay"
    BY DEF Place, At
  <2> QED BY <2>1, PlaceHeld DEF Safe
<1> QED BY <1>1, PlaceControl, PlaceMutexes DEF Safe

\* Every step keeps it.
LEMMA SafeNext == ASSUME Safe, Next PROVE Safe'
<1>1. CASE SysTick
  BY <1>1, SysTickControl, SysTickMutexes DEF Safe
<1>2. ASSUME NEW o \in Object, GiveFromISR(o) PROVE Safe'
  BY <1>2, GiveFromISRControl, GiveFromISRMutexes DEF Safe
<1>3. ASSUME NEW t \in Thread, Call(t) PROVE Safe'
  <2>1. CASE Take(t)
    BY <2>1, TakeControl, TakeMutexes DEF Safe
  <2>2. CASE Give(t)
    BY <2>2, GiveSafe
  <2>3. CASE Refuse(t)
    BY <2>3, RefuseControl, RefuseMutexes DEF Safe
  <2>4. CASE DelayOver(t)
    BY <2>4, DelayOverControl, DelayOverMutexes DEF Safe
  <2>5. CASE Enter(t)
    BY <2>5, EnterControl, EnterMutexes DEF Safe
  <2>6. CASE SuspendAll(t)
    BY <2>6, SuspendAllControl, SuspendAllMutexes DEF Safe
  <2>7. CASE Lock(t)
    BY <2>7, LockControl, LockMutexes DEF Safe
  <2>8. CASE Test(t)
    BY <2>8, TestControl, TestMutexes DEF Safe
  <2>9. CASE Place(t)
    BY <2>9, PlaceSafe
  <2>10. CASE PlaceDelay(t)
    BY <2>10, PlaceDelayControl, PlaceDelayMutexes DEF Safe
  <2>11. CASE Unlock(t)
    BY <2>11, UnlockControl, UnlockMutexes DEF Safe
  <2>12. CASE ResumeAll(t)
    BY <2>12, ResumeAllControl, ResumeAllMutexes DEF Safe
  <2>13. CASE Expire(t)
    BY <2>13, ExpireControl, ExpireMutexes DEF Safe
  <2>14. CASE Restore(t)
    BY <2>14, RestoreControl, RestoreMutexes DEF Safe
  <2> QED BY <1>3, <2>1, <2>2, <2>3, <2>4, <2>5, <2>6, <2>7, <2>8, <2>9, <2>10, <2>11, <2>12, <2>13, <2>14
          DEF Call
<1> QED BY <1>1, <1>2, <1>3 DEF Next

\* So does a step that changes nothing.
LEMMA SafeStutter == ASSUME Safe, UNCHANGED vars PROVE Safe'
<1>1. k' = k /\ queue' = queue /\ thread' = thread /\ path' = path /\ waited' = waited
  BY DEF vars
<1>2. Typed'
  BY <1>1 DEF Safe, Typed
<1>3. Control'
  <2>1. \A t \in Thread : Sound(t)' <=> Sound(t)
    BY <1>1 DEF Sound, Op, On, OnMutex
  <2>2. \A o \in Object : Locking(o)' <=> Locking(o)
    BY <1>1 DEF Locking, On, Op
  <2> QED BY <1>1, <2>1, <2>2 DEF Safe, Control
<1>4. Mutexes'
  <2>1. SameMutexes
    BY <1>1 DEF SameMutexes
  <2> QED BY <1>1, <2>1, OutsideMutexes DEF Safe
<1> QED BY <1>2, <1>3, <1>4 DEF Safe

\* Always: whoever runs is ready unless it has just blocked itself, only the running task
\* may have suspended the scheduler or locked a queue, no wake-up or tick is left pending after
\* xTaskResumeAll, uxMutexesHeld is right and a mutex has the holder its program says.
THEOREM SafeAlways == Spec => []Safe
<1>1. Init => Safe
  BY SafeInit
<1>2. Safe /\ [Next]_vars => Safe'
  BY SafeNext, SafeStutter
<1> QED BY <1>1, <1>2, PTL DEF Spec

\* Typed says all that TypeOK says.
LEMMA TypedOK == ASSUME Typed PROVE TypeOK
<1>1. /\ k.tick \in 0..TickMod - 1 /\ k.unblock \in 0..Forever /\ k.over \subseteq Task
      /\ k.pended \in 0..MaxPended /\ k.susp \in BOOLEAN /\ k.yield \in BOOLEAN /\ k.cur \in Task
      /\ k.pend \in Seq(Task) /\ k.event \in [Event -> Seq(Task)]
      /\ k.state \in [Task -> {"ready", "delayed", "overflow", "suspended"}]
      /\ k.wake \in [Task -> 0..TickMod - 1] /\ k.prio \in [Task -> Nat] /\ k.held \in [Task -> Nat]
  BY DEF Typed, Sched, Ticks, States
<1>2. ASSUME NEW o \in Object
      PROVE  /\ queue[o].count \in 0..Size[o] /\ queue[o].holder \in Task \cup {None}
             /\ queue[o].lock \in Unlocked..Size[o]
  <2>1. /\ queue[o] \in Queue /\ queue[o].count <= Size[o] /\ Size[o] \in Nat
        /\ Unlocked <= queue[o].lock /\ queue[o].lock <= queue[o].count
    BY ObjectAssumption DEF Typed
  <2>2. queue[o].count \in Nat /\ queue[o].lock \in Int /\ queue[o].holder \in Task \cup {None}
    BY <2>1 DEF Queue
  <2>3. queue[o].count \in 0..Size[o] /\ queue[o].lock \in Unlocked..Size[o]
    BY <2>1, <2>2 DEF Unlocked
  <2> QED BY <2>2, <2>3
<1>3. ASSUME NEW t \in Thread
      PROVE  /\ thread[t].pc \in Pcs /\ thread[t].todo \in Seq(Calls) \ {<<>>}
             /\ thread[t].left \in 0..Forever /\ thread[t].start \in 0..TickMod - 1
  BY DEF Typed, Rec, Ticks
<1> QED BY <1>1, <1>2, <1>3 DEF TypeOK, Typed

\* Every variable of the kernel keeps its type: counts of queues and semaphores stay within
\* 0..uxLength, cTxLock never counts more gives than the object holds, a mutex held is never
\* given from outside, pending ticks and lists stay bounded.  From Safe.
THEOREM TypeCorrect == Spec => []TypeOK
<1>1. Safe => TypeOK
  BY TypedOK DEF Safe
<1> QED BY SafeAlways, <1>1, PTL

-----------------------------------------------------------------------------
(* The lists of the scheduler and of the objects.                          *)

\* A task that is not ready has not gone on with its call yet.
Here(t) == thread[t].pc = "try" \/ (t = k.cur /\ path = "blocked")

\* Whoever is in the event list of an object waits for it and has not been woken.
Listed(e) ==
  /\ Distinct(k.event[e])
  /\ \A t \in ToSet(k.event[e]) :
       /\ t \in Thread /\ Op(t).do # "delay" /\ Waits(t) = e
       /\ k.state[t] # "ready" /\ t \notin ToSet(k.pend)

\* Whoever is pending was in the list of receivers of a locked queue, or was woken from it.
Pending ==
  /\ Distinct(k.pend)
  /\ \A t \in ToSet(k.pend) : t \in Thread /\ k.state[t] # "ready" /\ Op(t).do = "take"

\* Whoever is not ready is in the event list it waits in, unless it has been woken.
Asleep(t) ==
  /\ t \in Thread /\ Here(t)
  /\ Op(t).do # "delay" =>
       /\ k.state[t] = "suspended" <=> Op(t).wait = Forever
       /\ t \notin ToSet(k.pend) => t \in ToSet(k.event[Waits(t)])

\* Event lists and the pending list hold who they should, and whoever sleeps is in one.
Lists ==
  /\ \A e \in Event : Listed(e)
  /\ Pending
  /\ \A t \in Task : k.state[t] # "ready" => Asleep(t)

\* Where t returns, the others stay.
LEMMA ReturnOthers ==
  ASSUME Typed, NEW t \in Thread, NEW ok, Return(t, ok)
  PROVE  \A u \in Thread \ {t} : thread'[u] = thread[u]
<1>1. PICK p \in Seq(Calls) \ {<<>>} : Goes(t, Calling(p))
  BY ReturnFacts
<1> QED BY <1>1, CallingFacts, GoesFacts DEF Typed

\* A thread that stays in its call waits for the same.
LEMMA SameCall ==
  ASSUME NEW u, thread'[u].todo = thread[u].todo
  PROVE  Op(u)' = Op(u) /\ On(u)' = On(u) /\ Waits(u)' = Waits(u)
  BY DEF Op, On, Waits

\* Whatever a ready running thread does, as long as it touches no list.
LEMMA QuietLists ==
  ASSUME Lists, NEW t \in Thread, k.cur = t, k.state[t] = "ready", k'.state = k.state, SameLists(k', k),
         \A u \in Thread \ {t} : thread'[u] = thread[u]
  PROVE  Lists'
<1>1. ASSUME NEW u \in Task, k.state[u] # "ready"
      PROVE  /\ u \in Thread /\ Asleep(u) /\ thread[u].pc = "try" /\ thread'[u] = thread[u]
             /\ Op(u)' = Op(u) /\ Waits(u)' = Waits(u)
  <2>1. u \in Thread /\ Asleep(u) /\ u # t
    BY <1>1 DEF Lists, Asleep
  <2>2. thread'[u] = thread[u] /\ thread[u].pc = "try"
    BY <2>1 DEF Asleep, Here
  <2> QED BY <2>1, <2>2, SameCall
<1>2. \A u \in Thread : u \in Task
  BY DEF Thread
<1>3. k'.event = k.event /\ k'.pend = k.pend
  BY DEF SameLists
<1>4. ASSUME NEW e \in Event PROVE Listed(e)'
  <2>1. Listed(e)
    BY DEF Lists
  <2> QED BY <1>1, <1>2, <1>3, <2>1 DEF Listed, Distinct
<1>5. Pending'
  BY <1>1, <1>2, <1>3 DEF Lists, Pending, Distinct
<1>6. ASSUME NEW u \in Task, k'.state[u] # "ready" PROVE Asleep(u)'
  <2>1. thread'[u].pc = "try"
    BY <1>1, <1>6
  <2> QED BY <1>1, <1>3, <1>6, <2>1 DEF Asleep, Here
<1> QED BY <1>4, <1>5, <1>6 DEF Lists

\* Refuse keeps Lists.
LEMMA RefuseLists ==
  ASSUME Typed, Control, Lists, NEW t \in Thread, Refuse(t) PROVE Lists'
<1>1. k.cur = t /\ thread[t].pc = "try" /\ k' = k
  BY DEF Refuse, At
<1>2. k.state[t] = "ready"
  BY <1>1, AwakeRun DEF Inside
<1>3. \A u \in Thread \ {t} : thread'[u] = thread[u]
  <2>1. CASE Goto(t, "halted")
    BY <2>1 DEF Goto, Typed
  <2>2. CASE Return(t, FALSE)
    BY <2>2, ReturnOthers
  <2> QED BY <2>1, <2>2 DEF Refuse
<1> QED BY <1>1, <1>2, <1>3, QuietLists DEF SameLists

\* DelayOver keeps Lists.
LEMMA DelayOverLists ==
  ASSUME Typed, Control, Lists, NEW t \in Thread, DelayOver(t) PROVE Lists'
<1>1. k.cur = t /\ thread[t].pc = "try" /\ k' = k
  BY DEF DelayOver, At
<1>2. k.state[t] = "ready"
  BY <1>1, AwakeRun DEF Inside
<1>3. \A u \in Thread \ {t} : thread'[u] = thread[u]
  BY ReturnOthers DEF DelayOver
<1> QED BY <1>1, <1>2, <1>3, QuietLists DEF SameLists

\* Expire keeps Lists.
LEMMA ExpireLists ==
  ASSUME Typed, Control, Lists, NEW t \in Thread, Expire(t) PROVE Lists'
<1>1. k.cur = t /\ thread[t].pc = "expired" /\ k' = k
  BY DEF Expire, At
<1>2. k.state[t] = "ready"
  BY <1>1, AwakeRun DEF Inside
<1>3. \A u \in Thread \ {t} : thread'[u] = thread[u]
  <2>1. CASE Goto(t, "try") \/ Goto(t, "restore")
    BY <2>1 DEF Goto, Typed
  <2>2. CASE Return(t, FALSE)
    BY <2>2, ReturnOthers
  <2> QED BY <2>1, <2>2 DEF Expire
<1> QED BY <1>1, <1>2, <1>3, QuietLists DEF SameLists

\* Restore keeps Lists.
LEMMA RestoreLists ==
  ASSUME Typed, Control, Lists, NEW t \in Thread, Restore(t) PROVE Lists'
<1>1. /\ k.cur = t /\ thread[t].pc = "restore" /\ SameWait(k', k) /\ SameLists(k', k)
      /\ Return(t, FALSE)
  BY RestoreEffect
<1>2. k.state[t] = "ready"
  BY <1>1, AwakeRun DEF Inside
<1>3. \A u \in Thread \ {t} : thread'[u] = thread[u]
  BY <1>1, ReturnOthers
<1> QED BY <1>1, <1>2, <1>3, QuietLists DEF SameWait

\* Enter keeps Lists.
LEMMA EnterLists ==
  ASSUME Typed, Control, Lists, NEW t \in Thread, Enter(t) PROVE Lists'
<1>1. k.cur = t /\ thread[t].pc = "try" /\ SameWait(k', k) /\ SameLists(k', k)
  BY EnterEffect
<1>2. k.state[t] = "ready"
  BY <1>1, AwakeRun DEF Inside
<1>3. PICK r \in Rec : Goes(t, r)
  BY EnterEffect
<1>4. \A u \in Thread \ {t} : thread'[u] = thread[u]
  BY <1>3, GoesFacts DEF Typed
<1> QED BY <1>1, <1>2, <1>4, QuietLists DEF SameWait

\* SuspendAll keeps Lists.
LEMMA SuspendAllLists ==
  ASSUME Typed, Control, Lists, NEW t \in Thread, SuspendAll(t) PROVE Lists'
<1>1. k.cur = t /\ thread[t].pc = "suspend" /\ SameWait(k', k) /\ SameLists(k', k)
  BY SuspendAllEffect
<1>2. k.state[t] = "ready"
  BY <1>1, AwakeRun DEF Inside
<1>3. PICK r : Moves(t, r)
  BY SuspendAllEffect
<1>4. \A u \in Thread \ {t} : thread'[u] = thread[u]
  BY <1>3, MovesFacts
<1> QED BY <1>1, <1>2, <1>4, QuietLists DEF SameWait

\* Lock keeps Lists.
LEMMA LockLists ==
  ASSUME Typed, Control, Lists, NEW t \in Thread, Lock(t) PROVE Lists'
<1>1. k.cur = t /\ thread[t].pc = "lock" /\ SameWait(k', k) /\ SameLists(k', k)
  BY LockEffect
<1>2. k.state[t] = "ready"
  <2>1. path # "blocked"
    BY <1>1, InsideRun DEF Inside, None
  <2> QED BY <1>1, <2>1 DEF Control
<1>3. PICK r : Moves(t, r)
  BY LockEffect
<1>4. \A u \in Thread \ {t} : thread'[u] = thread[u]
  BY <1>3, MovesFacts
<1> QED BY <1>1, <1>2, <1>4, QuietLists DEF SameWait

\* Test keeps Lists.
LEMMA TestLists ==
  ASSUME Typed, Control, Lists, NEW t \in Thread, Test(t) PROVE Lists'
<1>1. k.cur = t /\ thread[t].pc = "test" /\ k' = k
  BY TestEffect
<1>2. k.state[t] = "ready"
  <2>1. path # "blocked"
    BY <1>1, InsideRun DEF Inside, None
  <2> QED BY <1>1, <2>1 DEF Control
<1>3. PICK r : Moves(t, r)
  BY TestEffect
<1>4. \A u \in Thread \ {t} : thread'[u] = thread[u]
  BY <1>3, MovesFacts
<1> QED BY <1>1, <1>2, <1>4, QuietLists DEF SameLists

\* Any other task that is not ready stays in its call.
LEMMA Sleepers ==
  ASSUME Lists, NEW t, k.cur = t, \A v \in Thread \ {t} : thread'[v] = thread[v],
         NEW u \in Task, u # t, k.state[u] # "ready"
  PROVE  /\ u \in Thread /\ Asleep(u) /\ thread[u].pc = "try" /\ thread'[u] = thread[u]
         /\ Op(u)' = Op(u) /\ Waits(u)' = Waits(u)
<1>1. u \in Thread /\ Asleep(u)
  BY DEF Lists, Asleep
<1>2. thread'[u] = thread[u] /\ thread[u].pc = "try"
  BY <1>1 DEF Asleep, Here
<1> QED BY <1>1, <1>2, SameCall

\* A task in no list is ready.
LEMMA ReadyNowhere ==
  ASSUME Lists, NEW t, k.state[t] = "ready"
  PROVE  t \notin ToSet(k.pend) /\ \A e \in Event : t \notin ToSet(k.event[e])
  BY DEF Lists, Listed, Pending

\* Place keeps Lists.
LEMMA PlaceLists ==
  ASSUME Typed, Control, Mutexes, Lists, NEW t \in Thread, Place(t) PROVE Lists'
<1> DEFINE e == Waits(t)
<1>1. thread[t].pc = "place" /\ Op(t).do # "delay"
  BY DEF Place, At
<1>2. OnMutex(t) => queue[On(t)].holder \in Task
  BY <1>1, PlaceHeld
<1>3. /\ k.cur = t /\ e \in Event /\ path' = "blocked" /\ k'.cur = t /\ k'.pend = k.pend
      /\ \A u \in Task \ {t} : k'.state[u] = k.state[u]
      /\ k'.state[t] # "ready" /\ (thread[t].left = Forever <=> k'.state[t] = "suspended")
      /\ \A d \in Event \ {e} : k'.event[d] = k.event[d]
  BY <1>2, PlaceEffect DEF SameRun
<1>4. PICK p : Behind(k.event[e], k'.prio, t, p) /\ k'.event[e] = InsertAt(k.event[e], p, t)
  BY <1>2, PlaceEffect
<1>5. PICK r : Moves(t, r)
  BY <1>2, PlaceEffect
<1>6. /\ \A u \in Thread \ {t} : thread'[u] = thread[u]
      /\ Op(t)' = Op(t) /\ Waits(t)' = e
  BY <1>5, MovesFacts
<1>7. t \notin ToSet(k.pend) /\ \A d \in Event : t \notin ToSet(k.event[d])
  <2>1. path # "blocked"
    BY <1>1, <1>3, InsideRun DEF Inside, None
  <2>2. k.state[t] = "ready"
    BY <1>3, <2>1 DEF Control
  <2> QED BY <2>2, ReadyNowhere
<1>8. /\ ToSet(k'.event[e]) = ToSet(k.event[e]) \cup {t}
      /\ Distinct(k.event[e]) => Distinct(k'.event[e])
  <2>1. k.event[e] \in Seq(Task) /\ t \in Task /\ p \in 1..Len(k.event[e]) + 1
    BY <1>3, <1>4 DEF Typed, Sched, Thread, Behind
  <2> QED BY <1>3, <1>4, <1>7, <2>1, InsertSet
<1>9. t \in Task /\ (thread[t].left = Forever <=> Op(t).wait = Forever)
  BY DEF Control, Sound, Thread
<1> HIDE DEF e
<1>10. ASSUME NEW u \in Task, u # t, k.state[u] # "ready"
      PROVE  /\ u \in Thread /\ Asleep(u) /\ thread[u].pc = "try" /\ thread'[u] = thread[u]
             /\ Op(u)' = Op(u) /\ Waits(u)' = Waits(u)
  BY <1>3, <1>6, <1>10, Sleepers
<1>11. \A u \in Thread : u \in Task
  BY DEF Thread
<1>12. ASSUME NEW d \in Event PROVE Listed(d)'
  <2>1. Listed(d) /\ (d = e => Distinct(k'.event[d])) /\ (d # e => k'.event[d] = k.event[d])
    BY <1>3, <1>8 DEF Lists, Listed
  <2>2. Distinct(k'.event[d])
    BY <2>1 DEF Listed
  <2>3. ASSUME NEW u \in ToSet(k'.event[d]), u # t
        PROVE  /\ u \in Thread /\ Op(u)'.do # "delay" /\ Waits(u)' = d
               /\ k'.state[u] # "ready" /\ u \notin ToSet(k'.pend)
    <3>1. u \in ToSet(k.event[d])
      BY <1>8, <2>1, <2>3
    <3>2. u \in Thread /\ Op(u).do # "delay" /\ Waits(u) = d /\ k.state[u] # "ready" /\ u \notin ToSet(k.pend)
      BY <2>1, <3>1 DEF Listed
    <3> QED BY <1>3, <1>10, <1>11, <2>3, <3>2
  <2>4. ASSUME t \in ToSet(k'.event[d]) PROVE d = e
    BY <1>7, <2>1, <2>4
  <2>5. Op(t)'.do # "delay" /\ Waits(t)' = e /\ k'.state[t] # "ready" /\ t \notin ToSet(k'.pend)
    BY <1>1, <1>3, <1>6, <1>7
  <2> QED BY <2>2, <2>3, <2>4, <2>5 DEF Listed
<1>13. Pending'
  <2>1. Pending
    BY DEF Lists
  <2> QED BY <1>3, <1>7, <1>10, <1>11, <2>1 DEF Pending
<1>14. ASSUME NEW u \in Task, k'.state[u] # "ready" PROVE Asleep(u)'
  <2>1. CASE u = t
    <3>1. Here(t)'
      BY <1>3 DEF Here
    <3>2. t \in ToSet(k'.event[e])
      BY <1>8
    <3> QED BY <1>3, <1>6, <1>9, <2>1, <3>1, <3>2 DEF Asleep
  <2>2. CASE u # t
    <3>1. k.state[u] # "ready" /\ k'.state[u] = k.state[u]
      BY <1>3, <1>14, <2>2
    <3>2. /\ u \in Thread /\ Asleep(u) /\ thread'[u] = thread[u] /\ thread[u].pc = "try"
          /\ Op(u)' = Op(u) /\ Waits(u)' = Waits(u)
      BY <1>10, <2>2, <3>1
    <3>3. Op(u).do # "delay" => Waits(u) \in Event
      BY <3>2, ThreadFacts
    <3>4. \A d \in Event : u \in ToSet(k.event[d]) => u \in ToSet(k'.event[d])
      BY <1>3, <1>8
    <3>5. Here(u)'
      BY <3>2 DEF Here
    <3> QED BY <1>3, <3>1, <3>2, <3>3, <3>4, <3>5 DEF Asleep
  <2> QED BY <2>1, <2>2
<1> QED BY <1>12, <1>13, <1>14 DEF Lists

\* PlaceDelay keeps Lists.
LEMMA PlaceDelayLists ==
  ASSUME Typed, Control, Lists, NEW t \in Thread, PlaceDelay(t) PROVE Lists'
<1>1. /\ k.cur = t /\ thread[t].pc = "place" /\ Op(t).do = "delay" /\ path' = "blocked" /\ k'.cur = t
      /\ k'.event = k.event /\ k'.pend = k.pend
      /\ \A u \in Task \ {t} : k'.state[u] = k.state[u]
      /\ k'.state[t] \notin {"ready", "suspended"}
  BY PlaceDelayEffect DEF SameRun, SameLists
<1>2. PICK r : Moves(t, r)
  BY PlaceDelayEffect
<1>3. /\ \A u \in Thread \ {t} : thread'[u] = thread[u]
      /\ Op(t)' = Op(t)
  BY <1>2, MovesFacts
<1>4. t \notin ToSet(k.pend) /\ \A d \in Event : t \notin ToSet(k.event[d])
  <2>1. path # "blocked"
    BY <1>1, InsideRun DEF Inside, None
  <2>2. k.state[t] = "ready"
    BY <1>1, <2>1 DEF Control
  <2> QED BY <2>2, ReadyNowhere
<1>5. ASSUME NEW u \in Task, u # t, k.state[u] # "ready"
      PROVE  /\ u \in Thread /\ Asleep(u) /\ thread[u].pc = "try" /\ thread'[u] = thread[u]
             /\ Op(u)' = Op(u) /\ Waits(u)' = Waits(u)
  BY <1>1, <1>3, <1>5, Sleepers
<1>6. \A u \in Thread : u \in Task
  BY DEF Thread
<1>7. ASSUME NEW d \in Event PROVE Listed(d)'
  <2>1. Listed(d)
    BY DEF Lists
  <2> QED BY <1>1, <1>4, <1>5, <1>6, <2>1 DEF Listed
<1>8. Pending'
  <2>1. Pending
    BY DEF Lists
  <2> QED BY <1>1, <1>4, <1>5, <1>6, <2>1 DEF Pending
<1>9. ASSUME NEW u \in Task, k'.state[u] # "ready" PROVE Asleep(u)'
  <2>1. CASE u = t
    BY <1>1, <1>3, <2>1 DEF Asleep, Here
  <2>2. CASE u # t
    <3>1. k.state[u] # "ready" /\ k'.state[u] = k.state[u]
      BY <1>1, <1>9, <2>2
    <3>2. /\ u \in Thread /\ Asleep(u) /\ thread'[u] = thread[u] /\ thread[u].pc = "try"
          /\ Op(u)' = Op(u) /\ Waits(u)' = Waits(u)
      BY <1>5, <2>2, <3>1
    <3>3. Here(u)'
      BY <3>2 DEF Here
    <3> QED BY <1>1, <3>1, <3>2, <3>3 DEF Asleep
  <2> QED BY <2>1, <2>2
<1> QED BY <1>7, <1>8, <1>9 DEF Lists

\* The first n tasks that wait are pending: they have left the event list.
LEMMA UnlockLists ==
  ASSUME Typed, Control, Lists, NEW t \in Thread, Unlock(t) PROVE Lists'
<1> DEFINE e == <<On(t), "receive">>
           w == k.event[e]
<1>1. /\ k.cur = t /\ k'.cur = t /\ path' = path /\ e \in Event /\ k'.state = k.state
  BY UnlockEffect DEF SameRun, SameWait
<1>2. PICK n : UnlockedK(k, k', e, n)
  BY UnlockEffect
<1>3. PICK r : Moves(t, r)
  <2>1. Goto(t, "resume")
    BY DEF Unlock
  <2> QED BY <2>1, Strings, GotoGoes
<1>4. \A u \in Thread : thread'[u].todo = thread[u].todo /\ (u # t => thread'[u] = thread[u])
  BY <1>3, MovesFacts DEF Moves
<1>5. \A u \in Thread : Op(u)' = Op(u) /\ Waits(u)' = Waits(u)
  BY <1>4, SameCall
<1> DEFINE front == SubSeq(w, 1, n)
           back == SubSeq(w, n + 1, Len(w))
<1>6. /\ k'.event[e] = back /\ k'.pend = k.pend \o front
      /\ \A d \in Event \ {e} : k'.event[d] = k.event[d]
  BY <1>2 DEF UnlockedK
<1>7. Listed(e) /\ Pending /\ w \in Seq(Task) /\ n \in 0..Len(w) /\ k.pend \in Seq(Task)
  BY <1>1, <1>2 DEF Lists, UnlockedK, Typed, Sched
<1>8. /\ front \in Seq(Task) /\ ToSet(w) = ToSet(front) \cup ToSet(back)
      /\ Distinct(front) /\ Distinct(back) /\ ToSet(front) \cap ToSet(back) = {}
  BY <1>7, SplitSet DEF Listed
<1>9. /\ ToSet(k'.pend) = ToSet(k.pend) \cup ToSet(front)
      /\ Distinct(k'.pend)
  <2>1. ToSet(k.pend) \cap ToSet(front) = {}
    BY <1>7, <1>8 DEF Listed
  <2> QED BY ZenonT(40), <1>6, <1>7, <1>8, <2>1, ConcatSet DEF Pending
<1> HIDE DEF front, back
<1>10. ASSUME NEW d \in Event PROVE Listed(d)'
  <2>1. Listed(d) /\ (d # e => \A u \in ToSet(k.event[d]) : u \notin ToSet(front))
    <3>1. Listed(d)
      BY DEF Lists
    <3> QED BY <1>7, <1>8, <3>1 DEF Listed
  <2>2. /\ Distinct(k'.event[d]) /\ ToSet(k'.event[d]) \subseteq ToSet(k.event[d])
        /\ \A u \in ToSet(k'.event[d]) : u \notin ToSet(front)
    <3>1. CASE d = e
      BY <1>6, <1>8, <3>1
    <3>2. CASE d # e
      BY <1>6, <2>1, <3>2 DEF Listed
    <3> QED BY <3>1, <3>2
  <2> QED BY <1>1, <1>5, <1>9, <2>1, <2>2 DEF Listed
<1>11. Pending'
  <2>1. \A u \in ToSet(front) : u \in Thread /\ k.state[u] # "ready" /\ Op(u).do # "delay" /\ Waits(u) = e
    BY <1>7, <1>8 DEF Listed
  <2>2. \A u \in ToSet(front) : Op(u).do = "take"
    BY <2>1 DEF Waits
  <2> QED BY <1>1, <1>5, <1>7, <1>9, <2>1, <2>2 DEF Pending
<1>12. ASSUME NEW u \in Task, k'.state[u] # "ready" PROVE Asleep(u)'
  <2>1. Asleep(u)
    BY <1>1, <1>12 DEF Lists
  <2>2. u \in Thread
    BY <2>1 DEF Asleep
  <2>3. Here(u)'
    <3>1. CASE u = t
      <4>1. thread[t].pc # "try"
        BY DEF Unlock, At
      <4> QED BY <1>1, <2>1, <3>1, <4>1 DEF Asleep, Here
    <3>2. CASE u # t
      BY <1>1, <1>4, <2>1, <2>2, <3>2 DEF Asleep, Here
    <3> QED BY <3>1, <3>2
  <2>4. ASSUME Op(u).do # "delay", u \notin ToSet(k'.pend) PROVE u \in ToSet(k'.event[Waits(u)])
    <3>1. u \notin ToSet(k.pend) /\ u \notin ToSet(front) /\ u \in ToSet(k.event[Waits(u)]) /\ Waits(u) \in Event
      BY <1>9, <2>1, <2>2, <2>4, ThreadFacts DEF Asleep
    <3> QED BY <1>6, <1>8, <3>1
  <2> QED BY <1>1, <1>5, <2>1, <2>2, <2>3, <2>4 DEF Asleep
<1> QED BY <1>10, <1>11, <1>12 DEF Lists

\* The head of e has become ready.
Roused(e) ==
  /\ k'.pend = k.pend
  /\ k.event[e] = <<>> => k'.event = k.event /\ k'.state = k.state
  /\ k.event[e] # <<>> =>
       /\ k'.event = Served(k.event, e)
       /\ \A u \in Task : k'.state[u] = IF u = Head(k.event[e]) THEN "ready" ELSE k.state[u]

\* The head of e is pending: the scheduler is suspended.
Deferred(e) ==
  /\ k'.state = k.state /\ k'.cur = k.cur
  /\ k.event[e] = <<>> => SameLists(k', k)
  /\ k.event[e] # <<>> => k'.event = Served(k.event, e) /\ k'.pend = Append(k.pend, Head(k.event[e]))

\* Wake rouses or defers.
LEMMA WakeRouses ==
  ASSUME k \in Sched, NEW s \in Sched, SameWait(s, k), SameLists(s, k), SameRun(s, k), NEW e \in Event,
         NEW b \in BOOLEAN, k' \in YieldIf(b, Wake(s, e))
  PROVE  (~k.susp => Roused(e)) /\ (k.susp => Deferred(e))
<1>1. s.state = k.state /\ s.event = k.event /\ s.pend = k.pend /\ s.susp = k.susp /\ s.cur = k.cur
  BY DEF SameWait, SameLists, SameRun
<1> DEFINE h == Head(s.event[e])
           r == k'
<1>2. /\ s.susp => r.cur = s.cur
      /\ ~s.susp => r.pend = s.pend
      /\ s.event[e] = <<>> => r.event = s.event /\ r.pend = s.pend /\ r.state = s.state
      /\ s.event[e] # <<>> =>
           /\ h \in Task /\ r.event = Served(s.event, e)
           /\ s.susp => r.pend = Append(s.pend, h) /\ r.state = s.state
           /\ ~s.susp => \A u \in Task : r.state[u] = IF u = h THEN "ready" ELSE s.state[u]
  BY WakeYield
<1> HIDE DEF h, r
<1>3. h = Head(k.event[e]) /\ r = k'
  BY <1>1 DEF h, r
<1> QED BY <1>1, <1>2, <1>3 DEF Roused, Deferred, SameLists

\* One list loses its head, the others stay.
LEMMA ServedLists ==
  ASSUME k \in Sched, NEW e \in Event, k.event[e] # <<>>, Distinct(k.event[e]), k'.event = Served(k.event, e)
  PROVE  /\ \A d \in Event \ {e} : k'.event[d] = k.event[d]
         /\ Distinct(k'.event[e]) /\ ToSet(k'.event[e]) = ToSet(k.event[e]) \ {Head(k.event[e])}
         /\ Head(k.event[e]) \in ToSet(k.event[e])
<1>1. k.event \in [Event -> Seq(Task)]
  BY DEF Sched
<1>2. k'.event[e] = Tail(k.event[e]) /\ \A d \in Event \ {e} : k'.event[d] = k.event[d]
  BY <1>1 DEF Served
<1> QED BY <1>1, <1>2, TailSet

\* The head of an event list that becomes ready leaves the lists as they should be.
LEMMA RousedLists ==
  ASSUME Typed, Control, Lists, ~k.susp, NEW e \in Event, Roused(e),
         \A u \in Thread : k.state[u] # "ready" => thread'[u] = thread[u]
  PROVE  Lists'
<1>1. k.pend = <<>> /\ k'.pend = <<>> /\ path = None /\ ToSet(<<>>) = {}
  BY DEF Control, Roused, ToSet
<1>2. ASSUME NEW u \in Task, k.state[u] # "ready"
      PROVE  /\ u \in Thread /\ Asleep(u) /\ thread[u].pc = "try" /\ thread'[u] = thread[u]
             /\ Op(u)' = Op(u) /\ Waits(u)' = Waits(u)
  <2>1. Asleep(u)
    BY <1>2 DEF Lists
  <2>2. u \in Thread /\ thread[u].pc = "try"
    BY <1>1, <2>1 DEF Asleep, Here, None
  <2> QED BY <1>2, <2>1, <2>2, SameCall
<1>3. \A u \in Thread : u \in Task
  BY DEF Thread
<1>4. \A d \in Event : Listed(d)
  BY DEF Lists
<1>5. /\ \A d \in Event : /\ Distinct(k'.event[d]) /\ ToSet(k'.event[d]) \subseteq ToSet(k.event[d])
                          /\ \A u \in ToSet(k.event[d]) : u \in ToSet(k'.event[d]) \/ k'.state[u] = "ready"
                          /\ \A u \in ToSet(k'.event[d]) : k'.state[u] = k.state[u]
      /\ \A u \in Task : k'.state[u] # "ready" => k'.state[u] = k.state[u]
  <2>1. CASE k.event[e] = <<>>
    BY <1>4, <2>1 DEF Roused, Listed
  <2>2. CASE k.event[e] # <<>>
    <3> DEFINE h == Head(k.event[e])
    <3>1. /\ \A d \in Event \ {e} : k'.event[d] = k.event[d]
          /\ Distinct(k'.event[e]) /\ ToSet(k'.event[e]) = ToSet(k.event[e]) \ {h} /\ h \in ToSet(k.event[e])
      BY <1>4, <2>2, ServedLists DEF Roused, Listed, Typed
    <3>2. \A u \in Task : k'.state[u] = IF u = h THEN "ready" ELSE k.state[u]
      BY <2>2 DEF Roused
    <3> HIDE DEF h
    <3>3. h \in Thread /\ Waits(h) = e
      BY <1>4, <3>1 DEF Listed
    <3>4. ASSUME NEW d \in Event
          PROVE  /\ Distinct(k'.event[d]) /\ ToSet(k'.event[d]) \subseteq ToSet(k.event[d])
                 /\ \A u \in ToSet(k.event[d]) : u \in ToSet(k'.event[d]) \/ k'.state[u] = "ready"
                 /\ \A u \in ToSet(k'.event[d]) : k'.state[u] = k.state[u]
      <4>1. \A u \in ToSet(k.event[d]) : u \in Thread /\ Waits(u) = d
        BY <1>4 DEF Listed
      <4>2. Distinct(k.event[d])
        BY <1>4 DEF Listed
      <4>3. CASE d = e
        BY <1>3, <3>1, <3>2, <3>3, <4>1, <4>3
      <4>4. CASE d # e
        BY <1>3, <3>1, <3>2, <3>3, <4>1, <4>2, <4>4
      <4> QED BY <4>3, <4>4
    <3> QED BY <3>2, <3>4
  <2> QED BY <2>1, <2>2
<1>6. ASSUME NEW d \in Event PROVE Listed(d)'
  <2>1. ASSUME NEW u \in ToSet(k'.event[d])
        PROVE  u \in Thread /\ Op(u)'.do # "delay" /\ Waits(u)' = d /\ k'.state[u] # "ready"
    <3>1. u \in Thread /\ Op(u).do # "delay" /\ Waits(u) = d /\ k.state[u] # "ready"
      BY <1>4, <1>5 DEF Listed
    <3> QED BY <1>2, <1>3, <1>5, <3>1
  <2> QED BY <1>1, <1>5, <2>1 DEF Listed
<1>7. Pending'
  BY <1>1 DEF Pending, Distinct
<1>8. ASSUME NEW u \in Task, k'.state[u] # "ready" PROVE Asleep(u)'
  <2>1. k.state[u] # "ready" /\ k'.state[u] = k.state[u]
    BY <1>5, <1>8
  <2>2. /\ u \in Thread /\ Asleep(u) /\ thread[u].pc = "try" /\ thread'[u] = thread[u]
        /\ Op(u)' = Op(u) /\ Waits(u)' = Waits(u)
    BY <1>2, <2>1
  <2>3. Op(u).do # "delay" => Waits(u) \in Event /\ u \in ToSet(k.event[Waits(u)])
    BY <1>1, <2>2, ThreadFacts DEF Asleep
  <2> QED BY <1>1, <1>5, <1>8, <2>1, <2>2, <2>3 DEF Asleep, Here
<1> QED BY <1>6, <1>7, <1>8 DEF Lists

\* So does one that becomes pending.
LEMMA DeferredLists ==
  ASSUME Typed, Lists, NEW o \in Object, Deferred(<<o, "receive">>), thread' = thread, path' = path
  PROVE  Lists'
<1> DEFINE e == <<o, "receive">>
           h == Head(k.event[e])
<1>1. e \in Event
  BY DEF Event
<1>2. Listed(e) /\ Pending
  BY <1>1 DEF Lists
<1>3. \A u : Op(u)' = Op(u) /\ Waits(u)' = Waits(u) /\ (Here(u)' <=> Here(u))
  BY DEF Op, Waits, On, Here, Deferred
<1>4. k'.state = k.state
  BY DEF Deferred
<1>5. CASE k.event[e] = <<>>
  <2>1. k'.event = k.event /\ k'.pend = k.pend
    BY <1>5 DEF Deferred, SameLists
  <2> QED BY <1>3, <1>4, <2>1 DEF Lists, Listed, Pending, Asleep
<1>6. CASE k.event[e] # <<>>
  <2>1. /\ \A d \in Event \ {e} : k'.event[d] = k.event[d]
        /\ Distinct(k'.event[e]) /\ ToSet(k'.event[e]) = ToSet(k.event[e]) \ {h} /\ h \in ToSet(k.event[e])
    BY <1>1, <1>2, <1>6, ServedLists DEF Deferred, Listed, Typed
  <2>2. h \in Thread /\ h \in Task /\ k.state[h] # "ready" /\ h \notin ToSet(k.pend) /\ Waits(h) = e
        /\ Op(h).do # "delay"
    BY <1>2, <2>1 DEF Listed, Thread
  <2>3. /\ ToSet(k'.pend) = ToSet(k.pend) \cup {h} /\ Distinct(k'.pend)
    <3>1. k.pend \in Seq(Task) /\ k'.pend = Append(k.pend, h)
      BY <1>6 DEF Deferred, Typed, Sched
    <3> HIDE DEF h
    <3> QED BY <1>2, <2>2, <3>1, AppendSet DEF Pending
  <2>4. Op(h).do = "take"
    BY <2>2 DEF Waits
  <2> HIDE DEF h, e
  <2>5. ASSUME NEW d \in Event PROVE Listed(d)'
    <3>1. Listed(d)
      BY DEF Lists
    <3>2. /\ Distinct(k'.event[d]) /\ ToSet(k'.event[d]) \subseteq ToSet(k.event[d])
          /\ h \notin ToSet(k'.event[d])
      <4>1. CASE d = e
        BY <2>1, <4>1
      <4>2. CASE d # e
        BY <2>1, <2>2, <3>1, <4>2 DEF Listed
      <4> QED BY <4>1, <4>2
    <3> QED BY <1>3, <1>4, <2>3, <3>1, <3>2 DEF Listed
  <2>6. Pending'
    BY <1>2, <1>3, <1>4, <2>2, <2>3, <2>4 DEF Pending
  <2>7. ASSUME NEW u \in Task, k'.state[u] # "ready" PROVE Asleep(u)'
    <3>1. Asleep(u) /\ u \in Thread
      BY <1>4, <2>7 DEF Lists, Asleep
    <3>2. Op(u).do # "delay" => Waits(u) \in Event
      BY <3>1, ThreadFacts
    <3>3. Op(u).do # "delay" /\ u \notin ToSet(k'.pend) => u \in ToSet(k'.event[Waits(u)])
      BY <2>1, <2>3, <3>1, <3>2 DEF Asleep
    <3> QED BY <1>3, <1>4, <3>1, <3>3 DEF Asleep
  <2> QED BY <2>5, <2>6, <2>7 DEF Lists
<1> QED BY <1>5, <1>6

\* Ticks and the end of a suspension: who is woken is in no list any more.
LEMMA TidiedLists ==
  ASSUME Typed, Lists, NEW woken, Tidied(k', k, woken),
         \A u \in Thread : k.state[u] # "ready" => thread'[u].todo = thread[u].todo /\ thread'[u].pc = "try"
  PROVE  Lists'
<1>1. k'.pend = <<>> /\ ToSet(<<>>) = {}
  BY DEF Tidied, ToSet
<1>2. /\ \A u \in Task : k'.state[u] # "ready" =>
             /\ k.state[u] # "ready" /\ u \notin ToSet(k.pend) /\ u \notin woken
             /\ k'.state[u] = "suspended" <=> k.state[u] = "suspended"
      /\ \A u \in Task : k.state[u] # "ready" /\ u \notin ToSet(k.pend) /\ u \notin woken => k'.state[u] # "ready"
      /\ \A d \in Event : /\ ToSet(k'.event[d]) = ToSet(k.event[d]) \ woken
                          /\ Distinct(k.event[d]) => Distinct(k'.event[d])
  BY DEF Tidied
<1>3. ASSUME NEW u \in Thread, k.state[u] # "ready"
      PROVE  Op(u)' = Op(u) /\ Waits(u)' = Waits(u) /\ thread'[u].pc = "try"
  BY <1>3, SameCall
<1>4. \A u \in Thread : u \in Task
  BY DEF Thread
<1>5. ASSUME NEW d \in Event PROVE Listed(d)'
  <2>1. Listed(d)
    BY DEF Lists
  <2> QED BY <1>1, <1>2, <1>3, <1>4, <2>1 DEF Listed
<1>6. Pending'
  BY <1>1 DEF Pending, Distinct
<1>7. ASSUME NEW u \in Task, k'.state[u] # "ready" PROVE Asleep(u)'
  <2>1. Asleep(u) /\ u \in Thread /\ u \notin ToSet(k.pend) /\ u \notin woken /\ k.state[u] # "ready"
    BY <1>2, <1>7 DEF Lists, Asleep
  <2>2. Op(u).do # "delay" => Waits(u) \in Event
    BY <2>1, ThreadFacts
  <2>3. Op(u).do # "delay" => u \in ToSet(k'.event[Waits(u)])
    BY <1>2, <2>1, <2>2 DEF Asleep
  <2> QED BY <1>1, <1>2, <1>3, <1>7, <2>1, <2>3 DEF Asleep, Here
<1> QED BY <1>5, <1>6, <1>7 DEF Lists

\* SysTick keeps Lists.
LEMMA SysTickLists ==
  ASSUME Typed, Control, Lists, SysTick PROVE Lists'
<1>1. thread' = thread /\ path' = path
  BY SysTickEffect
<1>2. CASE /\ SameWait(k', k) /\ SameLists(k', k) /\ SameRun(k', k)
  <2>1. \A u : Op(u)' = Op(u) /\ Waits(u)' = Waits(u) /\ (Here(u)' <=> Here(u))
    BY <1>1, <1>2 DEF Op, Waits, On, Here, SameRun
  <2>2. k'.event = k.event /\ k'.pend = k.pend /\ k'.state = k.state
    BY <1>2 DEF SameWait, SameLists
  <2> QED BY <2>1, <2>2 DEF Lists, Listed, Pending, Asleep
<1>3. CASE ~k.susp /\ \E woken : Tidied(k', k, woken)
  <2>1. path = None
    BY <1>3 DEF Control
  <2>2. \A u \in Thread : k.state[u] # "ready" => thread[u].pc = "try"
    BY <2>1 DEF Lists, Asleep, Here, Thread, None
  <2> QED BY <1>1, <1>3, <2>2, TidiedLists
<1> QED BY <1>2, <1>3, SysTickEffect

\* ResumeAll keeps Lists.
LEMMA ResumeAllLists ==
  ASSUME Typed, Control, Lists, NEW t \in Thread, ResumeAll(t) PROVE Lists'
<1>1. k.cur = t /\ thread[t].pc = "resume"
  BY ResumeAllEffect
<1>2. PICK woken : Tidied(k', k, woken)
  BY ResumeAllEffect
<1>3. /\ \A u \in Thread \ {t} : thread'[u] = thread[u]
      /\ path = "expired" \/ (thread'[t].todo = thread[t].todo /\ thread'[t].pc = "try")
  <2>1. CASE path = "expired" /\ Return(t, FALSE)
    BY <2>1, ReturnOthers
  <2>2. CASE \E r : /\ Moves(t, r)
                    /\ \/ r.pc = "try" /\ path # "expired"
                       \/ r.pc = "expired" /\ path = "expired" /\ Op(t).do = "take"
    BY <2>2, MovesFacts DEF Moves
  <2> QED BY ZenonT(40), <2>1, <2>2, ResumeAllEffect
<1>4. ASSUME NEW u \in Thread, k.state[u] # "ready" PROVE thread'[u].todo = thread[u].todo /\ thread'[u].pc = "try"
  <2>1. CASE u = t
    <3>1. path = "blocked"
      BY <1>1, <1>4, <2>1 DEF Control
    <3> QED BY <1>3, <2>1, <3>1
  <2>2. CASE u # t
    <3>1. Asleep(u)
      BY <1>4 DEF Lists, Thread
    <3> QED BY <1>1, <1>3, <2>2, <3>1 DEF Asleep, Here
  <2> QED BY <2>1, <2>2
<1> QED BY <1>2, <1>4, TidiedLists

\* Take rouses the first of those that wait to give.
LEMMA TakeRouses ==
  ASSUME Typed, Control, NEW t \in Thread, Take(t) PROVE <<On(t), "send">> \in Event /\ Roused(<<On(t), "send">>)
<1> DEFINE e == <<On(t), "send">>
<1>1. ~k.susp /\ k' \in YieldIf(Wake(TakenK(t), e).yield, Wake(TakenK(t), e)) /\ Op(t).do = "take"
  BY TakeEffect
<1>2. e \in Event /\ t \in Task /\ k \in Sched
  BY <1>1, ThreadFacts DEF Typed
<1>3. /\ TakenK(t) \in Sched /\ SameWait(TakenK(t), k) /\ SameLists(TakenK(t), k) /\ SameRun(TakenK(t), k)
  BY <1>2, TakenFacts
<1> HIDE DEF e
<1>4. Wake(TakenK(t), e).yield \in BOOLEAN
  <2>1. Wake(TakenK(t), e) \in Sched
    BY <1>2, <1>3, WakeFacts
  <2> QED BY <2>1 DEF Sched
<1>5. Roused(e)
  BY <1>1, <1>2, <1>3, <1>4, WakeRouses
<1> QED BY <1>2, <1>5 DEF e

\* Give rouses the first of those that wait to take.
LEMMA GiveRouses ==
  ASSUME Typed, Control, Mutexes, NEW t \in Thread, Give(t)
  PROVE  <<On(t), "receive">> \in Event /\ Roused(<<On(t), "receive">>)
<1> DEFINE e == <<On(t), "receive">>
<1>1. Op(t).do = "give"
  BY DEF Give
<1>2. OnMutex(t) => k.held[t] >= 1
  BY <1>1, GiverHolds
<1>3. /\ ~k.susp /\ GiveYields(t) \in BOOLEAN /\ k' \in YieldIf(GiveYields(t), Wake(GivenK(t), e))
  BY <1>2, GiveEffect DEF Handed
<1>4. e \in Event /\ t \in Task /\ k \in Sched
  BY <1>1, ThreadFacts DEF Typed
<1>5. /\ GivenK(t) \in Sched /\ SameWait(GivenK(t), k) /\ SameLists(GivenK(t), k) /\ SameRun(GivenK(t), k)
  BY <1>2, <1>4, GivenFacts
<1> HIDE DEF e
<1>6. Roused(e)
  BY <1>3, <1>4, <1>5, WakeRouses
<1> QED BY <1>4, <1>6 DEF e

\* A give from an interrupt rouses, defers or is remembered in cTxLock.
LEMMA GiveFromISRRouses ==
  ASSUME Typed, Control, NEW o \in Object, GiveFromISR(o)
  PROVE  /\ <<o, "receive">> \in Event
         /\ \/ queue[o].lock = Unlocked /\ queue'[o].lock = Unlocked
            \/ queue[o].lock # Unlocked /\ queue'[o].lock = queue[o].lock + 1 /\ k' = k
         /\ k' = k \/ (queue[o].lock = Unlocked /\ IF k.susp THEN Deferred(<<o, "receive">>) ELSE Roused(<<o, "receive">>))
<1> DEFINE e == <<o, "receive">>
<1>1. e \in Event /\ k \in Sched
  BY DEF Typed, Event
<1>2. \/ queue[o].lock = Unlocked /\ queue'[o].lock = Unlocked
      \/ queue[o].lock # Unlocked /\ queue'[o].lock = queue[o].lock + 1 /\ k' = k
  BY GiveFromISREffect
<1> HIDE DEF e
<1>3. k' = k \/ (queue[o].lock = Unlocked /\ \E b \in BOOLEAN : k' \in YieldIf(b, Wake(k, e)))
  BY GiveFromISREffect DEF e
<1>4. SameWait(k, k) /\ SameLists(k, k) /\ SameRun(k, k)
  BY DEF SameWait, SameLists, SameRun
<1>5. ASSUME NEW b \in BOOLEAN, k' \in YieldIf(b, Wake(k, e))
      PROVE  IF k.susp THEN Deferred(e) ELSE Roused(e)
  BY <1>1, <1>4, <1>5, WakeRouses
<1> QED BY <1>1, <1>2, <1>3, <1>5 DEF e

\* Take keeps Lists.
LEMMA TakeLists ==
  ASSUME Typed, Control, Lists, NEW t \in Thread, Take(t) PROVE Lists'
<1>1. k.cur = t /\ thread[t].pc = "try" /\ ~k.susp /\ Return(t, TRUE)
  BY TakeEffect
<1>2. k.state[t] = "ready"
  BY <1>1, AwakeRun DEF Inside
<1>3. \A u \in Thread \ {t} : thread'[u] = thread[u]
  BY <1>1, ReturnOthers
<1> QED BY <1>1, <1>2, <1>3, TakeRouses, RousedLists

\* Give keeps Lists.
LEMMA GiveLists ==
  ASSUME Typed, Control, Mutexes, Lists, NEW t \in Thread, Give(t) PROVE Lists'
<1>1. k.cur = t /\ thread[t].pc = "try" /\ Return(t, TRUE)
  BY DEF Give, At
<1>2. k.state[t] = "ready" /\ ~k.susp
  BY <1>1, AwakeRun DEF Inside
<1>3. \A u \in Thread \ {t} : thread'[u] = thread[u]
  BY <1>1, ReturnOthers
<1> QED BY <1>2, <1>3, GiveRouses, RousedLists

\* GiveFromISR keeps Lists.
LEMMA GiveFromISRLists ==
  ASSUME Typed, Control, Lists, NEW o \in Object, GiveFromISR(o) PROVE Lists'
<1>1. thread' = thread /\ path' = path
  BY GiveFromISREffect
<1>2. CASE k' = k
  <2>1. \A u : Op(u)' = Op(u) /\ Waits(u)' = Waits(u) /\ (Here(u)' <=> Here(u))
    BY <1>1, <1>2 DEF Op, Waits, On, Here
  <2> QED BY <1>2, <2>1 DEF Lists, Listed, Pending, Asleep
<1>3. CASE k.susp /\ Deferred(<<o, "receive">>)
  BY <1>1, <1>3, DeferredLists
<1>4. CASE ~k.susp /\ Roused(<<o, "receive">>)
  BY <1>1, <1>4, GiveFromISRRouses, RousedLists
<1> QED BY <1>2, <1>3, <1>4, GiveFromISRRouses

\* At first nobody sleeps.
LEMMA InitLists ==
  ASSUME Init PROVE Lists
<1>1. /\ k.state = [t \in Task |-> "ready"] /\ k.event = [e \in Event |-> <<>>] /\ k.pend = <<>>
  BY DEF Init
<1>2. ToSet(<<>>) = {}
  BY DEF ToSet
<1> QED BY <1>1, <1>2 DEF Lists, Listed, Pending, Distinct

-----------------------------------------------------------------------------
(* Wake-ups: how many tasks are awake that will try, and for how much.     *)

\* S has n elements or more.
AtLeast(S, n) == \E T \in SUBSET S : IsFiniteSet(T) /\ Cardinality(T) >= n

\* Every set has none.
LEMMA AtLeastNone ==
  ASSUME NEW S, NEW n \in Int, n <= 0 PROVE AtLeast(S, n)
<1>1. {} \in SUBSET S /\ IsFiniteSet({}) /\ Cardinality({}) = 0
  BY FS_EmptySet
<1> QED BY <1>1 DEF AtLeast

\* A larger set has as many, and fewer.
LEMMA AtLeastMore ==
  ASSUME NEW S, NEW R, S \subseteq R, NEW n \in Int, NEW m \in Int, m <= n, AtLeast(S, n)
  PROVE  AtLeast(R, m)
<1>1. PICK T \in SUBSET S : IsFiniteSet(T) /\ Cardinality(T) >= n
  BY DEF AtLeast
<1>2. Cardinality(T) \in Nat /\ T \in SUBSET R
  BY <1>1, FS_CardinalityType
<1>3. Cardinality(T) >= m
  BY <1>1, <1>2
<1> QED BY <1>1, <1>2, <1>3 DEF AtLeast

\* Without one element there are n - 1.
LEMMA AtLeastLess ==
  ASSUME NEW S, NEW x, NEW n \in Int, AtLeast(S, n) PROVE AtLeast(S \ {x}, n - 1)
<1>1. PICK T \in SUBSET S : IsFiniteSet(T) /\ Cardinality(T) >= n
  BY DEF AtLeast
<1>2. Cardinality(T) \in Nat
  BY <1>1, FS_CardinalityType
<1>3. IsFiniteSet(T \ {x}) /\ Cardinality(T \ {x}) >= Cardinality(T) - 1 /\ Cardinality(T \ {x}) \in Nat
  <2>1. /\ IsFiniteSet(T \ {x})
        /\ Cardinality(T \ {x}) = IF x \in T THEN Cardinality(T) - 1 ELSE Cardinality(T)
    BY <1>1, FS_RemoveElement
  <2>2. Cardinality(T \ {x}) \in Nat
    BY <2>1, FS_CardinalityType
  <2> QED BY <1>2, <2>1, <2>2
<1>4. Cardinality(T \ {x}) >= n - 1 /\ T \ {x} \in SUBSET (S \ {x})
  BY <1>1, <1>2, <1>3
<1> QED BY <1>3, <1>4 DEF AtLeast

\* A set with one element or more has one.
LEMMA AtLeastOne ==
  ASSUME NEW S, NEW n \in Int, n >= 1, AtLeast(S, n) PROVE \E x : x \in S
<1>1. PICK T \in SUBSET S : IsFiniteSet(T) /\ Cardinality(T) >= n
  BY DEF AtLeast
<1>2. T # {}
  <2>1. T = {} => Cardinality(T) = 0
    BY FS_EmptySet
  <2> QED BY <1>1, <2>1
<1> QED BY <1>1, <1>2

\* As many elements as a sequence without repetitions has, all of them new.
LEMMA AtLeastFront ==
  ASSUME NEW S, NEW n \in Int, AtLeast(S, n), NEW s \in Seq(Task), Distinct(s), ToSet(s) \cap S = {}
  PROVE  AtLeast(S \cup ToSet(s), n + Len(s))
<1>1. PICK T \in SUBSET S : IsFiniteSet(T) /\ Cardinality(T) >= n
  BY DEF AtLeast
<1>2. /\ Len(s) \in Nat /\ DOMAIN s = 1..Len(s)
      /\ \A t : t \in ToSet(s) <=> \E i \in 1..Len(s) : s[i] = t
  BY SeqFacts
<1>3. s \in Bijection(1..Len(s), ToSet(s))
  <2>1. s \in [1..Len(s) -> ToSet(s)]
    BY <1>2
  <2>2. \A i, j \in 1..Len(s) : s[i] = s[j] => i = j
    BY <1>2 DEF Distinct
  <2>3. \A t \in ToSet(s) : \E i \in 1..Len(s) : s[i] = t
    BY <1>2
  <2> QED BY <2>1, <2>2, <2>3 DEF Bijection, Injection, Surjection, IsInjective
<1>4. ExistsBijection(1..Len(s), ToSet(s))
  BY <1>3 DEF ExistsBijection
<1>5. IsFiniteSet(ToSet(s)) /\ Cardinality(ToSet(s)) = Len(s)
  BY <1>2, <1>4, FS_NatBijection, FS_CountingElements
<1>6. T \cap ToSet(s) = {} /\ Cardinality({}) = 0
  BY FS_EmptySet
<1>7. /\ IsFiniteSet(T \cup ToSet(s))
      /\ Cardinality(T \cup ToSet(s)) = Cardinality(T) + Cardinality(ToSet(s)) - Cardinality(T \cap ToSet(s))
  BY <1>1, <1>5, FS_Union
<1>8. Cardinality(T) \in Nat
  BY <1>1, FS_CardinalityType
<1>9. Cardinality(T \cup ToSet(s)) >= n + Len(s)
  <2>1. Cardinality(T \cap ToSet(s)) = 0
    BY <1>6
  <2>2. Cardinality(T \cup ToSet(s)) = Cardinality(T) + Len(s)
    BY <1>2, <1>5, <1>7, <1>8, <2>1
  <2> QED BY <1>1, <1>2, <1>8, <2>2
<1>10. T \cup ToSet(s) \in SUBSET (S \cup ToSet(s))
  OBVIOUS
<1> QED BY <1>7, <1>9, <1>10 DEF AtLeast

\* With a new element there are n + 1.
LEMMA AtLeastNext ==
  ASSUME NEW S, NEW n \in Int, AtLeast(S, n), NEW x, x \notin S
  PROVE  AtLeast(S \cup {x}, n + 1)
<1>1. PICK T \in SUBSET S : IsFiniteSet(T) /\ Cardinality(T) >= n
  BY DEF AtLeast
<1>2. Cardinality(T) \in Nat /\ x \notin T
  BY <1>1, FS_CardinalityType
<1>3. IsFiniteSet(T \cup {x}) /\ Cardinality(T \cup {x}) = Cardinality(T) + 1
  BY <1>1, <1>2, FS_AddElement
<1>4. Cardinality(T \cup {x}) >= n + 1 /\ T \cup {x} \in SUBSET (S \cup {x})
  BY <1>1, <1>2, <1>3
<1> QED BY <1>3, <1>4 DEF AtLeast

\* Tasks that will do it, as soon as they run: pending ones and those that are about to.
Trying(o, do) ==
  {t \in Thread : /\ Op(t).do = do /\ On(t) = o
                  /\ t \in ToSet(k.pend) \/ (k.state[t] = "ready" /\ thread[t].pc \in {"try", "expired"})}

\* The event list of those that do it.
Side(do) == IF do = "take" THEN "receive" ELSE "send"

\* Gives to a locked queue: prvUnlockQueue will wake as many.
Later(o) == IF queue[o].lock = Unlocked THEN 0 ELSE queue[o].lock

\* How many more can take from o, or give to it, than will be woken later.
Spare(o, do) == IF do = "take" THEN queue[o].count - Later(o) ELSE Size[o] - queue[o].count

\* While others wait, as many tasks will try as there are messages, or free places.
Wakes(o, do) == k.event[<<o, Side(do)>>] # <<>> => AtLeast(Trying(o, do), Spare(o, do))

\* What may have to wait.
Ways == {"take", "give"}
Wakeups == \A o \in Object, do \in Ways : Wakes(o, do)

\* A task that is about to block has seen that it must.
Placing ==
  k.susp /\ thread[k.cur].pc = "place" /\ Op(k.cur).do # "delay" => Spare(On(k.cur), Op(k.cur).do) <= 0

\* They are integers.
LEMMA SpareFacts ==
  ASSUME Typed, NEW o \in Object
  PROVE  /\ queue[o].count \in Nat /\ queue[o].lock \in Int /\ Later(o) \in Nat
         /\ Size[o] \in Nat /\ \A do : Spare(o, do) \in Int
<1>1. queue[o] \in Queue /\ Unlocked <= queue[o].lock
  BY DEF Typed
<1>2. queue[o].count \in Nat /\ queue[o].lock \in Int /\ Later(o) \in Nat
  BY <1>1 DEF Queue, Later, Unlocked
<1>3. Size[o] \in Nat
  BY ObjectAssumption
<1> QED BY <1>2, <1>3 DEF Spare

\* Every object has two lists.
LEMMA SideFacts ==
  ASSUME NEW o \in Object, NEW do \in Ways
  PROVE  /\ <<o, Side(do)>> \in Event
         /\ \A u, p \in Object, d \in Ways : <<p, Side(d)>> = <<o, Side(do)>> <=> p = o /\ d = do
  BY DEF Side, Event, Ways

\* The event list of a call.
LEMMA WaitsSide ==
  ASSUME Typed, NEW t \in Thread, Op(t).do # "delay"
  PROVE  /\ Op(t).do \in Ways /\ On(t) \in Object /\ Waits(t) = <<On(t), Side(Op(t).do)>>
         /\ \A o \in Object, do \in Ways : Waits(t) = <<o, Side(do)>> <=> o = On(t) /\ do = Op(t).do
  BY ThreadFacts DEF Side, Ways, Waits

\* No wake-up is lost when nobody less tries for no more.
LEMMA KeepWakes ==
  ASSUME Typed, Typed', NEW o \in Object, NEW do \in Ways, Wakes(o, do),
         k'.event[<<o, Side(do)>>] # <<>> => k.event[<<o, Side(do)>>] # <<>>,
         Trying(o, do) \subseteq Trying(o, do)', Spare(o, do)' <= Spare(o, do)
  PROVE  Wakes(o, do)'
<1>1. Spare(o, do) \in Int /\ Spare(o, do)' \in Int
  <2>1. Spare(o, do) \in Int
    BY SpareFacts
  <2>2. Spare(o, do)' \in Int
    <3>1. queue'[o] \in Queue /\ Unlocked <= queue'[o].lock
      BY DEF Typed
    <3> QED BY <3>1, ObjectAssumption DEF Spare, Later, Queue
  <2> QED BY <2>1, <2>2
<1>2. ASSUME k'.event[<<o, Side(do)>>] # <<>> PROVE AtLeast(Trying(o, do)', Spare(o, do)')
  BY <1>1, <1>2, AtLeastMore DEF Wakes
<1> QED BY <1>2 DEF Wakes, AtLeast, Side

\* So they are after a step.
LEMMA SpareNext ==
  ASSUME Typed', NEW o \in Object, NEW do PROVE Spare(o, do)' \in Int
<1>1. queue'[o] \in Queue /\ Unlocked <= queue'[o].lock
  BY DEF Typed
<1> QED BY <1>1, ObjectAssumption DEF Spare, Later, Queue

\* Nobody need try where nothing is available.
LEMMA NoneWakes ==
  ASSUME Typed', NEW o \in Object, NEW do \in Ways, Spare(o, do)' <= 0 PROVE Wakes(o, do)'
<1>1. Spare(o, do)' \in Int
  BY SpareNext
<1>2. AtLeast(Trying(o, do)', Spare(o, do)')
  BY <1>1, AtLeastNone
<1> QED BY <1>2 DEF Wakes, AtLeast, Side

\* One that tried has taken one, or given one.
LEMMA LessWakes ==
  ASSUME Typed, Typed', NEW o \in Object, NEW do \in Ways, Wakes(o, do),
         k'.event[<<o, Side(do)>>] # <<>> => k.event[<<o, Side(do)>>] # <<>>,
         NEW t, Trying(o, do) \ {t} \subseteq Trying(o, do)', Spare(o, do)' = Spare(o, do) - 1
  PROVE  Wakes(o, do)'
<1>1. Spare(o, do) \in Int /\ Spare(o, do)' \in Int
  BY SpareFacts, SpareNext
<1>2. ASSUME k'.event[<<o, Side(do)>>] # <<>> PROVE AtLeast(Trying(o, do)', Spare(o, do)')
  <2>1. AtLeast(Trying(o, do) \ {t}, Spare(o, do) - 1)
    BY <1>1, <1>2, AtLeastLess DEF Wakes
  <2> QED BY <1>1, <2>1, AtLeastMore
<1> QED BY <1>2 DEF Wakes, AtLeast, Side

\* One more tries for one more.
LEMMA MoreWakes ==
  ASSUME Typed, Typed', NEW o \in Object, NEW do \in Ways, Wakes(o, do),
         k'.event[<<o, Side(do)>>] # <<>> => k.event[<<o, Side(do)>>] # <<>>,
         NEW x, x \notin Trying(o, do), Trying(o, do) \cup {x} \subseteq Trying(o, do)',
         Spare(o, do)' = Spare(o, do) + 1
  PROVE  Wakes(o, do)'
<1>1. Spare(o, do) \in Int /\ Spare(o, do)' \in Int
  BY SpareFacts, SpareNext
<1>2. ASSUME k'.event[<<o, Side(do)>>] # <<>> PROVE AtLeast(Trying(o, do)', Spare(o, do)')
  <2>1. AtLeast(Trying(o, do) \cup {x}, Spare(o, do) + 1)
    BY <1>1, <1>2, AtLeastNext DEF Wakes
  <2> QED BY <1>1, <2>1, AtLeastMore
<1> QED BY <1>2 DEF Wakes, AtLeast, Side

\* Who tries, as a fact about one thread.
LEMMA TryingFacts ==
  ASSUME NEW o, NEW do
  PROVE  /\ \A u : u \in Trying(o, do) <=>
              /\ u \in Thread /\ Op(u).do = do /\ On(u) = o
              /\ u \in ToSet(k.pend) \/ (k.state[u] = "ready" /\ thread[u].pc \in {"try", "expired"})
  BY DEF Trying

\* Others go on trying while their records and their states stay.
LEMMA OthersTry ==
  ASSUME NEW u \in Thread, thread'[u] = thread[u], k.state[u] = "ready" => k'.state[u] = "ready",
         u \in ToSet(k.pend) => u \in ToSet(k'.pend), NEW o, NEW do, u \in Trying(o, do)
  PROVE  u \in Trying(o, do)'
<1>1. Op(u)' = Op(u) /\ On(u)' = On(u)
  BY SameCall
<1> QED BY <1>1 DEF Trying

\* A step changes nothing that one could take or give.
SameSpare == \A o \in Object, do \in Ways : Spare(o, do)' = Spare(o, do)

\* t goes on trying, or it has seen that it would try in vain.
Gone(t) ==
  \A o \in Object, do \in Ways : t \in Trying(o, do) => t \in Trying(o, do)' \/ Spare(o, do) <= 0

\* For example one that leaves the objects alone.
LEMMA SameQueue == ASSUME queue' = queue PROVE SameSpare
  BY DEF SameSpare, Spare, Later

\* A step of t that touches no list, no state and no object.
LEMMA QuietWakeups ==
  ASSUME Typed, Typed', Wakeups, NEW t \in Thread, k'.state = k.state, SameLists(k', k),
         \A u \in Thread \ {t} : thread'[u] = thread[u], SameSpare, Gone(t)
  PROVE  Wakeups'
<1>1. ASSUME NEW o \in Object, NEW do \in Ways PROVE Wakes(o, do)'
  <2>1. Wakes(o, do) /\ Spare(o, do)' = Spare(o, do) /\ Spare(o, do) \in Int
    BY SpareFacts DEF Wakeups, SameSpare
  <2>2. k'.event = k.event /\ k'.pend = k.pend
    BY DEF SameLists
  <2>3. \A u \in Trying(o, do) : u # t => u \in Trying(o, do)'
    BY <2>2, OthersTry DEF Trying
  <2>4. CASE Spare(o, do) <= 0
    BY <2>1, <2>4, NoneWakes
  <2>5. CASE ~(Spare(o, do) <= 0)
    <3>1. Trying(o, do) \subseteq Trying(o, do)'
      BY <2>3, <2>5 DEF Gone
    <3>2. Spare(o, do)' <= Spare(o, do) /\ Wakes(o, do)
      BY <2>1
    <3>3. k'.event[<<o, Side(do)>>] # <<>> => k.event[<<o, Side(do)>>] # <<>>
      BY <2>2
    <3> QED BY <3>1, <3>2, <3>3, KeepWakes
  <2> QED BY <2>4, <2>5
<1> QED BY <1>1 DEF Wakeups, Ways

\* A thread that does not try is not missed.
LEMMA NotTrying ==
  ASSUME NEW t, t \notin ToSet(k.pend), thread[t].pc \notin {"try", "expired"} \/ Op(t).do = "delay"
  PROVE  Gone(t)
  BY DEF Gone, Trying, Ways

\* An attempt that cannot succeed is not counted.
LEMMA InVain ==
  ASSUME Typed, NEW t \in Thread, Op(t).do # "delay", ~Possible(t)
  PROVE  Spare(On(t), Op(t).do) <= 0
<1>1. On(t) \in Object
  BY ThreadFacts
<1>2. queue[On(t)].count \in Nat /\ Later(On(t)) \in Nat /\ Size[On(t)] \in Nat
  BY <1>1, SpareFacts
<1> QED BY <1>2, ThreadFacts DEF Possible, Spare

\* Whoever sees that it would try in vain is not missed.
LEMMA VainGone ==
  ASSUME Typed, NEW t \in Thread, Op(t).do # "delay", ~Possible(t) PROVE Gone(t)
  BY InVain DEF Gone, Trying

\* The running thread outside of a critical section: nothing is locked or pending.
LEMMA RunsAlone ==
  ASSUME Control, NEW t \in Thread, k.cur = t, thread[t].pc \notin Inside
  PROVE  t \notin ToSet(k.pend) /\ k.pend = <<>>
<1>1. k.pend = <<>>
  BY AwakeRun
<1> QED BY <1>1 DEF ToSet

\* Refuse keeps Wakeups.
LEMMA RefuseWakeups ==
  ASSUME Typed, Typed', Control, Wakeups, NEW t \in Thread, Refuse(t) PROVE Wakeups'
<1>1. k.cur = t /\ thread[t].pc = "try" /\ k' = k /\ queue' = queue /\ Op(t).do # "delay" /\ ~Possible(t)
  BY DEF Refuse, At
<1>2. \A u \in Thread \ {t} : thread'[u] = thread[u]
  <2>1. CASE Goto(t, "halted")
    BY <2>1 DEF Goto, Typed
  <2>2. CASE Return(t, FALSE)
    BY <2>2, ReturnOthers
  <2> QED BY <2>1, <2>2 DEF Refuse
<1>3. SameSpare /\ Gone(t)
  BY <1>1, SameQueue, VainGone
<1> QED BY <1>1, <1>2, <1>3, QuietWakeups DEF SameLists

\* DelayOver keeps Wakeups.
LEMMA DelayOverWakeups ==
  ASSUME Typed, Typed', Control, Wakeups, NEW t \in Thread, DelayOver(t) PROVE Wakeups'
<1>1. k.cur = t /\ thread[t].pc = "try" /\ k' = k /\ queue' = queue /\ Op(t).do = "delay"
  BY DEF DelayOver, At
<1>2. \A u \in Thread \ {t} : thread'[u] = thread[u]
  BY ReturnOthers DEF DelayOver
<1>3. t \notin ToSet(k.pend)
  BY <1>1, RunsAlone DEF Inside
<1>4. SameSpare /\ Gone(t)
  BY <1>1, <1>3, SameQueue, NotTrying
<1> QED BY <1>1, <1>2, <1>4, QuietWakeups DEF SameLists

\* Expire keeps Wakeups.
LEMMA ExpireWakeups ==
  ASSUME Typed, Typed', Control, Wakeups, NEW t \in Thread, Expire(t) PROVE Wakeups'
<1>1. k.cur = t /\ thread[t].pc = "expired" /\ k' = k /\ queue' = queue
  BY DEF Expire, At
<1>2. k.state[t] = "ready" /\ Op(t).do # "delay"
  <2>1. Sound(t) /\ Op(t).do \in {"delay", "take", "give"}
    BY ThreadFacts DEF Control
  <2> QED BY <1>1, <2>1, AwakeRun DEF Inside, Sound
<1>3. \A u \in Thread \ {t} : thread'[u] = thread[u]
  <2>1. CASE Goto(t, "try") \/ Goto(t, "restore")
    BY <2>1 DEF Goto, Typed
  <2>2. CASE Return(t, FALSE)
    BY <2>2, ReturnOthers
  <2> QED BY <2>1, <2>2 DEF Expire
<1>4. Gone(t)
  <2>1. CASE Goto(t, "try")
    <3>1. PICK r : Moves(t, r) /\ r.pc = "try"
      BY <2>1, Strings, GotoGoes
    <3>2. Op(t)' = Op(t) /\ On(t)' = On(t) /\ thread'[t].pc = "try"
      BY <3>1, MovesFacts
    <3>3. \A o \in Object, do \in Ways : t \in Trying(o, do) => t \in Trying(o, do)'
      BY <1>1, <1>2, <3>2 DEF Trying
    <3> QED BY <3>3 DEF Gone
  <2>2. CASE ~Possible(t)
    BY <1>2, <2>2, VainGone
  <2> QED BY <2>1, <2>2 DEF Expire
<1>5. SameSpare
  BY <1>1, SameQueue
<1> QED BY <1>1, <1>3, <1>4, <1>5, QuietWakeups DEF SameLists

\* Restore keeps Wakeups.
LEMMA RestoreWakeups ==
  ASSUME Typed, Typed', Control, Wakeups, NEW t \in Thread, Restore(t) PROVE Wakeups'
<1>1. /\ k.cur = t /\ thread[t].pc = "restore" /\ SameWait(k', k) /\ SameLists(k', k)
      /\ Return(t, FALSE) /\ queue' = queue
  BY RestoreEffect
<1>2. \A u \in Thread \ {t} : thread'[u] = thread[u]
  BY <1>1, ReturnOthers
<1>3. t \notin ToSet(k.pend)
  BY <1>1, RunsAlone DEF Inside
<1>4. SameSpare /\ Gone(t)
  BY <1>1, <1>3, SameQueue, NotTrying
<1> QED BY <1>1, <1>2, <1>4, QuietWakeups DEF SameWait

\* Enter keeps Wakeups.
LEMMA EnterWakeups ==
  ASSUME Typed, Typed', Control, Wakeups, NEW t \in Thread, Enter(t) PROVE Wakeups'
<1>1. /\ k.cur = t /\ SameWait(k', k) /\ SameLists(k', k) /\ queue' = queue
      /\ Op(t).do # "delay" /\ ~Possible(t)
  BY EnterEffect
<1>2. PICK r \in Rec : Goes(t, r)
  BY EnterEffect
<1>3. \A u \in Thread \ {t} : thread'[u] = thread[u]
  BY <1>2, GoesFacts DEF Typed
<1>4. SameSpare /\ Gone(t)
  BY <1>1, SameQueue, VainGone
<1> QED BY <1>1, <1>3, <1>4, QuietWakeups DEF SameWait

\* SuspendAll keeps Wakeups.
LEMMA SuspendAllWakeups ==
  ASSUME Typed, Typed', Control, Wakeups, NEW t \in Thread, SuspendAll(t) PROVE Wakeups'
<1>1. k.cur = t /\ thread[t].pc = "suspend" /\ SameWait(k', k) /\ SameLists(k', k) /\ queue' = queue
  BY SuspendAllEffect
<1>2. PICK r : Moves(t, r)
  BY SuspendAllEffect
<1>3. \A u \in Thread \ {t} : thread'[u] = thread[u]
  BY <1>2, MovesFacts
<1>4. t \notin ToSet(k.pend)
  BY <1>1, RunsAlone DEF Inside
<1>5. SameSpare /\ Gone(t)
  BY <1>1, <1>4, SameQueue, NotTrying
<1> QED BY <1>1, <1>3, <1>5, QuietWakeups DEF SameWait

\* A ready thread that has suspended the scheduler tries nothing.
LEMMA BusyGone ==
  ASSUME Typed, Control, Lists, NEW t \in Thread, k.cur = t, thread[t].pc \in {"lock", "test", "place"}
  PROVE  Gone(t) /\ k.state[t] = "ready" /\ t \notin ToSet(k.pend)
<1>1. path # "blocked"
  BY InsideRun DEF Inside, None
<1>2. k.state[t] = "ready"
  BY <1>1 DEF Control
<1>3. t \notin ToSet(k.pend)
  BY <1>2, ReadyNowhere
<1> QED BY <1>2, <1>3, NotTrying

\* Lock keeps Wakeups.
LEMMA LockWakeups ==
  ASSUME Typed, Typed', Control, Lists, Wakeups, NEW t \in Thread, Lock(t) PROVE Wakeups'
<1>1. /\ k.cur = t /\ thread[t].pc = "lock" /\ SameWait(k', k) /\ SameLists(k', k) /\ On(t) \in Object
      /\ queue'[On(t)].count = queue[On(t)].count /\ queue'[On(t)].lock = 0
      /\ \A o \in Object \ {On(t)} : queue'[o] = queue[o]
  BY LockEffect
<1>2. \A u \in Thread \ {t} : thread'[u] = thread[u]
  <2>1. PICK r : Moves(t, r)
    BY LockEffect
  <2> QED BY <2>1, MovesFacts
<1>3. queue[On(t)].lock = Unlocked
  BY <1>1, InsideRun DEF Inside
<1>4. SameSpare
  BY <1>1, <1>3 DEF SameSpare, Spare, Later, Unlocked
<1>5. Gone(t)
  BY <1>1, BusyGone
<1> QED BY <1>1, <1>2, <1>4, <1>5, QuietWakeups DEF SameWait

\* Test keeps Wakeups.
LEMMA TestWakeups ==
  ASSUME Typed, Typed', Control, Lists, Wakeups, NEW t \in Thread, Test(t) PROVE Wakeups'
<1>1. k.cur = t /\ thread[t].pc = "test" /\ k' = k /\ queue' = queue
  BY TestEffect
<1>2. \A u \in Thread \ {t} : thread'[u] = thread[u]
  <2>1. PICK r : Moves(t, r)
    BY TestEffect
  <2> QED BY <2>1, MovesFacts
<1>3. SameSpare /\ Gone(t)
  BY <1>1, SameQueue, BusyGone
<1> QED BY <1>1, <1>2, <1>3, QuietWakeups DEF SameLists

\* PlaceDelay keeps Wakeups.
LEMMA PlaceDelayWakeups ==
  ASSUME Typed, Typed', Control, Lists, Wakeups, NEW t \in Thread, PlaceDelay(t) PROVE Wakeups'
<1>1. /\ k.cur = t /\ thread[t].pc = "place" /\ queue' = queue
      /\ k'.event = k.event /\ k'.pend = k.pend
      /\ \A u \in Task \ {t} : k'.state[u] = k.state[u]
  BY PlaceDelayEffect DEF SameLists
<1>2. PICK r : Moves(t, r)
  BY PlaceDelayEffect
<1>3. \A u \in Thread \ {t} : thread'[u] = thread[u] /\ u \in Task \ {t}
  BY <1>2, MovesFacts DEF Thread
<1>4. thread[t].pc \notin {"try", "expired"} /\ t \notin ToSet(k.pend)
  BY <1>1, BusyGone
<1>5. ASSUME NEW o \in Object, NEW do \in Ways PROVE Wakes(o, do)'
  <2>1. Wakes(o, do) /\ Spare(o, do)' = Spare(o, do) /\ Spare(o, do) \in Int
    BY <1>1, SpareFacts, SameQueue DEF Wakeups, SameSpare
  <2>2. Trying(o, do) \subseteq Trying(o, do)'
    <3>1. ASSUME NEW u \in Trying(o, do) PROVE u \in Trying(o, do)'
      <4>1. u \in Thread \ {t}
        BY <1>4 DEF Trying
      <4> QED BY <1>1, <1>3, <4>1, OthersTry
    <3> QED BY <3>1
  <2>3. Spare(o, do)' <= Spare(o, do) /\ (k'.event[<<o, Side(do)>>] # <<>> => k.event[<<o, Side(do)>>] # <<>>)
    BY <1>1, <2>1
  <2> QED BY <2>1, <2>2, <2>3, KeepWakes
<1> QED BY <1>5 DEF Wakeups, Ways

\* Place keeps Wakeups.
LEMMA PlaceWakeups ==
  ASSUME Typed, Typed', Control, Mutexes, Lists, Placing, Wakeups, NEW t \in Thread, Place(t) PROVE Wakeups'
<1>1. OnMutex(t) => queue[On(t)].holder \in Task
  BY PlaceHeld DEF Place, At
<1>2. /\ k.cur = t /\ thread[t].pc = "place" /\ queue' = queue /\ Op(t).do # "delay" /\ k'.pend = k.pend
      /\ \A u \in Task \ {t} : k'.state[u] = k.state[u]
      /\ \A d \in Event \ {Waits(t)} : k'.event[d] = k.event[d]
  BY <1>1, PlaceEffect
<1>3. \A u \in Thread \ {t} : thread'[u] = thread[u] /\ u \in Task \ {t}
  <2>1. PICK r : Moves(t, r)
    BY <1>1, PlaceEffect
  <2> QED BY <2>1, MovesFacts DEF Thread
<1>4. thread[t].pc \notin {"try", "expired"} /\ t \notin ToSet(k.pend)
  BY <1>2, BusyGone
<1>5. Spare(On(t), Op(t).do) <= 0
  BY <1>2, InsideRun DEF Placing, Inside
<1>6. ASSUME NEW o \in Object, NEW do \in Ways PROVE Wakes(o, do)'
  <2>1. Wakes(o, do) /\ Spare(o, do)' = Spare(o, do) /\ Spare(o, do) \in Int
    BY <1>2, SpareFacts, SameQueue DEF Wakeups, SameSpare
  <2>2. Trying(o, do) \subseteq Trying(o, do)'
    <3>1. ASSUME NEW u \in Trying(o, do) PROVE u \in Trying(o, do)'
      <4>1. u \in Thread \ {t}
        BY <1>4 DEF Trying
      <4> QED BY <1>2, <1>3, <4>1, OthersTry
    <3> QED BY <3>1
  <2>3. CASE o = On(t) /\ do = Op(t).do
    BY <1>5, <2>1, <2>3, NoneWakes
  <2>4. CASE ~(o = On(t) /\ do = Op(t).do)
    <3>1. <<o, Side(do)>> \in Event \ {Waits(t)}
      BY <1>2, <2>4, WaitsSide, SideFacts
    <3>2. Spare(o, do)' <= Spare(o, do) /\ (k'.event[<<o, Side(do)>>] # <<>> => k.event[<<o, Side(do)>>] # <<>>)
      BY <1>2, <2>1, <3>1
    <3> QED BY <2>1, <2>2, <3>2, KeepWakes
  <2> QED BY <2>3, <2>4
<1> QED BY <1>6 DEF Wakeups, Ways

\* As many of those that wait are pending as were to be woken later.
LEMMA UnlockWakeups ==
  ASSUME Typed, Typed', Control, Lists, Wakeups, NEW t \in Thread, Unlock(t) PROVE Wakeups'
<1> DEFINE e == <<On(t), "receive">>
           w == k.event[e]
           l == queue[On(t)].lock
<1>1. /\ k.cur = t /\ thread[t].pc = "unlock" /\ k'.state = k.state /\ Op(t).do # "delay"
      /\ On(t) \in Object /\ e \in Event /\ l \in Nat
      /\ queue'[On(t)].count = queue[On(t)].count /\ queue'[On(t)].lock = Unlocked
      /\ \A o \in Object \ {On(t)} : queue'[o] = queue[o]
  BY UnlockEffect DEF SameWait
<1>2. PICK n : UnlockedK(k, k', e, n) /\ n <= l /\ (n = l \/ n = Len(k.event[e]))
  BY UnlockEffect
<1>3. PICK r : Moves(t, r) /\ r.pc = "resume"
  BY ZenonT(40), UnlockEffect
<1>4. /\ \A u \in Thread : thread'[u].todo = thread[u].todo /\ (u # t => thread'[u] = thread[u])
      /\ thread'[t].pc = "resume"
  BY <1>3, MovesFacts DEF Moves
<1>5. \A u \in Thread : Op(u)' = Op(u) /\ On(u)' = On(u)
  BY <1>4, SameCall
<1> DEFINE front == SubSeq(w, 1, n)
           back == SubSeq(w, n + 1, Len(w))
<1>6. /\ k'.event[e] = back /\ k'.pend = k.pend \o front
      /\ \A d \in Event \ {e} : k'.event[d] = k.event[d]
  BY <1>2 DEF UnlockedK
<1>7. Listed(e) /\ w \in Seq(Task) /\ n \in 0..Len(w) /\ k.pend \in Seq(Task)
  BY <1>1, <1>2 DEF Lists, UnlockedK, Typed, Sched
<1>8. /\ front \in Seq(Task) /\ back \in Seq(Task) /\ Len(front) = n
      /\ ToSet(w) = ToSet(front) \cup ToSet(back) /\ Distinct(front)
      /\ n = Len(w) => back = <<>>
  <2>1. /\ front \in Seq(Task) /\ back \in Seq(Task) /\ Len(front) = n
        /\ ToSet(w) = ToSet(front) \cup ToSet(back) /\ Distinct(front)
    BY <1>7, SplitSet DEF Listed
  <2>2. n = Len(w) => back = <<>>
    BY <1>7
  <2> QED BY <2>1, <2>2
<1>9. ToSet(k'.pend) = ToSet(k.pend) \cup ToSet(front)
  BY <1>6, <1>7, <1>8, ConcatSet
<1>10. ASSUME NEW u \in ToSet(front)
       PROVE  /\ u \in Thread /\ Op(u).do = "take" /\ On(u) = On(t)
              /\ k.state[u] # "ready" /\ u \notin ToSet(k.pend)
  <2>1. u \in Thread /\ Op(u).do # "delay" /\ Waits(u) = e /\ k.state[u] # "ready" /\ u \notin ToSet(k.pend)
    BY <1>7, <1>8 DEF Listed
  <2> QED BY <2>1 DEF Waits
<1>11. ASSUME NEW o, NEW do, NEW u \in Trying(o, do) PROVE u \in Trying(o, do)'
  <2>1. /\ u \in Thread /\ Op(u).do = do /\ On(u) = o
        /\ u \in ToSet(k.pend) \/ (k.state[u] = "ready" /\ thread[u].pc \in {"try", "expired"})
    BY DEF Trying
  <2>2. u \in ToSet(k.pend) => u \in ToSet(k'.pend)
    BY <1>9
  <2>3. u \notin ToSet(k.pend) => thread'[u] = thread[u] /\ k'.state[u] = k.state[u]
    BY <1>1, <1>4, <2>1
  <2>4. Op(u)' = Op(u) /\ On(u)' = On(u)
    BY <1>5, <2>1
  <2> QED BY <2>1, <2>2, <2>3, <2>4 DEF Trying
<1>12. ASSUME NEW o \in Object, NEW do \in Ways PROVE Wakes(o, do)'
  <2>1. Wakes(o, do) /\ Spare(o, do) \in Int /\ Spare(o, do)' \in Int /\ Trying(o, do) \subseteq Trying(o, do)'
    BY <1>11, SpareFacts, SpareNext DEF Wakeups
  <2>2. CASE o = On(t) /\ do = "take"
    <3>1. <<o, Side(do)>> = e
      BY <2>2 DEF Side
    <3>2. Spare(o, do)' = Spare(o, do) + l
      BY <1>1, <2>2, SpareFacts DEF Spare, Later, Unlocked
    <3>3. Trying(o, do) \cup ToSet(front) \subseteq Trying(o, do)'
      <4>1. ASSUME NEW u \in ToSet(front) PROVE u \in Trying(o, do)'
        <5>1. u \in Thread /\ Op(u)'.do = do /\ On(u)' = o /\ u \in ToSet(k'.pend)
          BY <1>5, <1>9, <1>10, <2>2
        <5> QED BY <5>1 DEF Trying
      <4> QED BY <2>1, <4>1
    <3>4. ToSet(front) \cap Trying(o, do) = {}
      BY <1>10 DEF Trying
    <3> HIDE DEF front, back
    <3>5. ASSUME k'.event[e] # <<>> PROVE AtLeast(Trying(o, do)', Spare(o, do)')
      <4>1. w # <<>>
        <5>1. ToSet(back) # {}
          BY <1>6, <1>8, <3>5, SeqFacts
        <5> QED BY <1>7, <1>8, <5>1, SeqFacts
      <4>2. AtLeast(Trying(o, do), Spare(o, do))
        BY <2>1, <3>1, <4>1 DEF Wakes
      <4>3. AtLeast(Trying(o, do) \cup ToSet(front), Spare(o, do) + Len(front))
        BY <1>8, <2>1, <3>4, <4>2, AtLeastFront
      <4>4. n = l
        BY <1>2, <1>6, <1>8, <3>5
      <4>5. Spare(o, do) + Len(front) \in Int /\ Spare(o, do)' <= Spare(o, do) + Len(front)
        BY <1>8, <2>1, <3>2, <4>4
      <4> QED BY <2>1, <3>3, <4>3, <4>5, AtLeastMore
    <3> QED BY <3>1, <3>5 DEF Wakes, AtLeast, Side
  <2>3. CASE ~(o = On(t) /\ do = "take")
    <3>1. k'.event[<<o, Side(do)>>] = k.event[<<o, Side(do)>>]
      BY <1>6, <2>3, SideFacts DEF Ways, Side
    <3>2. Spare(o, do)' = Spare(o, do)
      BY <1>1, <2>3 DEF Spare, Later, Ways
    <3>3. Spare(o, do)' <= Spare(o, do)
      BY <2>1, <3>2
    <3> QED BY <2>1, <3>1, <3>3, KeepWakes
  <2> QED BY <2>2, <2>3
<1> QED BY <1>12 DEF Wakeups, Ways

\* Ticks and the end of a suspension: who is awake stays awake, and pending tasks wake up.
LEMMA TidiedWakeups ==
  ASSUME Typed, Typed', Wakeups, NEW woken, Tidied(k', k, woken), queue' = queue,
         \A u \in Thread : u \in ToSet(k.pend) => thread'[u].todo = thread[u].todo /\ thread'[u].pc = "try",
         \A u \in Thread : k.state[u] = "ready" /\ thread[u].pc \in {"try", "expired"} => thread'[u] = thread[u]
  PROVE  Wakeups'
<1>1. ASSUME NEW o \in Object, NEW do \in Ways PROVE Wakes(o, do)'
  <2> DEFINE e == <<o, Side(do)>>
  <2>1. Wakes(o, do) /\ Spare(o, do)' = Spare(o, do) /\ Spare(o, do) \in Int /\ e \in Event
    BY SpareFacts, SameQueue, SideFacts DEF Wakeups, SameSpare
  <2>2. k'.event[e] # <<>> => k.event[e] # <<>>
    <3> HIDE DEF e
    <3>1. k'.event[e] \in Seq(Task) /\ k.event[e] \in Seq(Task)
      <4>1. k.event \in [Event -> Seq(Task)]
        BY DEF Typed, Sched
      <4>2. k'.event \in [Event -> Seq(Task)]
        BY DEF Typed, Sched
      <4> QED BY <2>1, <4>1, <4>2
    <3>2. ToSet(k'.event[e]) \subseteq ToSet(k.event[e])
      BY <2>1 DEF Tidied
    <3>3. /\ k'.event[e] = <<>> <=> ToSet(k'.event[e]) = {}
          /\ k.event[e] = <<>> <=> ToSet(k.event[e]) = {}
      BY <3>1, SeqFacts
    <3> QED BY <3>2, <3>3
  <2>3. ASSUME NEW u \in Trying(o, do) PROVE u \in Trying(o, do)'
    <3>1. /\ u \in Thread /\ Op(u).do = do /\ On(u) = o
          /\ u \in ToSet(k.pend) \/ (k.state[u] = "ready" /\ thread[u].pc \in {"try", "expired"})
      BY DEF Trying
    <3>2. thread'[u].todo = thread[u].todo /\ thread'[u].pc \in {"try", "expired"}
      BY <3>1
    <3>3. k'.state[u] = "ready"
      BY <3>1 DEF Tidied, Thread
    <3>4. Op(u)' = Op(u) /\ On(u)' = On(u)
      BY <3>2, SameCall
    <3> QED BY <3>1, <3>2, <3>3, <3>4 DEF Trying
  <2>4. Trying(o, do) \subseteq Trying(o, do)' /\ Spare(o, do)' <= Spare(o, do)
    BY <2>1, <2>3
  <2> QED BY <2>1, <2>2, <2>4, KeepWakes
<1> QED BY <1>1 DEF Wakeups, Ways

\* SysTick keeps Wakeups.
LEMMA SysTickWakeups ==
  ASSUME Typed, Typed', Control, Lists, Wakeups, SysTick PROVE Wakeups'
<1>1. thread' = thread /\ queue' = queue
  BY SysTickEffect
<1>2. CASE SameWait(k', k) /\ SameLists(k', k)
  <2>1. k'.event = k.event /\ k'.pend = k.pend /\ k'.state = k.state
    BY <1>2 DEF SameWait, SameLists
  <2>2. ASSUME NEW o \in Object, NEW do \in Ways PROVE Wakes(o, do)'
    <3>1. Trying(o, do)' = Trying(o, do) /\ Spare(o, do)' = Spare(o, do) /\ Wakes(o, do)
      BY <1>1, <2>1 DEF Trying, Op, On, Spare, Later, Wakeups
    <3> QED BY <2>1, <3>1 DEF Wakes, AtLeast, Side
  <2> QED BY <2>2 DEF Wakeups, Ways
<1>3. CASE ~k.susp /\ \E woken : Tidied(k', k, woken)
  <2>1. \A u \in Thread : u \notin ToSet(k.pend)
    BY <1>3 DEF Control, ToSet
  <2> QED BY <1>1, <1>3, <2>1, TidiedWakeups
<1> QED BY <1>2, <1>3, SysTickEffect

\* ResumeAll keeps Wakeups.
LEMMA ResumeAllWakeups ==
  ASSUME Typed, Typed', Control, Lists, Wakeups, NEW t \in Thread, ResumeAll(t) PROVE Wakeups'
<1>1. k.cur = t /\ thread[t].pc = "resume" /\ queue' = queue
  BY ResumeAllEffect
<1>2. PICK woken : Tidied(k', k, woken)
  BY ResumeAllEffect
<1>3. /\ \A u \in Thread \ {t} : thread'[u] = thread[u]
      /\ path = "expired" \/ (thread'[t].todo = thread[t].todo /\ thread'[t].pc = "try")
  <2>1. CASE path = "expired" /\ Return(t, FALSE)
    BY <2>1, ReturnOthers
  <2>2. CASE \E r : /\ Moves(t, r)
                    /\ \/ r.pc = "try" /\ path # "expired"
                       \/ r.pc = "expired" /\ path = "expired" /\ Op(t).do = "take"
    BY <2>2, MovesFacts DEF Moves
  <2> QED BY ZenonT(40), <2>1, <2>2, ResumeAllEffect
<1>4. ASSUME NEW u \in Thread, u \in ToSet(k.pend)
      PROVE  thread'[u].todo = thread[u].todo /\ thread'[u].pc = "try"
  <2>1. k.state[u] # "ready"
    BY <1>4 DEF Lists, Pending
  <2>2. CASE u = t
    <3>1. path = "blocked"
      BY <1>1, <2>1, <2>2 DEF Control
    <3> QED BY <1>3, <2>2, <3>1
  <2>3. CASE u # t
    <3>1. Asleep(u)
      BY <2>1 DEF Lists, Thread
    <3> QED BY <1>1, <1>3, <2>3, <3>1 DEF Asleep, Here
  <2> QED BY <2>2, <2>3
<1>5. \A u \in Thread : k.state[u] = "ready" /\ thread[u].pc \in {"try", "expired"} => thread'[u] = thread[u]
  BY <1>1, <1>3
<1> QED BY <1>1, <1>2, <1>4, <1>5, TidiedWakeups

\* The head of an event list, when it is taken off.
LEMMA HeadFacts ==
  ASSUME Typed, Lists, NEW o \in Object, NEW do \in Ways, NEW h,
         k.event[<<o, Side(do)>>] # <<>>, h = Head(k.event[<<o, Side(do)>>])
  PROVE  /\ h \in Thread /\ Op(h).do = do /\ On(h) = o /\ k.state[h] # "ready" /\ h \notin ToSet(k.pend)
         /\ h \in ToSet(k.event[<<o, Side(do)>>]) /\ h \notin Trying(o, do)
<1> DEFINE e == <<o, Side(do)>>
<1>1. e \in Event /\ Listed(e)
  BY SideFacts DEF Lists
<1>2. k.event[e] \in Seq(Task)
  BY <1>1 DEF Typed, Sched
<1>3. h \in ToSet(k.event[e])
  BY <1>2, TailSet
<1>4. h \in Thread /\ Op(h).do # "delay" /\ Waits(h) = e /\ k.state[h] # "ready" /\ h \notin ToSet(k.pend)
  BY <1>1, <1>3 DEF Listed
<1>5. On(h) = o /\ Op(h).do = do
  BY <1>4, WaitsSide
<1> QED BY <1>3, <1>4, <1>5 DEF Trying

\* Only the list that is served changes, and no list grows.
LEMMA RousedShrinks ==
  ASSUME Typed, NEW e \in Event, Roused(e) \/ Deferred(e)
  PROVE  \A d \in Event : k'.event[d] # <<>> => k.event[d] # <<>>
<1>1. CASE k.event[e] = <<>>
  BY <1>1 DEF Roused, Deferred, SameLists
<1>2. CASE k.event[e] # <<>>
  <2>1. k'.event = Served(k.event, e) /\ k.event \in [Event -> Seq(Task)]
    BY <1>2 DEF Roused, Deferred, Typed, Sched
  <2> QED BY <1>2, <2>1 DEF Served
<1> QED BY <1>1, <1>2

\* The task that a call or an interrupt has woken tries for what has become available.
LEMMA RousedTries ==
  ASSUME Typed, Control, Lists, ~k.susp, NEW o \in Object, NEW do \in Ways, Roused(<<o, Side(do)>>),
         \A u \in Thread : k.state[u] # "ready" => thread'[u] = thread[u],
         k.event[<<o, Side(do)>>] # <<>>, NEW h, h = Head(k.event[<<o, Side(do)>>])
  PROVE  h \in Trying(o, do)'
<1>1. h \in Thread /\ Op(h).do = do /\ On(h) = o /\ k.state[h] # "ready"
  BY HeadFacts
<1>2. path = None
  BY DEF Control
<1>3. thread[h].pc = "try" /\ thread'[h] = thread[h]
  <2>1. Asleep(h)
    BY <1>1 DEF Lists, Thread
  <2> QED BY <1>1, <1>2, <2>1 DEF Asleep, Here, None
<1>4. k'.state[h] = "ready"
  BY <1>1 DEF Roused, Thread
<1>5. Op(h)' = Op(h) /\ On(h)' = On(h)
  BY <1>3, SameCall
<1> QED BY <1>1, <1>3, <1>4, <1>5 DEF Trying

\* Everybody who tries goes on trying.
LEMMA RousedOthers ==
  ASSUME Typed, ~k.susp, Control, NEW e \in Event, Roused(e), NEW u \in Thread, thread'[u] = thread[u],
         NEW o, NEW do, u \in Trying(o, do)
  PROVE  u \in Trying(o, do)'
<1>1. k.pend = <<>> /\ u \notin ToSet(k.pend)
  BY DEF Control, ToSet
<1>2. k.state[u] = "ready" => k'.state[u] = "ready"
  BY DEF Roused, Thread
<1> QED BY <1>1, <1>2, OthersTry

\* Take and Give: t has done it, and whoever waits to do the other is woken.
LEMMA DoneWakeups ==
  ASSUME Typed, Typed', Control, Lists, Wakeups, NEW t \in Thread, k.state[t] = "ready", ~k.susp,
         \A u \in Thread \ {t} : thread'[u] = thread[u],
         NEW p \in Object, NEW mine \in Ways, NEW other \in Ways, other # mine, On(t) = p, Op(t).do = mine,
         Roused(<<p, Side(other)>>), \A o \in Object \ {p} : queue'[o] = queue[o],
         Spare(p, mine)' = Spare(p, mine) - 1, Spare(p, other)' = Spare(p, other) + 1
  PROVE  Wakeups'
<1>1. <<p, Side(other)>> \in Event
  BY SideFacts
<1>2. \A d \in Event : k'.event[d] # <<>> => k.event[d] # <<>>
  BY <1>1, RousedShrinks
<1>3. \A o, do : \A u \in Trying(o, do) : u # t => u \in Trying(o, do)'
  <2>1. ASSUME NEW o, NEW do, NEW u \in Trying(o, do), u # t PROVE u \in Trying(o, do)'
    <3>1. u \in Thread /\ thread'[u] = thread[u]
      BY <2>1 DEF Trying
    <3> QED BY <1>1, <3>1, RousedOthers
  <2> QED BY <2>1
<1>4. \A o, do : t \in Trying(o, do) => o = p /\ do = mine
  BY DEF Trying
<1>5. ASSUME NEW o \in Object, NEW do \in Ways PROVE Wakes(o, do)'
  <2>1. /\ Wakes(o, do) /\ Spare(o, do) \in Int /\ <<o, Side(do)>> \in Event
        /\ k'.event[<<o, Side(do)>>] # <<>> => k.event[<<o, Side(do)>>] # <<>>
    BY <1>2, SpareFacts, SideFacts DEF Wakeups
  <2>2. CASE o = p /\ do = mine
    <3>1. Trying(o, do) \ {t} \subseteq Trying(o, do)'
      BY <1>3
    <3>2. Spare(o, do)' = Spare(o, do) - 1
      BY <2>2
    <3> QED BY <2>1, <3>1, <3>2, LessWakes
  <2>3. CASE o = p /\ do = other
    <3>1. CASE k.event[<<o, Side(do)>>] = <<>>
      BY <2>1, <3>1 DEF Wakes, Side
    <3>2. CASE k.event[<<o, Side(do)>>] # <<>>
      <4>6. PICK h : h = Head(k.event[<<o, Side(do)>>])
        OBVIOUS
      <4>1. h \notin Trying(o, do)
        BY <3>2, <4>6, HeadFacts
      <4>2. h \in Trying(o, do)'
        BY <2>3, <3>2, <4>6, RousedTries
      <4>3. Trying(o, do) \subseteq Trying(o, do)'
        BY <1>3, <1>4, <2>3
      <4>4. Spare(o, do)' = Spare(o, do) + 1
        BY <2>3
      <4>5. Trying(o, do) \cup {h} \subseteq Trying(o, do)'
        BY <4>2, <4>3
      <4> QED BY <2>1, <4>1, <4>4, <4>5, MoreWakes
    <3> QED BY <3>1, <3>2
  <2>4. CASE o # p
    <3>1. Trying(o, do) \subseteq Trying(o, do)'
      BY <1>3, <1>4, <2>4
    <3>2. Spare(o, do)' <= Spare(o, do)
      <4>1. Spare(o, do)' = Spare(o, do)
        BY <2>4 DEF Spare, Later
      <4> QED BY <2>1, <4>1
    <3> QED BY <2>1, <3>1, <3>2, KeepWakes
  <2>5. do = mine \/ do = other
    BY DEF Ways
  <2> QED BY <2>2, <2>3, <2>4, <2>5
<1> QED BY <1>5 DEF Wakeups, Ways

\* Take keeps Wakeups.
LEMMA TakeWakeups ==
  ASSUME Typed, Typed', Control, Lists, Wakeups, NEW t \in Thread, Take(t) PROVE Wakeups'
<1>9. On(t) \in Object
  BY TakeEffect
<1>10. PICK p \in Object : p = On(t)
  BY <1>9
<1>1. /\ k.cur = t /\ thread[t].pc = "try" /\ ~k.susp /\ Return(t, TRUE) /\ Op(t).do = "take"
      /\ queue'[p].count = queue[p].count - 1 /\ queue'[p].lock = queue[p].lock
      /\ \A o \in Object \ {p} : queue'[o] = queue[o]
  BY <1>10, TakeEffect
<1>2. k.state[t] = "ready"
  BY <1>1, AwakeRun DEF Inside
<1>3. \A u \in Thread \ {t} : thread'[u] = thread[u]
  BY <1>1, ReturnOthers
<1>4. Roused(<<p, Side("give")>>)
  BY <1>10, TakeRouses DEF Side
<1>5. /\ Spare(p, "take")' = Spare(p, "take") - 1
      /\ Spare(p, "give")' = Spare(p, "give") + 1
  BY <1>1, SpareFacts DEF Spare, Later
<1>6. "give" \in Ways /\ "take" \in Ways /\ "give" # "take"
  BY DEF Ways
<1> QED BY <1>1, <1>2, <1>3, <1>4, <1>5, <1>6, <1>10, DoneWakeups

\* Give keeps Wakeups.
LEMMA GiveWakeups ==
  ASSUME Typed, Typed', Control, Mutexes, Lists, Wakeups, NEW t \in Thread, Give(t) PROVE Wakeups'
<1>1. Op(t).do = "give" /\ k.cur = t /\ thread[t].pc = "try" /\ Return(t, TRUE)
  BY DEF Give, At
<1>2. OnMutex(t) => k.held[t] >= 1
  BY <1>1, GiverHolds
<1>9. On(t) \in Object
  BY <1>2, GiveEffect
<1>10. PICK p \in Object : p = On(t)
  BY <1>9
<1>3. /\ ~k.susp
      /\ queue'[p].count = queue[p].count + 1 /\ queue'[p].lock = queue[p].lock
      /\ \A o \in Object \ {p} : queue'[o] = queue[o]
  BY <1>2, <1>10, GiveEffect
<1>4. k.state[t] = "ready"
  BY <1>1, AwakeRun DEF Inside
<1>5. \A u \in Thread \ {t} : thread'[u] = thread[u]
  BY <1>1, ReturnOthers
<1>6. Roused(<<p, Side("take")>>)
  BY <1>10, GiveRouses DEF Side
<1>7. /\ Spare(p, "take")' = Spare(p, "take") + 1
      /\ Spare(p, "give")' = Spare(p, "give") - 1
  BY <1>3, SpareFacts DEF Spare, Later
<1>8. "give" \in Ways /\ "take" \in Ways /\ "give" # "take"
  BY DEF Ways
<1> QED BY <1>1, <1>3, <1>4, <1>5, <1>6, <1>7, <1>8, <1>10, DoneWakeups

\* A give from an interrupt, and what it does to the object.
LEMMA GiveFromISRSpare ==
  ASSUME Typed, Control, NEW o \in Object, GiveFromISR(o)
  PROVE  /\ \A p \in Object \ {o}, do \in Ways : Spare(p, do)' = Spare(p, do)
         /\ Spare(o, "give")' = Spare(o, "give") - 1
         /\ queue[o].lock = Unlocked => Spare(o, "take")' = Spare(o, "take") + 1
         /\ queue[o].lock # Unlocked => Spare(o, "take")' = Spare(o, "take") /\ k' = k
<1>1. /\ queue'[o].count = queue[o].count + 1
      /\ \A p \in Object \ {o} : queue'[p] = queue[p]
      /\ \/ queue[o].lock = Unlocked /\ queue'[o].lock = Unlocked
         \/ queue[o].lock # Unlocked /\ queue'[o].lock = queue[o].lock + 1 /\ k' = k
  BY GiveFromISREffect
<1>2. /\ queue[o].count \in Nat /\ queue[o].lock \in Int /\ Size[o] \in Nat /\ Unlocked <= queue[o].lock
  BY SpareFacts DEF Typed
<1>3. \A p \in Object \ {o}, do \in Ways : Spare(p, do)' = Spare(p, do)
  BY <1>1 DEF Spare, Later
<1>4. Spare(o, "give")' = Spare(o, "give") - 1
  BY <1>1, <1>2 DEF Spare
<1>5. queue[o].lock = Unlocked => Spare(o, "take")' = Spare(o, "take") + 1
  BY <1>1, <1>2 DEF Spare, Later
<1>6. queue[o].lock # Unlocked => Spare(o, "take")' = Spare(o, "take") /\ k' = k
  BY <1>1, <1>2 DEF Spare, Later, Unlocked
<1> QED BY <1>3, <1>4, <1>5, <1>6

\* Everybody who tries goes on trying when an interrupt wakes somebody.
LEMMA WokenTrying ==
  ASSUME Typed, Control, thread' = thread, NEW e \in Event,
         IF k.susp THEN Deferred(e) ELSE Roused(e), NEW o, NEW do
  PROVE  Trying(o, do) \subseteq Trying(o, do)'
<1>1. ASSUME NEW u \in Trying(o, do) PROVE u \in Trying(o, do)'
  <2>1. u \in Thread
    BY DEF Trying
  <2>2. CASE ~k.susp
    BY <2>1, <2>2, RousedOthers
  <2>3. CASE k.susp
    <3>1. u \in ToSet(k.pend) => u \in ToSet(k'.pend)
      <4>1. CASE k.event[e] = <<>>
        BY <2>3, <4>1 DEF Deferred, SameLists
      <4>2. CASE k.event[e] # <<>>
        <5>1. k.pend \in Seq(Task) /\ k.event[e] \in Seq(Task)
          BY DEF Typed, Sched
        <5>2. Head(k.event[e]) \in Task
          BY <4>2, <5>1, TailSet
        <5>3. k'.pend = Append(k.pend, Head(k.event[e]))
          BY <2>3, <4>2 DEF Deferred
        <5> QED BY <5>1, <5>2, <5>3, AppendSet
      <4> QED BY <4>1, <4>2
    <3>2. k'.state = k.state
      BY <2>3 DEF Deferred
    <3> QED BY <2>1, <3>1, <3>2, OthersTry
  <2> QED BY <2>2, <2>3
<1> QED BY <1>1

\* The task that an interrupt wakes tries.
LEMMA WokenTries ==
  ASSUME Typed, Control, Lists, thread' = thread, NEW o \in Object,
         IF k.susp THEN Deferred(<<o, "receive">>) ELSE Roused(<<o, "receive">>),
         k.event[<<o, "receive">>] # <<>>, NEW h, h = Head(k.event[<<o, "receive">>])
  PROVE  h \in Trying(o, "take")'
<1>1. "take" \in Ways /\ Side("take") = "receive"
  BY DEF Ways, Side
<1>2. CASE ~k.susp
  BY <1>1, <1>2, RousedTries
<1>3. CASE k.susp
  <2>1. h \in Thread /\ Op(h).do = "take" /\ On(h) = o
    BY <1>1, HeadFacts
  <2>2. h \in ToSet(k'.pend)
    <3>1. k.pend \in Seq(Task) /\ h \in Task
      BY <2>1 DEF Typed, Sched, Thread
    <3>2. k'.pend = Append(k.pend, h)
      BY <1>3 DEF Deferred
    <3> QED BY <3>1, <3>2, AppendSet
  <2>3. Op(h)' = Op(h) /\ On(h)' = On(h)
    BY SameCall
  <2> QED BY <2>1, <2>2, <2>3 DEF Trying
<1> QED BY <1>2, <1>3

\* GiveFromISR keeps Wakeups.
LEMMA GiveFromISRWakeups ==
  ASSUME Typed, Typed', Control, Lists, Wakeups, NEW o \in Object, GiveFromISR(o) PROVE Wakeups'
<1>1. thread' = thread
  BY GiveFromISREffect
<1>2. \A p \in Object, do \in Ways : Wakes(p, do) /\ Spare(p, do) \in Int
  BY SpareFacts DEF Wakeups
<1>3. CASE queue[o].lock # Unlocked
  <2>1. k' = k
    BY <1>3, GiveFromISRSpare
  <2>2. ASSUME NEW p \in Object, NEW do \in Ways PROVE Wakes(p, do)'
    <3>1. Trying(p, do)' = Trying(p, do)
      BY <1>1, <2>1 DEF Trying, Op, On
    <3>2. Spare(p, do)' <= Spare(p, do)
      <4>1. CASE p = o
        BY <1>2, <1>3, <4>1, GiveFromISRSpare DEF Ways
      <4>2. CASE p # o
        BY <1>2, <4>2, GiveFromISRSpare
      <4> QED BY <4>1, <4>2
    <3> QED BY <1>2, <2>1, <3>1, <3>2, KeepWakes
  <2> QED BY <2>2 DEF Wakeups, Ways
<1>4. CASE queue[o].lock = Unlocked
  <2> DEFINE e == <<o, "receive">>
  <2>1. e \in Event /\ Wake(k, e).yield \in BOOLEAN /\ k' \in YieldIf(Wake(k, e).yield, Wake(k, e))
    BY <1>4, GiveFromISREffect
  <2>2. IF k.susp THEN Deferred(e) ELSE Roused(e)
    <3>1. SameWait(k, k) /\ SameLists(k, k) /\ SameRun(k, k) /\ k \in Sched
      BY DEF SameWait, SameLists, SameRun, Typed
    <3> HIDE DEF e
    <3> QED BY <2>1, <3>1, WakeRouses
  <2>3. \A d \in Event : k'.event[d] # <<>> => k.event[d] # <<>>
    <3> HIDE DEF e
    <3> QED BY <2>1, <2>2, RousedShrinks
  <2>4. ASSUME NEW p \in Object, NEW do \in Ways PROVE Wakes(p, do)'
    <3>1. Trying(p, do) \subseteq Trying(p, do)'
      <4> HIDE DEF e
      <4> QED BY <1>1, <2>1, <2>2, WokenTrying
    <3>2. k'.event[<<p, Side(do)>>] # <<>> => k.event[<<p, Side(do)>>] # <<>>
      BY <2>3, SideFacts
    <3>3. CASE p = o /\ do = "take"
      <4>1. <<p, Side(do)>> = e
        BY <3>3 DEF Side
      <4>2. CASE k.event[e] = <<>>
        BY <3>2, <4>1, <4>2 DEF Wakes, Side
      <4>3. CASE k.event[e] # <<>>
        <5>1. PICK h : h = Head(k.event[e])
          OBVIOUS
        <5>2. h \in Trying(p, do)'
          BY <1>1, <2>2, <3>3, <4>3, <5>1, WokenTries
        <5>3. h \notin Trying(p, do)
          BY <3>3, <4>1, <4>3, <5>1, HeadFacts
        <5>4. Trying(p, do) \cup {h} \subseteq Trying(p, do)'
          BY <3>1, <5>2
        <5>5. Spare(p, do)' = Spare(p, do) + 1
          BY <1>4, <3>3, GiveFromISRSpare
        <5> QED BY <1>2, <3>2, <5>3, <5>4, <5>5, MoreWakes
      <4> QED BY <4>2, <4>3
    <3>4. CASE ~(p = o /\ do = "take")
      <4>1. Spare(p, do)' <= Spare(p, do)
        <5>1. CASE p = o
          BY <1>2, <3>4, <5>1, GiveFromISRSpare DEF Ways
        <5>2. CASE p # o
          BY <1>2, <5>2, GiveFromISRSpare
        <5> QED BY <5>1, <5>2
      <4> QED BY <1>2, <3>1, <3>2, <4>1, KeepWakes
    <3> QED BY <3>3, <3>4
  <2> QED BY <2>4 DEF Wakeups, Ways
<1> QED BY <1>3, <1>4

-----------------------------------------------------------------------------
(* A task that is about to block has seen that it must.                    *)

\* Most steps end elsewhere.
LEMMA NotPlacing ==
  ASSUME ~k'.susp \/ thread'[k'.cur].pc # "place" \/ Op(k.cur)'.do = "delay" PROVE Placing'
  BY DEF Placing

\* GiveFromISR keeps Placing.
LEMMA GiveFromISRPlacing ==
  ASSUME Typed, Control, Placing, NEW o \in Object, GiveFromISR(o) PROVE Placing'
<1>1. thread' = thread
  BY GiveFromISREffect
<1>2. k'.susp = k.susp /\ (k.susp => k'.cur = k.cur)
  <2>1. CASE k' = k
    BY <2>1
  <2>2. CASE k' \in YieldIf(Wake(k, <<o, "receive">>).yield, Wake(k, <<o, "receive">>))
    <3>1. k \in Sched /\ Wake(k, <<o, "receive">>).yield \in BOOLEAN /\ <<o, "receive">> \in Event
      <4>1. k \in Sched /\ <<o, "receive">> \in Event
        BY DEF Typed, Event
      <4>2. Wake(k, <<o, "receive">>) \in Sched
        BY <4>1, WakeFacts
      <4> QED BY <4>1, <4>2 DEF Sched
    <3> QED BY <2>2, <3>1, WakeYield
  <2> QED BY <2>1, <2>2, GiveFromISREffect
<1>3. SUFFICES ASSUME k.susp, thread[k.cur].pc = "place", Op(k.cur).do # "delay"
               PROVE  Spare(On(k.cur), Op(k.cur).do)' <= 0
  BY <1>1, <1>2 DEF Placing, Op
<1>4. PICK t \in Thread : t = k.cur
  BY <1>3 DEF Control
<1>5. PICK p \in Object : p = On(t)
  BY <1>3, <1>4, ThreadFacts
<1>6. PICK do \in Ways : do = Op(t).do
  BY <1>3, <1>4, WaitsSide
<1>7. On(k.cur)' = p /\ Op(k.cur)'.do = do
  BY <1>1, <1>2, <1>3, <1>4, <1>5, <1>6 DEF On, Op
<1>8. Spare(p, do) <= 0 /\ Spare(p, do) \in Int
  BY <1>3, <1>4, <1>5, <1>6, SpareFacts DEF Placing
<1>9. queue[p].lock # Unlocked
  BY <1>3, <1>4, <1>5 DEF Control, Locking
<1>10. Spare(p, do)' <= 0
  <2>1. CASE p = o
    BY <1>8, <1>9, <2>1, GiveFromISRSpare DEF Ways
  <2>2. CASE p # o
    BY <1>8, <2>2, GiveFromISRSpare
  <2> QED BY <2>1, <2>2
<1> QED BY <1>7, <1>10 DEF Spare, Later

\* SysTick keeps Placing.
LEMMA SysTickPlacing ==
  ASSUME Typed, Control, Placing, SysTick PROVE Placing'
<1>1. thread' = thread /\ queue' = queue
  BY SysTickEffect
<1>2. CASE SameRun(k', k)
  <2>1. k'.susp = k.susp /\ k'.cur = k.cur
    BY <1>2 DEF SameRun
  <2> QED BY <1>1, <2>1 DEF Placing, Op, On, Spare, Later
<1>3. CASE \E woken : Tidied(k', k, woken)
  BY <1>3, NotPlacing DEF Tidied
<1> QED BY <1>2, <1>3, SysTickEffect

\* While the scheduler runs nobody is about to block.
LEMMA RunPlacing ==
  ASSUME Typed, Control, Mutexes, NEW t \in Thread,
         Take(t) \/ Give(t) \/ Refuse(t) \/ DelayOver(t) \/ Enter(t) \/ Expire(t) \/ Restore(t)
  PROVE  Placing'
<1>1. CASE Take(t)
  BY <1>1, TakeEffect, NotPlacing
<1>2. CASE Give(t)
  <2>1. OnMutex(t) => k.held[t] >= 1
    BY <1>2, GiverHolds DEF Give
  <2> QED BY <1>2, <2>1, GiveEffect, NotPlacing
<1>3. CASE Refuse(t) \/ DelayOver(t) \/ Expire(t)
  <2>1. k' = k /\ k.cur = t /\ thread[t].pc \notin Inside
    BY <1>3 DEF Refuse, DelayOver, Expire, At, Inside
  <2> QED BY <2>1, AwakeRun, NotPlacing
<1>4. CASE Enter(t)
  <2>1. SameRun(k', k) /\ k.cur = t /\ thread[t].pc \notin Inside
    BY <1>4, EnterEffect DEF Inside
  <2> QED BY <2>1, AwakeRun, NotPlacing DEF SameRun
<1>5. CASE Restore(t)
  <2>1. SameRun(k', k) /\ k.cur = t /\ thread[t].pc \notin Inside
    BY <1>5, RestoreEffect DEF Inside
  <2> QED BY <2>1, AwakeRun, NotPlacing DEF SameRun
<1> QED BY <1>1, <1>2, <1>3, <1>4, <1>5

\* Only after a test that failed is a task about to block, and then it must.
LEMMA InsidePlacing ==
  ASSUME Typed, Control, Mutexes, NEW t \in Thread,
         SuspendAll(t) \/ Lock(t) \/ Test(t) \/ Place(t) \/ PlaceDelay(t) \/ Unlock(t) \/ ResumeAll(t)
  PROVE  Placing'
<1>1. CASE SuspendAll(t)
  <2>1. PICK r : Moves(t, r) /\ r.pc = IF Op(t).do = "delay" THEN "place" ELSE "lock"
    BY <1>1, SuspendAllEffect
  <2>2. thread'[t] = r /\ Op(t)' = Op(t)
    BY <2>1, MovesFacts
  <2>3. k'.cur = t /\ k.cur = t
    BY <1>1, SuspendAllEffect
  <2> QED BY <2>1, <2>2, <2>3, NotPlacing
<1>2. CASE Lock(t)
  <2>1. PICK r : Moves(t, r) /\ r.pc \in {"unlock", "test"}
    BY <1>2, LockEffect
  <2>2. thread'[t] = r
    BY <2>1, MovesFacts
  <2>3. k'.cur = t
    BY <1>2, LockEffect DEF SameRun
  <2> QED BY <2>1, <2>2, <2>3, NotPlacing
<1>3. CASE Test(t)
  <2>1. k' = k /\ queue' = queue /\ k.cur = t
    BY <1>3, TestEffect
  <2>2. PICK r : /\ Moves(t, r)
                 /\ r.pc = "unlock" \/ (r.pc = "place" /\ ~Possible(t))
    BY <1>3, TestEffect
  <2>3. thread'[t] = r /\ Op(t)' = Op(t) /\ On(t)' = On(t)
    BY <2>2, MovesFacts
  <2>4. CASE r.pc = "unlock"
    BY <2>1, <2>3, <2>4, NotPlacing
  <2>5. CASE ~Possible(t) /\ Op(t).do # "delay"
    <3>1. Spare(On(t), Op(t).do) <= 0
      BY <2>5, InVain
    <3> QED BY <2>1, <2>3, <3>1 DEF Placing, Spare, Later
  <2>6. CASE Op(t).do = "delay"
    BY <2>1, <2>3, <2>6, NotPlacing
  <2> QED BY <2>2, <2>4, <2>5, <2>6
<1>4. CASE Place(t)
  <2>1. OnMutex(t) => queue[On(t)].holder \in Task
    BY <1>4, PlaceHeld DEF Place, At
  <2>2. PICK r : Moves(t, r) /\ r.pc = "unlock"
    BY <1>4, <2>1, PlaceEffect
  <2>3. thread'[t] = r
    BY <2>2, MovesFacts
  <2>4. k'.cur = t
    BY <1>4, <2>1, PlaceEffect DEF SameRun
  <2> QED BY <2>2, <2>3, <2>4, NotPlacing
<1>5. CASE PlaceDelay(t)
  <2>1. PICK r : Moves(t, r) /\ r.pc = "resume"
    BY <1>5, PlaceDelayEffect
  <2>2. thread'[t] = r
    BY <2>1, MovesFacts
  <2>3. k'.cur = t
    BY <1>5, PlaceDelayEffect DEF SameRun
  <2> QED BY <2>1, <2>2, <2>3, NotPlacing
<1>6. CASE Unlock(t)
  <2>1. PICK r : Moves(t, r) /\ r.pc = "resume"
    BY <1>6, UnlockEffect
  <2>2. thread'[t] = r
    BY <2>1, MovesFacts
  <2>3. k'.cur = t
    BY <1>6, UnlockEffect DEF SameRun
  <2> QED BY <2>1, <2>2, <2>3, NotPlacing
<1>7. CASE ResumeAll(t)
  BY <1>7, ResumeAllEffect, NotPlacing DEF Tidied
<1> QED BY <1>1, <1>2, <1>3, <1>4, <1>5, <1>6, <1>7

-----------------------------------------------------------------------------
(* No wake-up is lost.                                                     *)

\* The inductive invariant with lists and wake-ups.
Orderly == Safe /\ Lists /\ Placing /\ Wakeups

\* It holds at first.
LEMMA OrderlyInit == ASSUME Init PROVE Orderly
<1>1. k.event = [e \in Event |-> <<>>] /\ ~k.susp
  BY DEF Init
<1>2. Placing
  BY <1>1 DEF Placing
<1>3. Wakeups
  <2>1. \A o \in Object, do \in Ways : k.event[<<o, Side(do)>>] = <<>>
    BY <1>1, SideFacts
  <2> QED BY <2>1 DEF Wakeups, Wakes
<1> QED BY <1>2, <1>3, SafeInit, InitLists DEF Orderly

\* Every step keeps it.
LEMMA OrderlyNext == ASSUME Orderly, Next PROVE Orderly'
<1>1. Typed /\ Control /\ Mutexes /\ Lists /\ Placing /\ Wakeups
  BY DEF Orderly, Safe
<1>2. Safe'
  BY SafeNext DEF Orderly
<1>3. Typed'
  BY <1>2 DEF Safe
<1>4. CASE SysTick
  BY <1>1, <1>2, <1>3, <1>4, SysTickLists, SysTickPlacing, SysTickWakeups DEF Orderly
<1>5. ASSUME NEW o \in Object, GiveFromISR(o) PROVE Orderly'
  BY <1>1, <1>2, <1>3, <1>5, GiveFromISRLists, GiveFromISRPlacing, GiveFromISRWakeups DEF Orderly
<1>6. ASSUME NEW t \in Thread, Call(t) PROVE Orderly'
  <2>1. CASE Take(t)
    BY <1>1, <1>2, <1>3, <2>1, TakeLists, RunPlacing, TakeWakeups DEF Orderly
  <2>2. CASE Give(t)
    BY <1>1, <1>2, <1>3, <2>2, GiveLists, RunPlacing, GiveWakeups DEF Orderly
  <2>3. CASE Refuse(t)
    BY <1>1, <1>2, <1>3, <2>3, RefuseLists, RunPlacing, RefuseWakeups DEF Orderly
  <2>4. CASE DelayOver(t)
    BY <1>1, <1>2, <1>3, <2>4, DelayOverLists, RunPlacing, DelayOverWakeups DEF Orderly
  <2>5. CASE Enter(t)
    BY <1>1, <1>2, <1>3, <2>5, EnterLists, RunPlacing, EnterWakeups DEF Orderly
  <2>6. CASE SuspendAll(t)
    BY <1>1, <1>2, <1>3, <2>6, SuspendAllLists, InsidePlacing, SuspendAllWakeups DEF Orderly
  <2>7. CASE Lock(t)
    BY <1>1, <1>2, <1>3, <2>7, LockLists, InsidePlacing, LockWakeups DEF Orderly
  <2>8. CASE Test(t)
    BY <1>1, <1>2, <1>3, <2>8, TestLists, InsidePlacing, TestWakeups DEF Orderly
  <2>9. CASE Place(t)
    BY <1>1, <1>2, <1>3, <2>9, PlaceLists, InsidePlacing, PlaceWakeups DEF Orderly
  <2>10. CASE PlaceDelay(t)
    BY <1>1, <1>2, <1>3, <2>10, PlaceDelayLists, InsidePlacing, PlaceDelayWakeups DEF Orderly
  <2>11. CASE Unlock(t)
    BY <1>1, <1>2, <1>3, <2>11, UnlockLists, InsidePlacing, UnlockWakeups DEF Orderly
  <2>12. CASE ResumeAll(t)
    BY <1>1, <1>2, <1>3, <2>12, ResumeAllLists, InsidePlacing, ResumeAllWakeups DEF Orderly
  <2>13. CASE Expire(t)
    BY <1>1, <1>2, <1>3, <2>13, ExpireLists, RunPlacing, ExpireWakeups DEF Orderly
  <2>14. CASE Restore(t)
    BY <1>1, <1>2, <1>3, <2>14, RestoreLists, RunPlacing, RestoreWakeups DEF Orderly
  <2> QED BY <1>6, <2>1, <2>2, <2>3, <2>4, <2>5, <2>6, <2>7, <2>8, <2>9, <2>10, <2>11, <2>12, <2>13, <2>14
          DEF Call
<1> QED BY <1>4, <1>5, <1>6 DEF Next

\* So does a step that changes nothing.
LEMMA OrderlyStutter == ASSUME Orderly, UNCHANGED vars PROVE Orderly'
<1>1. k' = k /\ queue' = queue /\ thread' = thread /\ path' = path /\ waited' = waited
  BY DEF vars
<1>2. Safe'
  BY SafeStutter DEF Orderly
<1>3. Lists'
  BY <1>1 DEF Orderly, Lists, Listed, Pending, Asleep, Here, Op, On, Waits, Distinct
<1>4. Placing'
  BY <1>1 DEF Orderly, Placing, Op, On, Spare, Later
<1>5. Wakeups'
  <2>1. ASSUME NEW o \in Object, NEW do \in Ways PROVE Wakes(o, do)'
    <3>1. Trying(o, do)' = Trying(o, do) /\ Spare(o, do)' = Spare(o, do) /\ Wakes(o, do)
      BY <1>1 DEF Trying, Op, On, Spare, Later, Orderly, Wakeups
    <3> QED BY <1>1, <3>1 DEF Wakes, AtLeast, Side
  <2> QED BY <2>1 DEF Wakeups, Ways
<1> QED BY <1>2, <1>3, <1>4, <1>5 DEF Orderly

\* Event lists and the pending list hold exactly those that wait, and as many tasks are awake
\* to try as an object has messages, or free places, while others still wait for them.
THEOREM OrderlyAlways == Spec => []Orderly
<1>1. Orderly /\ [Next]_vars => Orderly'
  BY OrderlyNext, OrderlyStutter
<1> QED BY <1>1, OrderlyInit, PTL DEF Spec

\* A task that tries has not blocked.
LEMMA TryingComes ==
  ASSUME Orderly, NEW o, NEW do \in Ways, NEW t \in Trying(o, do)
  PROVE  t \in Thread /\ ~Blocked(t) /\ Op(t).do = do /\ On(t) = o /\ thread[t].pc # "restore"
<1>1. /\ t \in Thread /\ Op(t).do = do /\ On(t) = o
      /\ t \in ToSet(k.pend) \/ (k.state[t] = "ready" /\ thread[t].pc \in {"try", "expired"})
  BY DEF Trying
<1>2. ~Blocked(t)
  BY <1>1 DEF Blocked
<1>3. thread[t].pc # "restore"
  <2>1. ASSUME t \in ToSet(k.pend) PROVE thread[t].pc # "restore"
    <3>1. Here(t)
      BY <1>1, <2>1 DEF Orderly, Lists, Pending, Asleep, Thread
    <3>2. CASE t = k.cur /\ path = "blocked"
      <4>1. path # None
        BY <3>2 DEF None
      <4> QED BY <3>2, <4>1 DEF Orderly, Safe, Control
    <3> QED BY <3>1, <3>2 DEF Here
  <2> QED BY <1>1, <2>1
<1> QED BY <1>1, <1>2, <1>3

\* Whoever waits for an object that is available need not wait for another give.
THEOREM WakeUps == Spec => []NoLostWakeUp
<1>1. Orderly => NoLostWakeUp
  <2>1. SUFFICES ASSUME Orderly, NEW o \in Object, queue[o].lock = Unlocked,
                        NEW do \in Ways, k.event[<<o, Side(do)>>] # <<>>, Spare(o, do) >= 1
                 PROVE  \E t \in Thread : /\ ~Blocked(t) /\ Op(t).do = do /\ On(t) = o
                                          /\ thread[t].pc # "restore"
    <3>1. ASSUME Orderly, NEW o \in Object, queue[o].lock = Unlocked
          PROVE  /\ queue[o].count > 0 => Spare(o, "take") >= 1
                 /\ queue[o].count < Size[o] => Spare(o, "give") >= 1
      <4>1. queue[o].count \in Nat /\ Size[o] \in Nat
        BY <3>1, SpareFacts DEF Orderly, Safe
      <4> QED BY <3>1, <4>1 DEF Spare, Later
    <3> QED BY <2>1, <3>1 DEF NoLostWakeUp, Ways, Side
  <2>2. AtLeast(Trying(o, do), Spare(o, do)) /\ Spare(o, do) \in Int
    BY <2>1, SpareFacts DEF Orderly, Safe, Wakeups, Wakes
  <2>3. PICK t : t \in Trying(o, do)
    BY <2>1, <2>2, AtLeastOne
  <2> QED BY <2>1, <2>3, TryingComes
<1> QED BY <1>1, OrderlyAlways, PTL
=============================================================================
