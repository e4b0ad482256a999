-------------------------- MODULE LinkConfigProofs ---------------------------
(***************************************************************************)
(* Proofs about LinkConfig, for every value of the tick and of the         *)
(* timeouts that TimeAssumption admits and every set of faults.            *)
(***************************************************************************)
EXTENDS LinkConfig, TLAPS

Place == {"reset", "phy_reset", "linked", "linked?", "autoneg", "negotiate", "negotiate?",
          "result", "decode", "force", "config_mac", "start", "sleep", "decide"}

Phy == [auto : BOOLEAN, forced : Mode, link : BOOLEAN, aneg : BOOLEAN, latch : BOOLEAN,
        mode : Mode]

Word == 0..(TickMod - 1)

(* TypeOK with a conjunct for each variable. *)
TypeInv ==
  /\ pc \in Place /\ booting \in BOOLEAN /\ linkUp \in BOOLEAN
  /\ running \in BOOLEAN /\ rxint \in BOOLEAN /\ cable \in BOOLEAN
  /\ regvalue \in SUBSET {Linked, NegoComplete, FullDuplex}
  /\ init \in Mode /\ mac \in Mode /\ phy \in Phy
  /\ tick \in Word /\ tickstart \in Word
  /\ lag \in 0..MaxLag /\ waited \in 0..TickMod
  /\ faults \in SUBSET Faults

-----------------------------------------------------------------------------
(* The tick.                                                               *)

LEMMA Bounds ==
  /\ TickMod \in Nat \ {0} /\ MaxLag \in Nat /\ PhyTimeout + 1 \in 1..TickMod - 1
  /\ AutonegTimeout \in Nat /\ InitTimeout \in Nat /\ ResetTimeout \in Nat
  BY TimeAssumption

(* The remainder of a sum or a difference of two words. *)
LEMMA WordMod ==
  ASSUME NEW x \in Int
  PROVE  /\ x % TickMod \in Word
         /\ x \in Word => x % TickMod = x
         /\ x < 0 /\ x >= -TickMod => x % TickMod = x + TickMod
         /\ x >= TickMod /\ x < 2 * TickMod => x % TickMod = x - TickMod
<1>1. TickMod \in Nat \ {0}
  BY Bounds
<1>2. x % TickMod \in Word
  BY <1>1 DEF Word
<1>3. x \in Word => x % TickMod = x
  BY <1>1 DEF Word
<1>4. x < 0 /\ x >= -TickMod => x % TickMod = x + TickMod
  BY <1>1
<1>5. x >= TickMod /\ x < 2 * TickMod => x % TickMod = x - TickMod
  BY <1>1
<1> QED BY <1>2, <1>3, <1>4, <1>5

LEMMA DiffMod ==
  ASSUME NEW t \in Word, NEW s \in Word
  PROVE  /\ (t - s) % TickMod \in Word
         /\ t >= s => (t - s) % TickMod = t - s
         /\ t < s => (t - s) % TickMod = t - s + TickMod
<1>1. TickMod \in Nat \ {0} /\ t \in Int /\ s \in Int /\ t - s \in Int
  BY Bounds DEF Word
<1>2. t >= s => t - s \in Word
  BY <1>1 DEF Word
<1>3. t < s => t - s < 0 /\ t - s >= -TickMod
  BY <1>1 DEF Word
<1> QED BY <1>1, <1>2, <1>3, WordMod

LEMMA LaterMod ==
  ASSUME NEW t \in Word, NEW n \in Word
  PROVE  /\ Later(t, n) \in Word
         /\ t + n < TickMod => Later(t, n) = t + n
         /\ t + n >= TickMod => Later(t, n) = t + n - TickMod
<1>1. TickMod \in Nat \ {0} /\ t \in Int /\ n \in Int /\ t + n \in Int
  BY Bounds DEF Word
<1>2. t + n < TickMod => t + n \in Word
  BY <1>1 DEF Word
<1>3. t + n >= TickMod => t + n < 2 * TickMod
  BY <1>1 DEF Word
<1> QED BY <1>1, <1>2, <1>3, WordMod DEF Later

(* A wait that goes on for n ticks has not lasted longer for the code than it *)
(* had before and the n ticks.                                                *)
LEMMA ElapsedGrows ==
  ASSUME NEW t \in Word, NEW s \in Word, NEW n \in Word
  PROVE  (Later(t, n) - s) % TickMod <= ((t - s) % TickMod) + n
<1> DEFINE u == Later(t, n)
           a == (t - s) % TickMod
           b == (u - s) % TickMod
<1>1. TickMod \in Int /\ t \in Int /\ s \in Int /\ n \in Int
      /\ 0 <= t /\ t < TickMod /\ 0 <= s /\ s < TickMod /\ 0 <= n /\ n < TickMod
  BY Bounds DEF Word
<1>2. /\ u \in Word
      /\ t + n < TickMod => u = t + n
      /\ t + n >= TickMod => u = t + n - TickMod
  BY LaterMod
<1>3. u \in Int /\ 0 <= u /\ u < TickMod
  BY <1>1, <1>2 DEF Word
<1>4. /\ t >= s => a = t - s
      /\ t < s => a = t - s + TickMod
  BY DiffMod
<1>5. /\ u >= s => b = u - s
      /\ u < s => b = u - s + TickMod
  <2> HIDE DEF u
  <2> QED BY <1>2, DiffMod
<1>6. b <= a + n
  <2> HIDE DEF u, a, b
  <2> QED BY <1>1, <1>2, <1>3, <1>4, <1>5
<1> QED BY <1>6

LEMMA LaterDiff ==
  ASSUME NEW t \in Word, NEW n \in Word PROVE (Later(t, n) - t) % TickMod = n
<1> DEFINE u == Later(t, n)
<1>1. TickMod \in Int /\ t \in Int /\ n \in Int
      /\ 0 <= t /\ t < TickMod /\ 0 <= n /\ n < TickMod
  BY Bounds DEF Word
<1>2. /\ u \in Word
      /\ t + n < TickMod => u = t + n
      /\ t + n >= TickMod => u = t + n - TickMod
  BY LaterMod
<1>3. /\ u >= t => (u - t) % TickMod = u - t
      /\ u < t => (u - t) % TickMod = u - t + TickMod
  <2> HIDE DEF u
  <2> QED BY <1>2, DiffMod
<1> HIDE DEF u
<1>4. (u - t) % TickMod = n
  BY <1>1, <1>2, <1>3
<1> QED BY <1>4 DEF u

LEMMA MoreWaitedType ==
  ASSUME waited \in 0..TickMod, NEW n \in Word PROVE MoreWaited(n) \in 0..TickMod
  BY Bounds DEF MoreWaited, Word

(* A wait has lasted at least as long as the code computes. *)
Late == pc \in Waiting => Elapsed <= waited

LEMMA WaitGrows ==
  ASSUME TypeInv, Late, NEW n \in Word, tick' = Later(tick, n), tickstart' = tickstart,
         waited' = MoreWaited(n)
  PROVE  /\ tick' \in Word /\ waited' \in 0..TickMod
         /\ pc \in Waiting => Elapsed' <= waited'
<1>1. /\ tick \in Word /\ tickstart \in Word /\ waited \in 0..TickMod
  BY DEF TypeInv
<1>2. tick' \in Word
  BY <1>1, LaterMod
<1>3. waited' \in 0..TickMod
  BY <1>1, MoreWaitedType
<1>4. ASSUME pc \in Waiting PROVE Elapsed' <= waited'
  <2> DEFINE a == (tick - tickstart) % TickMod
             b == (tick' - tickstart) % TickMod
  <2>1. b <= a + n /\ a <= waited /\ Elapsed' = b
    BY <1>1, <1>4, ElapsedGrows DEF Late, Elapsed
  <2>2. a \in Word /\ b \in Word
    BY <1>1, <1>2, DiffMod
  <2> HIDE DEF a, b
  <2>3. waited' = IF waited + n < TickMod THEN waited + n ELSE TickMod
    BY <1>4 DEF MoreWaited
  <2> QED BY <1>1, <2>1, <2>2, <2>3, Bounds DEF Word
<1> QED BY <1>2, <1>3, <1>4

(* What an access to the PHY takes. *)
LEMMA AccessTime ==
  ASSUME TypeInv, Late, AccessWorks \/ AccessFails, Time
  PROVE  /\ tick' \in Word /\ waited' \in 0..TickMod
         /\ pc \in Waiting => Elapsed' <= waited'
<1>1. PICK n \in Word : tick' = Later(tick, n)
  <2>1. CASE AccessWorks
    <3>1. 0 \in Word /\ tick + 0 = tick /\ tick + 0 < TickMod
      BY Bounds DEF TypeInv, Word
    <3> QED BY <2>1, <3>1, LaterMod DEF TypeInv, AccessWorks
  <2>2. CASE AccessFails
    <3>1. PhyTimeout + 1 \in Word
      BY Bounds DEF Word
    <3> QED BY <2>2, <3>1 DEF AccessFails
  <2> QED BY <2>1, <2>2
<1>2. (tick' - tick) % TickMod = n
  BY <1>1, LaterDiff DEF TypeInv
<1>3. waited' = MoreWaited(n) /\ tickstart' = tickstart
  BY <1>2 DEF Time
<1> QED BY <1>1, <1>3, WaitGrows

(* The same for an access before the wait. *)
LEMMA AccessTick ==
  ASSUME TypeInv, AccessWorks \/ AccessFails PROVE tick' \in Word
<1>1. CASE AccessWorks BY <1>1 DEF AccessWorks, TypeInv
<1>2. CASE AccessFails
  <2>1. PhyTimeout + 1 \in Word
    BY Bounds DEF Word
  <2> QED BY <1>2, <2>1, LaterMod DEF AccessFails, TypeInv
<1> QED BY <1>1, <1>2

LEMMA WaitStarts ==
  ASSUME TypeInv, tick' \in Word, StartsWaiting
  PROVE  tickstart' \in Word /\ waited' = 0 /\ Elapsed' = 0
<1>1. 0 \in Word /\ 0 \in Int
  BY Bounds DEF Word
<1>2. 0 % TickMod = 0
  BY <1>1, WordMod
<1>3. tickstart' = tick' /\ waited' = 0
  BY DEF StartsWaiting
<1>4. tick' - tickstart' = 0
  <2>1. \A t \in Word : t - t = 0
    BY Bounds DEF Word
  <2> QED BY <1>3, <2>1
<1> QED BY <1>2, <1>3, <1>4 DEF Elapsed

-----------------------------------------------------------------------------
(* The registers.                                                          *)

LEMMA PhyFacts ==
  ASSUME NEW p \in Phy
  PROVE  /\ Dropped(p) \in Phy /\ Reset(p) \in Phy /\ EnableAutoneg(p) \in Phy
         /\ Seen(p) \in Phy /\ \A m \in Mode : Forced(p, m) \in Phy
<1>1. {} \in Mode
  BY DEF Mode
<1>2. Dropped(p) \in Phy
  BY <1>1 DEF Dropped, Phy
<1>3. Reset(p) \in Phy
  BY <1>1, <1>2 DEF Reset, Phy
<1>4. \A m \in Mode : Forced(p, m) \in Phy
  BY <1>2 DEF Forced, Phy
<1>5. Seen(p) \in Phy
  BY DEF Seen, Phy
<1> QED BY <1>2, <1>3, <1>4, <1>5 DEF EnableAutoneg

LEMMA BsrType == phy \in Phy => Bsr \in SUBSET {Linked, NegoComplete, FullDuplex}
  BY DEF Bsr

LEMMA SrType == phy \in Phy => Sr \in SUBSET {Linked, NegoComplete, FullDuplex}
  BY DEF Sr, Phy, Mode, ModeBits, Linked, Speed10

LEMMA ModeFacts == \A r : r \cap ModeBits \in Mode
  BY DEF Mode

-----------------------------------------------------------------------------
(* Types, and the time of a wait.                                          *)

LEMMA TimeInit == Init => TypeInv /\ Late
<1> SUFFICES ASSUME Init PROVE TypeInv /\ Late
  OBVIOUS
<1>1. 0 \in Word /\ 0 % TickMod = 0 /\ 0 \in 0..MaxLag /\ 0 \in 0..TickMod
  BY Bounds, WordMod DEF Word
<1>2. phy \in Phy
  BY DEF Init, Phy, Mode
<1>3. TypeInv
  BY <1>1, <1>2 DEF Init, TypeInv, Place, Mode, ModeBits, Speed10
<1>4. Late
  BY <1>1 DEF Init, Late, Elapsed
<1> QED BY <1>3, <1>4

LEMMA TimeHalInit == TypeInv /\ Late /\ HalInit => TypeInv' /\ Late'
<1> SUFFICES ASSUME TypeInv, Late, HalInit PROVE TypeInv' /\ Late'
  OBVIOUS
<1>0. 0 \in 0..MaxLag /\ 0 \in 0..TickMod /\ {FullDuplex} \in Mode
  BY Bounds DEF Mode, ModeBits
<1>1. CASE WaitReset
  <2>1. TypeInv'
    BY <1>0, <1>1 DEF WaitReset, TypeInv, Goto, Place, eth
  <2>2. Late'
    BY <1>1 DEF WaitReset, Late, Goto, Elapsed, Waiting
  <2> QED BY <2>1, <2>2
<1>2. CASE PhyReset
  <2>1. tick' \in Word
    BY <1>2, AccessTick DEF PhyReset, WriteBcr
  <2>2. phy' \in Phy
    BY <1>2, PhyFacts DEF PhyReset, WriteBcr, AccessWorks, AccessFails, TypeInv
  <2>3. CASE /\ tick' = tick /\ Goto("phy_reset", "linked") /\ StartsWaiting
             /\ UNCHANGED <<linkUp, eth>>
    <3>1. tickstart' \in Word /\ waited' = 0 /\ Elapsed' = 0
      BY <2>1, <2>3, WaitStarts
    <3>2. TypeInv'
      BY <1>0, <1>2, <2>1, <2>2, <2>3, <3>1 DEF PhyReset, TypeInv, Goto, Place, eth
    <3> QED BY <3>1, <3>2 DEF Late
  <2>4. CASE tick' # tick /\ InitFails("phy_reset") /\ Time
    <3>1. waited' \in 0..TickMod /\ tickstart' \in Word
      BY <1>2, <2>4, AccessTime DEF PhyReset, WriteBcr, Time, TypeInv
    <3>2. TypeInv'
      BY <1>0, <1>2, <2>1, <2>2, <2>4, <3>1
      DEF PhyReset, TypeInv, InitFails, ConfigMacDma, Goto, Place
    <3>3. Late'
      BY <2>4 DEF InitFails, Goto, Late, Waiting
    <3> QED BY <3>2, <3>3
  <2> QED BY <1>2, <2>3, <2>4 DEF PhyReset
<1>3. CASE ReadLinked
  <2>1. (AccessWorks \/ AccessFails) /\ Time /\ pc \in Waiting
    BY <1>3 DEF ReadLinked, ReadBsr, Goto, Waiting
  <2>2. tick' \in Word /\ waited' \in 0..TickMod /\ Elapsed' <= waited' /\ tickstart' \in Word
    BY <2>1, AccessTime DEF Time, TypeInv
  <2>3. phy' \in Phy /\ regvalue' \in SUBSET {Linked, NegoComplete, FullDuplex}
    BY <1>3, PhyFacts, BsrType DEF ReadLinked, ReadBsr, TypeInv
  <2>4. TypeInv'
    BY <1>0, <1>3, <2>2, <2>3 DEF ReadLinked, TypeInv, Goto, Place, eth
  <2> QED BY <2>2, <2>4 DEF Late
<1>4. CASE CheckLinked
  <2>1. TypeInv'
    BY <1>0, <1>4 DEF CheckLinked, TypeInv, InitFails, ConfigMacDma, Goto, Place, eth
  <2>2. Late'
    BY <1>4 DEF CheckLinked, InitFails, Late, Goto, Elapsed, Waiting
  <2> QED BY <2>1, <2>2
<1> QED BY <1>1, <1>2, <1>3, <1>4 DEF HalInit

LEMMA TimeNegotiation == TypeInv /\ Late /\ Negotiation => TypeInv' /\ Late'
<1> SUFFICES ASSUME TypeInv, Late, Negotiation PROVE TypeInv' /\ Late'
  OBVIOUS
<1>0. 0 \in 0..MaxLag /\ 0 \in 0..TickMod /\ {FullDuplex} \in Mode
  BY Bounds DEF Mode, ModeBits
<1>1. CASE Autoneg
  <2>1. tick' \in Word
    BY <1>1, AccessTick DEF Autoneg, WriteBcr
  <2>2. phy' \in Phy
    BY <1>1, PhyFacts DEF Autoneg, WriteBcr, AccessWorks, AccessFails, TypeInv
  <2>3. CASE Goto("autoneg", "negotiate") /\ StartsWaiting /\ UNCHANGED <<linkUp, eth>>
    <3>1. tickstart' \in Word /\ waited' = 0 /\ Elapsed' = 0
      BY <2>1, <2>3, WaitStarts
    <3>2. TypeInv'
      BY <1>0, <1>1, <2>1, <2>2, <2>3, <3>1 DEF Autoneg, TypeInv, Goto, Place, eth
    <3> QED BY <3>1, <3>2 DEF Late
  <2>4. CASE tick' # tick /\ InitFails("autoneg") /\ Time
    <3>1. waited' \in 0..TickMod /\ tickstart' \in Word
      BY <1>1, <2>4, AccessTime DEF Autoneg, WriteBcr, Time, TypeInv
    <3>2. TypeInv'
      BY <1>0, <1>1, <2>1, <2>2, <2>4, <3>1
      DEF Autoneg, TypeInv, InitFails, ConfigMacDma, Goto, Place
    <3>3. Late'
      BY <2>4 DEF InitFails, Goto, Late, Waiting
    <3> QED BY <3>2, <3>3
  <2> QED BY <1>1, <2>3, <2>4 DEF Autoneg
<1>2. CASE ReadNegotiated
  <2>1. (AccessWorks \/ AccessFails) /\ Time /\ pc \in Waiting
    BY <1>2 DEF ReadNegotiated, ReadBsr, Goto, Waiting
  <2>2. tick' \in Word /\ waited' \in 0..TickMod /\ Elapsed' <= waited' /\ tickstart' \in Word
    BY <2>1, AccessTime DEF Time, TypeInv
  <2>3. phy' \in Phy /\ regvalue' \in SUBSET {Linked, NegoComplete, FullDuplex}
    BY <1>2, PhyFacts, BsrType DEF ReadNegotiated, ReadBsr, TypeInv
  <2>4. TypeInv'
    BY <1>0, <1>2, <2>2, <2>3 DEF ReadNegotiated, TypeInv, Goto, Place, eth
  <2> QED BY <2>2, <2>4 DEF Late
<1>3. CASE CheckNegotiated
  <2>1. TypeInv'
    BY <1>0, <1>3 DEF CheckNegotiated, TypeInv, InitFails, ConfigMacDma, Goto, Place, eth
  <2>2. Late'
    BY <1>3 DEF CheckNegotiated, InitFails, Late, Goto, Elapsed, Waiting
  <2> QED BY <2>1, <2>2
<1>4. CASE ReadResult
  <2>1. tick' \in Word /\ waited' \in 0..TickMod /\ tickstart' \in Word
    BY <1>4, AccessTime DEF ReadResult, ReadSr, Time, TypeInv
  <2>2. regvalue' \in SUBSET {Linked, NegoComplete, FullDuplex}
    BY <1>4, SrType DEF ReadResult, ReadSr, TypeInv
  <2>3. pc' \in {"decode", "start"} /\ lag' = 0
        /\ (UNCHANGED <<linkUp, eth>> \/ InitFails("result"))
    BY <1>4 DEF ReadResult, InitFails, Goto
  <2>4. init' \in Mode /\ mac' \in Mode /\ running' \in BOOLEAN /\ rxint' \in BOOLEAN
        /\ linkUp' \in BOOLEAN
    BY <1>0, <2>3 DEF InitFails, ConfigMacDma, TypeInv, eth
  <2>5. TypeInv'
    BY <1>0, <1>4, <2>1, <2>2, <2>3, <2>4 DEF ReadResult, TypeInv, Place
  <2>6. Late'
    BY <2>3 DEF Late, Waiting
  <2> QED BY <2>5, <2>6
<1>5. CASE Decode
  <2>1. TypeInv'
    BY <1>0, <1>5, ModeFacts DEF Decode, TypeInv, ConfigMacDma, Goto, Place
  <2>2. Late'
    BY <1>5 DEF Decode, Late, Goto, Waiting
  <2> QED BY <2>1, <2>2
<1> QED BY <1>1, <1>2, <1>3, <1>4, <1>5 DEF Negotiation

LEMMA TimeConfig == TypeInv /\ Late /\ Config => TypeInv' /\ Late'
<1> SUFFICES ASSUME TypeInv, Late, Config PROVE TypeInv' /\ Late'
  OBVIOUS
<1>0. 0 \in 0..MaxLag /\ 0 \in 0..TickMod /\ 0 \in Word
  BY Bounds DEF Word
<1>1. CASE ForceMode
  <2>1. tick' \in Word /\ waited' \in 0..TickMod /\ tickstart' \in Word
    BY <1>1, AccessTime DEF ForceMode, WriteBcr, Time, TypeInv
  <2>2. phy' \in Phy
    BY <1>1, PhyFacts DEF ForceMode, WriteBcr, TypeInv
  <2>3. TypeInv'
    BY <1>0, <1>1, <2>1, <2>2 DEF ForceMode, TypeInv, Goto, Place, eth
  <2>4. Late'
    BY <1>1 DEF ForceMode, Late, Goto, Waiting
  <2> QED BY <2>3, <2>4
<1>2. CASE ConfigMac
  BY <1>0, <1>2 DEF ConfigMac, TypeInv, Goto, Place, Late, Waiting
<1>3. CASE Start
  BY <1>0, <1>3 DEF Start, TypeInv, Goto, Place, Late, Waiting
<1> QED BY <1>1, <1>2, <1>3 DEF Config

LEMMA TimePass == TypeInv /\ Late /\ Pass => TypeInv' /\ Late'
<1> SUFFICES ASSUME TypeInv, Late, Pass PROVE TypeInv' /\ Late'
  OBVIOUS
<1>0. 0 \in 0..MaxLag
  BY Bounds
<1>1. CASE Poll
  <2>1. tick' \in Word /\ waited' \in 0..TickMod /\ tickstart' \in Word
    BY <1>1, AccessTime DEF Poll, Time, TypeInv
  <2>2. phy' \in Phy /\ regvalue' \in SUBSET {Linked, NegoComplete, FullDuplex}
    BY <1>1, PhyFacts DEF Poll, TypeInv
  <2>3. TypeInv'
    BY <1>0, <1>1, <2>1, <2>2 DEF Poll, TypeInv, Goto, Place, eth
  <2>4. Late'
    BY <1>1 DEF Poll, Late, Goto, Waiting
  <2> QED BY <2>3, <2>4
<1>2. CASE LinkDown
  BY <1>0, <1>2 DEF LinkDown, TypeInv, Goto, Place, Late, Waiting
<1>3. CASE LinkUp
  BY <1>0, <1>3 DEF LinkUp, TypeInv, Goto, Place, Late, Waiting
<1>4. CASE NoChange
  BY <1>0, <1>4 DEF NoChange, TypeInv, Goto, Place, Late, Waiting, eth
<1> QED BY <1>1, <1>2, <1>3, <1>4 DEF Pass

LEMMA TimeRest ==
  TypeInv /\ Late /\ (Tick \/ Plug \/ LinkComesUp \/ UNCHANGED vars) => TypeInv' /\ Late'
<1> SUFFICES ASSUME TypeInv, Late, Tick \/ Plug \/ LinkComesUp \/ UNCHANGED vars
             PROVE  TypeInv' /\ Late'
  OBVIOUS
<1>1. CASE Tick
  <2>1. 1 \in Word
    BY Bounds DEF Word
  <2>2. tick' \in Word /\ waited' \in 0..TickMod /\ (pc \in Waiting => Elapsed' <= waited')
    BY <1>1, <2>1, WaitGrows DEF Tick
  <2>3. lag' \in 0..MaxLag
    BY <1>1, Bounds DEF Tick, TypeInv
  <2> QED BY <1>1, <2>2, <2>3 DEF Tick, TypeInv, Late, thread, eth
<1>2. CASE Plug
  <2>1. phy' \in Phy /\ cable' \in BOOLEAN
    BY <1>2, PhyFacts DEF Plug, TypeInv
  <2> QED BY <1>2, <2>1 DEF Plug, TypeInv, Late, Elapsed, thread, eth
<1>3. CASE LinkComesUp
  <2>1. phy' \in Phy
    BY <1>3 DEF LinkComesUp, TypeInv, Phy
  <2> QED BY <1>3, <2>1 DEF LinkComesUp, TypeInv, Late, Elapsed, thread, eth
<1>4. CASE UNCHANGED vars
  BY <1>4 DEF vars, TypeInv, Late, Elapsed, thread, eth
<1> QED BY <1>1, <1>2, <1>3, <1>4

LEMMA TimeInductive == Spec => [](TypeInv /\ Late)
<1>1. TypeInv /\ Late /\ [Next]_vars => TypeInv' /\ Late'
  BY TimeHalInit, TimeNegotiation, TimeConfig, TimePass, TimeRest DEF Next, Thread
<1> QED BY <1>1, TimeInit, PTL DEF Spec

(* Every variable keeps its type. *)
THEOREM TypeCorrect == Spec => []TypeOK
<1>1. TypeInv => TypeOK
  BY DEF TypeInv, TypeOK, Place, Word, Phy
<1> QED BY <1>1, TimeInductive, PTL

(* Neither the negotiation nor the initialisation is given up before its time is over. *)
THEOREM NeverGivesUpEarly == Spec => GivesUpLate
<1>1. TypeInv /\ Late /\ [Next]_vars
        => [/\ pc = "negotiate?" /\ pc' = "force" => waited > AutonegTimeout
            /\ pc \in {"linked?", "negotiate?"} /\ pc' = "start" => waited > InitTimeout]_vars
  <2> SUFFICES ASSUME TypeInv, Late, Next, pc \in {"linked?", "negotiate?"}
               PROVE  /\ pc = "negotiate?" /\ pc' = "force" => waited > AutonegTimeout
                      /\ pc' = "start" => waited > InitTimeout
    OBVIOUS
  <2>1. Elapsed \in Word /\ Elapsed <= waited /\ waited \in 0..TickMod
    BY DiffMod DEF Late, Waiting, TypeInv, Elapsed
  <2>2. CASE CheckLinked
    BY <2>1, <2>2, Bounds DEF CheckLinked, TimedOut, InitFails, Goto, Word
  <2>3. CASE CheckNegotiated
    BY <2>1, <2>3, Bounds DEF CheckNegotiated, TimedOut, InitFails, Goto, Word
  <2>4. CASE Tick \/ Plug \/ LinkComesUp
    BY <2>4 DEF Tick, Plug, LinkComesUp, thread
  <2> QED BY <2>2, <2>3, <2>4
    DEF Next, Thread, HalInit, Negotiation, Config, Pass, WaitReset, PhyReset, ReadLinked,
        Autoneg, ReadNegotiated, ReadResult, Decode, ForceMode, ConfigMac, Start, Poll, LinkDown,
        LinkUp, NoChange, Goto, InitFails
<1> QED BY <1>1, TimeInductive, PTL DEF Spec, GivesUpLate

-----------------------------------------------------------------------------
(* Reception.                                                              *)

(* The receive interrupt is enabled on every way out of low_level_init but one. *)
Configured ==
  /\ ~booting \/ pc = "start" => rxint \/ "swr" \in faults
  /\ pc \in {"sleep", "decide"} /\ linkUp => running
  /\ pc \in {"force", "config_mac", "sleep", "decide"} => ~booting
  /\ pc = "reset" => booting

LEMMA ConfiguredStep == TypeInv /\ Configured /\ [Next]_vars => Configured'
<1> SUFFICES ASSUME TypeInv, Configured, [Next]_vars PROVE Configured'
  OBVIOUS
<1> USE DEF Configured, Goto, InitFails, ConfigMacDma, eth, thread
<1>1. CASE WaitReset      BY <1>1 DEF WaitReset
<1>2. CASE PhyReset       BY <1>2 DEF PhyReset
<1>3. CASE ReadLinked     BY <1>3 DEF ReadLinked
<1>4. CASE CheckLinked    BY <1>4 DEF CheckLinked
<1>5. CASE Autoneg        BY <1>5 DEF Autoneg
<1>6. CASE ReadNegotiated BY <1>6 DEF ReadNegotiated
<1>7. CASE CheckNegotiated BY <1>7 DEF CheckNegotiated
<1>8. CASE ReadResult     BY <1>8 DEF ReadResult
<1>9. CASE Decode         BY <1>9 DEF Decode
<1>10. CASE ForceMode     BY <1>10 DEF ForceMode
<1>11. CASE ConfigMac     BY <1>11 DEF ConfigMac
<1>12. CASE Start         BY <1>12 DEF Start
<1>13. CASE Pass          BY <1>13 DEF Pass, Poll, LinkDown, LinkUp, NoChange
<1>14. CASE Tick          BY <1>14 DEF Tick
<1>15. CASE Plug          BY <1>15 DEF Plug
<1>16. CASE LinkComesUp   BY <1>16 DEF LinkComesUp
<1>17. CASE UNCHANGED vars BY <1>17 DEF vars
<1> QED
  BY <1>1, <1>2, <1>3, <1>4, <1>5, <1>6, <1>7, <1>8, <1>9, <1>10, <1>11, <1>12, <1>13, <1>14, <1>15,
     <1>16, <1>17
  DEF Next, Thread, HalInit, Negotiation, Config

LEMMA ConfiguredHolds == Spec => []Configured
<1>1. Init => Configured
  BY DEF Init, Configured
<1> QED BY <1>1, ConfiguredStep, TimeInductive, PTL DEF Spec

(* Between two passes an interface with a link receives. *)
THEOREM ReceptionEnabled == Spec => []ReceivesWhenUp
<1>1. Configured => ReceivesWhenUp
  BY DEF Configured, ReceivesWhenUp
<1> QED BY <1>1, ConfiguredHolds, PTL

-----------------------------------------------------------------------------
(* Speed and duplex mode.                                                  *)

(* m is the mode of the PHY, or will be when the link of a forced PHY comes up, *)
(* or PHY_BSR remembers a loss of the link.                                     *)
Agrees(m) == phy.latch \/ (phy.link /\ m = phy.mode) \/ (~phy.auto /\ phy.forced = m)

ForcedMode == ~phy.auto /\ phy.link => phy.mode = phy.forced
NegoHasLink == phy.aneg => phy.link

(* What becomes of the mode of the PHY on its way into MACCR.  The result of a     *)
(* negotiation may be out of date when it is read: then the loss of the link is in *)
(* the latch of PHY_BSR, which nothing reads before the next pass.                 *)
Follows ==
  /\ pc = "negotiate?" /\ NegoComplete \in regvalue => phy.link \/ phy.latch
  /\ pc = "result" => phy.link \/ phy.latch
  /\ pc = "decode" => Agrees(regvalue \cap ModeBits)
  /\ pc = "config_mac" => Agrees(init)
  /\ pc \in {"start", "sleep"} /\ linkUp => Agrees(mac)
  /\ pc = "decide" /\ linkUp /\ regvalue # {} => Agrees(mac)
  /\ booting /\ pc # "start" => ~linkUp

ModeInv == "mii" \notin faults => ForcedMode /\ NegoHasLink /\ Follows

LEMMA PhyFields ==
  ASSUME NEW p \in Phy
  PROVE  /\ ~Dropped(p).link /\ ~Dropped(p).aneg
         /\ Dropped(p).auto = p.auto /\ Dropped(p).forced = p.forced
         /\ p.latch \/ p.link => Dropped(p).latch
         /\ Reset(p).auto /\ ~Reset(p).link /\ ~Reset(p).aneg
         /\ Seen(p).link = p.link /\ Seen(p).aneg = p.aneg /\ Seen(p).mode = p.mode
         /\ Seen(p).auto = p.auto /\ Seen(p).forced = p.forced
         /\ \A m \in Mode : /\ ~Forced(p, m).auto /\ Forced(p, m).forced = m
                             /\ ~Forced(p, m).link /\ ~Forced(p, m).aneg
<1>1. Dropped(p) \in Phy
  BY PhyFacts
<1>2. /\ ~Dropped(p).link /\ ~Dropped(p).aneg
      /\ Dropped(p).auto = p.auto /\ Dropped(p).forced = p.forced
      /\ p.latch \/ p.link => Dropped(p).latch
  BY DEF Dropped, Phy
<1>3. Reset(p).auto /\ ~Reset(p).link /\ ~Reset(p).aneg
  BY <1>1, <1>2 DEF Reset, Phy
<1>4. /\ Seen(p).link = p.link /\ Seen(p).aneg = p.aneg /\ Seen(p).mode = p.mode
      /\ Seen(p).auto = p.auto /\ Seen(p).forced = p.forced
  BY DEF Seen, Phy
<1>5. \A m \in Mode : /\ ~Forced(p, m).auto /\ Forced(p, m).forced = m
                      /\ ~Forced(p, m).link /\ ~Forced(p, m).aneg
  BY <1>1, <1>2 DEF Forced, Phy
<1> QED BY <1>2, <1>3, <1>4, <1>5

LEMMA BsrFacts ==
  /\ Linked \in Bsr <=> phy.link /\ ~phy.latch
  /\ NegoComplete \in Bsr <=> phy.aneg
  BY DEF Bsr, Linked, NegoComplete

LEMMA ModeInit == Init => ModeInv
  BY DEF Init, ModeInv, ForcedMode, NegoHasLink, Follows, Agrees

LEMMA ModeHalInit == TypeInv /\ Configured /\ ModeInv /\ HalInit => ModeInv'
<1> SUFFICES ASSUME TypeInv, Configured, ModeInv, HalInit, "mii" \notin faults
             PROVE  (ForcedMode /\ NegoHasLink /\ Follows)'
  BY DEF ModeInv, HalInit, WaitReset, PhyReset, ReadLinked, CheckLinked
<1>0. phy \in Phy /\ ForcedMode /\ NegoHasLink /\ Follows
  BY DEF ModeInv, TypeInv
<1> USE DEF ForcedMode, NegoHasLink, Follows, Goto, InitFails, AccessFails
<1>1. CASE WaitReset
  BY <1>0, <1>1 DEF WaitReset, Configured, eth
<1>2. CASE PhyReset
  BY <1>0, <1>2, PhyFields DEF PhyReset, WriteBcr, AccessWorks, eth
<1>3. CASE ReadLinked
  BY <1>0, <1>3, PhyFields DEF ReadLinked, ReadBsr, eth
<1>4. CASE CheckLinked
  BY <1>0, <1>4 DEF CheckLinked, eth
<1> QED BY <1>1, <1>2, <1>3, <1>4 DEF HalInit

LEMMA ModeNegotiation == TypeInv /\ ModeInv /\ Negotiation => ModeInv'
<1> SUFFICES ASSUME TypeInv, ModeInv, Negotiation, "mii" \notin faults
             PROVE  (ForcedMode /\ NegoHasLink /\ Follows)'
  BY DEF ModeInv, Negotiation, Autoneg, ReadNegotiated, CheckNegotiated, ReadResult, Decode
<1>0. phy \in Phy /\ ForcedMode /\ NegoHasLink /\ Follows
  BY DEF ModeInv, TypeInv
<1> USE DEF ForcedMode, NegoHasLink, Follows, Goto, InitFails, AccessFails
<1>1. CASE Autoneg
  BY <1>0, <1>1, PhyFields DEF Autoneg, WriteBcr, AccessWorks, EnableAutoneg, eth
<1>2. CASE ReadNegotiated
  BY <1>0, <1>2, PhyFields, BsrFacts DEF ReadNegotiated, ReadBsr, eth
<1>3. CASE CheckNegotiated
  BY <1>0, <1>3 DEF CheckNegotiated, eth
<1>4. CASE ReadResult
  <2>1. regvalue' \cap ModeBits = phy.mode /\ tick' = tick
    BY <1>4 DEF ReadResult, ReadSr, AccessWorks, Sr, TypeInv, Phy, Mode
  <2> QED BY <1>0, <1>4, <2>1 DEF ReadResult, Agrees, eth
<1>5. CASE Decode
  BY <1>0, <1>5 DEF Decode, ConfigMacDma, Agrees, eth
<1> QED BY <1>1, <1>2, <1>3, <1>4, <1>5 DEF Negotiation

LEMMA ModeConfig == TypeInv /\ ModeInv /\ Config => ModeInv'
<1> SUFFICES ASSUME TypeInv, ModeInv, Config, "mii" \notin faults
             PROVE  (ForcedMode /\ NegoHasLink /\ Follows)'
  BY DEF ModeInv, Config, ForceMode, ConfigMac, Start
<1>0. phy \in Phy /\ ForcedMode /\ NegoHasLink /\ Follows
  BY DEF ModeInv, TypeInv
<1> USE DEF ForcedMode, NegoHasLink, Follows, Agrees, Goto, AccessFails
<1>1. CASE ForceMode
  <2>1. phy' = Forced(phy, init) /\ init \in Mode /\ init' = init
    BY <1>1 DEF ForceMode, WriteBcr, TypeInv, eth
  <2> QED BY <1>0, <1>1, <2>1, PhyFields DEF ForceMode
<1>2. CASE ConfigMac
  BY <1>0, <1>2 DEF ConfigMac
<1>3. CASE Start
  BY <1>0, <1>3 DEF Start
<1> QED BY <1>1, <1>2, <1>3 DEF Config

LEMMA ModePass == TypeInv /\ Configured /\ ModeInv /\ Pass => ModeInv'
<1> SUFFICES ASSUME TypeInv, Configured, ModeInv, Pass, "mii" \notin faults
             PROVE  (ForcedMode /\ NegoHasLink /\ Follows)'
  BY DEF ModeInv, Pass, Poll, LinkDown, LinkUp, NoChange
<1>0. phy \in Phy /\ ForcedMode /\ NegoHasLink /\ Follows
  BY DEF ModeInv, TypeInv
<1> USE DEF ForcedMode, NegoHasLink, Follows, Agrees, Goto, AccessFails
<1>1. CASE Poll
  <2>1. phy' = Seen(phy) /\ regvalue' = Bsr \cap {Linked}
    BY <1>1 DEF Poll
  <2>2. regvalue' # {} => phy.link /\ ~phy.latch
    BY <2>1, BsrFacts
  <2> QED BY <1>0, <1>1, <2>1, <2>2, PhyFields DEF Poll, eth
<1>2. CASE LinkDown
  BY <1>0, <1>2 DEF LinkDown
<1>3. CASE LinkUp
  BY <1>0, <1>3 DEF LinkUp, Configured
<1>4. CASE NoChange
  BY <1>0, <1>4 DEF NoChange, eth
<1> QED BY <1>1, <1>2, <1>3, <1>4 DEF Pass

LEMMA ModeRest ==
  TypeInv /\ ModeInv /\ (Tick \/ Plug \/ LinkComesUp \/ UNCHANGED vars) => ModeInv'
<1> SUFFICES ASSUME TypeInv, ModeInv, Tick \/ Plug \/ LinkComesUp \/ UNCHANGED vars,
                    "mii" \notin faults
             PROVE  (ForcedMode /\ NegoHasLink /\ Follows)'
  BY DEF ModeInv, Tick, Plug, LinkComesUp, vars
<1>0. phy \in Phy /\ ForcedMode /\ NegoHasLink /\ Follows
  BY DEF ModeInv, TypeInv
<1> USE DEF ForcedMode, NegoHasLink, Follows, Agrees, thread, eth
<1>1. CASE Tick
  BY <1>0, <1>1 DEF Tick
<1>2. CASE Plug
  BY <1>0, <1>2, PhyFields DEF Plug
<1>3. CASE LinkComesUp
  <2>1. PICK m \in Mode : /\ ~phy.auto => m = phy.forced
                          /\ phy' = [phy EXCEPT !.link = TRUE, !.aneg = phy.auto, !.mode = m]
    BY <1>3 DEF LinkComesUp
  <2>2. /\ phy'.link /\ phy'.mode = m /\ phy'.auto = phy.auto /\ phy'.forced = phy.forced
        /\ phy'.latch = phy.latch
    BY <1>0, <2>1 DEF Phy
  <2> QED BY <1>0, <1>3, <2>1, <2>2 DEF LinkComesUp
<1>4. CASE UNCHANGED vars
  BY <1>0, <1>4 DEF vars
<1> QED BY <1>1, <1>2, <1>3, <1>4

(* Between two passes the MAC has the mode of the PHY, unless an access timed out. *)
THEOREM MacFollowsPhy == Spec => []MacMatchesPhy
<1>1. TypeInv /\ Configured /\ ModeInv /\ [Next]_vars => ModeInv'
  BY ModeHalInit, ModeNegotiation, ModeConfig, ModePass, ModeRest DEF Next, Thread
<1>2. TypeInv /\ ModeInv => MacMatchesPhy
  BY DEF ModeInv, ForcedMode, Follows, Agrees, MacMatchesPhy
<1> QED BY <1>1, <1>2, ModeInit, TimeInductive, ConfiguredHolds, PTL DEF Spec
=============================================================================
