---------------------------- MODULE EthTxProofs -----------------------------
(***************************************************************************)
(* Proofs about EthTx, for every number of descriptors and of calls, every *)
(* depth of the FIFO and whatever LinkThr does.                            *)
(***************************************************************************)
EXTENDS EthTx, SequenceTheorems, TLAPS

LEMMA DescFacts == 0 \in Desc /\ \A d \in Desc : NextDesc(d) \in Desc
  BY TxBufNbAssumption DEF Desc, NextDesc

LEMMA NthIn == \A d \in Desc, k \in Nat : (d + k) % TxBufNb \in Desc
  BY TxBufNbAssumption DEF Desc

\* A thread between the look at heth.TxDesc and the hand-over to the DMA.
Sending(t) == pc[t] \in {"check", "copy", "lock", "set", "own", "give"}

InCall == \A t \in Thread : Sending(t) => cur[t] \in Frame

TypeInv == TypeOK /\ InCall

LEMMA TypeInit == Init => TypeInv
<1> SUFFICES ASSUME Init PROVE TypeInv
  OBVIOUS
<1>1. TypeOK
  BY DescFacts, MaxFramesAssumption DEF Init, TypeOK, Frame
<1>2. InCall
  BY DEF Init, InCall, Sending
<1> QED BY <1>1, <1>2 DEF TypeInv

LEMMA TypeOutput == \A t \in Thread : TypeInv /\ Output(t) => TypeInv'
<1> SUFFICES ASSUME NEW t \in Thread, TypeInv, Output(t) PROVE TypeInv'
  OBVIOUS
<1>1. calls + 1 \in Frame /\ calls' \in 0..MaxFrames /\ calls + 1 \in 0..MaxFrames
  BY MaxFramesAssumption DEF TypeInv, TypeOK, Output, Frame
<1>2. overlap' \in BOOLEAN
  BY DEF TypeInv, TypeOK, Output, Between
<1>3. TypeOK'
  BY <1>1, <1>2 DEF TypeInv, TypeOK, Output, Goto, ring, dma, gone
<1>4. InCall'
  BY <1>1 DEF TypeInv, TypeOK, InCall, Sending, Output, Goto
<1> QED BY <1>3, <1>4 DEF TypeInv

LEMMA TypeOutputRest ==
  \A t \in Thread : TypeInv /\ (CheckBuffer(t) \/ CopyFrame(t) \/ Return(t)) => TypeInv'
<1> SUFFICES ASSUME NEW t \in Thread, TypeInv,
                    CheckBuffer(t) \/ CopyFrame(t) \/ Return(t)
             PROVE  TypeInv'
  OBVIOUS
<1> USE DEF TypeInv, TypeOK, InCall, Sending, Goto, ring, dma, local, gone
<1>1. CASE CheckBuffer(t)  BY <1>1 DEF CheckBuffer
<1>2. CASE CopyFrame(t)    BY <1>2 DEF CopyFrame
<1>3. CASE Return(t)       BY <1>3 DEF Return
<1> QED BY <1>1, <1>2, <1>3

LEMMA TypeTransmit == \A t \in Thread : TypeInv /\ TransmitFrame(t) => TypeInv'
<1> SUFFICES ASSUME NEW t \in Thread, TypeInv, TransmitFrame(t) PROVE TypeInv'
  OBVIOUS
<1> USE DEF TypeInv, TypeOK, InCall, Sending, Goto, ring, dma, local, gone
<1>1. CASE LockTest(t)     BY <1>1 DEF LockTest
<1>2. CASE LockSet(t)      BY <1>2 DEF LockSet
<1>3. CASE CheckDesc(t)    BY <1>3 DEF CheckDesc
<1>4. CASE GiveDesc(t)
  <2>1. cur[t] \in Frame /\ cur[t] \in 0..MaxFrames
    BY <1>4 DEF GiveDesc
  <2> QED BY <1>4, <2>1 DEF GiveDesc
<1>5. CASE AdvanceDesc(t)  BY <1>5, DescFacts DEF AdvanceDesc
<1>6. CASE ResumeDma(t)    BY <1>6 DEF ResumeDma
<1>7. CASE Unlock(t)       BY <1>7 DEF Unlock
<1> QED BY <1>1, <1>2, <1>3, <1>4, <1>5, <1>6, <1>7 DEF TransmitFrame

ConfigPc ==
  {"stopDma", "stopFlush", "stopMac", "stopLeave", "stopped", "macLeave", "ready", "startMac",
   "startFlush", "startDma", "startLeave"}

\* LinkThr in ethernetif_update_config: tcpip_thread waits, only LinkThr moves.
ConfigSwitch ==
  /\ UNCHANGED <<own, fifo, dmaPos, tus, flushed>>
  /\ hlock' \in {"locked", "unlocked"} /\ te' \in {te, 0, 1}
  /\ tps' \in {tps, "running", "stopped"}

ConfigFlush == Flush(pc["link"], pc'["link"]) /\ UNCHANGED <<hlock, tps, te>>

ConfigMoves ==
  /\ pc["tcpip"] = "out" /\ \A t \in Thread : t # "link" => pc'[t] = pc[t]
  /\ pc["link"] \in ConfigPc \cup {"out"} /\ pc'["link"] \in ConfigPc \cup {"out"}
  /\ pc' = [pc EXCEPT !["link"] = pc'["link"]]
  /\ UNCHANGED <<buf, len, txDesc, tbus, calls, local, queued, wire, overlap>>
  /\ ConfigSwitch \/ ConfigFlush

LEMMA ConfigIs == ASSUME TypeOK, Config PROVE ConfigMoves
<1> USE DEF TypeOK, Goto, Runs, Thread, HalEnter, HalLeave, Switch, ring, dma, local, gone,
            ConfigPc, ConfigMoves, ConfigSwitch, ConfigFlush
<1>1. CASE Stop       BY <1>1 DEF Stop
<1>2. CASE StopDma    BY <1>2 DEF StopDma
<1>3. CASE StopFlush
  <2>1. pc["link"] = "stopFlush" /\ pc'["link"] = "stopMac"
    BY <1>3 DEF StopFlush, Flush
  <2> QED BY <1>3, <2>1 DEF StopFlush, Flush
<1>4. CASE StopMac    BY <1>4 DEF StopMac
<1>5. CASE StopLeave  BY <1>5 DEF StopLeave
<1>6. CASE LinkDown   BY <1>6 DEF LinkDown
<1>7. CASE ConfigMAC  BY <1>7 DEF ConfigMAC
<1>8. CASE MACLeave   BY <1>8 DEF MACLeave
<1>9. CASE Start      BY <1>9 DEF Start
<1>10. CASE StartMac  BY <1>10 DEF StartMac
<1>11. CASE StartFlush
  <2>1. pc["link"] = "startFlush" /\ pc'["link"] = "startDma"
    BY <1>11 DEF StartFlush, Flush
  <2> QED BY <1>11, <2>1 DEF StartFlush, Flush
<1>12. CASE StartDma    BY <1>12 DEF StartDma
<1>13. CASE StartLeave  BY <1>13 DEF StartLeave
<1> QED
  BY <1>1, <1>2, <1>3, <1>4, <1>5, <1>6, <1>7, <1>8, <1>9, <1>10, <1>11, <1>12, <1>13
  DEF Config

LEMMA TypeConfig == TypeInv /\ Config => TypeInv'
<1> SUFFICES ASSUME TypeInv, Config PROVE TypeInv'
  OBVIOUS
<1>1. ConfigMoves
  BY ConfigIs DEF TypeInv
<1>2. InCall'
  BY <1>1 DEF TypeInv, TypeOK, InCall, Sending, ConfigMoves, ConfigPc, Thread, local
<1>3. pc' \in [Thread -> {"out", "check", "copy", "lock", "set", "own", "give", "next",
                        "resume", "unlock", "ok", "use", "stopDma", "stopFlush", "stopMac",
                        "stopLeave", "stopped", "macLeave", "ready", "startMac",
                        "startFlush", "startDma", "startLeave"}]
  BY <1>1 DEF TypeInv, TypeOK, ConfigMoves, ConfigPc
<1>4. /\ buf' \in [Desc -> 0..MaxFrames] /\ len' \in [Desc -> 0..MaxFrames]
      /\ txDesc' \in Desc /\ tbus' \in {0, 1} /\ calls' \in 0..MaxFrames
      /\ cur' \in [Thread -> 0..MaxFrames] /\ dsc' \in [Thread -> Desc]
      /\ queued' \subseteq Frame /\ overlap' \in BOOLEAN
      /\ wire' \in Seq((0..MaxFrames) \X (0..MaxFrames))
  BY <1>1 DEF TypeInv, TypeOK, ConfigMoves, local
<1>5. CASE ConfigSwitch
  BY <1>2, <1>4, <1>3, <1>5 DEF TypeInv, TypeOK, ConfigSwitch
<1>6. CASE ConfigFlush
  <2>1. fifo \in Seq((0..MaxFrames) \X (0..MaxFrames)) /\ dmaPos \in Desc
    BY DEF TypeInv, TypeOK
  <2>2. dmaPos' \in Desc
    BY <1>6, <2>1, NthIn, LenProperties DEF ConfigFlush, Flush, Nth
  <2>3. flushed' \subseteq 0..MaxFrames
    <3>1. \A i \in DOMAIN fifo : fifo[i] \in (0..MaxFrames) \X (0..MaxFrames)
      BY <2>1, ElementOfSeq, LenProperties
    <3>2. \A i \in DOMAIN fifo : fifo[i][2] \in 0..MaxFrames
      BY <3>1
    <3>3. flushed' = flushed \cup {fifo[i][2] : i \in DOMAIN fifo}
      BY <1>6 DEF ConfigFlush, Flush
    <3>4. flushed \subseteq 0..MaxFrames
      BY DEF TypeInv, TypeOK
    <3> QED BY <3>2, <3>3, <3>4
  <2>4. own' \in [Desc -> {"CPU", "DMA"}]
    <3>1. own \in [Desc -> {"CPU", "DMA"}]
      BY DEF TypeInv, TypeOK
    <3> QED BY <1>6, <3>1 DEF ConfigFlush, Flush
  <2>5. fifo' = <<>> /\ tus' \in {0, 1} /\ UNCHANGED <<hlock, tps, te>>
    BY <1>6 DEF ConfigFlush, Flush, TypeInv, TypeOK
  <2>6. hlock' \in {"unlocked", "locked"} /\ te' \in {0, 1}
        /\ tps' \in {"running", "suspended", "stopped"}
        /\ fifo' \in Seq((0..MaxFrames) \X (0..MaxFrames))
    BY <2>5 DEF TypeInv, TypeOK
  <2> QED
    BY <1>2, <1>4, <1>3, <2>2, <2>3, <2>4, <2>5, <2>6 DEF TypeInv, TypeOK
<1> QED BY <1>1, <1>2, <1>5, <1>6 DEF ConfigMoves, TypeInv

LEMMA TypeHardware == TypeInv /\ (Dma \/ MacTransmit \/ RxInterrupt) => TypeInv'
<1> SUFFICES ASSUME TypeInv, Dma \/ MacTransmit \/ RxInterrupt PROVE TypeInv'
  OBVIOUS
<1> DEFINE Pair == (0..MaxFrames) \X (0..MaxFrames)
<1>1. fifo \in Seq(Pair) /\ wire \in Seq(Pair) /\ Len(fifo) \in Nat /\ dmaPos \in Desc
  BY LenProperties DEF TypeInv, TypeOK
<1>2. CASE DmaFetch
  <2>1. Ahead \in Desc
    BY <1>1, NthIn DEF Ahead, Nth
  <2>2. <<buf[Ahead], len[Ahead]>> \in Pair
    BY <2>1 DEF TypeInv, TypeOK
  <2>3. fifo' \in Seq(Pair)
    BY <1>1, <1>2, <2>2, AppendProperties DEF DmaFetch
  <2> QED BY <1>2, <2>3 DEF TypeInv, TypeOK, InCall, Sending, DmaFetch, ring, local, gone
<1>3. CASE MacTransmit
  <2>1. wire' \in Seq(Pair) /\ fifo' \in Seq(Pair)
    BY <1>1, <1>3, HeadTailProperties, AppendProperties DEF MacTransmit
  <2> QED BY <1>3, <2>1, DescFacts DEF TypeInv, TypeOK, InCall, Sending, MacTransmit, local
<1>4. CASE DmaSuspend
  BY <1>4 DEF TypeInv, TypeOK, InCall, Sending, DmaSuspend, ring, local, gone
<1>5. CASE RxInterrupt
  BY <1>5 DEF TypeInv, TypeOK, InCall, Sending, RxInterrupt, ring, dma, local, gone
<1> QED BY <1>2, <1>3, <1>4, <1>5 DEF Dma

LEMMA TypeStutter == TypeInv /\ UNCHANGED vars => TypeInv'
  BY DEF TypeInv, TypeOK, InCall, Sending, vars, ring, dma, local, gone

LEMMA TypeInductive == Spec => []TypeInv
<1>1. TypeInv /\ [Next]_vars => TypeInv'
  BY TypeOutput, TypeOutputRest, TypeTransmit, TypeConfig, TypeHardware, TypeStutter
  DEF Next, Step
<1> QED BY <1>1, TypeInit, PTL DEF Spec

(* Every variable of the transmit path keeps its type whatever LinkThr does: the  *)
(* descriptor pointers of driver and DMA stay in the ring, and only frames that   *)
(* low_level_output was called with are handed to the DMA.                        *)
THEOREM TypeCorrect == Spec => []TypeOK
  BY TypeInductive, PTL DEF TypeInv

-----------------------------------------------------------------------------
(* The HAL lock is taken only while a thread is inside the HAL, although the      *)
(* interrupt may release it earlier: LinkThr, which runs only while tcpip_thread  *)
(* waits, never meets it.                                                         *)

LockHeld ==
  hlock = "locked" => pc["tcpip"] \in {"own", "give", "next", "resume", "unlock"} \/ LinkInHal

\* From HAL_ETH_Stop's flush to the start of the DMA nothing is fetched.
Stopped ==
  /\ pc["link"] \in ConfigPc \ {"stopDma", "startLeave"} => tps = "stopped"
  /\ pc["link"] \in ConfigPc \ {"stopDma", "stopFlush", "startDma", "startLeave"} => fifo = <<>>

HalInv == LockHeld /\ Stopped

LEMMA HalInit == Init => HalInv
  BY DEF Init, HalInv, LockHeld, Stopped, ConfigPc, Thread

LEMMA HalStep == \A t \in Thread : TypeOK /\ HalInv /\ Step(t) => HalInv'
<1> SUFFICES ASSUME NEW t \in Thread, TypeOK, HalInv, Step(t) PROVE HalInv'
  OBVIOUS
<1> USE DEF TypeOK, HalInv, LockHeld, Stopped, LinkInHal, ConfigPc, Goto, Runs, Thread, ring,
            dma, local
<1>1. CASE Output(t)       BY <1>1 DEF Output
<1>2. CASE CheckBuffer(t)  BY <1>2 DEF CheckBuffer
<1>3. CASE CopyFrame(t)    BY <1>3 DEF CopyFrame
<1>4. CASE Return(t)       BY <1>4 DEF Return
<1>5. CASE LockTest(t)     BY <1>5 DEF LockTest
<1>6. CASE LockSet(t)      BY <1>6 DEF LockSet
<1>7. CASE CheckDesc(t)    BY <1>7 DEF CheckDesc
<1>8. CASE GiveDesc(t)     BY <1>8 DEF GiveDesc
<1>9. CASE AdvanceDesc(t)  BY <1>9 DEF AdvanceDesc
<1>10. CASE ResumeDma(t)   BY <1>10 DEF ResumeDma
<1>11. CASE Unlock(t)      BY <1>11 DEF Unlock
<1> QED
  BY <1>1, <1>2, <1>3, <1>4, <1>5, <1>6, <1>7, <1>8, <1>9, <1>10, <1>11
  DEF Step, TransmitFrame

LEMMA HalConfig == TypeOK /\ HalInv /\ Config => HalInv'
<1> SUFFICES ASSUME TypeOK, HalInv, Config PROVE HalInv'
  OBVIOUS
<1> USE DEF TypeOK, HalInv, LockHeld, Stopped, LinkInHal, ConfigPc, Goto, Runs, Thread, ring,
            dma, local, HalEnter, HalLeave, Switch, Flush
<1>1. CASE Stop         BY <1>1 DEF Stop
<1>2. CASE StopDma      BY <1>2 DEF StopDma
<1>3. CASE StopFlush    BY <1>3 DEF StopFlush
<1>4. CASE StopMac      BY <1>4 DEF StopMac
<1>5. CASE StopLeave    BY <1>5 DEF StopLeave
<1>6. CASE LinkDown     BY <1>6 DEF LinkDown
<1>7. CASE ConfigMAC    BY <1>7 DEF ConfigMAC
<1>8. CASE MACLeave     BY <1>8 DEF MACLeave
<1>9. CASE Start        BY <1>9 DEF Start
<1>10. CASE StartMac    BY <1>10 DEF StartMac
<1>11. CASE StartFlush  BY <1>11 DEF StartFlush
<1>12. CASE StartDma    BY <1>12 DEF StartDma
<1>13. CASE StartLeave  BY <1>13 DEF StartLeave
<1> QED
  BY <1>1, <1>2, <1>3, <1>4, <1>5, <1>6, <1>7, <1>8, <1>9, <1>10, <1>11, <1>12, <1>13
  DEF Config

LEMMA HalRest ==
  TypeOK /\ HalInv /\ (Dma \/ MacTransmit \/ RxInterrupt \/ UNCHANGED vars) => HalInv'
<1> SUFFICES ASSUME TypeOK, HalInv, Dma \/ MacTransmit \/ RxInterrupt \/ UNCHANGED vars
             PROVE  HalInv'
  OBVIOUS
<1> USE DEF TypeOK, HalInv, LockHeld, Stopped, LinkInHal, ConfigPc, ring, dma, local
<1>1. CASE Dma             BY <1>1 DEF Dma, DmaFetch, DmaSuspend
<1>2. CASE MacTransmit     BY <1>2 DEF MacTransmit
<1>3. CASE RxInterrupt     BY <1>3 DEF RxInterrupt
<1>4. CASE UNCHANGED vars  BY <1>4 DEF vars
<1> QED BY <1>1, <1>2, <1>3, <1>4

LEMMA HalInductive == Spec => [](TypeOK /\ HalInv)
<1>1. TypeOK /\ HalInv /\ [Next]_vars => HalInv'
  BY HalStep, HalConfig, HalRest DEF Next
<1> QED BY <1>1, HalInit, TypeCorrect, PTL DEF Spec

(* The flush in HAL_ETH_Start discards nothing, whatever the threads, the DMA and  *)
(* the interrupt do meanwhile: HAL_ETH_Stop has stopped the DMA and then emptied   *)
(* the FIFO, and neither is ever skipped because the HAL was busy.                 *)
THEOREM StartFlushesNothing == Spec => StartLosesNothing
<1>1. TypeOK /\ HalInv /\ [Next]_vars
        => [pc["link"] = "startFlush" => UNCHANGED flushed]_vars
  <2> SUFFICES ASSUME TypeOK, HalInv, Next, pc["link"] = "startFlush"
               PROVE  flushed' = flushed
    OBVIOUS
  <2>1. ASSUME NEW t \in Thread, Step(t) PROVE flushed' = flushed
    BY <2>1 DEF Step, TransmitFrame, Output, CheckBuffer, CopyFrame, Return, LockTest, LockSet,
                CheckDesc, GiveDesc, AdvanceDesc, ResumeDma, Unlock, gone
  <2>2. ASSUME Config PROVE flushed' = flushed
    <3>1. fifo = <<>>
      BY DEF HalInv, Stopped, ConfigPc
    <3>2. ASSUME NEW from, NEW to, Flush(from, to) PROVE flushed' = flushed
      BY <3>1, <3>2 DEF Flush
    <3> QED BY <2>2, <3>2, ConfigIs DEF ConfigMoves, ConfigSwitch, ConfigFlush
  <2>3. CASE Dma \/ MacTransmit \/ RxInterrupt
    BY <2>3 DEF Dma, DmaFetch, DmaSuspend, MacTransmit, RxInterrupt, gone
  <2> QED BY <2>1, <2>2, <2>3 DEF Next
<1> QED BY <1>1, HalInductive, PTL DEF Spec, StartLosesNothing

-----------------------------------------------------------------------------
(* Places of the ring, counted from a descriptor; d + k never goes round twice.   *)

Place(d, k) == IF d + k < TxBufNb THEN d + k ELSE d + k - TxBufNb

LEMMA Product ==
  ASSUME NEW n \in Nat \ {0}, NEW k \in Int, k >= 1
  PROVE  n * k >= n
<1>1. n * (k - 1) >= 0 /\ n * k = n * (k - 1) + n
  OBVIOUS
<1> QED BY <1>1

LEMMA SameRemainder ==
  ASSUME NEW a \in Desc, NEW b \in Desc, NEW q \in Int, NEW r \in Int,
         TxBufNb * q + a = TxBufNb * r + b
  PROVE  a = b
<1>1. TxBufNb * (q - r) = b - a /\ TxBufNb * (r - q) = a - b
  BY TxBufNbAssumption DEF Desc
<1>2. q - r < 1 /\ r - q < 1
  BY <1>1, Product, TxBufNbAssumption DEF Desc
<1> QED BY <1>1, <1>2, TxBufNbAssumption DEF Desc

LEMMA RemainderIs ==
  ASSUME NEW i \in Nat, NEW q \in Int, NEW d \in Desc, i = TxBufNb * q + d
  PROVE  i % TxBufNb = d
<1> DEFINE r == i \div TxBufNb
<1>1. i = TxBufNb * r + (i % TxBufNb) /\ r \in Int /\ i % TxBufNb \in Desc
  BY TxBufNbAssumption DEF Desc
<1> QED BY <1>1, SameRemainder

LEMMA PlaceIs == \A d \in Desc, k \in 0..TxBufNb : (d + k) % TxBufNb = Place(d, k)
<1> SUFFICES ASSUME NEW d \in Desc, NEW k \in 0..TxBufNb
             PROVE  (d + k) % TxBufNb = Place(d, k)
  OBVIOUS
<1>1. CASE d + k < TxBufNb
  <2>1. d + k \in Desc /\ d + k \in Nat
    BY <1>1, TxBufNbAssumption DEF Desc
  <2>2. d + k = TxBufNb * 0 + (d + k)
    BY <2>1, TxBufNbAssumption
  <2>3. (d + k) % TxBufNb = d + k
    BY <2>1, <2>2, RemainderIs
  <2> QED BY <1>1, <2>3 DEF Place
<1>2. CASE ~(d + k < TxBufNb)
  <2>1. d + k - TxBufNb \in Desc /\ d + k \in Nat
    BY <1>2, TxBufNbAssumption DEF Desc
  <2>2. d + k = TxBufNb * 1 + (d + k - TxBufNb)
    BY <2>1, TxBufNbAssumption DEF Desc
  <2>3. (d + k) % TxBufNb = d + k - TxBufNb
    BY <2>1, <2>2, RemainderIs
  <2> QED BY <1>2, <2>3 DEF Place
<1> QED BY <1>1, <1>2

\* Places of the descriptors, counted from d.
LEMMA Places ==
  ASSUME NEW d \in Desc
  PROVE  /\ \A k \in 0..TxBufNb : Place(d, k) \in Desc
         /\ \A e \in Desc : \E k \in 0..(TxBufNb - 1) : Place(d, k) = e
         /\ \A k, l \in 0..(TxBufNb - 1) : Place(d, k) = Place(d, l) => k = l
         /\ \A k \in 0..(TxBufNb - 1) : /\ NextDesc(Place(d, k)) = Place(d, k + 1)
                                       /\ Place(NextDesc(d), k) = Place(d, k + 1)
         /\ Place(d, 0) = d /\ Place(d, TxBufNb) = d
<1> USE TxBufNbAssumption DEF Place, Desc, NextDesc
<1>1. \A k \in 0..TxBufNb : Place(d, k) \in Desc
  OBVIOUS
<1>2. \A e \in Desc : \E k \in 0..(TxBufNb - 1) : Place(d, k) = e
  <2> SUFFICES ASSUME NEW e \in Desc PROVE \E k \in 0..(TxBufNb - 1) : Place(d, k) = e
    OBVIOUS
  <2>1. CASE e >= d
    <3>1. e - d \in 0..(TxBufNb - 1) /\ Place(d, e - d) = e
      BY <2>1
    <3> QED BY <3>1
  <2>2. CASE e < d
    <3>1. e - d + TxBufNb \in 0..(TxBufNb - 1) /\ Place(d, e - d + TxBufNb) = e
      BY <2>2
    <3> QED BY <3>1
  <2> QED BY <2>1, <2>2
<1>3. \A k, l \in 0..(TxBufNb - 1) : Place(d, k) = Place(d, l) => k = l
  OBVIOUS
<1>4. \A k \in 0..(TxBufNb - 1) : /\ NextDesc(Place(d, k)) = Place(d, k + 1)
                                 /\ Place(NextDesc(d), k) = Place(d, k + 1)
  OBVIOUS
<1>5. Place(d, 0) = d /\ Place(d, TxBufNb) = d
  OBVIOUS
<1> QED BY <1>1, <1>2, <1>3, <1>4, <1>5

LEMMA PlaceTwice ==
  ASSUME NEW d \in Desc, NEW l \in 0..TxBufNb, NEW k \in 0..(TxBufNb - 1)
  PROVE  Place(Place(d, l), k) = IF l + k < TxBufNb THEN Place(d, l + k)
                                 ELSE Place(d, l + k - TxBufNb)
  BY TxBufNbAssumption DEF Place, Desc

-----------------------------------------------------------------------------
(* Until two sends overlap, the thread that sends has the descriptor to itself    *)
(* from the look at its OWN bit until the DMA gets it.                            *)

One == ~(Between("tcpip") /\ Between("link"))

(* DmaTxDesc of low_level_output is the descriptor HAL_ETH_TransmitFrame uses. *)
SameDesc == \A t \in Thread : Sending(t) => dsc[t] = txDesc

Reserved == \A t \in Thread : Sending(t) /\ pc[t] # "check" => own[txDesc] = "CPU"

Filled == \A t \in Thread : pc[t] \in {"lock", "set", "own", "give"} => buf[txDesc] = cur[t]

(* The DMA owns only descriptors whose buffer holds the frame of the length set. *)
Sealed == \A d \in Desc : own[d] = "DMA" => buf[d] = len[d]

Exclusive == One /\ SameDesc /\ Reserved /\ Filled /\ Sealed

(* The FIFO holds the frames of the first descriptors that the DMA owns. *)
Fetched ==
  /\ Len(fifo) <= FifoDepth
  /\ \A i \in 1..Len(fifo) :
       LET d == Place(dmaPos, i - 1) IN own[d] = "DMA" /\ fifo[i] = <<len[d], len[d]>>

TxInv == Exclusive /\ Fetched /\ FramesIntact

LEMMA TxInit == Init => TxInv
  BY FifoDepthAssumption
  DEF Init, TxInv, Exclusive, One, Between, Sending, SameDesc, Reserved, Filled, Sealed, Fetched,
      FramesIntact, Thread

\* tcpip_thread starts to send between no two steps of LinkThr's send.
LEMMA NoOverlap ==
  \A t \in Thread : TypeOK /\ Output(t) /\ ~overlap'
    => ~Between("tcpip") /\ ~Between("link")
  BY DEF TypeOK, Output, Goto, Runs, Between, Thread

LEMMA ExclusiveStep ==
  \A t \in Thread : TypeOK /\ Exclusive /\ Step(t) /\ ~overlap' => Exclusive'
<1> SUFFICES ASSUME NEW t \in Thread, TypeOK, Exclusive, Step(t), ~overlap' PROVE Exclusive'
  OBVIOUS
<1> USE DEF TypeOK, Exclusive, One, Between, Sending, SameDesc, Reserved, Filled, Sealed, Goto,
            Thread, ring, local
<1>1. CASE Output(t)       BY ZenonT(40), <1>1, NoOverlap DEF Output
<1>2. CASE CheckBuffer(t)  BY <1>2 DEF CheckBuffer
<1>3. CASE CopyFrame(t)    BY <1>3 DEF CopyFrame
<1>4. CASE Return(t)       BY <1>4 DEF Return
<1>5. CASE LockTest(t)     BY <1>5 DEF LockTest
<1>6. CASE LockSet(t)      BY <1>6 DEF LockSet
<1>7. CASE CheckDesc(t)    BY <1>7 DEF CheckDesc
<1>8. CASE GiveDesc(t)     BY <1>8 DEF GiveDesc
<1>9. CASE AdvanceDesc(t)  BY <1>9 DEF AdvanceDesc
<1>10. CASE ResumeDma(t)   BY <1>10 DEF ResumeDma
<1>11. CASE Unlock(t)      BY <1>11 DEF Unlock
<1> QED
  BY <1>1, <1>2, <1>3, <1>4, <1>5, <1>6, <1>7, <1>8, <1>9, <1>10, <1>11
  DEF Step, TransmitFrame

\* A step of a thread takes no descriptor from the DMA and changes none that it owns.
LEMMA OwnedStay ==
  \A t \in Thread : TypeOK /\ Exclusive /\ Step(t)
    => /\ \A d \in Desc : own[d] = "DMA" => own'[d] = "DMA" /\ len'[d] = len[d]
       /\ UNCHANGED <<fifo, dmaPos, wire, flushed>>
<1> SUFFICES ASSUME NEW t \in Thread, TypeOK, Exclusive, Step(t)
             PROVE  /\ \A d \in Desc : own[d] = "DMA" => own'[d] = "DMA" /\ len'[d] = len[d]
                    /\ UNCHANGED <<fifo, dmaPos, wire, flushed>>
  OBVIOUS
<1>1. CASE GiveDesc(t)
  <2>1. own[txDesc] = "CPU"
    BY <1>1 DEF GiveDesc, Goto, Exclusive, Reserved, Sending
  <2> QED BY <1>1, <2>1 DEF GiveDesc, TypeOK, dma, gone
<1>2. CASE ~GiveDesc(t)
  BY <1>2 DEF Step, TransmitFrame, Output, CheckBuffer, CopyFrame, Return, LockTest, LockSet,
              CheckDesc, AdvanceDesc, ResumeDma, Unlock, ring, dma, gone
<1> QED BY <1>1, <1>2

\* Steps that only close descriptors and start no send.
LEMMA ExclusiveKeeps ==
  ASSUME TypeOK, Exclusive, UNCHANGED <<buf, len, txDesc, local>>,
         \A d \in Desc : own'[d] = "DMA" => own[d] = "DMA", own' \in [Desc -> {"CPU", "DMA"}],
         pc' = pc \/ ConfigMoves
  PROVE  Exclusive'
<1>1. \A t \in Thread : pc'[t] = pc[t] \/ pc'[t] \in ConfigPc \cup {"out"}
  BY DEF ConfigMoves
<1>2. \A d \in Desc : own[d] = "CPU" => own'[d] = "CPU"
  BY DEF TypeOK
<1>3. txDesc \in Desc /\ "tcpip" \in Thread /\ "link" \in Thread
  BY DEF TypeOK, Thread
<1> QED
  BY <1>1, <1>2, <1>3 DEF Exclusive, One, Between, Sending, SameDesc, Reserved, Filled, Sealed,
                          ConfigPc, local

LEMMA FifoIn == TypeOK /\ Fetched => Len(fifo) \in 0..TxBufNb /\ Len(fifo) \in Nat
  BY FifoDepthAssumption, TxBufNbAssumption, LenProperties DEF TypeOK, Fetched

\* The descriptor of the i-th frame in the FIFO.
LEMMA FifoPlace ==
  ASSUME TypeOK, Fetched, NEW i \in 1..Len(fifo)
  PROVE  /\ i - 1 \in 0..(TxBufNb - 1) /\ Place(dmaPos, i - 1) \in Desc
         /\ Nth(i - 1) = Place(dmaPos, i - 1)
<1>1. Len(fifo) \in 0..TxBufNb /\ dmaPos \in Desc
  BY FifoIn DEF TypeOK
<1>2. i - 1 \in 0..(TxBufNb - 1) /\ i - 1 \in 0..TxBufNb
  BY <1>1, TxBufNbAssumption
<1> QED BY <1>1, <1>2, Places, PlaceIs DEF Nth

LEMMA FetchedStep == \A t \in Thread : TypeOK /\ Exclusive /\ Fetched /\ Step(t) => Fetched'
<1> SUFFICES ASSUME NEW t \in Thread, TypeOK, Exclusive, Fetched, Step(t) PROVE Fetched'
  OBVIOUS
<1>1. /\ \A d \in Desc : own[d] = "DMA" => own'[d] = "DMA" /\ len'[d] = len[d]
      /\ UNCHANGED <<fifo, dmaPos>>
  BY OwnedStay
<1> QED BY <1>1, FifoPlace DEF Fetched, Place

LEMMA TxStep ==
  \A t \in Thread : TypeOK /\ TxInv /\ Step(t) /\ ~overlap' => TxInv'
  BY ExclusiveStep, FetchedStep, OwnedStay DEF TxInv, FramesIntact

\* What a flush does to the ring.
LEMMA FlushIs ==
  ASSUME TypeOK, Fetched, ConfigFlush
  PROVE  /\ fifo' = <<>> /\ dmaPos' = Place(dmaPos, Len(fifo))
         /\ own' \in [Desc -> {"CPU", "DMA"}]
         /\ \A d \in Desc : own'[d] = "DMA" => own[d] = "DMA"
         /\ \A k \in 0..(TxBufNb - 1) :
              own'[Place(dmaPos, k)] = IF k < Len(fifo) THEN "CPU" ELSE own[Place(dmaPos, k)]
         /\ flushed' = flushed \cup {fifo[i][2] : i \in 1..Len(fifo)}
         /\ UNCHANGED <<len, txDesc, tps, tbus, wire>>
<1>1. /\ dmaPos \in Desc /\ Len(fifo) \in 0..TxBufNb /\ DOMAIN fifo = 1..Len(fifo)
      /\ Len(fifo) \in Nat /\ own \in [Desc -> {"CPU", "DMA"}]
  BY FifoIn, LenProperties DEF TypeOK
<1>2. own' = [d \in Desc |-> IF \E i \in 1..Len(fifo) : d = Nth(i - 1) THEN "CPU" ELSE own[d]]
  BY <1>1 DEF ConfigFlush, Flush
<1>3. /\ fifo' = <<>> /\ dmaPos' = Place(dmaPos, Len(fifo))
      /\ flushed' = flushed \cup {fifo[i][2] : i \in 1..Len(fifo)}
      /\ UNCHANGED <<len, txDesc, tps, tbus, wire>>
  BY <1>1, PlaceIs DEF ConfigFlush, Flush, Nth
<1>4. \A k \in 0..(TxBufNb - 1) :
        own'[Place(dmaPos, k)] = IF k < Len(fifo) THEN "CPU" ELSE own[Place(dmaPos, k)]
  <2> SUFFICES ASSUME NEW k \in 0..(TxBufNb - 1)
               PROVE  own'[Place(dmaPos, k)]
                        = IF k < Len(fifo) THEN "CPU" ELSE own[Place(dmaPos, k)]
    OBVIOUS
  <2>1. Place(dmaPos, k) \in Desc
    <3>1. k \in 0..TxBufNb
      BY TxBufNbAssumption
    <3> QED BY <1>1, <3>1, Places
  <2>2. (\E i \in 1..Len(fifo) : Place(dmaPos, k) = Nth(i - 1)) <=> k < Len(fifo)
    <3>1. ASSUME k < Len(fifo) PROVE \E i \in 1..Len(fifo) : Place(dmaPos, k) = Nth(i - 1)
      <4>1. k + 1 \in 1..Len(fifo) /\ k + 1 - 1 = k
        BY <1>1, <3>1
      <4> QED BY <4>1, FifoPlace
    <3>2. ASSUME NEW i \in 1..Len(fifo), Place(dmaPos, k) = Nth(i - 1) PROVE k < Len(fifo)
      <4>1. i - 1 \in 0..(TxBufNb - 1) /\ Place(dmaPos, k) = Place(dmaPos, i - 1)
        BY <3>2, FifoPlace
      <4>2. k = i - 1
        BY <1>1, <4>1, Places
      <4> QED BY <1>1, <4>2
    <3> QED BY <3>1, <3>2
  <2> QED BY <1>2, <2>1, <2>2
<1> QED BY <1>1, <1>2, <1>3, <1>4

LEMMA TxConfig == TypeOK /\ TxInv /\ Config => TxInv'
<1> SUFFICES ASSUME TypeOK, TxInv, Config PROVE TxInv'
  OBVIOUS
<1>1. ConfigMoves /\ UNCHANGED <<buf, len, txDesc, local, wire>>
  BY ConfigIs DEF ConfigMoves
<1>2. CASE ConfigSwitch
  <2>1. UNCHANGED <<own, fifo, dmaPos>>
    BY <1>2 DEF ConfigSwitch
  <2>2. Exclusive'
    BY <1>1, <2>1, ExclusiveKeeps DEF TxInv, TypeOK
  <2> QED BY <1>1, <2>1, <2>2 DEF TxInv, Fetched, Place, FramesIntact
<1>3. CASE ConfigFlush
  <2>1. Exclusive'
    BY <1>1, <1>3, FlushIs, ExclusiveKeeps DEF TxInv
  <2>2. Fetched'
    <3>1. fifo' = <<>>
      BY <1>3, FlushIs DEF TxInv
    <3> QED BY <3>1, FifoDepthAssumption, TxBufNbAssumption DEF Fetched
  <2> QED BY <1>1, <2>1, <2>2 DEF TxInv, FramesIntact
<1> QED BY <1>1, <1>2, <1>3 DEF ConfigMoves

\* The first frame of the FIFO goes out; the places move on by one.
LEMMA FetchedTransmit ==
  ASSUME TypeOK, Fetched, MacTransmit
  PROVE  /\ Fetched' /\ Len(fifo) > 0 /\ Len(fifo') = Len(fifo) - 1
         /\ own[dmaPos] = "DMA" /\ Head(fifo) = <<len[dmaPos], len[dmaPos]>>
<1> DEFINE Pair == (0..MaxFrames) \X (0..MaxFrames)
<1>1. /\ fifo \in Seq(Pair) /\ fifo # <<>> /\ fifo' = Tail(fifo) /\ dmaPos \in Desc
      /\ own' = [own EXCEPT ![dmaPos] = "CPU"] /\ dmaPos' = NextDesc(dmaPos) /\ len' = len
      /\ own \in [Desc -> {"CPU", "DMA"}]
  BY DEF TypeOK, MacTransmit
<1>2. /\ Len(fifo) \in Nat /\ Len(fifo) > 0 /\ Len(fifo') = Len(fifo) - 1
      /\ Head(fifo) = fifo[1]
      /\ \A i \in 1..Len(fifo') : fifo'[i] = fifo[i + 1]
  BY <1>1, HeadTailProperties, LenProperties, EmptySeq
<1>3. Place(dmaPos, 0) = dmaPos /\ 1 \in 1..Len(fifo) /\ 1 - 1 = 0
  BY <1>1, <1>2, Places
<1>4. own[dmaPos] = "DMA" /\ Head(fifo) = <<len[dmaPos], len[dmaPos]>>
  BY <1>2, <1>3 DEF Fetched
<1>5. ASSUME NEW i \in 1..Len(fifo')
      PROVE  /\ own'[Place(dmaPos', i - 1)] = "DMA"
             /\ fifo'[i] = <<len'[Place(dmaPos', i - 1)], len'[Place(dmaPos', i - 1)]>>
  <2>1. i + 1 \in 1..Len(fifo) /\ i + 1 - 1 = i /\ i - 1 \in Nat
    BY <1>2
  <2>2. i \in 0..(TxBufNb - 1) /\ Place(dmaPos, i) \in Desc
    BY <2>1, FifoPlace
  <2>3. i - 1 \in 0..(TxBufNb - 1) /\ i - 1 + 1 = i /\ 0 \in 0..(TxBufNb - 1) /\ i # 0
    BY <2>2, TxBufNbAssumption
  <2>4. Place(dmaPos', i - 1) = Place(dmaPos, i)
    BY <1>1, <2>3, Places
  <2>5. Place(dmaPos, i) # dmaPos
    <3>1. Place(dmaPos, i) # Place(dmaPos, 0)
      BY <1>1, <2>2, <2>3, Places
    <3> QED BY <1>3, <3>1
  <2>6. own[Place(dmaPos, i)] = "DMA" /\ fifo[i + 1] = <<len[Place(dmaPos, i)], len[Place(dmaPos, i)]>>
    BY <2>1 DEF Fetched
  <2> QED BY <1>1, <1>2, <2>2, <2>4, <2>5, <2>6
<1>6. Len(fifo') <= FifoDepth
  BY <1>2, FifoDepthAssumption, TxBufNbAssumption DEF Fetched
<1>7. Fetched'
  BY <1>5, <1>6 DEF Fetched
<1> QED BY <1>2, <1>4, <1>7

LEMMA FetchedFetch ==
  ASSUME TypeOK, Exclusive, Fetched, DmaFetch
  PROVE  /\ Fetched' /\ Len(fifo') = Len(fifo) + 1 /\ Len(fifo) < FifoDepth
         /\ Len(fifo) \in 0..(TxBufNb - 1) /\ own[Place(dmaPos, Len(fifo))] = "DMA"
<1> DEFINE Pair == (0..MaxFrames) \X (0..MaxFrames)
           d == Place(dmaPos, Len(fifo))
<1>1. /\ Len(fifo) \in Nat /\ Len(fifo) < FifoDepth /\ Len(fifo) \in 0..(TxBufNb - 1)
      /\ Len(fifo) \in 0..TxBufNb /\ dmaPos \in Desc
  BY SMTT(40), FifoIn, FifoDepthAssumption, TxBufNbAssumption DEF DmaFetch, TypeOK
<1>2. d \in Desc /\ Ahead = d
  BY <1>1, Places, PlaceIs DEF Ahead, Nth
<1>3. own[d] = "DMA" /\ fifo' = Append(fifo, <<len[d], len[d]>>)
  BY <1>2 DEF DmaFetch, Exclusive, Sealed
<1>4. UNCHANGED <<own, len, dmaPos>> /\ fifo \in Seq(Pair) /\ <<len[d], len[d]>> \in Pair
  BY <1>2 DEF DmaFetch, ring, TypeOK
<1> HIDE DEF d
<1>5. /\ Len(fifo') = Len(fifo) + 1 /\ fifo'[Len(fifo) + 1] = <<len[d], len[d]>>
      /\ \A i \in 1..Len(fifo) : fifo'[i] = fifo[i]
  BY <1>3, <1>4, AppendProperties
<1>6. ASSUME NEW i \in 1..Len(fifo')
      PROVE  /\ own[Place(dmaPos, i - 1)] = "DMA"
             /\ fifo'[i] = <<len[Place(dmaPos, i - 1)], len[Place(dmaPos, i - 1)]>>
  <2>1. CASE i = Len(fifo) + 1
    <3>1. Place(dmaPos, i - 1) = d
      BY <1>1, <2>1 DEF d
    <3> QED BY <1>3, <1>5, <2>1, <3>1
  <2>2. CASE i # Len(fifo) + 1
    <3>1. i \in 1..Len(fifo)
      BY <1>1, <1>5, <2>2
    <3> QED BY <1>5, <3>1 DEF Fetched
  <2> QED BY <2>1, <2>2
<1>7. Len(fifo') <= FifoDepth
  BY <1>1, <1>5, FifoDepthAssumption, TxBufNbAssumption
<1>8. Fetched'
  BY <1>4, <1>6, <1>7 DEF Fetched, Place
<1> QED BY <1>1, <1>3, <1>5, <1>8 DEF d

LEMMA TxHardware == TypeOK /\ TxInv /\ (Dma \/ MacTransmit \/ RxInterrupt) => TxInv'
<1> SUFFICES ASSUME TypeOK, TxInv, Dma \/ MacTransmit \/ RxInterrupt PROVE TxInv'
  OBVIOUS
<1>1. CASE DmaFetch
  <2>1. Exclusive' /\ FramesIntact'
    BY <1>1 DEF TxInv, Exclusive, One, Between, Sending, SameDesc, Reserved, Filled, Sealed,
                FramesIntact, DmaFetch, ring, local, gone
  <2> QED BY <1>1, <2>1, FetchedFetch DEF TxInv
<1>2. CASE MacTransmit
  <2>1. Exclusive'
    <3>1. /\ UNCHANGED <<buf, len, txDesc, local>> /\ pc' = pc
          /\ \A d \in Desc : own'[d] = "DMA" => own[d] = "DMA"
          /\ own' \in [Desc -> {"CPU", "DMA"}]
      BY <1>2 DEF MacTransmit, TypeOK, local
    <3> QED BY <3>1, ExclusiveKeeps DEF TxInv
  <2>2. Fetched' /\ Head(fifo) = <<len[dmaPos], len[dmaPos]>>
    BY <1>2, FetchedTransmit DEF TxInv
  <2>3. FramesIntact'
    <3>1. len[dmaPos] \in 0..MaxFrames /\ wire' = Append(wire, <<len[dmaPos], len[dmaPos]>>)
      BY <1>2, <2>2 DEF MacTransmit, TypeOK
    <3> DEFINE x == <<len[dmaPos], len[dmaPos]>>
    <3>2. /\ wire \in Seq((0..MaxFrames) \X (0..MaxFrames)) /\ wire' = Append(wire, x)
          /\ x \in (0..MaxFrames) \X (0..MaxFrames) /\ x[1] = x[2]
      BY <3>1 DEF TypeOK
    <3>3. \A i \in DOMAIN wire : wire[i][1] = wire[i][2]
      BY DEF TxInv, FramesIntact
    <3> HIDE DEF x
    <3>4. \A i \in DOMAIN wire' : wire'[i] = x \/ (i \in DOMAIN wire /\ wire'[i] = wire[i])
      BY <3>2, AppendProperties, LenProperties
    <3> QED BY <3>2, <3>3, <3>4 DEF FramesIntact
  <2> QED BY <2>1, <2>2, <2>3 DEF TxInv
<1>3. CASE DmaSuspend \/ RxInterrupt
  BY <1>3 DEF TxInv, Exclusive, One, Between, Sending, SameDesc, Reserved, Filled, Sealed,
              Fetched, Place, FramesIntact, DmaSuspend, RxInterrupt, ring, dma, local, gone
<1> QED BY <1>1, <1>2, <1>3 DEF Dma

LEMMA TxStutter == TxInv /\ UNCHANGED vars => TxInv'
  BY DEF TxInv, Exclusive, One, Between, Sending, SameDesc, Reserved, Filled, Sealed, Fetched,
         Place, FramesIntact, vars, ring, dma, local, gone

\* An overlap is never forgotten.
LEMMA OverlapStays == TypeOK /\ [Next]_vars /\ overlap => overlap'
<1> SUFFICES ASSUME TypeOK, [Next]_vars, overlap PROVE overlap'
  OBVIOUS
<1>1. ASSUME NEW t \in Thread, Step(t) PROVE overlap'
  BY <1>1 DEF Step, TransmitFrame, Output, CheckBuffer, CopyFrame, Return, LockTest, LockSet,
              CheckDesc, GiveDesc, AdvanceDesc, ResumeDma, Unlock
<1>2. CASE Config
  BY <1>2, ConfigIs DEF ConfigMoves
<1>3. CASE Dma \/ MacTransmit \/ RxInterrupt \/ UNCHANGED vars
  BY <1>3 DEF Dma, DmaFetch, DmaSuspend, MacTransmit, RxInterrupt, vars
<1> QED BY <1>1, <1>2, <1>3 DEF Next

TxUntil == ~overlap => TxInv

LEMMA TxNext == TypeOK /\ TxUntil /\ [Next]_vars => TxUntil'
  BY OverlapStays, TxStep, TxConfig, TxHardware, TxStutter DEF Next, TxUntil

LEMMA TxHolds == Spec => [](TypeOK /\ HalInv /\ TxUntil)
<1>1. Init => TxUntil
  BY TxInit DEF TxUntil
<1> QED BY <1>1, TxNext, HalInductive, PTL DEF Spec

(* No byte of a buffer changes between the call that gave it to the DMA and its way *)
(* onto the wire, although LinkThr sends, stops and restarts the MAC without the    *)
(* core lock and the interrupt releases the HAL lock: the OWN bit alone protects    *)
(* it until tcpip_thread sends in the middle of a send of LinkThr.                  *)
THEOREM WholeFrames == Spec => []IntactUntilOverlap
<1>1. TxUntil => IntactUntilOverlap
  BY DEF TxUntil, TxInv, IntactUntilOverlap
<1> QED BY <1>1, TxHolds, PTL

-----------------------------------------------------------------------------
(* Which frames are dropped.                                                       *)

LEMMA OthersKeepPc ==
  ASSUME TypeOK, Config \/ Dma \/ MacTransmit \/ RxInterrupt, NEW t \in Thread,
         pc[t] \in {"check", "lock", "own"}
  PROVE  pc'[t] = pc[t]
<1>1. CASE Config
  BY <1>1, ConfigIs DEF ConfigMoves, ConfigPc, Thread
<1>2. CASE Dma \/ MacTransmit \/ RxInterrupt
  BY <1>2 DEF Dma, DmaFetch, DmaSuspend, MacTransmit, RxInterrupt
<1> QED BY <1>1, <1>2

\* The step that moves a thread is its own.
LEMMA OwnStep ==
  ASSUME TypeOK, Next, NEW t \in Thread, pc[t] \in {"check", "lock", "own"}, pc'[t] # pc[t]
  PROVE  Step(t)
<1>1. PICK u \in Thread : Step(u)
  BY OthersKeepPc DEF Next
<1>2. ASSUME u # t PROVE pc'[t] = pc[t]
  BY <1>1, <1>2 DEF TypeOK, Step, TransmitFrame, Goto, Output, CheckBuffer, CopyFrame, Return,
                    LockTest, LockSet, CheckDesc, GiveDesc, AdvanceDesc, ResumeDma, Unlock
<1> QED BY <1>1, <1>2

LEMMA DropStep ==
  ASSUME TypeOK, HalInv, TxUntil, NEW t \in Thread, Step(t)
  PROVE  /\ pc[t] = "lock" /\ pc'[t] = "ok" => t = "tcpip" /\ LinkInHal
         /\ pc[t] = "own" /\ pc'[t] = "ok" => overlap
<1> USE DEF TypeOK, Goto, Thread
<1>1. CASE LockTest(t)
  <2>1. ASSUME pc'[t] = "ok" PROVE hlock = "locked"
    BY <1>1, <2>1 DEF LockTest
  <2> QED BY <1>1, <2>1 DEF LockTest, Runs, HalInv, LockHeld, LinkInHal
<1>2. CASE CheckDesc(t)
  BY <1>2 DEF CheckDesc, TxUntil, TxInv, Exclusive, Reserved, Sending
<1>3. CASE ~LockTest(t) /\ ~CheckDesc(t)
  BY <1>3 DEF Step, TransmitFrame, Output, CheckBuffer, CopyFrame, Return, LockSet,
              GiveDesc, AdvanceDesc, ResumeDma, Unlock
<1> QED BY <1>1, <1>2, <1>3

(* A frame is dropped with ERR_OK only because tcpip_thread preempted LinkThr inside *)
(* the HAL, in its own send or in HAL_ETH_Stop, HAL_ETH_ConfigMAC or HAL_ETH_Start,  *)
(* or because two sends have overlapped before; LinkThr never drops one of its own   *)
(* on the lock.                                                                      *)
THEOREM DroppedOnlyBusy == Spec => DropsOnlyBusy
<1>1. TypeOK /\ HalInv /\ TxUntil /\ [Next]_vars
        => [\A t \in Thread :
              /\ pc[t] = "lock" /\ pc'[t] = "ok" => t = "tcpip" /\ LinkInHal
              /\ pc[t] = "own" /\ pc'[t] = "ok" => overlap]_vars
  BY OwnStep, DropStep
<1> QED BY <1>1, TxHolds, PTL DEF Spec, DropsOnlyBusy

-----------------------------------------------------------------------------
(* The ring as a queue.  The DMA owns the n descriptors from the first that it has *)
(* not closed on, and the driver's descriptor is the next one.                     *)

Moving == \E t \in Thread : pc[t] = "next"

RingHas(n) ==
  /\ \A k \in 0..(TxBufNb - 1) : own[Place(dmaPos, k)] = IF k < n THEN "DMA" ELSE "CPU"
  /\ Place(dmaPos, n) = IF Moving THEN NextDesc(txDesc) ELSE txDesc

\* A poll demand is due while the DMA is suspended over something to fetch.
PollDue(n) ==
  tps = "suspended"
    => tbus = 1 /\ (n = Len(fifo) \/ \E t \in Thread : pc[t] \in {"next", "resume"})

RingInv == \E n \in 0..TxBufNb : RingHas(n) /\ PollDue(n)

\* What the FIFO holds the DMA still owns.
LEMMA FifoOwned ==
  ASSUME TypeOK, Fetched, NEW n \in 0..TxBufNb, RingHas(n)
  PROVE  Len(fifo) <= n
<1> SUFFICES ASSUME Len(fifo) > n PROVE FALSE
  BY FifoIn
<1>1. Len(fifo) \in 0..TxBufNb
  BY FifoIn
<1>2. n + 1 \in 1..Len(fifo) /\ n + 1 - 1 = n /\ n \in 0..(TxBufNb - 1)
  BY <1>1, TxBufNbAssumption
<1>3. own[Place(dmaPos, n)] = "DMA"
  BY <1>2 DEF Fetched
<1> QED BY <1>2, <1>3 DEF RingHas

LEMMA RingGive ==
  ASSUME TypeOK, Exclusive, Fetched, NEW n \in 0..TxBufNb, RingHas(n), PollDue(n),
         NEW t \in Thread, GiveDesc(t)
  PROVE  n < TxBufNb /\ RingHas(n + 1)' /\ PollDue(n + 1)' /\ txDesc = Place(dmaPos, n)
<1>1. /\ pc[t] = "give" /\ pc'[t] = "next"
      /\ own' = [own EXCEPT ![txDesc] = "DMA"] /\ UNCHANGED <<txDesc, fifo, dmaPos, tps, tbus>>
  BY DEF GiveDesc, Goto, TypeOK, dma
<1>2. ~Moving /\ Moving'
  BY <1>1 DEF Moving, Exclusive, One, Between, Thread
<1>3. own[txDesc] = "CPU" /\ txDesc = Place(dmaPos, n) /\ txDesc \in Desc /\ dmaPos \in Desc
  BY <1>1, <1>2 DEF Exclusive, Reserved, Sending, RingHas, TypeOK
<1>4. n < TxBufNb
  <2> SUFFICES ASSUME n = TxBufNb PROVE FALSE
    BY TxBufNbAssumption
  <2>1. 0 \in 0..(TxBufNb - 1) /\ 0 < n
    BY TxBufNbAssumption
  <2>2. Place(dmaPos, n) = dmaPos /\ Place(dmaPos, 0) = dmaPos
    BY <1>3, Places
  <2> QED BY <1>3, <2>1, <2>2 DEF RingHas
<1>5. n \in 0..(TxBufNb - 1)
  BY <1>4, TxBufNbAssumption
<1>6. \A k \in 0..(TxBufNb - 1) : own'[Place(dmaPos, k)] = IF k < n + 1 THEN "DMA" ELSE "CPU"
  <2> SUFFICES ASSUME NEW k \in 0..(TxBufNb - 1)
               PROVE  own'[Place(dmaPos, k)] = IF k < n + 1 THEN "DMA" ELSE "CPU"
    OBVIOUS
  <2>1. CASE k = n
    BY <1>1, <1>3, <2>1 DEF TypeOK
  <2>2. CASE k # n
    <3>1. Place(dmaPos, k) # txDesc /\ Place(dmaPos, k) \in Desc
      <4>1. k \in 0..TxBufNb
        BY TxBufNbAssumption
      <4>2. Place(dmaPos, k) \in Desc
        BY <1>3, <4>1, Places
      <4>3. Place(dmaPos, k) # Place(dmaPos, n)
        BY <1>3, <1>5, <2>2, Places
      <4> QED BY <1>3, <4>2, <4>3
    <3>2. own'[Place(dmaPos, k)] = own[Place(dmaPos, k)]
      BY <1>1, <3>1 DEF TypeOK
    <3>3. k < n <=> k < n + 1
      BY <2>2
    <3> QED BY <3>2, <3>3 DEF RingHas
  <2> QED BY <2>1, <2>2
<1>7. NextDesc(txDesc) = Place(dmaPos, n + 1)
  BY <1>3, <1>5, Places
<1>8. RingHas(n + 1)'
  BY <1>1, <1>2, <1>6, <1>7 DEF RingHas, Place, NextDesc
<1>9. PollDue(n + 1)'
  BY <1>1 DEF PollDue
<1> QED BY <1>3, <1>4, <1>8, <1>9

LEMMA RingTransmit ==
  ASSUME TypeOK, Fetched, NEW n \in 0..TxBufNb, RingHas(n), PollDue(n), MacTransmit
  PROVE  n > 0 /\ RingHas(n - 1)' /\ PollDue(n - 1)'
<1>1. /\ own[dmaPos] = "DMA" /\ own' = [own EXCEPT ![dmaPos] = "CPU"]
      /\ dmaPos \in Desc /\ dmaPos' = NextDesc(dmaPos)
      /\ UNCHANGED <<txDesc, pc, tps, tbus>>
      /\ Len(fifo') = Len(fifo) - 1 /\ Len(fifo) \in Nat
  BY FetchedTransmit, FifoIn DEF MacTransmit, TypeOK
<1>2. 0 \in 0..(TxBufNb - 1) /\ Place(dmaPos, 0) = dmaPos
  BY <1>1, TxBufNbAssumption, Places
<1>3. n > 0
  BY <1>1, <1>2 DEF RingHas
<1>4. \A k \in 0..(TxBufNb - 1) : own'[Place(dmaPos', k)] = IF k < n - 1 THEN "DMA" ELSE "CPU"
  <2> SUFFICES ASSUME NEW k \in 0..(TxBufNb - 1)
               PROVE  own'[Place(dmaPos', k)] = IF k < n - 1 THEN "DMA" ELSE "CPU"
    OBVIOUS
  <2>1. Place(dmaPos', k) = Place(dmaPos, k + 1)
    BY <1>1, Places
  <2>2. CASE k = TxBufNb - 1
    <3>1. Place(dmaPos', k) = dmaPos
      BY <1>1, <2>1, <2>2, Places, TxBufNbAssumption
    <3>2. ~(k < n - 1)
      BY <2>2, TxBufNbAssumption
    <3> QED BY <1>1, <3>1, <3>2 DEF TypeOK
  <2>3. CASE k # TxBufNb - 1
    <3>1. k + 1 \in 0..(TxBufNb - 1) /\ k + 1 # 0
      BY <2>3, TxBufNbAssumption
    <3>2. Place(dmaPos, k + 1) # dmaPos /\ Place(dmaPos, k + 1) \in Desc
      <4>1. k + 1 \in 0..TxBufNb
        BY <3>1, TxBufNbAssumption
      <4>2. Place(dmaPos, k + 1) \in Desc
        BY <1>1, <4>1, Places
      <4>3. Place(dmaPos, k + 1) # Place(dmaPos, 0)
        BY <1>1, <1>2, <3>1, Places
      <4> QED BY <1>2, <4>2, <4>3
    <3>3. own'[Place(dmaPos', k)] = own[Place(dmaPos, k + 1)]
      BY <1>1, <2>1, <3>2 DEF TypeOK
    <3>4. k + 1 < n <=> k < n - 1
      BY <3>1
    <3> QED BY <3>1, <3>3, <3>4 DEF RingHas
  <2> QED BY <2>2, <2>3
<1>5. Place(dmaPos', n - 1) = Place(dmaPos, n)
  <2>1. n - 1 \in 0..(TxBufNb - 1) /\ n - 1 + 1 = n
    BY <1>3, TxBufNbAssumption
  <2> QED BY <1>1, <2>1, Places
<1>6. RingHas(n - 1)'
  BY <1>1, <1>4, <1>5 DEF RingHas, Place, NextDesc, Moving
<1>7. PollDue(n - 1)'
  BY <1>1 DEF PollDue
<1> QED BY <1>3, <1>6, <1>7

LEMMA RingFlush ==
  ASSUME TypeOK, Fetched, NEW n \in 0..TxBufNb, RingHas(n), PollDue(n),
         ConfigMoves, ConfigFlush
  PROVE  \E m \in 0..TxBufNb : m = n - Len(fifo) /\ RingHas(m)' /\ PollDue(m)'
<1>1. PICK l \in 0..TxBufNb : l = Len(fifo) /\ l <= n /\ dmaPos \in Desc
  BY FifoIn, FifoOwned DEF TypeOK
<1>2. PICK m \in 0..TxBufNb : m = n - l
  BY <1>1, TxBufNbAssumption
<1>3. /\ fifo' = <<>> /\ dmaPos' = Place(dmaPos, l) /\ UNCHANGED <<txDesc, tps, tbus>>
      /\ \A k \in 0..(TxBufNb - 1) :
           own'[Place(dmaPos, k)] = IF k < l THEN "CPU" ELSE own[Place(dmaPos, k)]
  BY <1>1, FlushIs
<1>4. ASSUME NEW k \in 0..(TxBufNb - 1)
      PROVE  own'[Place(dmaPos', k)] = IF k < m THEN "DMA" ELSE "CPU"
  <2>1. CASE l + k < TxBufNb
    <3>1. l + k \in 0..(TxBufNb - 1) /\ ~(l + k < l) /\ (l + k < n <=> k < m)
      BY <1>1, <1>2, <2>1, TxBufNbAssumption
    <3>2. Place(dmaPos', k) = Place(dmaPos, l + k)
      BY <1>1, <1>3, <2>1, PlaceTwice
    <3> QED BY <1>3, <3>1, <3>2 DEF RingHas
  <2>2. CASE ~(l + k < TxBufNb)
    <3>1. l + k - TxBufNb \in 0..(TxBufNb - 1) /\ l + k - TxBufNb < l /\ ~(k < m)
      BY <1>1, <1>2, <2>2, TxBufNbAssumption
    <3>2. Place(dmaPos', k) = Place(dmaPos, l + k - TxBufNb)
      BY <1>1, <1>3, <2>2, PlaceTwice
    <3> QED BY <1>3, <3>1, <3>2
  <2> QED BY <2>1, <2>2
<1>5. Place(dmaPos', m) = Place(dmaPos, n)
  <2>1. CASE m = TxBufNb
    <3>1. l = 0 /\ n = TxBufNb
      BY <1>1, <1>2, <2>1, TxBufNbAssumption
    <3>2. dmaPos' = dmaPos
      BY <1>1, <1>3, <3>1, Places
    <3> QED BY <2>1, <3>1, <3>2
  <2>2. CASE m # TxBufNb
    <3>1. m \in 0..(TxBufNb - 1) /\ l + m = n /\ l + m - TxBufNb = n - TxBufNb
      BY <1>1, <1>2, <2>2, TxBufNbAssumption
    <3>2. Place(Place(dmaPos, l), m) = IF l + m < TxBufNb THEN Place(dmaPos, l + m)
                                       ELSE Place(dmaPos, l + m - TxBufNb)
      BY <1>1, <3>1, PlaceTwice
    <3>3. n = TxBufNb => Place(dmaPos, n) = dmaPos /\ Place(dmaPos, n - TxBufNb) = dmaPos
      BY <1>1, Places
    <3> QED BY <1>1, <1>3, <3>1, <3>2, <3>3, TxBufNbAssumption
  <2> QED BY <2>1, <2>2
<1>6. Moving' = Moving
  BY DEF Moving, ConfigMoves, ConfigPc, Thread
<1>7. RingHas(m)'
  BY <1>3, <1>4, <1>5, <1>6 DEF RingHas, Place, NextDesc
<1>8. PollDue(m)'
  <2>1. (n = l \/ \E t \in Thread : pc[t] \in {"next", "resume"}) =>
          (m = 0 \/ \E t \in Thread : pc'[t] \in {"next", "resume"})
    BY <1>1, <1>2 DEF ConfigMoves, ConfigPc, Thread
  <2>2. Len(fifo') = 0
    BY <1>3
  <2> QED BY <1>1, <1>3, <2>1, <2>2 DEF PollDue
<1> QED BY <1>1, <1>2, <1>7, <1>8

\* The other steps leave the queue as it is.
Keeping ==
  \/ \E t \in Thread : Step(t) /\ ~GiveDesc(t)
  \/ ConfigMoves /\ ConfigSwitch
  \/ DmaSuspend \/ RxInterrupt \/ UNCHANGED vars

LEMMA RingKeepsStep ==
  ASSUME TypeOK, Exclusive, NEW n \in 0..TxBufNb, RingHas(n), PollDue(n),
         NEW t \in Thread, Step(t), ~GiveDesc(t)
  PROVE  UNCHANGED <<own, len, fifo, dmaPos, wire, flushed>> /\ RingHas(n)' /\ PollDue(n)'
<1>1. UNCHANGED <<own, len, fifo, dmaPos, wire, flushed>>
  BY DEF Step, TransmitFrame, Output, CheckBuffer, CopyFrame, Return, LockTest, LockSet,
         CheckDesc, AdvanceDesc, ResumeDma, Unlock, ring, dma, gone
<1>2. CASE AdvanceDesc(t)
  <2>1. /\ pc[t] = "next" /\ pc' = [pc EXCEPT ![t] = "resume"] /\ txDesc' = NextDesc(txDesc)
        /\ UNCHANGED <<tps, tbus>>
    BY <1>2 DEF AdvanceDesc, Goto, dma
  <2>2. Moving /\ ~Moving'
    BY <2>1 DEF Moving, Exclusive, One, Between, Thread, TypeOK
  <2>3. RingHas(n)'
    BY <1>1, <2>1, <2>2 DEF RingHas, Place
  <2>4. PollDue(n)'
    BY <1>1, <2>1 DEF PollDue, TypeOK
  <2> QED BY <1>1, <2>3, <2>4
<1>3. CASE ResumeDma(t)
  <2>1. /\ pc[t] = "resume" /\ pc' = [pc EXCEPT ![t] = "unlock"] /\ txDesc' = txDesc
        /\ tps' = IF tbus = 1 /\ tps = "suspended" THEN "running" ELSE tps
    BY <1>3 DEF ResumeDma, Goto
  <2>2. Moving' = Moving /\ tps' # "suspended"
    BY <2>1 DEF Moving, Thread, TypeOK, PollDue
  <2> QED BY <1>1, <2>1, <2>2 DEF RingHas, PollDue, Place, NextDesc
<1>4. ASSUME ~AdvanceDesc(t), ~ResumeDma(t)
      PROVE  /\ pc[t] \notin {"next", "resume"} /\ pc'[t] \notin {"next", "resume"}
             /\ \A u \in Thread : u # t => pc'[u] = pc[u]
             /\ UNCHANGED <<txDesc, tbus>> /\ tps' \in {tps, "running"}
  BY <1>4 DEF TypeOK, Goto, dma, Step, TransmitFrame, Output, CheckBuffer, CopyFrame, Return,
              LockTest, LockSet, CheckDesc, Unlock
<1>5. ASSUME ~AdvanceDesc(t), ~ResumeDma(t)
      PROVE  RingHas(n)' /\ PollDue(n)'
  <2>1. Moving' = Moving
    BY <1>4, <1>5 DEF Moving
  <2>2. (\E u \in Thread : pc'[u] \in {"next", "resume"})
           = (\E u \in Thread : pc[u] \in {"next", "resume"})
    BY <1>4, <1>5
  <2> QED BY <1>1, <1>4, <1>5, <2>1, <2>2 DEF RingHas, PollDue, Place, NextDesc
<1> QED BY <1>1, <1>2, <1>3, <1>5

LEMMA RingKeeps ==
  ASSUME TypeOK, Exclusive, Fetched, NEW n \in 0..TxBufNb, RingHas(n), PollDue(n), Keeping
  PROVE  UNCHANGED <<own, len, fifo, dmaPos, wire, flushed>> /\ RingHas(n)' /\ PollDue(n)'
<1>1. CASE \E t \in Thread : Step(t) /\ ~GiveDesc(t)
  BY <1>1, RingKeepsStep
<1>2. CASE ConfigMoves /\ ConfigSwitch
  <2>1. UNCHANGED <<own, len, fifo, dmaPos, wire, flushed, txDesc, tbus>>
    BY <1>2 DEF ConfigMoves, ConfigSwitch
  <2>2. /\ Moving' = Moving
        /\ (\E t \in Thread : pc'[t] \in {"next", "resume"})
             = (\E t \in Thread : pc[t] \in {"next", "resume"})
    BY <1>2 DEF Moving, ConfigMoves, ConfigPc, Thread
  <2>3. tps' = "suspended" => tps = "suspended"
    BY <1>2 DEF ConfigSwitch
  <2> QED BY <2>1, <2>2, <2>3 DEF RingHas, PollDue, Place, NextDesc
<1>3. CASE DmaSuspend
  <2>1. /\ UNCHANGED <<own, len, fifo, dmaPos, wire, flushed, txDesc, pc>> /\ tbus' = 1
        /\ own[Ahead] = "CPU" /\ Len(fifo) < FifoDepth
    BY <1>3 DEF DmaSuspend, ring, gone
  <2>2. Len(fifo) \in 0..(TxBufNb - 1) /\ Len(fifo) <= n /\ Ahead = Place(dmaPos, Len(fifo))
    <3>1. Len(fifo) \in 0..TxBufNb /\ Len(fifo) <= n /\ dmaPos \in Desc
      BY FifoIn, FifoOwned DEF TypeOK
    <3> QED BY <2>1, <3>1, PlaceIs, FifoDepthAssumption, TxBufNbAssumption DEF Ahead, Nth
  <2>3. ~(Len(fifo) < n)
    BY <2>1, <2>2 DEF RingHas
  <2>4. n = Len(fifo)
    BY <2>2, <2>3, TxBufNbAssumption
  <2> QED BY <2>1, <2>4 DEF RingHas, PollDue, Place, NextDesc, Moving
<1>4. CASE RxInterrupt \/ UNCHANGED vars
  BY <1>4 DEF RingHas, PollDue, Place, NextDesc, Moving, RxInterrupt, vars, ring, dma, gone
<1> QED BY <1>1, <1>2, <1>3, <1>4 DEF Keeping

LEMMA RingFetch ==
  ASSUME TypeOK, Exclusive, Fetched, NEW n \in 0..TxBufNb, RingHas(n), DmaFetch
  PROVE  RingHas(n)' /\ PollDue(n)' /\ Len(fifo) < n
<1>1. UNCHANGED <<own, txDesc, dmaPos, pc>> /\ tps' = "running"
  BY DEF DmaFetch, ring
<1>2. Len(fifo) < n
  <2>1. Len(fifo) \in 0..(TxBufNb - 1) /\ own[Place(dmaPos, Len(fifo))] = "DMA"
    BY FetchedFetch
  <2> QED BY <2>1 DEF RingHas
<1> QED BY <1>1, <1>2 DEF RingHas, PollDue, Place, NextDesc, Moving

LEMMA RingStep ==
  ASSUME TypeOK, [Next]_vars
  PROVE  \/ \E t \in Thread : GiveDesc(t)
         \/ MacTransmit \/ DmaFetch \/ (ConfigMoves /\ ConfigFlush) \/ Keeping
<1>1. CASE Config
  BY <1>1, ConfigIs DEF ConfigMoves, Keeping
<1> QED BY <1>1 DEF Next, Dma, Keeping

LEMMA RingInit == Init => RingInv
<1> SUFFICES ASSUME Init PROVE RingHas(0) /\ PollDue(0)
  BY TxBufNbAssumption DEF RingInv
<1>1. \A k \in 0..(TxBufNb - 1) : Place(0, k) \in Desc
  <2>1. 0 \in Desc /\ \A k \in 0..(TxBufNb - 1) : k \in 0..TxBufNb
    BY DescFacts, TxBufNbAssumption
  <2> QED BY <2>1, Places
<1>2. Place(0, 0) = 0
  BY DescFacts, Places
<1> QED BY <1>1, <1>2 DEF Init, RingHas, PollDue, Moving, Thread

LEMMA RingInductive ==
  ASSUME TypeOK, TxInv, RingInv, [Next]_vars
  PROVE  RingInv'
<1>1. PICK n \in 0..TxBufNb : RingHas(n) /\ PollDue(n)
  BY DEF RingInv
<1>2. CASE \E t \in Thread : GiveDesc(t)
  <2>1. n + 1 \in 0..TxBufNb /\ RingHas(n + 1)' /\ PollDue(n + 1)'
    BY <1>1, <1>2, RingGive, TxBufNbAssumption DEF TxInv
  <2> QED BY <2>1 DEF RingInv
<1>3. CASE MacTransmit
  <2>1. n - 1 \in 0..TxBufNb /\ RingHas(n - 1)' /\ PollDue(n - 1)'
    BY <1>1, <1>3, RingTransmit, TxBufNbAssumption DEF TxInv
  <2> QED BY <2>1 DEF RingInv
<1>4. CASE ConfigMoves /\ ConfigFlush
  BY <1>1, <1>4, RingFlush DEF TxInv, RingInv
<1>5. CASE DmaFetch \/ Keeping
  BY <1>1, <1>5, RingFetch, RingKeeps DEF TxInv, RingInv
<1> QED BY <1>2, <1>3, <1>4, <1>5, RingStep

RingUntil == ~overlap => RingInv

LEMMA RingHolds == Spec => [](TypeOK /\ TxUntil /\ RingUntil)
<1>1. TypeOK /\ TxUntil /\ RingUntil /\ [Next]_vars => RingUntil'
  BY OverlapStays, RingInductive DEF TxUntil, RingUntil
<1>2. Init => RingUntil
  BY RingInit DEF RingUntil
<1> QED BY <1>1, <1>2, TxHolds, PTL DEF Spec

(* The test of TBUS in HAL_ETH_TransmitFrame misses no suspension: until two sends *)
(* overlap, a DMA that is suspended while the driver is left has fetched every     *)
(* frame it was given, with any number of descriptors, whichever thread sent and   *)
(* however LinkThr stops, flushes and restarts the MAC.                            *)
THEOREM NeverStalls == Spec => []NoStall
<1>1. TypeOK /\ TxUntil /\ RingUntil => NoStall
  <2> SUFFICES ASSUME TypeOK, TxInv, RingInv, Quiet, tps = "suspended",
                      NEW d \in Desc, own[d] = "DMA"
               PROVE  \E i \in DOMAIN fifo : d = Nth(i - 1)
    BY DEF NoStall, TxUntil, RingUntil
  <2>1. PICK n \in 0..TxBufNb : RingHas(n) /\ PollDue(n)
    BY DEF RingInv
  <2>2. n = Len(fifo)
    BY <2>1 DEF PollDue, Quiet
  <2>3. PICK k \in 0..(TxBufNb - 1) : Place(dmaPos, k) = d
    BY Places DEF TypeOK
  <2>4. k < n
    BY <2>1, <2>3 DEF RingHas
  <2>5. k + 1 \in 1..Len(fifo) /\ k + 1 - 1 = k /\ DOMAIN fifo = 1..Len(fifo)
    BY <2>2, <2>4, FifoIn, LenProperties DEF TypeOK
  <2>6. Nth(k + 1 - 1) = Place(dmaPos, k + 1 - 1)
    BY <2>5, FifoPlace DEF TxInv
  <2> QED BY <2>3, <2>5, <2>6
<1> QED BY <1>1, RingHolds, PTL

(* Until two sends overlap, low_level_output returns ERR_USE only when the DMA     *)
(* owns every descriptor, whichever thread sends.                                  *)
THEOREM UseIsFull == Spec => UseMeansFull
<1>1. TypeOK /\ TxUntil /\ RingUntil /\ [Next]_vars
        => [\A t \in Thread : pc[t] = "check" /\ pc'[t] = "use" /\ ~overlap
              => \A d \in Desc : own[d] = "DMA"]_vars
  <2> SUFFICES ASSUME TypeOK, TxInv, RingInv, Next, NEW t \in Thread,
                      pc[t] = "check", pc'[t] = "use", NEW d \in Desc
               PROVE  own[d] = "DMA"
    BY DEF TxUntil, RingUntil
  <2>1. Step(t)
    BY OwnStep
  <2>2. CheckBuffer(t)
    BY <2>1
    DEF Step, TransmitFrame, Goto, TypeOK, Output, CopyFrame, Return, LockTest,
        LockSet, CheckDesc, GiveDesc, AdvanceDesc, ResumeDma, Unlock
  <2>3. own[txDesc] # "CPU" /\ ~Moving
    BY <2>2 DEF CheckBuffer, Goto, TypeOK, TxInv, Exclusive, SameDesc, Sending, One, Between,
                Moving, Thread
  <2>4. PICK n \in 0..TxBufNb : RingHas(n)
    BY DEF RingInv
  <2>5. n = TxBufNb
    <3>1. Place(dmaPos, n) = txDesc
      BY <2>3, <2>4 DEF RingHas
    <3>2. n \notin 0..(TxBufNb - 1)
      BY <2>3, <2>4, <3>1 DEF RingHas
    <3> QED BY <3>2, TxBufNbAssumption
  <2>6. PICK k \in 0..(TxBufNb - 1) : Place(dmaPos, k) = d
    BY Places DEF TypeOK
  <2>7. k < n
    BY <2>5, <2>6, TxBufNbAssumption
  <2> QED BY <2>4, <2>6, <2>7 DEF RingHas
<1> QED BY <1>1, RingHolds, PTL DEF Spec, UseMeansFull

-----------------------------------------------------------------------------
(* The ring implements FrameQueue.  A frame that is accepted is new: everything    *)
(* given to the DMA before belongs to an earlier call.                             *)

Fresh ==
  /\ \A t \in Thread : Sending(t) => cur[t] \in 1..calls /\ cur[t] \notin queued
  /\ queued \subseteq 1..calls
  /\ \A d \in Desc : own[d] = "DMA" => len[d] \in queued
  /\ \A i \in DOMAIN wire : wire[i][1] \in queued
  /\ flushed \subseteq queued

LEMMA FreshInit == Init => Fresh
  BY DEF Init, Fresh, Sending, Thread

LEMMA FreshStep ==
  ASSUME TypeOK, Exclusive, Fresh, NEW t \in Thread, Step(t)
  PROVE  Fresh'
<1>1. CASE GiveDesc(t)
  <2>1. /\ cur[t] \in 1..calls /\ queued' = queued \cup {cur[t]}
        /\ len' = [len EXCEPT ![txDesc] = cur[t]] /\ own' = [own EXCEPT ![txDesc] = "DMA"]
        /\ UNCHANGED <<calls, cur, wire, flushed>> /\ pc' = [pc EXCEPT ![t] = "next"]
    BY <1>1 DEF GiveDesc, Goto, Fresh, Sending, local, gone
  <2>2. \A u \in Thread : ~Sending(u)'
    BY <1>1, <2>1 DEF GiveDesc, Goto, Sending, Exclusive, One, Between, Thread, TypeOK
  <2>3. \A d \in Desc : own'[d] = "DMA" => len'[d] = cur[t] \/ (own[d] = "DMA" /\ len'[d] = len[d])
    BY <2>1 DEF TypeOK
  <2>4. /\ queued' \subseteq 1..calls' /\ flushed' \subseteq queued'
        /\ \A i \in DOMAIN wire' : wire'[i][1] \in queued'
    BY <2>1 DEF Fresh
  <2>5. \A d \in Desc : own'[d] = "DMA" => len'[d] \in queued'
    BY <2>1, <2>3 DEF Fresh
  <2> QED BY <2>2, <2>4, <2>5 DEF Fresh
<1>2. CASE Output(t)
  <2>1. /\ calls \in Nat /\ calls' = calls + 1 /\ cur' = [cur EXCEPT ![t] = calls + 1]
        /\ \A u \in Thread : u # t => pc'[u] = pc[u]
        /\ UNCHANGED <<own, len, queued, wire, flushed>>
    BY <1>2, MaxFramesAssumption DEF Output, Goto, TypeOK, ring, gone
  <2>2. 1..calls \subseteq 1..calls' /\ calls + 1 \in 1..calls' /\ calls + 1 \notin 1..calls
    BY <2>1
  <2>3. \A u \in Thread : u # t /\ Sending(u)' => Sending(u) /\ cur'[u] = cur[u]
    BY <2>1 DEF Sending, TypeOK
  <2>4. cur'[t] = calls + 1
    BY <2>1 DEF TypeOK
  <2> QED BY <2>1, <2>2, <2>3, <2>4 DEF Fresh
<1>3. ASSUME ~GiveDesc(t), ~Output(t)
      PROVE  /\ UNCHANGED <<own, len, calls, cur, queued, wire, flushed>>
             /\ \A u \in Thread : Sending(u)' => Sending(u)
  <2> USE DEF Sending, TypeOK, Goto, ring, local, gone
  <2>1. CASE CheckBuffer(t)  BY <2>1 DEF CheckBuffer
  <2>2. CASE CopyFrame(t)    BY <2>2 DEF CopyFrame
  <2>3. CASE Return(t)       BY <2>3 DEF Return
  <2>4. CASE LockTest(t)     BY <2>4 DEF LockTest
  <2>5. CASE LockSet(t)      BY <2>5 DEF LockSet
  <2>6. CASE CheckDesc(t)    BY <2>6 DEF CheckDesc
  <2>7. CASE AdvanceDesc(t)  BY <2>7 DEF AdvanceDesc
  <2>8. CASE ResumeDma(t)    BY <2>8 DEF ResumeDma
  <2>9. CASE Unlock(t)       BY <2>9 DEF Unlock
  <2> QED
    BY <1>3, <2>1, <2>2, <2>3, <2>4, <2>5, <2>6, <2>7, <2>8, <2>9 DEF Step, TransmitFrame
<1> QED BY <1>1, <1>2, <1>3 DEF Fresh

LEMMA WireGrows ==
  ASSUME TypeOK, TxInv, MacTransmit
  PROVE  /\ DOMAIN wire' = 1..(Len(wire) + 1) /\ DOMAIN wire = 1..Len(wire) /\ Len(wire) \in Nat
         /\ wire'[Len(wire) + 1][1] = len[dmaPos]
         /\ \A i \in DOMAIN wire : wire'[i] = wire[i]
         /\ \A i \in DOMAIN wire' :
              wire'[i][1] = len[dmaPos] \/ (i \in DOMAIN wire /\ wire'[i] = wire[i])
<1> DEFINE x == <<len[dmaPos], len[dmaPos]>>
<1>1. /\ wire \in Seq((0..MaxFrames) \X (0..MaxFrames))
      /\ x \in (0..MaxFrames) \X (0..MaxFrames) /\ wire' = Append(wire, x)
      /\ x[1] = len[dmaPos]
  BY FetchedTransmit DEF TypeOK, TxInv, MacTransmit
<1> HIDE DEF x
<1>2. /\ DOMAIN wire' = 1..(Len(wire) + 1) /\ Len(wire) \in Nat /\ DOMAIN wire = 1..Len(wire)
      /\ wire'[Len(wire) + 1] = x /\ \A i \in 1..Len(wire) : wire'[i] = wire[i]
  BY <1>1
<1>3. \A i \in 1..(Len(wire) + 1) : i = Len(wire) + 1 \/ i \in 1..Len(wire)
  BY <1>2
<1> QED BY <1>1, <1>2, <1>3

LEMMA FreshConfig ==
  ASSUME TypeOK, TxInv, Fresh, ConfigMoves
  PROVE  Fresh'
<1>1. \A t \in Thread : ~Sending(t)'
  BY DEF ConfigMoves, ConfigPc, Sending, Thread
<1>2. UNCHANGED <<len, calls, cur, queued, wire>>
  BY DEF ConfigMoves, local
<1>3. CASE ConfigSwitch
  BY <1>1, <1>2, <1>3 DEF ConfigSwitch, Fresh
<1>4. CASE ConfigFlush
  <2>1. /\ \A d \in Desc : own'[d] = "DMA" => own[d] = "DMA"
        /\ flushed' = flushed \cup {fifo[i][2] : i \in 1..Len(fifo)}
    BY <1>4, FlushIs DEF TxInv
  <2>2. \A i \in 1..Len(fifo) : fifo[i][2] \in queued
    <3> SUFFICES ASSUME NEW i \in 1..Len(fifo) PROVE fifo[i][2] \in queued
      OBVIOUS
    <3>1. Place(dmaPos, i - 1) \in Desc
      BY FifoPlace DEF TxInv
    <3> QED BY <3>1 DEF TxInv, Fetched, Fresh
  <2> QED BY <1>1, <1>2, <2>1, <2>2 DEF Fresh
<1> QED BY <1>3, <1>4 DEF ConfigMoves

LEMMA FreshRest ==
  ASSUME TypeOK, TxInv, Fresh, Dma \/ MacTransmit \/ RxInterrupt \/ UNCHANGED vars
  PROVE  Fresh'
<1>1. CASE MacTransmit
  <2>1. /\ own[dmaPos] = "DMA" /\ dmaPos \in Desc
        /\ \A d \in Desc : own'[d] = "DMA" => own[d] = "DMA"
        /\ UNCHANGED <<len, calls, pc, cur, queued, flushed>>
    BY <1>1, FetchedTransmit DEF MacTransmit, TxInv, TypeOK, local
  <2>2. \A i \in DOMAIN wire' : wire'[i][1] \in queued
    BY <1>1, <2>1, WireGrows DEF Fresh
  <2> QED BY <2>1, <2>2 DEF Fresh, Sending
<1>2. CASE Dma \/ RxInterrupt \/ UNCHANGED vars
  BY <1>2 DEF Dma, DmaFetch, DmaSuspend, RxInterrupt, vars, Fresh, Sending, ring, local, gone
<1> QED BY <1>1, <1>2

LEMMA FreshInductive ==
  ASSUME TypeOK, TxInv, Fresh, [Next]_vars
  PROVE  Fresh'
  BY FreshStep, FreshConfig, FreshRest, ConfigIs DEF Next, TxInv

\* The number of descriptors that the DMA owns, from d on.
LEMMA BacklogIs ==
  \A d \in Desc, n \in 0..TxBufNb, o \in [Desc -> {"CPU", "DMA"}] :
    (\A k \in 0..(TxBufNb - 1) : o[Place(d, k)] = IF k < n THEN "DMA" ELSE "CPU")
      => n = CHOOSE m \in 0..TxBufNb :
               /\ \A k \in 0..(m - 1) : o[(d + k) % TxBufNb] = "DMA"
               /\ m = TxBufNb \/ o[(d + m) % TxBufNb] = "CPU"
<1> SUFFICES ASSUME NEW d \in Desc, NEW n \in 0..TxBufNb, NEW o \in [Desc -> {"CPU", "DMA"}],
                    \A k \in 0..(TxBufNb - 1) :
                      o[Place(d, k)] = IF k < n THEN "DMA" ELSE "CPU"
             PROVE  n = CHOOSE m \in 0..TxBufNb :
                          /\ \A k \in 0..(m - 1) : o[(d + k) % TxBufNb] = "DMA"
                          /\ m = TxBufNb \/ o[(d + m) % TxBufNb] = "CPU"
  OBVIOUS
<1> DEFINE Is(m) == /\ \A k \in 0..(m - 1) : o[(d + k) % TxBufNb] = "DMA"
                    /\ m = TxBufNb \/ o[(d + m) % TxBufNb] = "CPU"
<1>1. \A k \in 0..(TxBufNb - 1) : o[(d + k) % TxBufNb] = IF k < n THEN "DMA" ELSE "CPU"
  <2>1. \A k \in 0..(TxBufNb - 1) : (d + k) % TxBufNb = Place(d, k)
    BY PlaceIs, TxBufNbAssumption
  <2> QED BY <2>1
<1>2. Is(n)
  BY <1>1, TxBufNbAssumption
<1>3. ASSUME NEW m \in 0..TxBufNb, Is(m) PROVE m = n
  <2>1. ~(m < n)
    BY <1>1, <1>3, TxBufNbAssumption
  <2>2. ~(n < m)
    BY <1>1, <1>3, TxBufNbAssumption
  <2> QED BY <2>1, <2>2
<1> HIDE DEF Is
<1>4. n = CHOOSE m \in 0..TxBufNb : Is(m)
  BY <1>2, <1>3
<1> QED BY <1>4 DEF Is

\* The abstract queue and wire, and the queue written with the places.
Waiting == [k \in 1..Backlog |-> len[Nth(k - 1)]]
Carried == [i \in DOMAIN wire |-> wire[i][1]]
QueueAt(n) == [k \in 1..n |-> len[Place(dmaPos, k - 1)]]

WaitingIs == \A n \in 0..TxBufNb : RingHas(n) => Waiting = QueueAt(n)

LEMMA QueueIs == TypeOK => WaitingIs
<1> SUFFICES ASSUME TypeOK, NEW n \in 0..TxBufNb, RingHas(n)
             PROVE  Waiting = QueueAt(n)
  BY DEF WaitingIs
<1>1. dmaPos \in Desc /\ own \in [Desc -> {"CPU", "DMA"}]
  BY DEF TypeOK
<1>2. n = Backlog
  <2>1. \A k \in 0..(TxBufNb - 1) : own[Place(dmaPos, k)] = IF k < n THEN "DMA" ELSE "CPU"
    BY DEF RingHas
  <2> QED BY <1>1, <2>1, BacklogIs DEF Backlog, Nth
<1>3. \A k \in 1..n : k - 1 \in 0..TxBufNb /\ Nth(k - 1) = Place(dmaPos, k - 1)
  BY <1>1, PlaceIs, TxBufNbAssumption DEF Nth
<1> QED BY <1>2, <1>3 DEF Waiting, QueueAt

\* Appending to a sequence and taking its tail, as functions.
LEMMA AppendIs ==
  ASSUME NEW S, NEW q \in Seq(S), NEW e \in S
  PROVE  Append(q, e) = [k \in 1..(Len(q) + 1) |-> IF k = Len(q) + 1 THEN e ELSE q[k]]
<1>1. /\ Append(q, e) \in Seq(S) /\ Len(Append(q, e)) = Len(q) + 1 /\ Len(q) \in Nat
      /\ \A i \in 1..Len(q) : Append(q, e)[i] = q[i]
      /\ Append(q, e)[Len(q) + 1] = e
  BY AppendProperties, LenProperties
<1>2. DOMAIN Append(q, e) = 1..(Len(q) + 1)
      /\ Append(q, e) = [k \in DOMAIN Append(q, e) |-> Append(q, e)[k]]
  BY <1>1, LenProperties
<1>3. \A k \in 1..(Len(q) + 1) : Append(q, e)[k] = IF k = Len(q) + 1 THEN e ELSE q[k]
  <2>1. \A k \in 1..(Len(q) + 1) : k = Len(q) + 1 \/ k \in 1..Len(q)
    BY <1>1
  <2> QED BY <1>1, <2>1
<1> QED BY <1>2, <1>3

LEMMA TailIs ==
  ASSUME NEW S, NEW q \in Seq(S), q # <<>>
  PROVE  Tail(q) = [k \in 1..(Len(q) - 1) |-> q[k + 1]]
<1>1. /\ Tail(q) \in Seq(S) /\ Len(Tail(q)) = Len(q) - 1
      /\ \A i \in 1..Len(Tail(q)) : Tail(q)[i] = q[i + 1]
  BY HeadTailProperties
<1>2. DOMAIN Tail(q) = 1..(Len(q) - 1)
      /\ Tail(q) = [k \in DOMAIN Tail(q) |-> Tail(q)[k]]
  BY <1>1, LenProperties
<1> QED BY <1>1, <1>2

LEMMA SubSeqIs ==
  ASSUME NEW S, NEW q \in Seq(S), NEW l \in Nat, l <= Len(q)
  PROVE  SubSeq(q, l + 1, Len(q)) = [k \in 1..(Len(q) - l) |-> q[l + k]]
<1>1. /\ Len(q) \in Nat /\ l + 1 \in 1..(Len(q) + 1) /\ Len(q) \in l..Len(q)
      /\ l + 1 - 1 = l
  BY LenProperties
<1>2. SubSeq(q, l + 1, Len(q)) \in Seq(S)
      /\ Len(SubSeq(q, l + 1, Len(q))) = Len(q) - l
      /\ \A i \in 1..(Len(q) - l) : SubSeq(q, l + 1, Len(q))[i] = q[l + i]
  BY <1>1, SubSeqProperties
<1>3. DOMAIN SubSeq(q, l + 1, Len(q)) = 1..(Len(q) - l)
      /\ SubSeq(q, l + 1, Len(q))
           = [k \in DOMAIN SubSeq(q, l + 1, Len(q)) |-> SubSeq(q, l + 1, Len(q))[k]]
  BY <1>2, LenProperties
<1> QED BY <1>2, <1>3

\* The abstract queue, entry by entry.
LEMMA WaitingAt ==
  ASSUME TypeOK, WaitingIs, NEW n \in 0..TxBufNb, RingHas(n)
  PROVE  /\ Len(Waiting) = n /\ DOMAIN Waiting = 1..n /\ Waiting \in Seq(0..MaxFrames)
         /\ \A k \in 1..n : /\ Waiting[k] = len[Place(dmaPos, k - 1)]
                            /\ Place(dmaPos, k - 1) \in Desc
                            /\ own[Place(dmaPos, k - 1)] = "DMA"
<1>1. Waiting = QueueAt(n) /\ dmaPos \in Desc /\ len \in [Desc -> 0..MaxFrames]
  BY DEF WaitingIs, TypeOK
<1>2. \A k \in 1..n : k - 1 \in 0..TxBufNb /\ k - 1 \in 0..(TxBufNb - 1) /\ k - 1 < n
  BY TxBufNbAssumption
<1>3. \A k \in 1..n : Place(dmaPos, k - 1) \in Desc /\ own[Place(dmaPos, k - 1)] = "DMA"
  BY <1>1, <1>2, Places DEF RingHas
<1> QED BY <1>1, <1>3 DEF QueueAt

LEMMA QueueAccepts ==
  ASSUME TypeOK, TypeInv, TxInv, Fresh, WaitingIs, WaitingIs',
         NEW n \in 0..TxBufNb, RingHas(n), PollDue(n), NEW t \in Thread, GiveDesc(t)
  PROVE  /\ Len(Waiting) < TxBufNb /\ Carried' = Carried
         /\ Waiting' = Append(Waiting, cur[t])
         /\ cur[t] \in Frame /\ cur[t] \notin flushed
         /\ \A i \in DOMAIN Waiting : Waiting[i] # cur[t]
         /\ \A i \in DOMAIN Carried : Carried[i] # cur[t]
         /\ UNCHANGED <<fifo, flushed>>
<1>1. n < TxBufNb /\ RingHas(n + 1)' /\ txDesc = Place(dmaPos, n)
  BY RingGive DEF TxInv
<1>2. /\ len' = [len EXCEPT ![txDesc] = cur[t]] /\ UNCHANGED <<fifo, dmaPos, wire, flushed>>
      /\ pc[t] = "give" /\ dmaPos \in Desc /\ txDesc \in Desc
      /\ len \in [Desc -> 0..MaxFrames] /\ n + 1 \in 0..TxBufNb
      /\ own[txDesc] = "CPU"
  BY <1>1, TxBufNbAssumption
  DEF GiveDesc, Goto, dma, gone, TypeOK, TxInv, Exclusive, Reserved, Sending
<1>3. Waiting' = QueueAt(n + 1)'
  BY <1>1, <1>2 DEF WaitingIs
<1>4. /\ Len(Waiting) = n /\ DOMAIN Waiting = 1..n /\ Waiting \in Seq(0..MaxFrames)
      /\ \A k \in 1..n : /\ Waiting[k] = len[Place(dmaPos, k - 1)]
                         /\ Place(dmaPos, k - 1) \in Desc
                         /\ own[Place(dmaPos, k - 1)] = "DMA"
  BY WaitingAt
<1>5. Waiting' = [k \in 1..(n + 1) |-> len'[Place(dmaPos, k - 1)]]
  BY <1>2, <1>3 DEF QueueAt, Place
<1>6. \A k \in 1..(n + 1) : len'[Place(dmaPos, k - 1)] = IF k = n + 1 THEN cur[t] ELSE Waiting[k]
  <2> SUFFICES ASSUME NEW k \in 1..(n + 1)
               PROVE  len'[Place(dmaPos, k - 1)] = IF k = n + 1 THEN cur[t] ELSE Waiting[k]
    OBVIOUS
  <2>1. CASE k = n + 1
    <3>1. k - 1 = n
      BY <2>1
    <3> QED BY <1>1, <1>2, <2>1, <3>1
  <2>2. CASE k # n + 1
    <3>1. k \in 1..n
      BY <2>2
    <3>2. Place(dmaPos, k - 1) # txDesc
      BY <1>2, <1>4, <3>1
    <3> QED BY <1>2, <1>4, <2>2, <3>1, <3>2
  <2> QED BY <2>1, <2>2
<1>7. cur[t] \in Frame /\ cur[t] \notin queued
  BY <1>2 DEF Fresh, Sending, TypeInv, InCall
<1>8. Waiting' = Append(Waiting, cur[t])
  <2>1. cur[t] \in 0..MaxFrames /\ Waiting \in Seq(0..MaxFrames) /\ Len(Waiting) = n
    BY <1>4, <1>7 DEF Frame
  <2>2. Append(Waiting, cur[t]) = [k \in 1..(n + 1) |-> IF k = n + 1 THEN cur[t] ELSE Waiting[k]]
    BY <2>1, AppendIs
  <2> QED BY <1>5, <1>6, <2>2
<1>9. \A i \in DOMAIN Waiting : Waiting[i] # cur[t]
  BY <1>4, <1>7 DEF Fresh
<1>10. /\ Carried' = Carried /\ \A i \in DOMAIN Carried : Carried[i] # cur[t]
       /\ cur[t] \notin flushed
  BY <1>2, <1>7 DEF Fresh, Carried
<1> QED BY <1>1, <1>2, <1>4, <1>7, <1>8, <1>9, <1>10

LEMMA QueueTransmits ==
  ASSUME TypeOK, TxInv, WaitingIs, WaitingIs',
         NEW n \in 0..TxBufNb, RingHas(n), PollDue(n), MacTransmit
  PROVE  /\ Carried' = Append(Carried, Head(Waiting)) /\ Waiting' = Tail(Waiting)
         /\ Len(fifo) > 0 /\ Len(fifo') = Len(fifo) - 1 /\ UNCHANGED flushed
<1>1. n > 0 /\ RingHas(n - 1)' /\ n - 1 \in 0..TxBufNb /\ n - 1 \in Nat
  <2>1. n > 0 /\ RingHas(n - 1)'
    BY RingTransmit DEF TxInv
  <2> QED BY <2>1, TxBufNbAssumption
<1>2. /\ UNCHANGED <<len, flushed>> /\ dmaPos \in Desc /\ dmaPos' = NextDesc(dmaPos)
      /\ len \in [Desc -> 0..MaxFrames]
      /\ Len(fifo) > 0 /\ Len(fifo') = Len(fifo) - 1
  BY FetchedTransmit DEF MacTransmit, TypeOK, TxInv
<1>3. Waiting' = QueueAt(n - 1)'
  BY <1>1 DEF WaitingIs
<1>4. /\ Len(Waiting) = n /\ DOMAIN Waiting = 1..n /\ Waiting \in Seq(0..MaxFrames)
      /\ \A k \in 1..n : Waiting[k] = len[Place(dmaPos, k - 1)]
  BY WaitingAt
<1>5. Waiting' = [k \in 1..(n - 1) |-> len[Place(dmaPos', k - 1)]]
  BY <1>2, <1>3 DEF QueueAt, Place
<1>6. \A k \in 1..(n - 1) : len[Place(dmaPos', k - 1)] = Waiting[k + 1]
  <2> SUFFICES ASSUME NEW k \in 1..(n - 1)
               PROVE  len[Place(dmaPos', k - 1)] = Waiting[k + 1]
    OBVIOUS
  <2>1. k - 1 \in 0..(TxBufNb - 1) /\ k + 1 \in 1..n /\ k - 1 + 1 = k /\ k + 1 - 1 = k
    BY <1>1, TxBufNbAssumption
  <2>2. Place(dmaPos', k - 1) = Place(dmaPos, k)
    BY <1>2, <2>1, Places
  <2> QED BY <1>4, <2>1, <2>2
<1>7. Waiting # <<>> /\ Waiting' = Tail(Waiting)
  <2>1. Waiting # <<>>
    BY <1>1, <1>4
  <2>2. Tail(Waiting) = [k \in 1..(n - 1) |-> Waiting[k + 1]]
    BY <1>4, <2>1, TailIs
  <2> QED BY <1>5, <1>6, <2>1, <2>2
<1>8. Head(Waiting) = len[dmaPos]
  <2>1. Place(dmaPos, 1 - 1) = dmaPos /\ 1 \in 1..n
    BY <1>1, <1>2, Places
  <2> QED BY <1>4, <2>1
<1>9. Carried' = Append(Carried, len[dmaPos])
  <2>1. /\ DOMAIN wire' = 1..(Len(wire) + 1) /\ DOMAIN wire = 1..Len(wire) /\ Len(wire) \in Nat
        /\ wire'[Len(wire) + 1][1] = len[dmaPos]
        /\ \A i \in DOMAIN wire : wire'[i] = wire[i]
    BY WireGrows
  <2>2. /\ Carried \in Seq(0..MaxFrames) /\ Len(Carried) = Len(wire) /\ len[dmaPos] \in 0..MaxFrames
        /\ \A i \in 1..Len(wire) : Carried[i] = wire[i][1]
    BY SMTT(40), <1>2, <2>1 DEF Carried, TypeOK
  <2>3. Append(Carried, len[dmaPos])
          = [i \in 1..(Len(wire) + 1) |-> IF i = Len(wire) + 1 THEN len[dmaPos] ELSE Carried[i]]
    BY <2>2, AppendIs
  <2>4. Carried' = [i \in 1..(Len(wire) + 1) |-> wire'[i][1]]
    BY <2>1 DEF Carried
  <2>5. \A i \in 1..(Len(wire) + 1) :
          wire'[i][1] = IF i = Len(wire) + 1 THEN len[dmaPos] ELSE Carried[i]
    BY <2>1, <2>2
  <2> QED BY <2>3, <2>4, <2>5
<1> QED BY <1>2, <1>7, <1>8, <1>9

LEMMA QueueFlushes ==
  ASSUME TypeOK, TxInv, WaitingIs, WaitingIs', NEW n \in 0..TxBufNb, RingHas(n), PollDue(n),
         ConfigMoves, ConfigFlush
  PROVE  /\ Carried' = Carried /\ Len(fifo') = 0
         /\ Waiting' = SubSeq(Waiting, Len(fifo) + 1, Len(Waiting))
         /\ flushed' = flushed \cup {Waiting[i] : i \in 1..Len(fifo)}
         /\ Len(fifo) = 0 => Waiting' = Waiting /\ flushed' = flushed
<1>1. PICK l \in 0..TxBufNb : l = Len(fifo) /\ l <= n
  BY FifoIn, FifoOwned DEF TxInv
<1>2. PICK m \in 0..TxBufNb : m = n - l /\ RingHas(m)'
  BY <1>1, RingFlush DEF TxInv
<1>3. /\ Len(Waiting) = n /\ DOMAIN Waiting = 1..n /\ Waiting \in Seq(0..MaxFrames)
      /\ \A k \in 1..n : Waiting[k] = len[Place(dmaPos, k - 1)]
  BY WaitingAt
<1>4. /\ dmaPos' = Place(dmaPos, l) /\ fifo' = <<>> /\ UNCHANGED <<len, wire>>
      /\ flushed' = flushed \cup {fifo[i][2] : i \in 1..l} /\ dmaPos \in Desc
  BY <1>1, FlushIs DEF TxInv, TypeOK
<1>5. Waiting' = [k \in 1..m |-> len[Place(dmaPos', k - 1)]]
  <2>1. Waiting' = QueueAt(m)'
    BY <1>2 DEF WaitingIs
  <2> QED BY <1>4, <2>1 DEF QueueAt, Place
<1>6. \A k \in 1..m : len[Place(dmaPos', k - 1)] = Waiting[l + k]
  <2> SUFFICES ASSUME NEW k \in 1..m PROVE len[Place(dmaPos', k - 1)] = Waiting[l + k]
    OBVIOUS
  <2>1. /\ k - 1 \in 0..(TxBufNb - 1) /\ l + k \in 1..n /\ l + (k - 1) = l + k - 1
        /\ l + (k - 1) < TxBufNb
    BY <1>1, <1>2, TxBufNbAssumption
  <2>2. Place(Place(dmaPos, l), k - 1) = Place(dmaPos, l + (k - 1))
    BY <1>4, <2>1, PlaceTwice
  <2> QED BY <1>3, <1>4, <2>1, <2>2
<1>7. Waiting' = SubSeq(Waiting, l + 1, Len(Waiting))
  <2>1. SubSeq(Waiting, l + 1, Len(Waiting)) = [k \in 1..(Len(Waiting) - l) |-> Waiting[l + k]]
    BY <1>1, <1>3, SubSeqIs
  <2> QED BY <1>2, <1>3, <1>5, <1>6, <2>1
<1>8. flushed' = flushed \cup {Waiting[i] : i \in 1..l}
  <2>1. \A i \in 1..l : fifo[i][2] = Waiting[i]
    <3> SUFFICES ASSUME NEW i \in 1..l PROVE fifo[i][2] = Waiting[i]
      OBVIOUS
    <3>1. i \in 1..n /\ i \in 1..Len(fifo)
      BY <1>1
    <3> QED BY <1>3, <3>1 DEF TxInv, Fetched
  <2> QED BY <1>4, <2>1
<1>9. l = 0 => Waiting' = Waiting /\ flushed' = flushed
  <2> SUFFICES ASSUME l = 0 PROVE Waiting' = Waiting /\ flushed' = flushed
    OBVIOUS
  <2>1. dmaPos' = dmaPos /\ m = n
    BY <1>2, <1>4, Places
  <2>2. Waiting = QueueAt(n)
    BY DEF WaitingIs
  <2> QED BY <1>4, <1>5, <2>1, <2>2 DEF QueueAt
<1>10. Carried' = Carried /\ Len(fifo') = 0
  BY <1>4 DEF Carried
<1> QED BY <1>1, <1>7, <1>8, <1>9, <1>10

LEMMA QueueKeeps ==
  ASSUME NEW n \in 0..TxBufNb, RingHas(n), RingHas(n)', WaitingIs, WaitingIs',
         UNCHANGED <<len, dmaPos, wire>>
  PROVE  Waiting' = Waiting /\ Carried' = Carried
<1>1. Waiting = QueueAt(n) /\ Waiting' = QueueAt(n)'
  BY DEF WaitingIs
<1>2. QueueAt(n)' = QueueAt(n)
  BY DEF QueueAt, Place
<1> QED BY <1>1, <1>2 DEF Carried

LEMMA QueueStep ==
  ASSUME TypeOK, TypeInv, TxInv, RingInv, Fresh, WaitingIs, WaitingIs', [Next]_vars
  PROVE  [Queue!Next]_(Queue!vars)
<1>1. PICK n \in 0..TxBufNb : RingHas(n) /\ PollDue(n)
  BY DEF RingInv
<1>2. CASE \E t \in Thread : GiveDesc(t)
  <2>1. PICK t \in Thread : GiveDesc(t)
    BY <1>2
  <2>2. /\ Len(Waiting) < TxBufNb /\ Carried' = Carried
        /\ Waiting' = Append(Waiting, cur[t])
        /\ cur[t] \in Frame /\ cur[t] \notin flushed
        /\ \A i \in DOMAIN Waiting : Waiting[i] # cur[t]
        /\ \A i \in DOMAIN Carried : Carried[i] # cur[t]
        /\ UNCHANGED <<fifo, flushed>>
    BY <1>1, <2>1, QueueAccepts
  <2>3. Queue!Known = {Waiting[i] : i \in DOMAIN Waiting} \cup {Carried[i] : i \in DOMAIN Carried}
                        \cup flushed
    BY DEF Queue!Known, Waiting, Carried
  <2>4. cur[t] \in Frame \ Queue!Known
    BY <2>2, <2>3
  <2>5. Queue!Accept
    BY <2>2, <2>4 DEF Queue!Accept, Waiting, Carried
  <2> QED BY <2>5 DEF Queue!Next
<1>3. CASE MacTransmit
  <2>1. /\ Carried' = Append(Carried, Head(Waiting)) /\ Waiting' = Tail(Waiting)
        /\ Len(fifo) > 0 /\ Len(fifo') = Len(fifo) - 1 /\ UNCHANGED flushed
    BY <1>1, <1>3, QueueTransmits
  <2>2. Queue!Transmit
    BY <2>1 DEF Queue!Transmit, Waiting, Carried
  <2> QED BY <2>2 DEF Queue!Next
<1>4. CASE DmaFetch
  <2>1. /\ RingHas(n)' /\ Len(fifo) < n /\ Len(fifo') = Len(fifo) + 1 /\ Len(fifo) < FifoDepth
        /\ UNCHANGED <<len, dmaPos, wire, flushed>>
    BY <1>1, <1>4, RingFetch, FetchedFetch DEF TxInv, DmaFetch, ring, gone
  <2>2. Waiting' = Waiting /\ Carried' = Carried /\ Len(Waiting) = n
    BY <1>1, <2>1, QueueKeeps, WaitingAt
  <2>3. Queue!Take
    BY <2>1, <2>2 DEF Queue!Take, Waiting, Carried
  <2> QED BY <2>3 DEF Queue!Next
<1>5. CASE ConfigMoves /\ ConfigFlush
  <2>1. /\ Carried' = Carried /\ Len(fifo') = 0
        /\ Waiting' = SubSeq(Waiting, Len(fifo) + 1, Len(Waiting))
        /\ flushed' = flushed \cup {Waiting[i] : i \in 1..Len(fifo)}
        /\ Len(fifo) = 0 => Waiting' = Waiting /\ flushed' = flushed
    BY <1>1, <1>5, QueueFlushes
  <2>2. Len(fifo) = 0 \/ Len(fifo) > 0
    BY FifoIn DEF TxInv
  <2>3. CASE Len(fifo) = 0
    BY <2>1, <2>3 DEF Queue!vars, Waiting, Carried
  <2>4. CASE Len(fifo) > 0
    <3>1. Queue!Flush
      BY <2>1, <2>4 DEF Queue!Flush, Waiting, Carried
    <3> QED BY <3>1 DEF Queue!Next
  <2> QED BY <2>2, <2>3, <2>4
<1>6. CASE Keeping
  <2>1. UNCHANGED <<own, len, fifo, dmaPos, wire, flushed>> /\ RingHas(n)'
    BY <1>1, <1>6, RingKeeps DEF TxInv
  <2>2. Waiting' = Waiting /\ Carried' = Carried
    BY <1>1, <2>1, QueueKeeps
  <2> QED BY <2>1, <2>2 DEF Queue!vars, Waiting, Carried
<1> QED BY <1>2, <1>3, <1>4, <1>5, <1>6, RingStep

LEMMA QueueInit == ASSUME Init, TypeOK, WaitingIs PROVE Queue!Init
<1>1. RingHas(0)
  <2>1. \A k \in 0..(TxBufNb - 1) : Place(0, k) \in Desc
    <3>1. 0 \in Desc /\ \A k \in 0..(TxBufNb - 1) : k \in 0..TxBufNb
      BY DescFacts, TxBufNbAssumption
    <3> QED BY <3>1, Places
  <2>2. Place(0, 0) = 0
    BY DescFacts, Places
  <2> QED BY <2>1, <2>2 DEF Init, RingHas, Moving, Thread
<1>2. Waiting = QueueAt(0)
  BY <1>1, TxBufNbAssumption DEF WaitingIs
<1>3. QueueAt(0) = <<>>
  BY DEF QueueAt
<1>4. Carried = <<>> /\ Len(fifo) = 0 /\ flushed = {}
  BY DEF Init, Carried
<1> QED BY <1>2, <1>3, <1>4 DEF Queue!Init, Waiting, Carried

FreshUntil == ~overlap => Fresh

(* Until two sends overlap, the descriptors behave like the queue of FrameQueue: a *)
(* frame that HAL_ETH_TransmitFrame gives to the DMA goes out whole, once and in   *)
(* order, or a flush discards it because the DMA had fetched it, whichever thread  *)
(* sent it, whatever LinkThr does to the MAC and whoever releases the HAL lock.    *)
THEOREM QueueImplemented == Spec => ImplementsQueue
<1>1. TypeOK /\ TxUntil /\ FreshUntil /\ [Next]_vars => FreshUntil'
  BY FreshInductive, OverlapStays DEF TxUntil, FreshUntil
<1>2. TypeOK => WaitingIs
  BY QueueIs
<1>3. Init /\ TypeOK /\ WaitingIs => Queue!Init
  BY QueueInit
<1>4. TypeOK /\ TypeInv /\ TxUntil /\ RingUntil /\ FreshUntil /\ WaitingIs /\ WaitingIs'
        /\ [Next]_vars => [overlap \/ Queue!Next]_(Queue!vars)
  BY QueueStep DEF TxUntil, RingUntil, FreshUntil
<1>5. Init => FreshUntil
  BY FreshInit DEF FreshUntil
<1> QED
  BY <1>1, <1>2, <1>3, <1>4, <1>5, RingHolds, TypeInductive, PTL DEF Spec, ImplementsQueue

=============================================================================
