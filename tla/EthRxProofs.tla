---------------------------- MODULE EthRxProofs -----------------------------
(***************************************************************************)
(* Proofs about EthRx, for every value of its constants.                   *)
(***************************************************************************)
EXTENDS EthRx, SequenceTheorems, FiniteSetTheorems, TLAPS

LEMMA DescFacts ==
  /\ 0 \in Desc
  /\ \A d \in Desc : NextDesc(d) \in Desc
  /\ \A d \in Desc, k \in Nat : NthDesc(d, k) \in Desc
  BY RxBufNbAssumption DEF Desc, NextDesc, NthDesc

LEMMA RxFrameType == HethType /\ RingType => RxFrame \in Pbuf
<1> SUFFICES ASSUME HethType, RingType PROVE RxFrame \in Pbuf
  OBVIOUS
<1>1. \A k \in 1..segCount : NthDesc(fsRx, k - 1) \in Desc
  BY DescFacts DEF HethType
<1>2. RxFrame \in [1..segCount -> Nat \X Nat]
  BY <1>1 DEF RxFrame, RingType
<1> QED
  BY <1>2, SeqDef DEF HethType, Pbuf

LEMMA MsgFacts ==
  /\ NULL \in Pbuf
  /\ OoseqMsg \in Msg
  /\ \A b \in Pbuf \ {NULL} : InpktMsg(b) \in Msg
  BY DEF NULL, Pbuf, OoseqMsg, Msg, InpktMsg

(* A part of the type invariant holds as long as its variables stand still. *)
LEMMA TypeStutter ==
  /\ NicType /\ UNCHANGED nic => NicType'
  /\ RingType /\ UNCHANGED ring => RingType'
  /\ HethType /\ UNCHANGED heth => HethType'
  /\ EthIfType /\ UNCHANGED ethif => EthIfType'
  /\ PoolType /\ UNCHANGED <<poolFree, ooseq>> => PoolType'
  /\ TcpipType /\ UNCHANGED tcpip => TcpipType'
  BY DEF NicType, RingType, HethType, EthIfType, PoolType, TcpipType,
         nic, ring, heth, ethif, tcpip

LEMMA TypeInit == Init => TypeOK
<1> SUFFICES ASSUME Init PROVE TypeOK
  OBVIOUS
<1>1. NicType    BY DescFacts, FrameAssumption DEF Init, NicType
<1>2. RingType   BY DEF Init, RingType
<1>3. HethType   BY DescFacts DEF Init, HethType
<1>4. SyncType   BY DEF Init, SyncType
<1>5. EthIfType  BY MsgFacts DEF Init, EthIfType
<1>6. PoolType   BY SizeAssumption DEF Init, PoolType
<1>7. TcpipType  BY SizeAssumption DEF Init, TcpipType
<1> QED BY <1>1, <1>2, <1>3, <1>4, <1>5, <1>6, <1>7 DEF TypeOK

LEMMA TypeNic == TypeOK /\ (Arrive \/ Dma) => TypeOK'
<1> SUFFICES ASSUME TypeOK, Arrive \/ Dma PROVE TypeOK'
  OBVIOUS
<1>1. CASE Arrive
  <2>1. sent + 1 \in Frame /\ sent + 1 \in 0..MaxFrames
    BY <1>1, FrameAssumption DEF TypeOK, NicType, Arrive, Frame
  <2>2. Append(fifo, sent + 1) \in Seq(Frame)
    BY <2>1, AppendProperties DEF TypeOK, NicType
  <2>3. NicType'
    BY <1>1, <2>1, <2>2 DEF TypeOK, Arrive, NicType
  <2> QED BY <1>1, <2>3, TypeStutter DEF TypeOK, Arrive, SyncType
<1>2. CASE DmaSegment
  <2> DEFINE new == [f |-> Head(fifo), s |-> seg + 1,
                     fs |-> Bit(seg = 0), ls |-> Bit(ClosesFrame)]
  <2>1. fifo \in Seq(Frame) /\ fifo # <<>> /\ seg \in Nat
    BY <1>2 DEF TypeOK, DmaSegment, DmaActive, NicType
  <2>2. Tail(fifo) \in Seq(Frame) /\ Head(fifo) \in Frame
    BY <2>1, HeadTailProperties
  <2>3. fifo' \in Seq(Frame) /\ seg' \in Nat /\ rs' \in {0, 1}
    <3>1. rs \in {0, 1}
      BY DEF TypeOK, SyncType
    <3>2. \/ seg' = 0 /\ fifo' = Tail(fifo) /\ rs' = 1
          \/ seg' = seg + 1 /\ fifo' = fifo /\ rs' = rs
      BY <1>2 DEF DmaSegment
    <3> QED BY <2>1, <2>2, <3>1, <3>2
  <2>4. NicType'
    BY <1>2, <2>3, DescFacts DEF TypeOK, DmaSegment, NicType
  <2>5. own' \in [Desc -> {"CPU", "DMA"}]
    BY <1>2 DEF TypeOK, DmaSegment, RingType
  <2>6. new \in [f : Nat, s : Nat, fs : {0, 1}, ls : {0, 1}]
    BY <2>1, <2>2 DEF Bit, Frame
  <2>7. buf' = [buf EXCEPT ![dmaPos] = new]
    BY <1>2 DEF DmaSegment
  <2>8. buf' \in [Desc -> [f : Nat, s : Nat, fs : {0, 1}, ls : {0, 1}]]
    <3> HIDE DEF new
    <3> QED BY <2>6, <2>7 DEF TypeOK, RingType
  <2>9. SyncType'
    BY <1>2, <2>3 DEF TypeOK, DmaSegment, SyncType
  <2> QED
    BY <1>2, <2>4, <2>5, <2>8, <2>9, TypeStutter DEF TypeOK, DmaSegment, RingType
<1>3. CASE DmaSuspend
  BY <1>3, TypeStutter DEF TypeOK, DmaSuspend, NicType, SyncType
<1> QED BY <1>1, <1>2, <1>3 DEF Dma

LEMMA TypeIsr == TypeOK /\ Isr => TypeOK'
  BY TypeStutter DEF TypeOK, Isr, IsrCallback, IsrClear, SyncType

LEMMA TypeEthIf == TypeOK /\ EthIf => TypeOK'
<1> SUFFICES ASSUME TypeOK, EthIf PROVE TypeOK'
  OBVIOUS
<1> USE TypeStutter DEF TypeOK, EGoto
<1>1. CASE EthIfWait        BY <1>1 DEF EthIfWait, EthIfType, SyncType
<1>2. CASE EthIfLockCore    BY <1>2 DEF EthIfLockCore, EthIfType, SyncType
<1>3. CASE GetReceivedFrame BY <1>3 DEF GetReceivedFrame, EthIfType, SyncType
<1>4. CASE ScanSegment
  BY <1>4, DescFacts DEF ScanSegment, EthIfType, HethType, SyncType
<1>5. CASE ScanLast
  BY <1>5, DescFacts DEF ScanLast, EthIfType, HethType, SyncType
<1>6. CASE ScanNothing      BY <1>6 DEF ScanNothing, EthIfType, SyncType
<1>7. CASE AllocPbuf
  <2>1. EthIfType'  BY <1>7, RxFrameType DEF AllocPbuf, EthIfType
  <2>2. PoolType'   BY <1>7 DEF AllocPbuf, PoolType
  <2> QED           BY <1>7, <2>1, <2>2 DEF AllocPbuf, SyncType
<1>8. CASE AllocFails
  <2>1. EthIfType'  BY <1>8 DEF AllocFails, EthIfType
  <2>2. PoolType'   BY <1>8 DEF AllocFails, PoolType
  <2> QED           BY <1>8, <2>1, <2>2 DEF AllocFails, SyncType
<1>9. CASE GiveBack
  <2>1. EthIfType'  BY <1>9 DEF GiveBack, EthIfType
  <2>2. RingType'   BY <1>9 DEF GiveBack, RingType
  <2> QED           BY <1>9, <2>1, <2>2 DEF GiveBack, SyncType
<1>10. CASE GiveBackDone
  BY <1>10 DEF GiveBackDone, EthIfType, HethType, SyncType
<1>11. CASE ResumeDma
  BY <1>11 DEF ResumeDma, EthIfType, NicType, SyncType
<1>12. CASE Input
  <2>1. EthIfType'  BY <1>12 DEF Input, EthIfType
  <2>2. PoolType'   BY <1>12 DEF Input, PoolType
  <2>3. inpktFree' \in Nat
    BY <1>12 DEF Input, TcpipType
  <2>4. TcpipType'  BY <1>12, <2>3 DEF Input, TcpipType
  <2> QED           BY <1>12, <2>1, <2>2, <2>4 DEF Input, SyncType
<1>13. CASE EthIfUnlockCore
  BY <1>13, MsgFacts DEF EthIfUnlockCore, EthIfType, SyncType
<1>14. CASE OoseqPosted
  <2>1. EthIfType'  BY <1>14 DEF OoseqPosted, EthIfType
  <2>2. mbox' \in Seq(Msg)
    BY <1>14, MsgFacts, AppendProperties DEF OoseqPosted, TryPost, TcpipType
  <2>3. TcpipType'  BY <1>14, <2>2 DEF OoseqPosted, TcpipType
  <2> QED           BY <1>14, <2>1, <2>3 DEF OoseqPosted, SyncType, PoolType
<1>15. CASE OoseqTimesOut
  BY <1>15 DEF OoseqTimesOut, EthIfType, PoolType, SyncType
<1>16. CASE InputPosted
  <2>1. EthIfType'  BY <1>16 DEF InputPosted, EthIfType
  <2>2. mbox' \in Seq(Msg)
    BY <1>16, MsgFacts, AppendProperties DEF InputPosted, TryPost, TcpipType, EthIfType
  <2>3. TcpipType'  BY <1>16, <2>2 DEF InputPosted, TcpipType
  <2> QED           BY <1>16, <2>1, <2>3 DEF InputPosted, SyncType, PoolType
<1>17. CASE InputTimesOut
  <2>1. EthIfType'  BY <1>17 DEF InputTimesOut, EthIfType
  <2>2. PoolType'   BY <1>17 DEF InputTimesOut, PoolType
  <2>3. TcpipType'  BY <1>17 DEF InputTimesOut, TcpipType
  <2> QED           BY <1>17, <2>1, <2>2, <2>3 DEF InputTimesOut, SyncType
<1> QED
  BY <1>1, <1>2, <1>3, <1>4, <1>5, <1>6, <1>7, <1>8, <1>9, <1>10, <1>11, <1>12,
     <1>13, <1>14, <1>15, <1>16, <1>17 DEF EthIf

LEMMA TypeTcpip == TypeOK /\ Tcpip => TypeOK'
<1> SUFFICES ASSUME TypeOK, Tcpip PROVE TypeOK'
  OBVIOUS
<1> USE TypeStutter DEF TypeOK, TGoto, TcpipType
<1>1. CASE TcpipTimeouts
  <2>1. PoolType' BY <1>1 DEF TcpipTimeouts, PoolType
  <2>2. reass' \in Nat BY <1>1 DEF TcpipTimeouts
  <2> QED BY <1>1, <2>1, <2>2 DEF TcpipTimeouts, SyncType
<1>2. CASE TcpipUnlockCore   BY <1>2 DEF TcpipUnlockCore, SyncType
<1>3. CASE TcpipFetch
  BY <1>3, HeadTailProperties DEF TcpipFetch, SyncType
<1>4. CASE TcpipFetchTimeout BY <1>4 DEF TcpipFetchTimeout, SyncType
<1>5. CASE TcpipLockCore     BY <1>5 DEF TcpipLockCore, SyncType
<1>6. CASE HandleInpkt
  <2>1. PoolType' BY <1>6 DEF HandleInpkt, PoolType
  <2>2. reass' \in Nat /\ inpktFree' \in Nat BY <1>6 DEF HandleInpkt
  <2>3. tmsg.p \in Seq(Nat \X Nat) /\ tmsg.p # <<>>
    BY <1>6 DEF HandleInpkt, Msg, NoMsg, OoseqMsg, Pbuf, NULL
  <2>4. tmsg.p[1] \in Nat \X Nat
    BY <2>3
  <2>5. got' \in Nat BY <1>6, <2>4 DEF HandleInpkt
  <2> QED BY <1>6, <2>1, <2>2, <2>5 DEF HandleInpkt, SyncType
<1>7. CASE HandleCallback    BY <1>7 DEF HandleCallback, PoolType, SyncType
<1>8. CASE TcpipTransmit     BY <1>8 DEF TcpipTransmit, SyncType
<1>9. CASE TcpipTransmitted  BY <1>9 DEF TcpipTransmitted, SyncType
<1> QED
  BY <1>1, <1>2, <1>3, <1>4, <1>5, <1>6, <1>7, <1>8, <1>9 DEF Tcpip

LEMMA TypeApp == TypeOK /\ (AppEnter \/ AppEffect \/ AppLeave) => TypeOK'
  BY TypeStutter DEF TypeOK, AppEnter, AppEffect, AppLeave, NicType, SyncType, HalCalls

(* The type invariant holds whatever the sizes of ring, mailbox and pool.    *)
THEOREM TypeCorrect == Spec => []TypeOK
<1>1. TypeOK /\ [Next]_vars => TypeOK'
  <2>1. TypeOK /\ UNCHANGED vars => TypeOK'
    BY TypeStutter DEF TypeOK, vars, SyncType
  <2> QED
    BY <2>1, TypeNic, TypeIsr, TypeEthIf, TypeTcpip, TypeApp DEF Next
<1> QED
  BY <1>1, TypeInit, PTL DEF Spec
-----------------------------------------------------------------------------
(* The HAL lock.  EthIf takes the core lock only when tcpip_thread is out of *)
(* HAL_ETH_TransmitFrame; only an application thread, which enters the HAL   *)
(* without the core lock, can be in its way.                                 *)

\* A thread holds the lwIP core lock exactly in its locked region.
CoreHeld ==
  /\ core = "tcpip" <=> tpc \in {"again", "handle", "tx"}
  /\ core = "ethif" <=> epc \notin {"wait", "lock"}

\* Who can have the HAL lock: EthIf while it scans, tcpip_thread while it
\* transmits, or an application thread.
HalLockHolder ==
  hlock = "locked" =>
    \/ epc = "scan"
    \/ tpc = "tx" /\ epc \in {"wait", "lock"}
    \/ app # "out"

HalInv == CoreHeld /\ HalLockHolder

LEMMA HalEthIf == TypeOK /\ HalInv /\ EthIf => HalInv'
<1> SUFFICES ASSUME TypeOK, HalInv, EthIf PROVE HalInv'
  OBVIOUS
<1> USE DEF HalInv, CoreHeld, HalLockHolder, EGoto, EthIfRuns, Sleeping, tcpip
<1>1. CASE EthIfWait        BY <1>1 DEF EthIfWait
<1>2. CASE EthIfLockCore    BY <1>2 DEF EthIfLockCore
<1>3. CASE GetReceivedFrame BY <1>3 DEF GetReceivedFrame
<1>4. CASE ScanSegment      BY <1>4 DEF ScanSegment
<1>5. CASE ScanLast         BY <1>5 DEF ScanLast
<1>6. CASE ScanNothing      BY <1>6 DEF ScanNothing
<1>7. CASE AllocPbuf        BY <1>7 DEF AllocPbuf
<1>8. CASE AllocFails       BY <1>8 DEF AllocFails
<1>9. CASE GiveBack         BY <1>9 DEF GiveBack
<1>10. CASE GiveBackDone    BY <1>10 DEF GiveBackDone
<1>11. CASE ResumeDma       BY <1>11 DEF ResumeDma
<1>12. CASE Input           BY <1>12 DEF Input
<1>13. CASE EthIfUnlockCore BY <1>13 DEF EthIfUnlockCore
<1>14. CASE OoseqPosted     BY <1>14 DEF OoseqPosted
<1>15. CASE OoseqTimesOut   BY <1>15 DEF OoseqTimesOut
<1>16. CASE InputPosted     BY <1>16 DEF InputPosted
<1>17. CASE InputTimesOut   BY <1>17 DEF InputTimesOut
<1> QED
  BY <1>1, <1>2, <1>3, <1>4, <1>5, <1>6, <1>7, <1>8, <1>9, <1>10, <1>11, <1>12,
     <1>13, <1>14, <1>15, <1>16, <1>17 DEF EthIf

LEMMA HalTcpip == TypeOK /\ HalInv /\ Tcpip => HalInv'
<1> SUFFICES ASSUME TypeOK, HalInv, Tcpip PROVE HalInv'
  OBVIOUS
<1> USE DEF HalInv, CoreHeld, HalLockHolder, TGoto, TcpipRuns, Sleeping, Posting, ethif
<1>1. CASE TcpipTimeouts     BY <1>1 DEF TcpipTimeouts
<1>2. CASE TcpipUnlockCore   BY <1>2 DEF TcpipUnlockCore
<1>3. CASE TcpipFetch        BY <1>3 DEF TcpipFetch
<1>4. CASE TcpipFetchTimeout BY <1>4 DEF TcpipFetchTimeout
<1>5. CASE TcpipLockCore     BY <1>5 DEF TcpipLockCore
<1>6. CASE HandleInpkt       BY <1>6 DEF HandleInpkt
<1>7. CASE HandleCallback    BY <1>7 DEF HandleCallback
<1>8. CASE TcpipTransmit     BY <1>8 DEF TcpipTransmit
<1>9. CASE TcpipTransmitted  BY <1>9 DEF TcpipTransmitted
<1> QED
  BY <1>1, <1>2, <1>3, <1>4, <1>5, <1>6, <1>7, <1>8, <1>9 DEF Tcpip

LEMMA HalRest ==
  TypeOK /\ HalInv /\ (Arrive \/ Dma \/ Isr \/ AppEnter \/ AppEffect \/ AppLeave)
    => HalInv'
<1> USE DEF HalInv, CoreHeld, HalLockHolder, ethif, tcpip
<1>1. HalInv /\ (Arrive \/ DmaSegment \/ DmaSuspend) => HalInv'
  BY DEF Arrive, DmaSegment, DmaSuspend
<1>2. HalInv /\ Isr => HalInv'
  BY DEF Isr, IsrCallback, IsrClear
<1>3. TypeOK /\ HalInv /\ (AppEnter \/ AppEffect \/ AppLeave) => HalInv'
  BY DEF AppEnter, AppEffect, AppLeave, AppRuns, Sleeping, HalCalls
<1> QED BY <1>1, <1>2, <1>3 DEF Dma

(* When HAL_ETH_GetReceivedFrame_IT returns HAL_BUSY to low_level_input an   *)
(* application thread is inside the HAL: tcpip_thread is never in the way.   *)
THEOREM OnlyAppBusy == Spec => []BusyOnlyByApp
<1>1. Init => HalInv
  BY DEF Init, HalInv, CoreHeld, HalLockHolder
<1>2. TypeOK /\ HalInv /\ [Next]_vars => HalInv'
  <2>1. HalInv /\ UNCHANGED vars => HalInv'
    BY DEF HalInv, CoreHeld, HalLockHolder, vars, ethif, tcpip
  <2> QED
    BY <2>1, HalEthIf, HalTcpip, HalRest DEF Next
<1>3. HalInv => BusyOnlyByApp
  BY DEF HalInv, HalLockHolder, BusyOnlyByApp
<1> QED
  BY <1>1, <1>2, <1>3, TypeCorrect, PTL DEF Spec
-----------------------------------------------------------------------------
(* Accounting of mailbox entries, INPKT messages and pool pbufs.             *)

LEMMA UpTo == ASSUME NEW n \in Nat PROVE IsFiniteSet(1..n) /\ Cardinality(1..n) = n
<1>1. IsFiniteSet(1..n) /\ Cardinality(1..n) = IF 1 > n THEN 0 ELSE n - 1 + 1
  BY FS_Interval
<1> QED BY <1>1

LEMMA FiniteUpTo == ASSUME NEW n \in Nat, NEW A \in SUBSET (1..n)
                    PROVE  IsFiniteSet(A) /\ Cardinality(A) \in Nat /\ Cardinality(A) <= n
<1>1. IsFiniteSet(1..n) /\ Cardinality(1..n) = n
  BY UpTo
<1>2. IsFiniteSet(A) /\ Cardinality(A) <= Cardinality(1..n)
  BY <1>1, FS_Subset
<1>3. Cardinality(A) \in Nat
  BY <1>2, FS_CardinalityType
<1> QED BY <1>1, <1>2, <1>3

LEMMA InpktsAppend ==
  ASSUME NEW s \in Seq(Msg), NEW m \in Msg
  PROVE  Inpkts(Append(s, m)) = Inpkts(s) + Bit(m.type = "INPKT")
<1> DEFINE A == {i \in DOMAIN s : s[i].type = "INPKT"}
           B == {i \in DOMAIN Append(s, m) : Append(s, m)[i].type = "INPKT"}
<1>1. A \subseteq 1..Len(s) /\ Len(s) \in Nat
  BY LenProperties
<1>2. IsFiniteSet(A) /\ Cardinality(A) \in Nat /\ Len(s) + 1 \notin A
  <2> HIDE DEF A
  <2> QED BY <1>1, FiniteUpTo
<1>3. B = IF m.type = "INPKT" THEN A \cup {Len(s) + 1} ELSE A
  BY AppendProperties, LenProperties
<1>4. Cardinality(B) = Cardinality(A) + Bit(m.type = "INPKT")
  <2> HIDE DEF A, B
  <2>1. Cardinality(A \cup {Len(s) + 1}) = Cardinality(A) + 1
    BY <1>2, FS_AddElement
  <2> QED BY <1>2, <1>3, <2>1 DEF Bit
<1> QED BY <1>4 DEF Inpkts

LEMMA InpktsTail ==
  ASSUME NEW s \in Seq(Msg), s # <<>>
  PROVE  Inpkts(s) = Inpkts(Tail(s)) + Bit(Head(s).type = "INPKT")
<1> DEFINE A == {i \in DOMAIN s : s[i].type = "INPKT"}
           B == {i \in DOMAIN Tail(s) : Tail(s)[i].type = "INPKT"}
           f == [i \in B |-> i + 1]
<1>1. Len(s) \in Nat \ {0} /\ DOMAIN s = 1..Len(s) /\ DOMAIN Tail(s) = 1..(Len(s) - 1)
  BY LenProperties, HeadTailProperties
<1>2. \A i \in DOMAIN Tail(s) : Tail(s)[i] = s[i + 1]
  BY <1>1, HeadTailProperties
<1>3. IsFiniteSet(A) /\ Cardinality(A) \in Nat /\ IsFiniteSet(B)
  <2>1. A \subseteq 1..Len(s) /\ B \subseteq 1..(Len(s) - 1) /\ Len(s) - 1 \in Nat
    BY <1>1
  <2> HIDE DEF A, B
  <2> QED BY <1>1, <2>1, FiniteUpTo
<1>4. f \in Bijection(B, A \ {1})
  <2>1. f \in [B -> A \ {1}]
    BY <1>1, <1>2
  <2>2. \A i, j \in B : f[i] = f[j] => i = j
    BY <1>1
  <2>3. \A a \in A \ {1} : \E i \in B : f[i] = a
    <3> SUFFICES ASSUME NEW a \in A \ {1} PROVE \E i \in B : f[i] = a
      OBVIOUS
    <3>1. a - 1 \in B /\ f[a - 1] = a
      BY <1>1, <1>2
    <3> QED BY <3>1
  <2> HIDE DEF A, B, f
  <2> QED BY <2>1, <2>2, <2>3 DEF Bijection, Injection, Surjection, IsInjective
<1>5. Cardinality(B) = Cardinality(A \ {1})
  <2> HIDE DEF A, B, f
  <2> QED BY <1>3, <1>4, FS_Bijection DEF ExistsBijection
<1>6. 1 \in A <=> Head(s).type = "INPKT"
  BY <1>1
<1>7. Cardinality(A) = Cardinality(A \ {1}) + Bit(1 \in A)
  <2> HIDE DEF A
  <2>1. Cardinality(A \ {1}) = IF 1 \in A THEN Cardinality(A) - 1 ELSE Cardinality(A)
    BY <1>3, FS_RemoveElement
  <2> QED BY <1>3, <2>1 DEF Bit
<1> QED
  <2> HIDE DEF A, B
  <2>1. Inpkts(s) = Cardinality(A) /\ Inpkts(Tail(s)) = Cardinality(B)
    BY DEF Inpkts, A, B
  <2> QED BY <1>5, <1>6, <1>7, <2>1

LEMMA InpktsType ==
  ASSUME NEW s \in Seq(Msg) PROVE Inpkts(s) \in Nat /\ Inpkts(s) <= Len(s)
<1> DEFINE A == {i \in DOMAIN s : s[i].type = "INPKT"}
<1>1. Len(s) \in Nat /\ A \subseteq 1..Len(s)
  BY LenProperties
<1>2. Cardinality(A) \in Nat /\ Cardinality(A) <= Len(s)
  <2> HIDE DEF A
  <2> QED BY <1>1, FiniteUpTo
<1> QED BY <1>2 DEF Inpkts

(* Neither the mailbox nor reassembly grows past its limit.                  *)
Bounded == Len(mbox) <= MboxSize /\ reass <= ReassMax

(* A message is in hand only between the fetch and its handling, p is NULL    *)
(* until a frame is copied, and a frame to copy has a segment.               *)
InHandOnly ==
  /\ tpc \in {"again", "fetch", "tx"} => tmsg = NoMsg
  /\ epc \in {"wait", "lock", "get", "scan", "alloc", "ooseq"} => p = NULL
  /\ epc = "alloc" => segCount > 0

Accounts ==
  InpktConserved /\ PoolConserved /\ OoseqQueuedOnce /\ Bounded /\ InHandOnly

(* The numbers that the accounts are made of.                                *)
LEMMA Numbers ==
  ASSUME TypeOK
  PROVE  /\ Inpkts(mbox) \in Nat /\ Len(mbox) \in Nat /\ Inpkts(mbox) <= Len(mbox)
         /\ poolFree \in Nat /\ reass \in Nat /\ inpktFree \in Nat /\ ooseq \in {0, 1}
         /\ MboxSize \in Nat /\ InpktNum \in Nat /\ PoolSize \in Nat /\ ReassMax \in Nat
         /\ EthIfOwns \in {0, 1} /\ PostsInpkt \in {0, 1} /\ PostsOoseq \in {0, 1}
         /\ Handling("INPKT") \in {0, 1} /\ Handling("CALLBACK") \in {0, 1}
<1>1. mbox \in Seq(Msg)
  BY DEF TypeOK, TcpipType
<1>2. /\ EthIfOwns \in {0, 1} /\ PostsInpkt \in {0, 1}
      /\ PostsOoseq \in {0, 1}
      /\ Handling("INPKT") \in {0, 1} /\ Handling("CALLBACK") \in {0, 1}
  BY DEF EthIfOwns, PostsInpkt, PostsOoseq, Handling, Bit
<1> QED
  BY <1>1, <1>2, InpktsType, LenProperties, SizeAssumption DEF TypeOK, TcpipType, PoolType

(* The bits that stand for the message in hand.                              *)
LEMMA HandlingFacts ==
  /\ tmsg = NoMsg => Handling("INPKT") = 0 /\ Handling("CALLBACK") = 0
  /\ tmsg.type = "INPKT" => Handling("INPKT") = 1 /\ Handling("CALLBACK") = 0
  /\ tmsg.type = "CALLBACK" => Handling("INPKT") = 0 /\ Handling("CALLBACK") = 1
  BY DEF Handling, Bit, NoMsg

(* Steps that neither move a message nor take or return a pbuf.              *)
LEMMA AccountStutter ==
  Accounts /\ UNCHANGED <<poolFree, ooseq, inpktFree, mbox, tmsg, reass, epc, p, tpc,
                          segCount>>
    => Accounts'
  BY DEF Accounts, InpktConserved, PoolConserved, OoseqQueuedOnce, Bounded,
         InHandOnly, EthIfOwns, PostsInpkt, PostsOoseq, Handling

(* What is posted to the mailbox, and what tcpip_thread takes from it.       *)
LEMMA Posted ==
  ASSUME TypeOK, NEW m \in Msg, TryPost(m)
  PROVE  /\ Inpkts(mbox') = Inpkts(mbox) + Bit(m.type = "INPKT")
         /\ Len(mbox') = Len(mbox) + 1 /\ Len(mbox') <= MboxSize
<1>1. mbox \in Seq(Msg) /\ mbox' = Append(mbox, m) /\ Len(mbox) < MboxSize
  BY SizeAssumption, LenProperties DEF TypeOK, TcpipType, TryPost, MboxFull
<1>2. Inpkts(mbox') = Inpkts(mbox) + Bit(m.type = "INPKT")
  BY <1>1, InpktsAppend
<1>3. Len(mbox') = Len(mbox) + 1
  BY <1>1, AppendProperties
<1> QED BY <1>1, <1>2, <1>3, LenProperties, SizeAssumption

LEMMA PostedOoseq ==
  ASSUME TypeOK, TryPost(OoseqMsg)
  PROVE  /\ Inpkts(mbox') = Inpkts(mbox) /\ Len(mbox') = Len(mbox) + 1
         /\ Len(mbox') <= MboxSize
<1>1. OoseqMsg \in Msg /\ OoseqMsg.type # "INPKT"
  BY MsgFacts DEF OoseqMsg
<1> HIDE DEF OoseqMsg
<1> QED BY <1>1, Posted, Numbers DEF Bit, TryPost

LEMMA PostedInpkt ==
  ASSUME TypeOK, p \in Pbuf, p # NULL, TryPost(InpktMsg(p))
  PROVE  /\ Inpkts(mbox') = Inpkts(mbox) + 1 /\ Len(mbox') = Len(mbox) + 1
         /\ Len(mbox') <= MboxSize
<1>1. InpktMsg(p) \in Msg /\ InpktMsg(p).type = "INPKT"
  BY MsgFacts DEF InpktMsg
<1> QED BY <1>1, Posted DEF Bit, TryPost

LEMMA Fetched ==
  ASSUME TypeOK, mbox # <<>>, mbox' = Tail(mbox)
  PROVE  /\ Head(mbox) \in Msg
         /\ Inpkts(mbox) = Inpkts(mbox') + Bit(Head(mbox).type = "INPKT")
         /\ Len(mbox') = Len(mbox) - 1
<1>1. mbox \in Seq(Msg)
  BY DEF TypeOK, TcpipType
<1> QED BY <1>1, InpktsTail, HeadTailProperties

LEMMA AccountEthIf == TypeOK /\ Accounts /\ EthIf => Accounts'
<1> SUFFICES ASSUME TypeOK, Accounts, EthIf PROVE Accounts'
  OBVIOUS
<1> USE Numbers
<1> USE DEF Accounts, InpktConserved, PoolConserved, OoseqQueuedOnce, Bounded,
            InHandOnly, EthIfOwns, PostsInpkt, PostsOoseq, Handling, EGoto, Bit, heth, tcpip
<1>1. CASE EthIfWait        BY <1>1 DEF EthIfWait
<1>2. CASE EthIfLockCore    BY <1>2 DEF EthIfLockCore
<1>3. CASE GetReceivedFrame BY <1>3 DEF GetReceivedFrame
<1>4. CASE ScanSegment      BY <1>4 DEF ScanSegment
<1>5. CASE ScanLast
  <2>1. segCount' > 0
    BY <1>5 DEF ScanLast, TypeOK, HethType
  <2> QED BY <1>5, <2>1 DEF ScanLast
<1>6. CASE ScanNothing      BY <1>6 DEF ScanNothing
<1>7. CASE AllocPbuf
  <2>1. p' # NULL
    <3>1. segCount \in Nat \ {0} /\ p' = RxFrame
      BY <1>7 DEF AllocPbuf, TypeOK, HethType
    <3>2. 1 \in DOMAIN RxFrame
      BY <3>1 DEF RxFrame
    <3> QED BY <3>1, <3>2 DEF NULL
  <2> QED BY <1>7, <2>1 DEF AllocPbuf
<1>8. CASE AllocFails       BY <1>8 DEF AllocFails
<1>9. CASE GiveBack         BY <1>9 DEF GiveBack
<1>10. CASE GiveBackDone    BY <1>10 DEF GiveBackDone
<1>11. CASE ResumeDma       BY <1>11 DEF ResumeDma
<1>12. CASE Input
  <2>1. p # NULL
    BY <1>12 DEF Input, TypeOK, EthIfType
  <2>2. CASE inpktFree > 0
    <3>1. epc = "input" /\ epc' = "post" /\ inpktFree' = inpktFree - 1 /\ UNCHANGED <<mbox, poolFree, tmsg, reass, ooseq, p, tpc>>
      BY <1>12, <2>2 DEF Input
    <3>2. PostsInpkt = 0 /\ PostsInpkt' = 1 /\ EthIfOwns = 1 /\ EthIfOwns' = 1
          /\ PostsOoseq = 0 /\ PostsOoseq' = 0
      BY <2>1, <3>1
    <3> QED BY <3>1, <3>2
  <2>3. CASE ~(inpktFree > 0)
    BY <1>12, <2>1, <2>3 DEF Input
  <2> QED BY <2>2, <2>3
<1>13. CASE EthIfUnlockCore BY <1>13 DEF EthIfUnlockCore
<1>14. CASE OoseqPosted
  <2>1. /\ Inpkts(mbox') = Inpkts(mbox) /\ Len(mbox') = Len(mbox) + 1
        /\ Len(mbox') <= MboxSize
    BY <1>14, PostedOoseq DEF OoseqPosted
  <2> QED BY <1>14, <2>1 DEF OoseqPosted
<1>15. CASE OoseqTimesOut
  <2>1. /\ PostsOoseq = 1 /\ PostsOoseq' = 0 /\ PostsInpkt = 0 /\ PostsInpkt' = 0
        /\ EthIfOwns = 0 /\ EthIfOwns' = 0
        /\ mbox' = mbox /\ ooseq' = 0 /\ inpktFree' = inpktFree
        /\ poolFree' = poolFree /\ reass' = reass
        /\ Handling("INPKT")' = Handling("INPKT")
        /\ Handling("CALLBACK")' = Handling("CALLBACK")
    BY <1>15 DEF OoseqTimesOut
  <2>2. Bounded' /\ InHandOnly' BY <1>15 DEF OoseqTimesOut
  <2>3. InpktConserved' /\ PoolConserved' /\ OoseqQueuedOnce'
    <3> HIDE DEF EthIfOwns, PostsInpkt, PostsOoseq, Handling
    <3>1. InpktConserved' BY <2>1
    <3>2. PoolConserved' BY <2>1
    <3>3. PostsOoseq + Len(mbox) - Inpkts(mbox) + Handling("CALLBACK") = 1
      <4>1. PostsOoseq + Len(mbox) - Inpkts(mbox) + Handling("CALLBACK") = ooseq
        OBVIOUS
      <4> QED BY <2>1, <4>1
    <3>4. OoseqQueuedOnce' BY <2>1, <3>3
    <3> QED BY <3>1, <3>2, <3>4
  <2> QED BY <2>2, <2>3
<1>16. CASE InputPosted
  <2>1. p # NULL /\ p \in Pbuf
    BY <1>16 DEF InputPosted, TypeOK, EthIfType
  <2>2. /\ Inpkts(mbox') = Inpkts(mbox) + 1 /\ Len(mbox') = Len(mbox) + 1
        /\ Len(mbox') <= MboxSize
    BY <1>16, <2>1, PostedInpkt DEF InputPosted
  <2>3. /\ EthIfOwns = 1 /\ EthIfOwns' = 0 /\ PostsInpkt = 1 /\ PostsInpkt' = 0
        /\ PostsOoseq = 0 /\ PostsOoseq' = 0
        /\ UNCHANGED <<Handling("INPKT"), Handling("CALLBACK"), inpktFree, ooseq>>
    BY <1>16, <2>1 DEF InputPosted
  <2>4. InpktConserved' /\ OoseqQueuedOnce'
    <3> HIDE DEF PostsInpkt, PostsOoseq, Handling
    <3>1. InpktConserved' BY <2>2, <2>3
    <3>2. OoseqQueuedOnce' BY <2>2, <2>3
    <3> QED BY <3>1, <3>2
  <2>5. PoolConserved'
    <3> HIDE DEF EthIfOwns, PostsInpkt, PostsOoseq, Handling
    <3> QED BY <1>16, <2>2, <2>3 DEF InputPosted
  <2>6. Bounded' /\ InHandOnly' BY <1>16, <2>2 DEF InputPosted
  <2> QED BY <2>4, <2>5, <2>6
<1>17. CASE InputTimesOut
  <2>1. p # NULL
    BY <1>17 DEF InputTimesOut, TypeOK, EthIfType
  <2>2. /\ EthIfOwns = 1 /\ EthIfOwns' = 0 /\ PostsInpkt = 1 /\ PostsInpkt' = 0
        /\ PostsOoseq = 0 /\ PostsOoseq' = 0
        /\ inpktFree' = inpktFree + 1 /\ poolFree' = poolFree + 1
        /\ UNCHANGED <<Handling("INPKT"), Handling("CALLBACK"), mbox, ooseq, reass>>
    BY <1>17, <2>1 DEF InputTimesOut
  <2>3. Bounded' /\ InHandOnly' BY <1>17 DEF InputTimesOut
  <2>4. InpktConserved' /\ PoolConserved' /\ OoseqQueuedOnce'
    <3> HIDE DEF EthIfOwns, PostsInpkt, PostsOoseq, Handling
    <3>1. InpktConserved' BY <2>2
    <3>2. PoolConserved' BY <2>2
    <3>3. OoseqQueuedOnce' BY <2>2
    <3> QED BY <3>1, <3>2, <3>3
  <2> QED BY <2>3, <2>4
<1> QED
  BY <1>1, <1>2, <1>3, <1>4, <1>5, <1>6, <1>7, <1>8, <1>9, <1>10, <1>11, <1>12,
     <1>13, <1>14, <1>15, <1>16, <1>17 DEF EthIf

LEMMA AccountTimeouts == TypeOK /\ Accounts /\ TcpipTimeouts => Accounts'
<1> SUFFICES ASSUME TypeOK, Accounts, TcpipTimeouts PROVE Accounts'
  OBVIOUS
<1>1. PICK h \in 0..(reass - 1) : reass' = h /\ poolFree' = poolFree + (reass - h)
  BY DEF TcpipTimeouts
<1>2. UNCHANGED <<PostsInpkt, PostsOoseq, EthIfOwns,
                  Handling("INPKT"), Handling("CALLBACK"), mbox,
                  inpktFree, ooseq>>
  BY DEF TcpipTimeouts, ethif, EthIfOwns, PostsInpkt, PostsOoseq, Handling
<1>3. PoolConserved'
  <2>1. PoolConserved BY DEF Accounts
  <2>2. /\ poolFree \in Nat /\ reass \in Nat /\ Inpkts(mbox) \in Nat
        /\ EthIfOwns \in {0, 1} /\ Handling("INPKT") \in {0, 1} /\ PoolSize \in Nat
    BY Numbers
  <2> QED BY <1>1, <1>2, <2>1, <2>2 DEF PoolConserved
<1>4. InpktConserved' /\ OoseqQueuedOnce'
  BY <1>2 DEF Accounts, InpktConserved, OoseqQueuedOnce
<1>5. Bounded'
  BY <1>1, <1>2, Numbers DEF Accounts, Bounded
<1>6. InHandOnly'
  BY DEF TcpipTimeouts, TGoto, heth, ethif, Accounts, InHandOnly
<1> QED BY <1>3, <1>4, <1>5, <1>6 DEF Accounts

LEMMA AccountFetch == TypeOK /\ Accounts /\ TcpipFetch => Accounts'
<1> SUFFICES ASSUME TypeOK, Accounts, TcpipFetch PROVE Accounts'
  OBVIOUS
<1> DEFINE m == Head(mbox)
<1>1. mbox # <<>> /\ mbox' = Tail(mbox) /\ tmsg = NoMsg /\ tmsg' = m
  BY DEF TcpipFetch, TGoto, Accounts, InHandOnly
<1>2. m \in Msg /\ Inpkts(mbox) = Inpkts(mbox') + Bit(m.type = "INPKT")
      /\ Len(mbox') = Len(mbox) - 1
  BY <1>1, Fetched
<1>3. Inpkts(mbox') \in Nat
  <2>1. mbox' \in Seq(Msg)
    BY <1>1, HeadTailProperties DEF TypeOK, TcpipType
  <2> QED BY <2>1, InpktsType
<1>4. UNCHANGED <<PostsInpkt, PostsOoseq, EthIfOwns, poolFree, reass, inpktFree, ooseq>>
  BY DEF TcpipFetch, ethif, EthIfOwns, PostsInpkt, PostsOoseq
<1>5. /\ Handling("INPKT") = 0 /\ Handling("CALLBACK") = 0
      /\ Handling("INPKT")' = Bit(m.type = "INPKT")
      /\ Handling("CALLBACK")' = 1 - Bit(m.type = "INPKT")
  <2>1. m.type \in {"INPKT", "CALLBACK"}
    BY <1>2 DEF Msg, OoseqMsg
  <2> QED BY <1>1, <2>1, HandlingFacts DEF Handling, Bit
<1>6. Bit(m.type = "INPKT") \in {0, 1}
  BY DEF Bit
<1> HIDE DEF m
<1> DEFINE b == Bit(m.type = "INPKT")
<1>num. /\ b \in {0, 1} /\ Inpkts(mbox) = Inpkts(mbox') + b /\ Handling("INPKT")' = b
      /\ Handling("CALLBACK")' = 1 - b
      /\ poolFree \in Nat /\ reass \in Nat /\ inpktFree \in Nat /\ EthIfOwns \in {0, 1}
      /\ Len(mbox) \in Nat /\ ooseq \in {0, 1}
      /\ PostsInpkt \in {0, 1} /\ PostsOoseq \in {0, 1}
  BY <1>2, <1>5, <1>6, Numbers
<1> HIDE DEF b
<1>7. PoolConserved'
  <2>1. PoolConserved BY DEF Accounts
  <2> QED BY <1>num, <1>2, <1>3, <1>4, <1>5, <2>1 DEF PoolConserved
<1>8. InpktConserved'
  <2>1. InpktConserved BY DEF Accounts
  <2> QED BY <1>num, <1>2, <1>3, <1>4, <1>5, <2>1 DEF InpktConserved
<1>9. OoseqQueuedOnce'
  <2>1. PostsOoseq + Len(mbox) - Inpkts(mbox) + 0 = ooseq
    BY <1>5 DEF Accounts, OoseqQueuedOnce
  <2>2. PostsOoseq + (Len(mbox) - 1) - Inpkts(mbox') + (1 - b) = ooseq
    <3>1. /\ Inpkts(mbox) = Inpkts(mbox') + b /\ PostsOoseq \in Int
          /\ Len(mbox) \in Int /\ Inpkts(mbox') \in Int /\ b \in Int
      BY <1>num, <1>3
    <3>2. PostsOoseq + Len(mbox) - (Inpkts(mbox') + b) = ooseq
      BY <2>1, <3>1
    <3> QED BY SMTT(40), <3>1, <3>2
  <2>3. /\ PostsOoseq' = PostsOoseq /\ Len(mbox') = Len(mbox) - 1
        /\ Handling("CALLBACK")' = 1 - b /\ ooseq' = ooseq
    BY <1>num, <1>2, <1>4
  <2> QED BY <2>2, <2>3 DEF OoseqQueuedOnce
<1>10. Bounded'
  <2>1. Len(mbox) \in Nat /\ MboxSize \in Nat /\ Len(mbox) <= MboxSize /\ reass <= ReassMax
    BY Numbers DEF Accounts, Bounded
  <2> QED BY <1>2, <1>4, <2>1 DEF Bounded
<1>11. InHandOnly'
  BY DEF TcpipFetch, TGoto, heth, ethif, Accounts, InHandOnly
<1> QED BY <1>7, <1>8, <1>9, <1>10, <1>11 DEF Accounts

LEMMA AccountInpkt == TypeOK /\ Accounts /\ HandleInpkt => Accounts'
<1> SUFFICES ASSUME TypeOK, Accounts, HandleInpkt PROVE Accounts'
  OBVIOUS
<1>1. PICK h \in 0..ReassMax :
        h <= reass + 1 /\ reass' = h /\ poolFree' = poolFree + (reass + 1 - h)
  BY DEF HandleInpkt
<1>2. /\ Handling("INPKT") = 1 /\ Handling("INPKT")' = 0
      /\ UNCHANGED <<PostsInpkt, PostsOoseq, Handling("CALLBACK"), EthIfOwns, mbox, ooseq>>
      /\ inpktFree' = inpktFree + 1
  BY HandlingFacts DEF HandleInpkt, ethif, EthIfOwns, PostsInpkt, PostsOoseq, Handling, Bit, NoMsg
<1>3. PoolConserved'
  <2>1. PoolConserved BY DEF Accounts
  <2>2. /\ poolFree \in Nat /\ reass \in Nat /\ Inpkts(mbox) \in Nat
        /\ EthIfOwns \in {0, 1} /\ PoolSize \in Nat
    BY Numbers
  <2>3. reass' \in Nat /\ poolFree' + reass' = poolFree + reass + 1
    BY <1>1, <2>2
  <2> QED BY <1>1, <1>2, <2>1, <2>2, <2>3 DEF PoolConserved
<1>4. InpktConserved' /\ OoseqQueuedOnce'
  <2>1. OoseqQueuedOnce /\ inpktFree + PostsInpkt + Inpkts(mbox) + 1 = InpktNum
    BY <1>2 DEF Accounts, InpktConserved
  <2>2. inpktFree \in Nat /\ PostsInpkt \in {0, 1} /\ Inpkts(mbox) \in Nat
    BY Numbers
  <2>3. (inpktFree + 1) + PostsInpkt + Inpkts(mbox) + 0 = InpktNum
    BY <2>1, <2>2
  <2>4. InpktConserved' BY <1>2, <2>3 DEF InpktConserved
  <2>5. OoseqQueuedOnce' BY <1>2, <2>1 DEF OoseqQueuedOnce
  <2> QED BY <2>4, <2>5
<1>5. Bounded'
  BY <1>1, <1>2, Numbers DEF Accounts, Bounded
<1>6. InHandOnly'
  BY DEF HandleInpkt, TGoto, heth, ethif, Accounts, InHandOnly
<1> QED BY <1>3, <1>4, <1>5, <1>6 DEF Accounts

LEMMA AccountCallback == TypeOK /\ Accounts /\ HandleCallback => Accounts'
<1> SUFFICES ASSUME TypeOK, Accounts, HandleCallback PROVE Accounts'
  OBVIOUS
<1>1. /\ Handling("CALLBACK") = 1 /\ Handling("CALLBACK")' = 0
      /\ UNCHANGED <<PostsInpkt, PostsOoseq, Handling("INPKT"), EthIfOwns, mbox, inpktFree, poolFree, reass>>
      /\ ooseq' = 0
  BY HandlingFacts DEF HandleCallback, ethif, EthIfOwns, PostsInpkt, PostsOoseq, Handling, Bit, NoMsg
<1>2. OoseqQueuedOnce'
  <2>1. OoseqQueuedOnce BY DEF Accounts
  <2>2. /\ Len(mbox) \in Nat /\ Inpkts(mbox) \in Nat /\ Inpkts(mbox) <= Len(mbox)
        /\ ooseq \in {0, 1} /\ PostsOoseq \in {0, 1}
    BY Numbers
  <2>3. Len(mbox') = Len(mbox) /\ Inpkts(mbox') = Inpkts(mbox)
    BY <1>1
  <2> QED BY <1>1, <2>1, <2>2, <2>3 DEF OoseqQueuedOnce
<1>3. InpktConserved' /\ PoolConserved' /\ Bounded'
  BY <1>1 DEF Accounts, InpktConserved, PoolConserved, Bounded
<1>4. InHandOnly'
  BY DEF HandleCallback, TGoto, heth, ethif, Accounts, InHandOnly
<1> QED BY <1>2, <1>3, <1>4 DEF Accounts

LEMMA AccountTcpip == TypeOK /\ Accounts /\ Tcpip => Accounts'
<1> SUFFICES ASSUME TypeOK, Accounts, Tcpip PROVE Accounts'
  OBVIOUS
<1>1. CASE TcpipUnlockCore \/ TcpipFetchTimeout \/ TcpipLockCore
           \/ TcpipTransmit \/ TcpipTransmitted
  <2>1. UNCHANGED <<PostsInpkt, PostsOoseq, EthIfOwns, Handling("INPKT"), Handling("CALLBACK"), mbox,
                    inpktFree, ooseq, poolFree, reass>>
    BY <1>1 DEF TcpipUnlockCore, TcpipFetchTimeout, TcpipLockCore, TcpipTransmit,
                TcpipTransmitted, ethif, EthIfOwns, PostsInpkt, PostsOoseq, Handling
  <2>2. InpktConserved' /\ PoolConserved' /\ OoseqQueuedOnce' /\ Bounded'
    BY <2>1 DEF Accounts, InpktConserved, PoolConserved, OoseqQueuedOnce, Bounded
  <2>3. InHandOnly'
    BY <1>1 DEF TcpipUnlockCore, TcpipFetchTimeout, TcpipLockCore, TcpipTransmit,
                TcpipTransmitted, TGoto, heth, ethif, Accounts, InHandOnly
  <2> QED BY <2>2, <2>3 DEF Accounts
<1> QED
  BY <1>1, AccountTimeouts, AccountFetch, AccountInpkt, AccountCallback DEF Tcpip

LEMMA AccountInit == Init => Accounts
<1> SUFFICES ASSUME Init PROVE Accounts
  OBVIOUS
<1>1. Inpkts(<<>>) = 0
  <2>1. {i \in DOMAIN <<>> : <<>>[i].type = "INPKT"} = {}
    OBVIOUS
  <2> QED BY <2>1, FS_EmptySet DEF Inpkts
<1> QED
  BY <1>1, SizeAssumption
  DEF Init, Accounts, InpktConserved, PoolConserved, OoseqQueuedOnce, Bounded,
      InHandOnly, EthIfOwns, PostsInpkt, PostsOoseq, Handling, Bit, NoMsg, NULL

LEMMA AccountsHold == Spec => []Accounts
<1>1. TypeOK /\ Accounts /\ [Next]_vars => Accounts'
  <2>1. Accounts /\ (Arrive \/ Dma \/ Isr \/ AppEnter \/ AppEffect \/ AppLeave)
          => Accounts'
    BY AccountStutter
    DEF Arrive, Dma, DmaSegment, DmaSuspend, Isr, IsrCallback, IsrClear,
        AppEnter, AppEffect, AppLeave, heth, ethif, tcpip
  <2>2. Accounts /\ UNCHANGED vars => Accounts'
    BY AccountStutter DEF vars, heth, ethif, tcpip
  <2> QED BY <2>1, <2>2, AccountEthIf, AccountTcpip DEF Next
<1> QED
  BY <1>1, AccountInit, TypeCorrect, PTL DEF Spec

(* Every INPKT message is free, being posted, in the mailbox or in hand, and *)
(* every pbuf of the pool has one owner: no path of the code leaks one or    *)
(* frees one twice.  pbuf_free_ooseq_pending is set exactly while its        *)
(* callback is under way.                                                    *)
THEOREM NoLeak == Spec => []NothingLeaked
<1>1. Accounts => NothingLeaked
  BY DEF Accounts, NothingLeaked
<1> QED BY <1>1, AccountsHold, PTL

(* tcpip_input never fails for want of an INPKT message: two more than the   *)
(* mailbox holds are enough, one in the thread's hand and one being posted.  *)
THEOREM InpktEnough == Spec => []InpktSuffices
<1>1. TypeOK /\ Accounts => InpktSuffices
  <2> SUFFICES ASSUME TypeOK, Accounts, InpktNum >= MboxSize + 2, epc = "input"
               PROVE  inpktFree > 0
    BY DEF InpktSuffices
  <2>1. /\ inpktFree + Inpkts(mbox) + Handling("INPKT") = InpktNum
        /\ Len(mbox) <= MboxSize
    BY Numbers DEF Accounts, InpktConserved, Bounded, PostsInpkt, Bit
  <2> QED BY <2>1, Numbers
<1> QED BY <1>1, TypeCorrect, AccountsHold, PTL

(* With a pool two pbufs larger than mailbox and reassembly together the     *)
(* input loop never ends for want of a pbuf.                                 *)
THEOREM PoolEnough == Spec => []PoolSuffices
<1>1. Init => PoolSuffices
  BY DEF Init, PoolSuffices
<1>2. TypeOK /\ Accounts /\ AllocFails => ~(PoolSize >= MboxSize + ReassMax + 2)
  <2> SUFFICES ASSUME TypeOK, Accounts, AllocFails
               PROVE  PoolSize < MboxSize + ReassMax + 2
    BY SizeAssumption
  <2>1. EthIfOwns = 0 /\ poolFree = 0
    BY DEF AllocFails, EGoto, EthIfOwns, Bit
  <2>2. /\ poolFree + EthIfOwns + Inpkts(mbox) + Handling("INPKT") + reass = PoolSize
        /\ Len(mbox) <= MboxSize /\ reass <= ReassMax
    BY DEF Accounts, PoolConserved, Bounded
  <2> QED BY <2>1, <2>2, Numbers
<1>3. TypeOK /\ Accounts /\ PoolSuffices /\ [Next]_vars => PoolSuffices'
  <2>1. CASE AllocFails
    BY <1>2, <2>1 DEF PoolSuffices
  <2>2. PoolSuffices /\ (Arrive \/ Dma \/ Isr \/ AppEnter \/ AppEffect \/ AppLeave
                           \/ UNCHANGED vars) => PoolSuffices'
    BY DEF PoolSuffices, Arrive, Dma, DmaSegment, DmaSuspend, Isr, IsrCallback,
           IsrClear, AppEnter, AppEffect, AppLeave, vars, ethif
  <2>3. PoolSuffices /\ Tcpip => PoolSuffices'
    BY DEF PoolSuffices, Tcpip, TcpipTimeouts, TcpipUnlockCore, TcpipFetch,
           TcpipFetchTimeout, TcpipLockCore, HandleInpkt, HandleCallback,
           TcpipTransmit, TcpipTransmitted, ethif
  <2>4. PoolSuffices /\ EthIf /\ ~AllocFails => PoolSuffices'
    BY DEF PoolSuffices, EthIf, EthIfWait, EthIfLockCore, GetReceivedFrame,
           ScanSegment, ScanLast, ScanNothing, AllocPbuf, GiveBack, GiveBackDone,
           ResumeDma, Input, EthIfUnlockCore, OoseqPosted, OoseqTimesOut,
           InputPosted, InputTimesOut
  <2> QED BY <2>1, <2>2, <2>3, <2>4 DEF Next
<1> QED BY <1>1, <1>3, TypeCorrect, AccountsHold, PTL DEF Spec

-----------------------------------------------------------------------------
(* The receive ring: what the descriptors hold that the CPU owns, which of  *)
(* them low_level_input copies and gives back, that no wakeup is lost, and  *)
(* that the path is a FIFO channel.                                         *)

(* The ring is an endless tape of positions: position i is written to the   *)
(* descriptor Index(i).                                                      *)
Index(i) == i % RxBufNb
At(i) == buf[Index(i)]

LEMMA IndexType == \A i \in Nat : Index(i) \in Desc
  BY RxBufNbAssumption DEF Index, Desc

LEMMA Product ==
  ASSUME NEW n \in Nat \ {0}, NEW k \in Int, k >= 1
  PROVE  n * k >= n
<1>1. n * (k - 1) >= 0 /\ n * k = n * (k - 1) + n
  OBVIOUS
<1> QED BY <1>1

LEMMA SameRemainder ==
  ASSUME NEW a \in Desc, NEW b \in Desc, NEW q \in Int, NEW r \in Int,
         RxBufNb * q + a = RxBufNb * r + b
  PROVE  a = b
<1>1. RxBufNb * (q - r) = b - a /\ RxBufNb * (r - q) = a - b
  BY RxBufNbAssumption DEF Desc
<1>2. q - r < 1 /\ r - q < 1
  BY <1>1, Product, RxBufNbAssumption DEF Desc
<1> QED BY <1>1, <1>2, RxBufNbAssumption DEF Desc

LEMMA IndexQuotient == \A i \in Nat : \E q \in Int : i = RxBufNb * q + Index(i)
<1> SUFFICES ASSUME NEW i \in Nat PROVE \E q \in Int : i = RxBufNb * q + Index(i)
  OBVIOUS
<1> DEFINE q == i \div RxBufNb
<1>1. i = RxBufNb * q + Index(i) /\ q \in Int
  BY RxBufNbAssumption DEF Index
<1> QED BY <1>1

LEMMA IndexIs ==
  ASSUME NEW i \in Nat, NEW q \in Int, NEW d \in Desc, i = RxBufNb * q + d
  PROVE  Index(i) = d
<1>1. PICK r \in Int : i = RxBufNb * r + Index(i)
  BY IndexQuotient
<1> QED BY <1>1, IndexType, SameRemainder

LEMMA IndexNth == \A i, k \in Nat : NthDesc(Index(i), k) = Index(i + k)
<1> SUFFICES ASSUME NEW i \in Nat, NEW k \in Nat PROVE NthDesc(Index(i), k) = Index(i + k)
  OBVIOUS
<1> DEFINE d == Index(Index(i) + k)
<1>0. Index(i) \in Desc /\ Index(i) + k \in Nat
  BY IndexType DEF Desc
<1>1. PICK q \in Int : i = RxBufNb * q + Index(i)
  BY IndexQuotient
<1>2. d \in Desc
  BY <1>0, IndexType
<1>3. PICK r \in Int : Index(i) + k = RxBufNb * r + d
  BY <1>0, IndexQuotient
<1> HIDE DEF d
<1>4. i + k = RxBufNb * (q + r) + d
  BY <1>0, <1>1, <1>2, <1>3, RxBufNbAssumption DEF Desc
<1>5. Index(i + k) = d
  BY <1>1, <1>2, <1>3, <1>4, IndexIs
<1> QED BY <1>5 DEF NthDesc, Index, d

LEMMA IndexNext == \A i \in Nat : NextDesc(Index(i)) = Index(i + 1)
<1> SUFFICES ASSUME NEW i \in Nat PROVE NextDesc(Index(i)) = Index(i + 1)
  OBVIOUS
<1>1. Index(i) \in Desc
  BY IndexType
<1>2. NextDesc(Index(i)) = NthDesc(Index(i), 1)
  <2> HIDE DEF Index
  <2>1. CASE Index(i) = RxBufNb - 1
    BY <2>1, RxBufNbAssumption DEF NextDesc, NthDesc
  <2>2. CASE Index(i) # RxBufNb - 1
    BY <1>1, <2>2, RxBufNbAssumption DEF NextDesc, NthDesc, Desc
  <2> QED BY <2>1, <2>2
<1> QED BY <1>2, IndexNth

LEMMA IndexDiffers == \A i, j \in Nat : i < j /\ j < i + RxBufNb => Index(i) # Index(j)
<1> SUFFICES ASSUME NEW i \in Nat, NEW j \in Nat, i < j, j < i + RxBufNb,
                    Index(i) = Index(j)
             PROVE  FALSE
  OBVIOUS
<1>0. PICK q \in Int : i = RxBufNb * q + Index(i)
  BY IndexQuotient
<1>1. PICK r \in Int : j = RxBufNb * r + Index(i)
  BY IndexQuotient
<1>2. j - i = RxBufNb * (r - q)
  <2> DEFINE d == Index(i)
  <2>1. d \in Int /\ i = RxBufNb * q + d /\ j = RxBufNb * r + d
    BY IndexType, <1>0, <1>1 DEF Desc
  <2> HIDE DEF d
  <2> QED BY <2>1, RxBufNbAssumption
<1>3. r - q >= 1
  <2>1. r - q # 0 BY <1>2, RxBufNbAssumption
  <2>2. ~(q - r >= 1)
    <3>1. RxBufNb * (q - r) = i - j
      BY <1>2, RxBufNbAssumption
    <3> QED BY <1>1, <3>1, Product, RxBufNbAssumption
  <2> QED BY <1>1, <2>1, <2>2
<1> QED BY <1>1, <1>2, <1>3, Product, RxBufNbAssumption

LEMMA IndexCovers == \A g \in Nat, d \in Desc : \E i \in g..(g + RxBufNb - 1) : Index(i) = d
<1> SUFFICES ASSUME NEW g \in Nat, NEW d \in Desc PROVE \E i \in g..(g + RxBufNb - 1) : Index(i) = d
  OBVIOUS
<1> DEFINE k == IF d >= Index(g) THEN d - Index(g) ELSE d - Index(g) + RxBufNb
<1>1. Index(g) \in Desc BY IndexType
<1>2. k \in 0..(RxBufNb - 1) /\ k \in Nat
    BY <1>1, RxBufNbAssumption DEF Desc
<1>3. NthDesc(Index(g), k) = d
  <2>1. CASE d >= Index(g)
    <3>1. Index(g) + k = d
      BY <1>1, <2>1 DEF Desc
    <3>2. d % RxBufNb = d
      <4>1. d = RxBufNb * 0 + d /\ d \in Nat
        BY RxBufNbAssumption DEF Desc
      <4> QED BY <4>1, IndexIs DEF Index
    <3> QED BY <3>1, <3>2 DEF NthDesc
  <2>2. CASE d < Index(g)
    <3>1. Index(g) + k = d + RxBufNb
      BY <1>1, <2>2, RxBufNbAssumption DEF Desc
    <3>2. (d + RxBufNb) % RxBufNb = d
      <4>1. d + RxBufNb = RxBufNb * 1 + d /\ d + RxBufNb \in Nat
        BY RxBufNbAssumption DEF Desc
      <4>2. Index(d + RxBufNb) = d
        BY <4>1, IndexIs
      <4> QED BY <4>2 DEF Index
    <3> QED BY <3>1, <3>2 DEF NthDesc
  <2> QED BY <1>1, <2>1, <2>2 DEF Desc
<1> HIDE DEF k
<1>4. Index(g + k) = d
  BY <1>2, <1>3, IndexNth
<1>5. g + k \in g..(g + RxBufNb - 1)
  BY <1>2, RxBufNbAssumption
<1> QED BY <1>4, <1>5
-----------------------------------------------------------------------------
(* The inductive invariant of the ring.  Three positions describe it: g, the *)
(* oldest segment not given back; r, the next one to scan (rxDesc); w, the   *)
(* next one that the DMA fills (dmaPos).                                     *)

\* Descriptors of the frame in hand that are back with the DMA.
Given == IF epc = "give" THEN cnt ELSE 0
FrameInHand == epc \in {"alloc", "ooseq", "give"}

\* The CPU owns one arc of the ring, from g up to w.
Arc(g, r, w) ==
  /\ g <= r /\ r <= w /\ w <= g + RxBufNb
  /\ rxDesc = Index(r) /\ dmaPos = Index(w)
  /\ \A i \in g..(g + RxBufNb - 1) : own[Index(i)] = IF i < w THEN "CPU" ELSE "DMA"

\* FSRxDesc and SegCount describe the scanned part of the arc.
Run(g, r) ==
  /\ Given <= segCount /\ segCount <= r /\ r - g = segCount - Given
  /\ segCount > 0 => fsRx = Index(r - segCount)
  /\ FrameInHand => segCount > 0
  /\ epc \in {"alloc", "ooseq"} => cnt = 0
  /\ epc = "scan" => cnt <= segCount

First(b) == b.fs = 1 /\ b.s = 1
Follows(b, c) ==
  IF b.ls = 1 THEN First(c) ELSE c.fs = 0 /\ c.s = b.s + 1 /\ c.f = b.f

\* Where the first frame that is not in hand begins.
Base(g, r) == IF FrameInHand THEN r ELSE g

\* The arc holds the segments of frames, one after the other; the DMA has not
\* finished the last one while seg > 0, and then it has a descriptor to go on.
Segments(g, r, w) ==
  /\ \A i \in g..(w - 1) : i + 1 < w => Follows(At(i), At(i + 1))
  /\ w > Base(g, r) => First(At(Base(g, r)))
  /\ seg = 0 /\ w > Base(g, r) => At(w - 1).ls = 1
  /\ seg > 0 =>
       /\ w < g + RxBufNb /\ w > Base(g, r) /\ fifo # <<>>
       /\ At(w - 1).ls = 0 /\ At(w - 1).s = seg /\ At(w - 1).f = Head(fifo)

\* The scanned segments belong to one frame; its last one ends the scan.
Scanned(g, r) ==
  \A i \in g..(r - 1) :
    /\ At(i).f = At(r - 1).f
    /\ At(i).s = i - (r - segCount) + 1
    /\ At(i).ls = Bit(FrameInHand /\ i = r - 1)

RingAt(g, r, w) == Arc(g, r, w) /\ Run(g, r) /\ Segments(g, r, w) /\ Scanned(g, r)

RingInv == \E g, r, w \in Nat : RingAt(g, r, w)

LEMMA RingInit == Init => RingAt(0, 0, 0)
<1> SUFFICES ASSUME Init PROVE RingAt(0, 0, 0)
  OBVIOUS
<1>1. Index(0) = 0
  BY RxBufNbAssumption DEF Index
<1>2. \A i \in 0..(0 + RxBufNb - 1) : own[Index(i)] = "DMA" /\ ~(i < 0)
  BY IndexType, RxBufNbAssumption DEF Init
<1>3. Arc(0, 0, 0)
  BY <1>1, <1>2, RxBufNbAssumption DEF Init, Arc
<1> QED
  BY <1>1, <1>3 DEF Init, RingAt, Run, Segments, Scanned, Base, Given, FrameInHand

(* Steps that leave the ring and the scan where they are.                    *)
LEMMA RingStutter ==
  ASSUME NEW g \in Nat, NEW r \in Nat, NEW w \in Nat, RingAt(g, r, w),
         UNCHANGED <<ring, heth, seg, dmaPos>>,
         seg > 0 /\ fifo # <<>> => fifo' # <<>> /\ Head(fifo') = Head(fifo),
         Given' = Given, FrameInHand' = FrameInHand,
         epc' \in {"alloc", "ooseq"} => cnt' = 0,
         epc' = "scan" => cnt' <= segCount
  PROVE  RingAt(g, r, w)'
<1> USE DEF ring, heth
<1>1. \A i : At(i)' = At(i)
  BY DEF At
<1>2. Arc(g, r, w)'
  BY DEF RingAt, Arc
<1>3. Run(g, r)'
  BY DEF RingAt, Run
<1>4. Segments(g, r, w)'
  BY <1>1 DEF RingAt, Segments, Base
<1>5. Scanned(g, r)'
  BY <1>1 DEF RingAt, Scanned
<1> QED BY <1>2, <1>3, <1>4, <1>5 DEF RingAt

LEMMA Around == \A g \in Nat : Index(g + RxBufNb) = Index(g)
<1> SUFFICES ASSUME NEW g \in Nat PROVE Index(g + RxBufNb) = Index(g)
  OBVIOUS
<1>1. RxBufNb \in Nat
  BY RxBufNbAssumption
<1>2. PICK q \in Int : g = RxBufNb * q + Index(g)
  BY IndexQuotient
<1> DEFINE d == Index(g)
<1>3. d \in Desc /\ d \in Int /\ g = RxBufNb * q + d
  BY <1>2, IndexType DEF Desc
<1> HIDE DEF d
<1>4. PICK n \in Int : g + RxBufNb = RxBufNb * n + d
  <2>1. g + RxBufNb = RxBufNb * (q + 1) + d
    BY <1>1, <1>3
  <2> QED BY <2>1
<1>5. Index(g + RxBufNb) = d
  <2> DEFINE i == g + RxBufNb
  <2>1. i \in Nat /\ i = RxBufNb * n + d
    BY <1>1, <1>4
  <2> HIDE DEF i
  <2>2. Index(i) = d
    BY <1>3, <2>1, IndexIs
  <2> QED BY <2>2 DEF i
<1> QED BY <1>5 DEF d

(* What the DMA sees of the arc.                                             *)
LEMMA Ownership ==
  ASSUME NEW g \in Nat, NEW r \in Nat, NEW w \in Nat, Arc(g, r, w)
  PROVE  /\ own[Index(w)] = "DMA" => w < g + RxBufNb
         /\ own[Index(w)] = "CPU" => w = g + RxBufNb
         /\ own[Index(r)] = "CPU" /\ r < g + RxBufNb => r < w
         /\ own[Index(r)] # "CPU" => r = w
<1>1. RxBufNb \in Nat /\ RxBufNb > 0
  BY RxBufNbAssumption
<1>3. own[Index(g)] = IF g < w THEN "CPU" ELSE "DMA"
  BY <1>1 DEF Arc
<1>4. CASE w < g + RxBufNb
  <2>1. own[Index(w)] = "DMA" /\ w \in g..(g + RxBufNb - 1) /\ r \in g..(g + RxBufNb - 1)
    BY <1>1, <1>4 DEF Arc
  <2>2. own[Index(r)] = IF r < w THEN "CPU" ELSE "DMA"
    BY <2>1 DEF Arc
  <2> QED BY <1>1, <1>4, <2>1, <2>2 DEF Arc
<1>5. CASE w = g + RxBufNb
  <2>1. own[Index(w)] = "CPU"
    BY <1>1, <1>3, <1>5, Around
  <2>2. r < g + RxBufNb => own[Index(r)] = "CPU"
    BY <1>1, <1>5 DEF Arc
  <2> QED BY <1>1, <1>5, <2>1, <2>2 DEF Arc
<1> QED BY <1>1, <1>4, <1>5 DEF Arc

\* The segment that the DMA writes.
Written == [f |-> Head(fifo), s |-> seg + 1,
            fs |-> Bit(seg = 0), ls |-> Bit(ClosesFrame)]

LEMMA DmaWrites ==
  ASSUME NEW g \in Nat, NEW r \in Nat, NEW w \in Nat,
         TypeOK, Arc(g, r, w), DmaSegment
  PROVE  /\ w < g + RxBufNb
         /\ own' = [own EXCEPT ![Index(w)] = "CPU"]
         /\ At(w)' = Written
         /\ \A i \in g..(w - 1) : At(i)' = At(i)
<1>1. RxBufNb \in Nat /\ RxBufNb > 0
  BY RxBufNbAssumption
<1>2. /\ g <= r /\ r <= w /\ w < g + RxBufNb
      /\ dmaPos = Index(w) /\ Index(w) \in Desc
  BY <1>1, Ownership, IndexType DEF Arc, DmaSegment
<1>3. /\ own' = [own EXCEPT ![Index(w)] = "CPU"]
      /\ buf' = [buf EXCEPT ![Index(w)] = Written]
  BY <1>2 DEF DmaSegment, Written
<1>4. \A i \in g..(w - 1) : Index(i) \in Desc /\ Index(i) # Index(w)
  BY <1>1, <1>2, IndexType, IndexDiffers
<1> QED
  BY <1>1, <1>2, <1>3, <1>4 DEF At, TypeOK, RingType

LEMMA RingDma ==
  ASSUME NEW g \in Nat, NEW r \in Nat, NEW w \in Nat,
         TypeOK, RingAt(g, r, w), DmaSegment
  PROVE  RingAt(g, r, w + 1)'
<1> DEFINE b == Written
<1>1. /\ Arc(g, r, w) /\ Run(g, r) /\ Segments(g, r, w) /\ Scanned(g, r)
      /\ RxBufNb \in Nat /\ RxBufNb > 0 /\ seg \in Nat
  BY RxBufNbAssumption DEF RingAt, TypeOK, NicType
<1>2. /\ g <= r /\ r <= w /\ w < g + RxBufNb
      /\ rxDesc = Index(r) /\ dmaPos = Index(w) /\ Index(w) \in Desc
  BY <1>1, DmaWrites, IndexType DEF Arc
<1>3. /\ UNCHANGED <<rxDesc, fsRx, segCount, epc, cnt>>
      /\ own' = [own EXCEPT ![Index(w)] = "CPU"]
  BY <1>2 DEF DmaSegment, heth, ethif
<1>4. \A i \in g..(g + RxBufNb - 1) : i # w => Index(i) \in Desc /\ Index(i) # Index(w)
  BY <1>1, <1>2, IndexType, IndexDiffers
<1>5. /\ At(w)' = b
      /\ \A i \in g..(w - 1) : At(i)' = At(i)
  BY <1>1, DmaWrites
<1>6. Arc(g, r, w + 1)'
  <2>1. dmaPos' = Index(w + 1)
    BY <1>2, IndexNext DEF DmaSegment
  <2>2. \A i \in g..(g + RxBufNb - 1) :
          own'[Index(i)] = IF i < w + 1 THEN "CPU" ELSE "DMA"
    <3> SUFFICES ASSUME NEW i \in g..(g + RxBufNb - 1)
                 PROVE  own'[Index(i)] = IF i < w + 1 THEN "CPU" ELSE "DMA"
      OBVIOUS
    <3>1. own[Index(i)] = IF i < w THEN "CPU" ELSE "DMA"
      BY <1>1 DEF Arc
    <3>2. CASE i = w
      BY <1>2, <1>3, <3>2 DEF TypeOK, RingType
    <3>3. CASE i # w
      <4>1. own'[Index(i)] = own[Index(i)]
        BY <1>2, <1>3, <1>4, <3>3 DEF TypeOK, RingType
      <4> QED BY <3>1, <3>3, <4>1, <1>1
    <3> QED BY <3>2, <3>3
  <2> QED BY <1>1, <1>2, <1>3, <2>1, <2>2 DEF Arc
<1>7. Run(g, r)'
  BY <1>1, <1>3 DEF Run, Given, FrameInHand
<1>8. Base(g, r)' = Base(g, r) /\ Base(g, r) \in Nat /\ g <= Base(g, r) /\ Base(g, r) <= r
  BY <1>2, <1>3 DEF Base, FrameInHand
<1>9. w > g => Follows(At(w - 1), b)
  <2> SUFFICES ASSUME w > g PROVE Follows(At(w - 1), b)
    OBVIOUS
  <2>1. CASE seg > 0
    BY <1>1, <2>1 DEF Segments, Follows, Bit, Written
  <2>2. CASE seg = 0
    <3>1. At(w - 1).ls = 1
      <4>1. CASE w > Base(g, r)
        BY <1>1, <2>2, <4>1 DEF Segments
      <4>2. CASE ~(w > Base(g, r))
        <5>1. FrameInHand /\ w = r /\ w - 1 \in g..(r - 1)
          BY <1>2, <4>2 DEF Base
        <5> QED BY <1>1, <5>1 DEF Scanned, Bit
      <4> QED BY <4>1, <4>2
    <3> QED BY <2>2, <3>1 DEF Follows, First, Bit, Written
  <2> QED BY <1>1, <2>1, <2>2
<1>10. Segments(g, r, w + 1)'
  <2>1. \A i \in g..w : i + 1 < w + 1 => Follows(At(i), At(i + 1))'
    <3> SUFFICES ASSUME NEW i \in g..w, i + 1 < w + 1 PROVE Follows(At(i)', At(i + 1)')
      BY DEF Follows, First
    <3>1. i \in g..(w - 1) /\ At(i)' = At(i)
      BY <1>5
    <3>2. CASE i + 1 = w
      <4>1. i = w - 1 /\ w > g
        BY <3>1, <3>2
      <4> QED BY <1>5, <1>9, <3>1, <3>2, <4>1
    <3>3. CASE i + 1 < w
      <4>1. Follows(At(i), At(i + 1)) /\ i + 1 \in g..(w - 1)
        BY <1>1, <3>1, <3>3 DEF Segments
      <4> QED BY <1>5, <3>1, <4>1
    <3> QED BY <3>1, <3>2, <3>3
  <2>2. First(At(Base(g, r)))'
    <3>1. CASE w > Base(g, r)
      <4>1. First(At(Base(g, r))) /\ Base(g, r) \in g..(w - 1)
        BY <1>1, <1>2, <1>8, <3>1 DEF Segments
      <4> QED BY <1>5, <1>8, <4>1 DEF First
    <3>2. CASE ~(w > Base(g, r))
      <4>1. Base(g, r) = w /\ seg = 0
        BY <1>1, <1>2, <1>8, <3>2 DEF Segments
      <4> QED BY <1>5, <1>8, <4>1 DEF First, Bit, Written
    <3> QED BY <3>1, <3>2
  <2>3. w + 1 - 1 = w /\ w + 1 > Base(g, r)
    BY <1>2, <1>8
  <2>4. CASE ClosesFrame
    <3>1. seg' = 0 /\ b.ls = 1
      BY <2>4 DEF DmaSegment, Bit, Written
    <3> QED BY <1>5, <2>1, <2>2, <2>3, <3>1 DEF Segments
  <2>5. CASE ~ClosesFrame
    <3>1. /\ seg' = seg + 1 /\ fifo' = fifo /\ fifo # <<>>
          /\ b.ls = 0 /\ b.s = seg + 1 /\ b.f = Head(fifo)
      BY <2>5 DEF DmaSegment, DmaActive, Bit, Written
    <3>2. w + 1 < g + RxBufNb
      <4>1. NextDesc(dmaPos) = Index(w + 1) /\ Index(w + 1) # Index(w) /\ own[Index(w + 1)] # "CPU"
        BY <1>2, <2>5, IndexNext DEF ClosesFrame
      <4>2. w + 1 = g + RxBufNb => g < w
        BY <1>1, <1>2, <4>1, Around
      <4>3. g < w => own[Index(g)] = "CPU"
        BY <1>1, <1>2 DEF Arc
      <4> QED BY <1>1, <1>2, <4>1, <4>2, <4>3, Around
    <3> QED BY <1>1, <1>5, <1>8, <2>1, <2>2, <2>3, <3>1, <3>2 DEF Segments
  <2> QED BY <2>4, <2>5
<1>11. Scanned(g, r)'
  <2>1. \A i \in g..(r - 1) : i \in g..(w - 1) /\ r - 1 \in g..(w - 1)
    BY <1>2
  <2> QED BY <1>1, <1>3, <1>5, <2>1 DEF Scanned, FrameInHand
<1> QED BY <1>6, <1>7, <1>10, <1>11 DEF RingAt

(* A scan that finds its descriptor owned by the CPU has not gone round the   *)
(* ring: it is at a segment that the DMA wrote and no scan has seen.         *)
LEMMA ScanAhead ==
  ASSUME TypeOK, NEW g \in Nat, NEW r \in Nat, NEW w \in Nat, RingAt(g, r, w),
         ~FrameInHand
  PROVE  /\ own[rxDesc] = "CPU" => r < w
         /\ own[rxDesc] # "CPU" => r = w
         /\ r - g = segCount
         /\ segCount < RxBufNb
<1>1. RxBufNb \in Nat /\ RxBufNb > 0 /\ seg \in Nat /\ segCount \in Nat
  BY RxBufNbAssumption DEF TypeOK, NicType, HethType
<1>2. Arc(g, r, w) /\ Run(g, r) /\ Segments(g, r, w) /\ Scanned(g, r)
  BY DEF RingAt
<1>3. r - g = segCount
  BY <1>1, <1>2 DEF Run, Given, FrameInHand
<1>4. r < g + RxBufNb
  <2> SUFFICES ASSUME r >= g + RxBufNb PROVE FALSE
    BY <1>1
  <2>1. r = g + RxBufNb /\ w = r /\ w > g
    BY <1>1, <1>2 DEF Arc
  <2>2. At(w - 1).ls = 0
    BY <1>1, <1>2, <2>1 DEF Scanned, Bit
  <2> QED BY <1>1, <1>2, <2>1, <2>2 DEF Segments, Base
<1> QED BY <1>1, <1>2, <1>3, <1>4, Ownership DEF Arc

LEMMA RingScanSegment ==
  ASSUME NEW g \in Nat, NEW r \in Nat, NEW w \in Nat,
         TypeOK, RingAt(g, r, w), ScanSegment
  PROVE  RingAt(g, r + 1, w)'
<1>1. /\ Arc(g, r, w) /\ Run(g, r) /\ Segments(g, r, w) /\ Scanned(g, r)
      /\ segCount \in Nat /\ cnt \in Nat /\ RxBufNb \in Nat
  BY RxBufNbAssumption DEF RingAt, TypeOK, HethType, EthIfType
<1>2. /\ ~FrameInHand /\ ~FrameInHand' /\ epc' = epc /\ epc = "scan" /\ cnt' = cnt + 1
      /\ rxDesc' = NextDesc(rxDesc) /\ At(r).ls = 0 /\ own[rxDesc] = "CPU"
      /\ UNCHANGED <<own, buf, seg, fifo, dmaPos>>
  BY <1>1 DEF ScanSegment, Scanning, EGoto, FrameInHand, Arc, At, nic, ring
<1>3. r < w /\ r - g = segCount /\ g <= r
  BY <1>1, <1>2, ScanAhead DEF Arc
<1>4. \A i : At(i)' = At(i)
  BY <1>2 DEF At
<1>5. /\ segCount' = segCount + 1
      /\ fsRx' = Index(r - segCount)
      /\ segCount > 0 => At(r).f = At(r - 1).f /\ At(r).s = At(r - 1).s + 1
      /\ segCount = 0 => At(r).s = 1
  <2>1. CASE segCount = 0
    <3>1. First(At(r))
      BY <1>1, <1>2, <1>3, <2>1 DEF Segments, Base
    <3> QED BY <1>1, <1>3, <2>1, <3>1 DEF ScanSegment, First, Arc, At
  <2>2. CASE segCount > 0
    <3>1. r - 1 \in g..(w - 1) /\ r - 1 + 1 < w /\ r - 1 + 1 = r /\ r - 1 \in g..(r - 1)
      BY <1>1, <1>3, <2>2
    <3>2. Follows(At(r - 1), At(r))
      BY <1>1, <3>1 DEF Segments
    <3>3. At(r - 1).ls = 0
      BY <1>1, <1>2, <3>1 DEF Scanned, Bit
    <3>4. At(r).fs = 0 /\ At(r).s = At(r - 1).s + 1 /\ At(r).f = At(r - 1).f
      BY <3>2, <3>3 DEF Follows
    <3>5. buf[rxDesc].fs # 1
      BY <1>1, <3>4 DEF Arc, At
    <3> QED BY <1>1, <2>2, <3>4, <3>5 DEF ScanSegment, Run
  <2> QED BY <1>1, <2>1, <2>2
<1>6. Arc(g, r + 1, w)'
  BY <1>1, <1>2, <1>3, IndexNext DEF Arc
<1>7. Run(g, r + 1)'
  <2>1. r + 1 - segCount' = r - segCount /\ Given' = 0 /\ r + 1 - g = segCount' - 0
    BY <1>1, <1>2, <1>3, <1>5 DEF Given
  <2> QED BY <1>1, <1>2, <1>3, <1>5, <2>1 DEF Run
<1>8. Segments(g, r + 1, w)'
  BY <1>1, <1>2, <1>4 DEF Segments, Base
<1>9. Scanned(g, r + 1)'
  <2>1. r + 1 - 1 = r /\ r + 1 - segCount' = r - segCount /\ g..(r + 1 - 1) = g..r
    BY <1>1, <1>5
  <2> SUFFICES \A i \in g..r :
                 At(i).f = At(r).f /\ At(i).s = i - (r - segCount) + 1 /\ At(i).ls = 0
    BY <1>1, <1>2, <1>4, <1>5, <2>1 DEF Scanned, Bit
  <2> TAKE i \in g..r
  <2>2. CASE i = r
    <3>1. CASE segCount = 0
      BY <1>1, <1>2, <1>5, <2>2, <3>1
    <3>2. CASE segCount > 0
      <4>1. r - 1 \in g..(r - 1)
        BY <1>1, <1>3, <3>2
      <4>2. At(r - 1).s = (r - 1) - (r - segCount) + 1
        BY <1>1, <4>1 DEF Scanned
      <4> QED BY <1>1, <1>2, <1>5, <2>2, <3>2, <4>2
    <3> QED BY <1>1, <3>1, <3>2
  <2>3. CASE i # r
    <3>1. i \in g..(r - 1) /\ segCount > 0
      BY <1>1, <1>3, <2>3
    <3>2. At(i).f = At(r - 1).f /\ At(i).s = i - (r - segCount) + 1 /\ At(i).ls = 0
      BY <1>1, <1>2, <3>1 DEF Scanned, Bit
    <3> QED BY <1>5, <3>1, <3>2
  <2> QED BY <2>2, <2>3
<1> QED BY <1>6, <1>7, <1>8, <1>9 DEF RingAt

LEMMA RingScanLast ==
  ASSUME NEW g \in Nat, NEW r \in Nat, NEW w \in Nat,
         TypeOK, RingAt(g, r, w), ScanLast
  PROVE  RingAt(g, r + 1, w)'
<1>1. /\ Arc(g, r, w) /\ Run(g, r) /\ Segments(g, r, w) /\ Scanned(g, r)
      /\ segCount \in Nat /\ cnt \in Nat /\ RxBufNb \in Nat /\ seg \in Nat
  BY RxBufNbAssumption DEF RingAt, TypeOK, HethType, EthIfType, NicType
<1>2. /\ ~FrameInHand /\ FrameInHand' /\ epc' = "alloc" /\ epc = "scan" /\ cnt' = 0
      /\ rxDesc' = NextDesc(rxDesc) /\ At(r).ls = 1 /\ own[rxDesc] = "CPU"
      /\ segCount' = segCount + 1
      /\ UNCHANGED <<own, buf, seg, fifo, dmaPos>>
  BY <1>1 DEF ScanLast, Scanning, EGoto, FrameInHand, Arc, At, nic, ring
<1>3. r < w /\ r - g = segCount /\ g <= r
  BY <1>1, <1>2, ScanAhead DEF Arc
<1>4. \A i : At(i)' = At(i)
  BY <1>2 DEF At
<1>5. /\ fsRx' = Index(r - segCount)
      /\ segCount > 0 => At(r).f = At(r - 1).f /\ At(r).s = At(r - 1).s + 1
      /\ segCount = 0 => At(r).s = 1
  <2>1. CASE segCount = 0
    <3>1. First(At(r))
      BY <1>1, <1>2, <1>3, <2>1 DEF Segments, Base
    <3>2. fsRx' = rxDesc
      BY <1>2, <2>1 DEF ScanLast
    <3> QED BY <1>1, <2>1, <3>1, <3>2 DEF First, Arc
  <2>2. CASE segCount > 0
    <3>1. r - 1 \in g..(w - 1) /\ r - 1 + 1 < w /\ r - 1 + 1 = r /\ r - 1 \in g..(r - 1)
      BY <1>1, <1>3, <2>2
    <3>2. Follows(At(r - 1), At(r))
      BY <1>1, <3>1 DEF Segments
    <3>3. At(r - 1).ls = 0
      BY <1>1, <1>2, <3>1 DEF Scanned, Bit
    <3>4. At(r).s = At(r - 1).s + 1 /\ At(r).f = At(r - 1).f
      BY <3>2, <3>3 DEF Follows
    <3>5. fsRx' = fsRx
      BY <1>1, <1>2, <2>2 DEF ScanLast
    <3> QED BY <1>1, <2>2, <3>4, <3>5 DEF Run
  <2> QED BY <1>1, <2>1, <2>2
<1>6. Arc(g, r + 1, w)'
  BY <1>1, <1>2, <1>3, IndexNext DEF Arc
<1>7. Run(g, r + 1)'
  <2>1. r + 1 - segCount' = r - segCount /\ Given' = 0 /\ r + 1 - g = segCount' - 0
    BY <1>1, <1>2, <1>3 DEF Given
  <2> QED BY <1>1, <1>2, <1>3, <1>5, <2>1 DEF Run
<1>8. Segments(g, r + 1, w)'
  <2>1. Base(g, r + 1)' = r + 1 /\ Base(g, r) = g
    BY <1>2 DEF Base
  <2>2. w > r + 1 => First(At(r + 1))
    <3> SUFFICES ASSUME w > r + 1 PROVE First(At(r + 1))
      OBVIOUS
    <3>1. r \in g..(w - 1) /\ r + 1 < w
      BY <1>3
    <3> QED BY <1>1, <1>2, <3>1 DEF Segments, Follows
  <2>3. seg > 0 => w > r + 1
    <3> SUFFICES ASSUME seg > 0, w = r + 1 PROVE FALSE
      BY <1>3
    <3>1. w - 1 = r /\ At(w - 1).ls = 0
      BY <1>1 DEF Segments
    <3> QED BY <1>2, <3>1
  <2> QED BY <1>1, <1>2, <1>3, <1>4, <2>1, <2>2, <2>3 DEF Segments
<1>9. Scanned(g, r + 1)'
  <2>1. r + 1 - 1 = r /\ r + 1 - segCount' = r - segCount /\ g..(r + 1 - 1) = g..r
    BY <1>1, <1>2
  <2> SUFFICES \A i \in g..r : /\ At(i).f = At(r).f
                               /\ At(i).s = i - (r - segCount) + 1
                               /\ At(i).ls = Bit(i = r)
    BY <1>1, <1>2, <1>4, <2>1 DEF Scanned, Bit
  <2> TAKE i \in g..r
  <2>2. CASE i = r
    <3>1. CASE segCount = 0
      BY <1>1, <1>2, <1>5, <2>2, <3>1 DEF Bit
    <3>2. CASE segCount > 0
      <4>1. r - 1 \in g..(r - 1)
        BY <1>1, <1>3, <3>2
      <4>2. At(r - 1).s = (r - 1) - (r - segCount) + 1
        BY <1>1, <4>1 DEF Scanned
      <4> QED BY <1>1, <1>2, <1>5, <2>2, <3>2, <4>2 DEF Bit
    <3> QED BY <1>1, <3>1, <3>2
  <2>3. CASE i # r
    <3>1. i \in g..(r - 1) /\ segCount > 0
      BY <1>1, <1>3, <2>3
    <3>2. At(i).f = At(r - 1).f /\ At(i).s = i - (r - segCount) + 1 /\ At(i).ls = 0
      BY <1>1, <1>2, <3>1 DEF Scanned, Bit
    <3> QED BY <1>5, <2>3, <3>1, <3>2 DEF Bit
  <2> QED BY <2>2, <2>3
<1> QED BY <1>6, <1>7, <1>8, <1>9 DEF RingAt

LEMMA RingGiveBack ==
  ASSUME NEW g \in Nat, NEW r \in Nat, NEW w \in Nat,
         TypeOK, RingAt(g, r, w), GiveBack
  PROVE  RingAt(g + 1, r, w)'
<1>1. /\ Arc(g, r, w) /\ Run(g, r) /\ Segments(g, r, w) /\ Scanned(g, r)
      /\ segCount \in Nat /\ cnt \in Nat /\ RxBufNb \in Nat /\ RxBufNb > 0 /\ seg \in Nat
  BY RxBufNbAssumption DEF RingAt, TypeOK, HethType, EthIfType, NicType
<1>2. /\ FrameInHand /\ FrameInHand' /\ epc' = "give" /\ epc = "give" /\ cnt' = cnt + 1
      /\ cnt < segCount /\ own' = [own EXCEPT ![NthDesc(fsRx, cnt)] = "DMA"]
      /\ UNCHANGED <<buf, seg, fifo, dmaPos, rxDesc, fsRx, segCount>>
  BY DEF GiveBack, EGoto, FrameInHand, nic, heth
<1>3. r - g = segCount - cnt /\ g < r /\ r <= w /\ g <= r
  BY <1>1, <1>2 DEF Run, Arc, Given
<1>4. NthDesc(fsRx, cnt) = Index(g)
  <2>1. r - segCount \in Nat /\ r - segCount + cnt = g /\ fsRx = Index(r - segCount)
    BY <1>1, <1>2, <1>3 DEF Run
  <2> QED BY <1>1, <2>1, IndexNth
<1>5. \A i : At(i)' = At(i)
  BY <1>2 DEF At
<1>6. Arc(g + 1, r, w)'
  <2>1. \A i \in (g + 1)..(g + 1 + RxBufNb - 1) :
          own'[Index(i)] = IF i < w THEN "CPU" ELSE "DMA"
    <3> SUFFICES ASSUME NEW i \in (g + 1)..(g + RxBufNb)
                 PROVE  own'[Index(i)] = IF i < w THEN "CPU" ELSE "DMA"
      BY <1>1
    <3>1. CASE i = g + RxBufNb
      <4>1. Index(i) = Index(g) /\ Index(g) \in Desc /\ ~(i < w)
        BY <1>1, <3>1, Around, IndexType DEF Arc
      <4> QED BY <1>2, <1>4, <4>1 DEF TypeOK, RingType
    <3>2. CASE i # g + RxBufNb
      <4>1. i \in g..(g + RxBufNb - 1) /\ i \in Nat /\ g < i /\ i < g + RxBufNb
        BY <1>1, <3>2
      <4>2. Index(i) # Index(g) /\ Index(i) \in Desc
        BY <4>1, IndexDiffers, IndexType
      <4>3. own'[Index(i)] = own[Index(i)]
        BY <1>2, <1>4, <4>2 DEF TypeOK, RingType
      <4> QED BY <1>1, <4>1, <4>3 DEF Arc
    <3> QED BY <3>1, <3>2
  <2> QED BY <1>1, <1>2, <1>3, <2>1 DEF Arc
<1>7. Run(g + 1, r)'
  <2>1. Given' = cnt + 1 /\ r - (g + 1) = segCount - (cnt + 1)
    BY <1>1, <1>2, <1>3 DEF Given
  <2> QED BY <1>1, <1>2, <1>3, <2>1 DEF Run
<1>8. Segments(g + 1, r, w)'
  <2>1. Base(g + 1, r)' = r /\ Base(g, r) = r
    BY <1>2 DEF Base
  <2> QED BY <1>1, <1>2, <1>3, <1>5, <2>1 DEF Segments
<1>9. Scanned(g + 1, r)'
  BY <1>1, <1>2, <1>5 DEF Scanned
<1> QED BY <1>6, <1>7, <1>8, <1>9 DEF RingAt

LEMMA RingGiveBackDone ==
  ASSUME NEW g \in Nat, NEW r \in Nat, NEW w \in Nat,
         TypeOK, RingAt(g, r, w), GiveBackDone
  PROVE  RingAt(g, r, w)'
<1>1. /\ Arc(g, r, w) /\ Run(g, r) /\ Segments(g, r, w)
      /\ segCount \in Nat /\ cnt \in Nat
  BY DEF RingAt, TypeOK, HethType, EthIfType
<1>2. /\ FrameInHand /\ ~FrameInHand' /\ epc' = "resume" /\ epc = "give"
      /\ cnt >= segCount /\ segCount' = 0
      /\ UNCHANGED <<own, buf, seg, fifo, dmaPos, rxDesc>>
  BY DEF GiveBackDone, EGoto, FrameInHand, nic, ring
<1>3. r = g
  BY <1>1, <1>2 DEF Run, Given
<1>4. \A i : At(i)' = At(i)
  BY <1>2 DEF At
<1>5. Arc(g, r, w)' BY <1>1, <1>2 DEF Arc
<1>6. Run(g, r)' BY <1>1, <1>2, <1>3 DEF Run, Given
<1>7. Segments(g, r, w)' BY <1>1, <1>2, <1>3, <1>4 DEF Segments, Base
<1>8. Scanned(g, r)' BY <1>3 DEF Scanned
<1> QED BY <1>5, <1>6, <1>7, <1>8 DEF RingAt

\* The steps that move a position.
RingMoves == DmaSegment \/ ScanSegment \/ ScanLast \/ GiveBack

LEMMA RingEthIf ==
  ASSUME NEW g \in Nat, NEW r \in Nat, NEW w \in Nat,
         TypeOK, RingAt(g, r, w), EthIf, ~RingMoves
  PROVE  RingAt(g, r, w)'
<1> USE RingStutter DEF EGoto, Given, FrameInHand, nic, ring
<1>1. CASE EthIfWait        BY <1>1 DEF EthIfWait
<1>2. CASE EthIfLockCore    BY <1>2 DEF EthIfLockCore
<1>3. CASE GetReceivedFrame
  <2>1. epc' = "scan" => cnt' <= segCount
    BY <1>3 DEF GetReceivedFrame, TypeOK, HethType
  <2> QED BY <1>3, <2>1 DEF GetReceivedFrame
<1>4. CASE ScanNothing      BY <1>4 DEF ScanNothing
<1>5. CASE AllocPbuf \/ AllocFails
  <2>1. cnt = 0
    BY <1>5 DEF AllocPbuf, AllocFails, RingAt, Run
  <2> QED BY <1>5, <2>1 DEF AllocPbuf, AllocFails
<1>6. CASE OoseqPosted \/ OoseqTimesOut
  <2>1. cnt = 0
    BY <1>6 DEF OoseqPosted, OoseqTimesOut, RingAt, Run
  <2> QED BY <1>6, <2>1 DEF OoseqPosted, OoseqTimesOut
<1>7. CASE GiveBackDone     BY <1>7, RingGiveBackDone
<1>8. CASE ResumeDma        BY <1>8 DEF ResumeDma
<1>9. CASE Input            BY <1>9 DEF Input
<1>10. CASE EthIfUnlockCore BY <1>10 DEF EthIfUnlockCore
<1>11. CASE InputPosted     BY <1>11 DEF InputPosted
<1>12. CASE InputTimesOut   BY <1>12 DEF InputTimesOut
<1> QED
  BY <1>1, <1>2, <1>3, <1>4, <1>5, <1>6, <1>7, <1>8, <1>9, <1>10, <1>11, <1>12
  DEF EthIf, RingMoves

LEMMA RingRest ==
  ASSUME NEW g \in Nat, NEW r \in Nat, NEW w \in Nat,
         TypeOK, RingAt(g, r, w),
         \/ Arrive \/ DmaSuspend \/ Isr \/ Tcpip
         \/ AppEnter \/ AppEffect \/ AppLeave \/ UNCHANGED vars
  PROVE  RingAt(g, r, w)'
<1>0. Arrive /\ fifo # <<>> => fifo' # <<>> /\ Head(fifo') = Head(fifo)
  BY HeadTailProperties, AppendProperties DEF Arrive, TypeOK, NicType
<1> USE RingStutter DEF Given, FrameInHand, RingAt, Run
<1>1. CASE Arrive
  BY <1>0, <1>1 DEF Arrive, ethif
<1>2. CASE DmaSuspend \/ Isr \/ AppEnter \/ AppEffect \/ AppLeave
  BY <1>2 DEF DmaSuspend, Isr, IsrCallback, IsrClear, AppEnter, AppEffect, AppLeave,
              nic, ethif
<1>3. CASE Tcpip \/ UNCHANGED vars
  BY <1>3 DEF Tcpip, TcpipTimeouts, TcpipUnlockCore, TcpipFetch, TcpipFetchTimeout,
              TcpipLockCore, HandleInpkt, HandleCallback, TcpipTransmit,
              TcpipTransmitted, vars, nic, ethif
<1> QED BY <1>1, <1>2, <1>3

LEMMA RingStep ==
  ASSUME NEW g \in Nat, NEW r \in Nat, NEW w \in Nat,
         TypeOK, RingAt(g, r, w), [Next]_vars
  PROVE  /\ DmaSegment => RingAt(g, r, w + 1)'
         /\ ScanSegment \/ ScanLast => RingAt(g, r + 1, w)'
         /\ GiveBack => RingAt(g + 1, r, w)'
         /\ ~RingMoves => RingAt(g, r, w)'
  BY RingDma, RingScanSegment, RingScanLast, RingGiveBack, RingEthIf, RingRest
  DEF Next, Dma, RingMoves

LEMMA RingHolds == Spec => []RingInv
<1>1. ASSUME TypeOK, RingInv, [Next]_vars PROVE RingInv'
  <2>1. PICK g \in Nat, r \in Nat, w \in Nat : RingAt(g, r, w)
    BY <1>1 DEF RingInv
  <2>2. g + 1 \in Nat /\ r + 1 \in Nat /\ w + 1 \in Nat
    OBVIOUS
  <2>3. \/ RingAt(g, r, w + 1)' \/ RingAt(g, r + 1, w)'
        \/ RingAt(g + 1, r, w)' \/ RingAt(g, r, w)'
    BY <1>1, <2>1, RingStep DEF RingMoves
  <2> QED BY <2>2, <2>3 DEF RingInv
<1>2. Init => RingInv
  BY RingInit DEF RingInv
<1> QED BY <1>1, <1>2, TypeCorrect, PTL DEF Spec

LEMMA HandIsHeld ==
  ASSUME TypeOK, RingInv
  PROVE  /\ FrameInHand /\ Given = 0 => segCount \in 1..RxBufNb
         /\ FrameInHand => \A k \in (Given + 1)..segCount : own[InHand(k)] = "CPU"
<1> SUFFICES ASSUME FrameInHand
             PROVE  /\ Given = 0 => segCount \in 1..RxBufNb
                    /\ \A k \in (Given + 1)..segCount : own[InHand(k)] = "CPU"
  OBVIOUS
<1>1. PICK g \in Nat, r \in Nat, w \in Nat : RingAt(g, r, w)
  BY DEF RingInv
<1>2. /\ Arc(g, r, w) /\ Run(g, r) /\ segCount \in Nat /\ Given \in Nat
      /\ RxBufNb \in Nat
  BY <1>1, RxBufNbAssumption DEF RingAt, TypeOK, HethType, EthIfType, Given
<1>3. /\ r - segCount \in Nat /\ fsRx = Index(r - segCount) /\ segCount > 0
      /\ g = r - segCount + Given /\ r <= w /\ w <= g + RxBufNb
  BY <1>2 DEF Run, Arc
<1>4. ASSUME NEW k \in (Given + 1)..segCount PROVE own[InHand(k)] = "CPU"
  <2>1. k - 1 \in Nat /\ r - segCount + (k - 1) \in g..(g + RxBufNb - 1)
        /\ r - segCount + (k - 1) < w
    BY <1>2, <1>3
  <2>2. InHand(k) = Index(r - segCount + (k - 1))
    BY <1>3, <2>1, IndexNth DEF InHand
  <2> QED BY <1>2, <2>1, <2>2 DEF Arc
<1> QED BY <1>2, <1>3, <1>4

(* low_level_input reads and gives back only descriptors that the CPU owns,  *)
(* whatever the size of the ring and of the frames: FSRxDesc and SegCount    *)
(* describe a run that the DMA does not write meanwhile.                     *)
THEOREM CopiesOwn == Spec => []CopyOwned
<1>1. TypeOK /\ RingInv => CopyOwned
  BY HandIsHeld DEF CopyOwned, FrameInHand, Given
<1> QED BY <1>1, RingHolds, TypeCorrect, PTL

-----------------------------------------------------------------------------
(* No wakeup is lost.  When the input loop ends and something is left for it *)
(* in the ring, a receive interrupt is pending or its semaphore is given.    *)

Full == own[dmaPos] = "CPU"
WillWake == rs = 1 \/ sem = 1

\* The loop has found no frame: EthIf is asleep or about to sleep.
PassEnded == epc = "wait" \/ (epc = "unlock" /\ p = NULL)

\* A descriptor went back to the DMA and no poll demand followed yet.
Giving == (epc = "give" /\ cnt > 0) \/ epc = "resume"

AllScanned == \A d \in Desc : own[d] = "DMA" \/ buf[d].ls = 0

Awake ==
  /\ isr = "clear" => sem = 1
  /\ rps = "suspended" => rbus = 1 /\ (Full \/ Giving)
  /\ epc \in {"ooseq", "give", "resume"} => p # NULL \/ pass = "starved"
  /\ PassEnded /\ pass = "drained" => WillWake \/ AllScanned
  /\ Giving \/ (PassEnded /\ pass # "busy") => WillWake \/ ~Full

LEMMA AwakeDma == TypeOK /\ Awake /\ (Arrive \/ Dma) => Awake'
<1> SUFFICES ASSUME TypeOK, Awake, Arrive \/ Dma PROVE Awake'
  OBVIOUS
<1> USE DEF Awake, WillWake, PassEnded, Giving, AllScanned, Full, ring, ethif
<1>1. CASE Arrive     BY <1>1 DEF Arrive
<1>2. CASE DmaSuspend BY <1>2 DEF DmaSuspend
<1>3. CASE DmaSegment
  <2>1. /\ UNCHANGED <<isr, sem, rps, rbus, epc, cnt, p, pass>>
        /\ own[dmaPos] = "DMA" /\ dmaPos \in Desc /\ dmaPos' = NextDesc(dmaPos)
        /\ own' = [own EXCEPT ![dmaPos] = "CPU"]
    BY <1>3 DEF DmaSegment, TypeOK, NicType
  <2>2. rps = "suspended" => Giving
    BY <2>1
  <2>3. CASE ClosesFrame
    <3>1. rs' = 1
      BY <1>3, <2>3 DEF DmaSegment
    <3> QED BY <2>1, <2>2, <3>1
  <2>4. CASE ~ClosesFrame
    <3>1. ~Full'
      <4>1. NextDesc(dmaPos) \in Desc /\ own[NextDesc(dmaPos)] # "CPU" /\ NextDesc(dmaPos) # dmaPos
        BY <2>1, <2>4, DescFacts DEF ClosesFrame
      <4> QED BY <2>1, <4>1 DEF TypeOK, RingType
    <3>2. AllScanned => AllScanned'
      <4>1. \A d \in Desc : d # dmaPos => own'[d] = own[d] /\ buf'[d] = buf[d]
        BY <1>3, <2>1 DEF DmaSegment, TypeOK, RingType
      <4>2. buf'[dmaPos].ls = 0
        BY <1>3, <2>1, <2>4 DEF DmaSegment, Bit, TypeOK, RingType
      <4> QED BY <4>1, <4>2
    <3>3. UNCHANGED rs
      BY <1>3, <2>4 DEF DmaSegment
    <3> HIDE DEF Full, AllScanned
    <3> QED BY <2>1, <2>2, <3>1, <3>2, <3>3
  <2> QED BY <2>3, <2>4
<1> QED BY <1>1, <1>2, <1>3 DEF Dma

LEMMA AwakeScanNothing == TypeOK /\ RingInv /\ Awake /\ ScanNothing => Awake'
<1> SUFFICES ASSUME TypeOK, RingInv, Awake, ScanNothing PROVE Awake'
  OBVIOUS
<1>1. PICK g \in Nat, r \in Nat, w \in Nat : RingAt(g, r, w)
  BY DEF RingInv
<1>2. /\ Arc(g, r, w) /\ Run(g, r) /\ Scanned(g, r) /\ ~FrameInHand /\ epc = "scan"
      /\ segCount \in Nat /\ cnt \in Nat /\ RxBufNb \in Nat
  BY <1>1, RxBufNbAssumption
  DEF RingAt, TypeOK, HethType, EthIfType, ScanNothing, EGoto, FrameInHand
<1>3. own[rxDesc] # "CPU" /\ r = w /\ segCount < RxBufNb
  <2>1. cnt <= segCount /\ segCount < RxBufNb
    BY <1>1, <1>2, ScanAhead DEF Run
  <2> QED BY <1>1, <1>2, <2>1, ScanAhead DEF ScanNothing, Scanning
<1>4. ~Full
  BY <1>2, <1>3 DEF Arc, Full
<1>5. AllScanned
  <2> SUFFICES ASSUME NEW d \in Desc, own[d] # "DMA" PROVE buf[d].ls = 0
    BY DEF AllScanned
  <2>1. PICK i \in g..(g + RxBufNb - 1) : Index(i) = d
    BY IndexCovers
  <2>2. i \in g..(r - 1)
    BY <1>2, <1>3, <2>1 DEF Arc
  <2> QED BY <1>2, <2>1, <2>2 DEF Scanned, At, Bit
<1>6. Full' = Full /\ AllScanned' = AllScanned
  BY DEF ScanNothing, nic, ring, Full, AllScanned
<1>7. /\ UNCHANGED <<isr, sem, rps, rbus>> /\ epc = "scan" /\ epc' = "unlock"
      /\ pass' = "drained"
  BY DEF ScanNothing, EGoto, nic
<1> QED BY <1>4, <1>5, <1>6, <1>7 DEF Awake, PassEnded, Giving, WillWake

LEMMA AwakeGiveBack == TypeOK /\ RingInv /\ Awake /\ GiveBack => Awake'
<1> SUFFICES ASSUME TypeOK, RingInv, Awake, GiveBack PROVE Awake'
  OBVIOUS
<1>1. PICK g \in Nat, r \in Nat, w \in Nat : RingAt(g, r, w)
  BY DEF RingInv
<1>2. /\ Arc(g, r, w) /\ Run(g, r) /\ epc = "give" /\ epc' = "give"
      /\ segCount \in Nat /\ cnt \in Nat /\ RxBufNb \in Nat
      /\ cnt < segCount /\ cnt' = cnt + 1
      /\ own' = [own EXCEPT ![NthDesc(fsRx, cnt)] = "DMA"]
      /\ UNCHANGED <<isr, sem, rs, rps, rbus, dmaPos, p, pass>>
  BY <1>1, RxBufNbAssumption
  DEF RingAt, TypeOK, HethType, EthIfType, GiveBack, EGoto, nic
<1>3. ~Full'
  <2>1. dmaPos \in Desc /\ NthDesc(fsRx, cnt) \in Desc
    BY <1>2, DescFacts DEF TypeOK, NicType, HethType
  <2>2. CASE own[dmaPos] # "CPU"
    BY <1>2, <2>1, <2>2 DEF Full, TypeOK, RingType
  <2>3. CASE own[dmaPos] = "CPU"
    <3>1. w = g + RxBufNb /\ dmaPos = Index(g)
      BY <1>2, <2>3, Ownership, Around DEF Arc
    <3>2. NthDesc(fsRx, cnt) = Index(g)
      <4>1. r - segCount \in Nat /\ r - segCount + cnt = g /\ fsRx = Index(r - segCount)
        BY <1>2 DEF Run, Given
      <4> QED BY <1>2, <4>1, IndexNth
    <3> QED BY <1>2, <2>1, <3>1, <3>2 DEF Full, TypeOK, RingType
  <2> QED BY <2>2, <2>3
<1>4. Giving' /\ ~PassEnded'
  BY <1>2 DEF Giving, PassEnded
<1> QED BY <1>2, <1>3, <1>4 DEF Awake

LEMMA AwakeEthIf == TypeOK /\ RingInv /\ Awake /\ EthIf => Awake'
<1> SUFFICES ASSUME TypeOK, RingInv, Awake, EthIf PROVE Awake'
  OBVIOUS
<1> USE DEF Awake, WillWake, PassEnded, Giving, EGoto, EthIfRuns, Sleeping, nic, ring
<1>0. /\ UNCHANGED ring => UNCHANGED AllScanned
      /\ UNCHANGED <<own, dmaPos>> => UNCHANGED Full
  BY DEF AllScanned, Full
<1>1. CASE EthIfWait        BY <1>0, <1>1 DEF EthIfWait
<1>2. CASE EthIfLockCore    BY <1>0, <1>2 DEF EthIfLockCore
<1>3. CASE GetReceivedFrame BY <1>0, <1>3 DEF GetReceivedFrame
<1>4. CASE ScanSegment      BY <1>0, <1>4 DEF ScanSegment
<1>5. CASE ScanLast         BY <1>0, <1>5 DEF ScanLast
<1>6. CASE ScanNothing      BY <1>6, AwakeScanNothing
<1>7. CASE AllocPbuf
  <2>1. segCount > 0 /\ cnt = 0
    BY <1>7 DEF AllocPbuf, RingInv, RingAt, Run, FrameInHand
  <2>2. p' # NULL
    BY <1>7, <2>1 DEF AllocPbuf, RxFrame, NULL, TypeOK, HethType
  <2> QED BY <1>0, <1>7, <2>1, <2>2 DEF AllocPbuf
<1>8. CASE AllocFails
  <2>1. cnt = 0
    BY <1>8 DEF AllocFails, RingInv, RingAt, Run
  <2> QED BY <1>0, <1>8, <2>1 DEF AllocFails
<1>9. CASE GiveBack         BY <1>9, AwakeGiveBack
<1>10. CASE GiveBackDone
  <2>1. cnt > 0
    BY <1>10 DEF GiveBackDone, RingInv, RingAt, Run, FrameInHand, TypeOK, HethType, EthIfType
  <2> QED BY <1>0, <1>10, <2>1 DEF GiveBackDone
<1>11. CASE ResumeDma       BY <1>0, <1>11 DEF ResumeDma
<1>12. CASE Input           BY <1>0, <1>12 DEF Input, TypeOK, EthIfType
<1>13. CASE EthIfUnlockCore BY <1>0, <1>13 DEF EthIfUnlockCore
<1>14. CASE OoseqPosted
  <2>1. cnt = 0
    BY <1>14 DEF OoseqPosted, RingInv, RingAt, Run
  <2> QED BY <1>0, <1>14, <2>1 DEF OoseqPosted
<1>15. CASE OoseqTimesOut
  <2>1. cnt = 0
    BY <1>15 DEF OoseqTimesOut, RingInv, RingAt, Run
  <2> QED BY <1>0, <1>15, <2>1 DEF OoseqTimesOut
<1>16. CASE InputPosted     BY <1>0, <1>16 DEF InputPosted, TypeOK, EthIfType
<1>17. CASE InputTimesOut   BY <1>0, <1>17 DEF InputTimesOut, TypeOK, EthIfType
<1> QED
  BY <1>1, <1>2, <1>3, <1>4, <1>5, <1>6, <1>7, <1>8, <1>9, <1>10, <1>11, <1>12,
     <1>13, <1>14, <1>15, <1>16, <1>17 DEF EthIf

LEMMA AwakeRest ==
  Awake /\ (Isr \/ Tcpip \/ AppEnter \/ AppEffect \/ AppLeave \/ UNCHANGED vars)
    => Awake'
<1> USE DEF Awake, WillWake, PassEnded, Giving, AllScanned, Full, nic, ring, ethif
<1>1. Awake /\ Isr => Awake'
  BY DEF Isr, IsrCallback, IsrClear
<1>2. Awake /\ (Tcpip \/ UNCHANGED vars) => Awake'
  BY DEF Tcpip, TcpipTimeouts, TcpipUnlockCore, TcpipFetch, TcpipFetchTimeout,
         TcpipLockCore, HandleInpkt, HandleCallback, TcpipTransmit,
         TcpipTransmitted, vars
<1>3. Awake /\ (AppEnter \/ AppLeave) => Awake'
  BY DEF AppEnter, AppLeave
<1>4. Awake /\ AppEffect => Awake'
  BY DEF AppEffect
<1> QED BY <1>1, <1>2, <1>3, <1>4

LEMMA AwakeHolds == Spec => []Awake
<1>1. Init => Awake
  BY DEF Init, Awake, WillWake, PassEnded, Giving
<1>2. TypeOK /\ RingInv /\ Awake /\ [Next]_vars => Awake'
  BY AwakeDma, AwakeEthIf, AwakeRest DEF Next
<1> QED BY <1>1, <1>2, RingHolds, TypeCorrect, PTL DEF Spec

(* The input loop never leaves the receiver dead: when it ends normally the  *)
(* DMA can receive the frame that will wake it, with any ring and any frames. *)
THEOREM NotWedged == Spec => []NeverWedged
<1>1. TypeOK /\ Awake => NeverWedged
  <2> SUFFICES ASSUME TypeOK, Awake, Quiescent, pass # "busy"
               PROVE  own[dmaPos] = "DMA" /\ rps # "suspended"
    BY DEF NeverWedged
  <2>1. ~Full /\ rps # "suspended"
    BY DEF Awake, Quiescent, Sleeping, WillWake, PassEnded, Giving
  <2>2. own[dmaPos] \in {"CPU", "DMA"}
    BY DEF TypeOK, NicType, RingType
  <2> QED BY <2>1, <2>2 DEF Full
<1> QED BY <1>1, AwakeHolds, TypeCorrect, PTL

(* A frame that is complete when the loop stops looking wakes it again.      *)
THEOREM NothingLeftBehind == Spec => []DrainedUnlessCut
<1>1. Awake => DrainedUnlessCut
  BY DEF Awake, DrainedUnlessCut, Quiescent, Sleeping, WillWake, PassEnded, AllScanned
<1> QED BY <1>1, AwakeHolds, PTL

-----------------------------------------------------------------------------
(* What is in the pbufs.                                                     *)

LEMMA CopyIsWhole ==
  ASSUME TypeOK, RingInv, FrameInHand, Given = 0
  PROVE  Whole(RxFrame) /\ RxFrame # NULL
<1>1. PICK g \in Nat, r \in Nat, w \in Nat : RingAt(g, r, w)
  BY DEF RingInv
<1>2. /\ Run(g, r) /\ Scanned(g, r) /\ segCount \in Nat
  BY <1>1 DEF RingAt, TypeOK, HethType
<1>3. /\ g = r - segCount /\ fsRx = Index(g) /\ segCount > 0
  BY <1>2 DEF Run
<1>4. DOMAIN RxFrame = 1..segCount
  BY DEF RxFrame
<1>5. ASSUME NEW k \in 1..segCount
      PROVE  RxFrame[k] = <<At(r - 1).f, k>>
  <2>1. k - 1 \in Nat /\ g + (k - 1) \in g..(r - 1)
    BY <1>2, <1>3
  <2>2. NthDesc(fsRx, k - 1) = Index(g + (k - 1))
    BY <1>3, <2>1, IndexNth
  <2>3. At(g + (k - 1)).f = At(r - 1).f /\ At(g + (k - 1)).s = k
    BY <1>2, <1>3, <2>1 DEF Scanned
  <2>4. RxFrame[k] = <<At(g + (k - 1)).f, At(g + (k - 1)).s>>
    BY <2>2 DEF RxFrame, At
  <2> QED BY <2>3, <2>4
<1>6. 1 \in 1..segCount
  BY <1>2, <1>3
<1>7. RxFrame[1][1] = At(r - 1).f
  BY <1>5, <1>6
<1>8. Whole(RxFrame)
  BY <1>4, <1>5, <1>7 DEF Whole
<1>9. RxFrame # NULL
  BY <1>2, <1>3 DEF RxFrame, NULL
<1> QED BY <1>8, <1>9

LEMMA WholeEthIf == TypeOK /\ RingInv /\ FramesWhole /\ EthIf => FramesWhole'
<1> SUFFICES ASSUME TypeOK, RingInv, FramesWhole, EthIf PROVE FramesWhole'
  OBVIOUS
<1> USE DEF FramesWhole, tcpip
<1>1. \A b : Whole(b)' = Whole(b)
  BY DEF Whole
<1>2. CASE AllocPbuf
  <2>1. cnt = 0 /\ FrameInHand
    BY <1>2 DEF AllocPbuf, EGoto, RingInv, RingAt, Run, FrameInHand
  <2>2. Whole(RxFrame)
    BY <1>2, <2>1, CopyIsWhole DEF AllocPbuf, EGoto, Given
  <2> QED BY <1>2, <2>2 DEF AllocPbuf, Whole
<1>3. ASSUME NEW m, m.p = <<>> \/ Whole(m.p), TryPost(m), UNCHANGED <<p, tmsg>>
      PROVE  FramesWhole'
  <2>1. mbox \in Seq(Msg) /\ mbox' = Append(mbox, m)
    BY <1>3 DEF TypeOK, TcpipType, TryPost
  <2>2. Whole(<<>>)
    BY DEF Whole
  <2>3. \A i \in DOMAIN mbox' : mbox'[i] = m \/ (i \in DOMAIN mbox /\ mbox'[i] = mbox[i])
    BY <2>1
  <2> QED BY <1>3, <2>2, <2>3 DEF Whole
<1>4. CASE OoseqPosted
  BY <1>3, <1>4 DEF OoseqPosted, OoseqMsg, NULL
<1>5. CASE InputPosted
  BY <1>3, <1>5 DEF InputPosted, InpktMsg
<1>6. CASE EthIfUnlockCore
  BY <1>6 DEF EthIfUnlockCore, NULL, Whole
<1> QED
  BY <1>2, <1>4, <1>5, <1>6
  DEF EthIf, EthIfWait, EthIfLockCore, GetReceivedFrame, ScanSegment, ScanLast,
      ScanNothing, AllocFails, GiveBack, GiveBackDone, ResumeDma, Input,
      OoseqTimesOut, InputTimesOut, Whole

LEMMA WholeTcpip == TypeOK /\ FramesWhole /\ Tcpip => FramesWhole'
<1> SUFFICES ASSUME TypeOK, FramesWhole, Tcpip PROVE FramesWhole'
  OBVIOUS
<1> USE DEF FramesWhole, ethif, Whole
<1>1. CASE TcpipFetch
  <2>1. mbox \in Seq(Msg) /\ mbox # <<>> /\ mbox' = Tail(mbox) /\ tmsg' = Head(mbox)
    BY <1>1 DEF TcpipFetch, TypeOK, TcpipType
  <2>2. \A i \in DOMAIN mbox' : i + 1 \in DOMAIN mbox /\ mbox'[i] = mbox[i + 1]
    BY <2>1
  <2>3. 1 \in DOMAIN mbox /\ tmsg' = mbox[1]
    BY <2>1
  <2> HIDE DEF Whole
  <2>4. \A b : Whole(b)' = Whole(b)
    BY DEF Whole
  <2> QED BY <1>1, <2>2, <2>3, <2>4 DEF TcpipFetch
<1>2. CASE HandleInpkt \/ HandleCallback
  BY <1>2 DEF HandleInpkt, HandleCallback, NoMsg, NULL
<1> QED
  BY <1>1, <1>2 DEF Tcpip, TcpipTimeouts, TcpipUnlockCore, TcpipFetchTimeout,
                    TcpipLockCore, TcpipTransmit, TcpipTransmitted

LEMMA WholeRest ==
  FramesWhole /\ (Arrive \/ Dma \/ Isr \/ AppEnter \/ AppEffect \/ AppLeave
                   \/ UNCHANGED vars)
    => FramesWhole'
  BY DEF FramesWhole, Whole, Arrive, Dma, DmaSegment, DmaSuspend, Isr, IsrCallback,
         IsrClear, AppEnter, AppEffect, AppLeave, vars, ethif, tcpip

(* A pbuf holds the consecutive segments of one frame, from its first one,   *)
(* for rings and frames of any size and however the scans are cut.           *)
THEOREM WholeCopies == Spec => []FramesWhole
<1>1. Init => FramesWhole
  BY DEF Init, FramesWhole, Whole, NULL, NoMsg
<1>2. TypeOK /\ RingInv /\ FramesWhole /\ [Next]_vars => FramesWhole'
  BY WholeEthIf, WholeTcpip, WholeRest DEF Next
<1> QED BY <1>1, <1>2, RingHolds, TypeCorrect, PTL DEF Spec

-----------------------------------------------------------------------------
(* The order of the frames.  From the oldest to the newest: the last one     *)
(* given to ethernet_input, the one in the thread's hand, those in the       *)
(* mailbox, the one that EthIf owns, the ring, the FIFO.                     *)

Id(b) == b[1][1]
Owned == p # NULL /\ epc \in {"give", "resume", "input", "post"}
Queued == {i \in DOMAIN mbox : mbox[i].type = "INPKT"}

InFifo == {fifo[k] : k \in DOMAIN fifo}
InRing == {buf[d].f : d \in {e \in Desc : own[e] = "CPU"}}

FifoOrder ==
  /\ InFifo \subseteq 1..sent
  /\ \A k, l \in DOMAIN fifo : k < l => fifo[k] < fifo[l]

\* Two positions hold the same frame only if it does not end between them.
RingOrder(g, w) ==
  \A i \in g..(w - 1) :
    /\ At(i).f \in 1..sent
    /\ \A j \in g..(w - 1) : i < j => IF At(i).ls = 1 THEN At(i).f < At(j).f
                                                   ELSE At(i).f <= At(j).f
    /\ \A f \in InFifo : IF At(i).ls = 1 THEN At(i).f < f ELSE At(i).f <= f

\* What EthIf owns was copied from the segments that it gives back.
HandOrder(g, r, w) ==
  Owned =>
    /\ Id(p) \in 1..sent
    /\ \A i \in g..(w - 1) : IF i < r THEN At(i).f = Id(p) ELSE Id(p) < At(i).f
    /\ \A f \in InFifo : Id(p) < f
    /\ epc # "give" => g = r

LineInv == \E g, r, w \in Nat : RingAt(g, r, w) /\ RingOrder(g, w) /\ HandOrder(g, r, w)

\* The numbers before all the frames that EthIf has not posted yet.
Passed ==
  {x \in 0..sent : (Owned => x < Id(p)) /\ \A f \in InFifo \cup InRing : x < f}

TakenOrder ==
  /\ got \in Passed
  /\ \A i \in Queued : Id(mbox[i].p) \in Passed /\ got < Id(mbox[i].p)
  /\ \A i, j \in Queued : i < j => Id(mbox[i].p) < Id(mbox[j].p)
  /\ tmsg.type = "INPKT" =>
       /\ Id(tmsg.p) \in Passed /\ got < Id(tmsg.p)
       /\ \A i \in Queued : Id(tmsg.p) < Id(mbox[i].p)

LEMMA RingFrames ==
  ASSUME NEW g \in Nat, NEW r \in Nat, NEW w \in Nat, Arc(g, r, w)
  PROVE  InRing = {At(i).f : i \in g..(w - 1)}
<1>1. RxBufNb \in Nat
  BY RxBufNbAssumption
<1>2. ASSUME NEW d \in Desc, own[d] = "CPU"
      PROVE  \E i \in g..(w - 1) : buf[d].f = At(i).f
  <2>1. PICK i \in g..(g + RxBufNb - 1) : Index(i) = d
    BY IndexCovers
  <2>2. i \in g..(w - 1)
    BY <1>1, <1>2, <2>1 DEF Arc
  <2> QED BY <2>1, <2>2 DEF At
<1>3. ASSUME NEW i \in g..(w - 1)
      PROVE  Index(i) \in Desc /\ own[Index(i)] = "CPU"
  BY <1>1, IndexType DEF Arc
<1> QED BY <1>2, <1>3 DEF InRing, At

LEMMA HeadFirst ==
  ASSUME TypeOK, FifoOrder, fifo # <<>>
  PROVE  /\ Head(fifo) \in InFifo /\ Head(fifo) \in 1..sent
         /\ \A f \in InFifo : Head(fifo) <= f
         /\ fifo' = Tail(fifo) => /\ InFifo = InFifo' \cup {Head(fifo)}
                                /\ \A f \in InFifo' : Head(fifo) < f
<1>1. fifo \in Seq(Frame) /\ Len(fifo) \in Nat \ {0} /\ DOMAIN fifo = 1..Len(fifo)
      /\ Head(fifo) = fifo[1] /\ InFifo \subseteq 1..sent /\ sent \in Nat
  BY FrameAssumption DEF TypeOK, NicType, FifoOrder
<1>2. Head(fifo) \in InFifo
  BY <1>1 DEF InFifo
<1>3. \A k \in DOMAIN fifo : k # 1 => Head(fifo) < fifo[k]
  BY <1>1 DEF FifoOrder
<1>4. \A f \in InFifo : Head(fifo) <= f
  <2>1. \A f \in InFifo : f = Head(fifo) \/ Head(fifo) < f
    BY <1>1, <1>3 DEF InFifo
  <2>2. \A f \in InFifo : f \in Int
    BY <1>1
  <2> QED BY <1>2, <2>1, <2>2
<1>5. ASSUME fifo' = Tail(fifo)
      PROVE  /\ InFifo = InFifo' \cup {Head(fifo)}
             /\ \A f \in InFifo' : Head(fifo) < f
  <2>1. DOMAIN fifo' = 1..(Len(fifo) - 1) /\ \A k \in DOMAIN fifo' : fifo'[k] = fifo[k + 1]
    BY <1>1, <1>5
  <2>2. \A k \in DOMAIN fifo : k # 1 => k - 1 \in DOMAIN fifo' /\ fifo[k] = fifo'[k - 1]
    BY <1>1, <2>1
  <2>3. \A k \in DOMAIN fifo' : k + 1 \in DOMAIN fifo /\ k + 1 # 1
    BY <1>1, <2>1
  <2>4. \A f \in InFifo' : f \in InFifo /\ Head(fifo) < f
    BY <1>3, <2>1, <2>3 DEF InFifo
  <2>5. \A f \in InFifo : f = Head(fifo) \/ f \in InFifo'
    BY <1>1, <2>2 DEF InFifo
  <2> QED BY <1>2, <2>4, <2>5
<1> QED BY <1>1, <1>2, <1>4, <1>5

\* What a step does to the FIFO.
LEMMA FifoMoves ==
  ASSUME TypeOK, FifoOrder, [Next]_vars
  PROVE  /\ Arrive => sent' = sent + 1 /\ InFifo' \in {InFifo, InFifo \cup {sent + 1}}
         /\ ~Arrive => sent' = sent /\ InFifo' \subseteq InFifo
         /\ ~(Arrive \/ DmaSegment) => InFifo' = InFifo
         /\ FifoOrder'
<1>0. sent \in Nat /\ fifo \in Seq(Frame)
  BY FrameAssumption DEF TypeOK, NicType
<1>1. CASE Arrive
  <2>1. CASE fifo' = fifo
    BY <1>0, <1>1, <2>1 DEF Arrive, FifoOrder, InFifo
  <2>2. CASE fifo' = Append(fifo, sent + 1)
    <3>1. /\ DOMAIN fifo = 1..Len(fifo) /\ Len(fifo) \in Nat
          /\ DOMAIN fifo' = 1..(Len(fifo) + 1) /\ fifo'[Len(fifo) + 1] = sent + 1
          /\ \A k \in DOMAIN fifo : fifo'[k] = fifo[k]
      BY <1>0, <2>2
    <3>2. InFifo' = InFifo \cup {sent + 1}
      <4>1. \A k \in DOMAIN fifo' : k = Len(fifo) + 1 \/ k \in DOMAIN fifo
        BY <3>1
      <4>2. \A k \in DOMAIN fifo : k \in DOMAIN fifo'
        BY <3>1
      <4>3. Len(fifo) + 1 \in DOMAIN fifo'
        BY <3>1
      <4> QED BY <3>1, <4>1, <4>2, <4>3 DEF InFifo
    <3>3. \A k \in DOMAIN fifo : fifo[k] \in Int /\ fifo[k] < sent + 1
      <4>1. \A k \in DOMAIN fifo : fifo[k] \in 1..sent
        BY DEF FifoOrder, InFifo
      <4> QED BY <1>0, <4>1
    <3>4. \A k, l \in DOMAIN fifo' : k < l => fifo'[k] < fifo'[l]
      <4> SUFFICES ASSUME NEW k \in DOMAIN fifo', NEW l \in DOMAIN fifo', k < l
                   PROVE  fifo'[k] < fifo'[l]
        OBVIOUS
      <4>1. k \in DOMAIN fifo /\ (l = Len(fifo) + 1 \/ l \in DOMAIN fifo)
        BY <3>1
      <4> QED BY <3>1, <3>3, <4>1 DEF FifoOrder
    <3>5. sent' = sent + 1
      BY <1>1 DEF Arrive
    <3> QED BY <1>0, <1>1, <3>2, <3>4, <3>5 DEF FifoOrder
  <2> QED BY <1>1, <2>1, <2>2 DEF Arrive
<1>2. CASE DmaSegment
  <2>1. sent' = sent /\ fifo # <<>> /\ ~Arrive
    BY <1>0, <1>2 DEF DmaSegment, DmaActive, Arrive
  <2>2. CASE fifo' = fifo
    BY <1>2, <2>1, <2>2 DEF FifoOrder, InFifo
  <2>3. CASE fifo' = Tail(fifo)
    <3>1. InFifo' \subseteq InFifo
      BY <2>1, <2>3, HeadFirst
    <3>2. \A k, l \in DOMAIN fifo' : k < l => fifo'[k] < fifo'[l]
      <4>1. \A k \in DOMAIN fifo' : k + 1 \in DOMAIN fifo /\ fifo'[k] = fifo[k + 1] /\ k \in Int
        BY <1>0, <2>1, <2>3
      <4> QED BY <4>1 DEF FifoOrder
    <3> QED BY <1>2, <2>1, <3>1, <3>2 DEF FifoOrder
  <2> QED BY <1>2, <2>2, <2>3 DEF DmaSegment
<1>3. CASE ~Arrive /\ ~DmaSegment
  <2>1. UNCHANGED <<sent, fifo>>
    BY <1>3
    DEF Next, Dma, DmaSuspend, Isr, IsrCallback, IsrClear, EthIf, EthIfWait, EthIfLockCore,
        GetReceivedFrame, ScanSegment, ScanLast, ScanNothing, AllocPbuf, AllocFails,
        OoseqPosted, OoseqTimesOut, GiveBack, GiveBackDone, ResumeDma, Input,
        InputPosted, InputTimesOut, EthIfUnlockCore, Tcpip, TcpipTimeouts,
        TcpipUnlockCore, TcpipFetch, TcpipFetchTimeout, TcpipLockCore, HandleInpkt,
        HandleCallback, TcpipTransmit, TcpipTransmitted, AppEnter, AppEffect, AppLeave,
        vars, nic
  <2> QED BY <1>3, <2>1 DEF FifoOrder, InFifo
<1> QED BY <1>1, <1>2, <1>3

\* Which steps write the ring.
LEMMA RingStays ==
  ASSUME [Next]_vars, ~DmaSegment
  PROVE  /\ UNCHANGED <<buf, dmaPos, seg>>
         /\ ~GiveBack => UNCHANGED own
BY DEF Next, Arrive, Dma, DmaSuspend, Isr, IsrCallback, IsrClear, EthIf, EthIfWait,
       EthIfLockCore, GetReceivedFrame, ScanSegment, ScanLast, ScanNothing, AllocPbuf,
       AllocFails, OoseqPosted, OoseqTimesOut, GiveBack, GiveBackDone, ResumeDma, Input,
       InputPosted, InputTimesOut, EthIfUnlockCore, Tcpip, TcpipTimeouts,
       TcpipUnlockCore, TcpipFetch, TcpipFetchTimeout, TcpipLockCore, HandleInpkt,
       HandleCallback, TcpipTransmit, TcpipTransmitted, AppEnter, AppEffect, AppLeave,
       vars, nic, ring

LEMMA OrderMoves ==
  ASSUME NEW g \in Nat, NEW r \in Nat, NEW w \in Nat,
         TypeOK, FifoOrder, RingAt(g, r, w), RingOrder(g, w), [Next]_vars
  PROVE  /\ DmaSegment => RingOrder(g, w + 1)'
         /\ GiveBack => RingOrder(g + 1, w)'
         /\ ~DmaSegment => RingOrder(g, w)'
<1>0. sent \in Nat /\ InFifo \subseteq 1..sent /\ \A i \in g..(w - 1) : At(i).f \in 1..sent
  BY FrameAssumption DEF TypeOK, NicType, FifoOrder, RingOrder
<1>1. CASE ~DmaSegment
  <2>1. \A i : At(i)' = At(i)
    BY <1>1, RingStays DEF At
  <2>2. RingOrder(g, w)'
    <3>1. CASE Arrive
      <4>1. sent' = sent + 1 /\ InFifo' \subseteq InFifo \cup {sent + 1}
        BY <3>1, FifoMoves
      <4>2. \A i \in g..(w - 1) : At(i).f \in 1..(sent + 1) /\ At(i).f < sent + 1
        BY <1>0
      <4>3. \A i \in g..(w - 1), f \in InFifo' :
              IF At(i).ls = 1 THEN At(i).f < f ELSE At(i).f <= f
        BY <1>0, <4>1, <4>2 DEF RingOrder
      <4> QED BY <2>1, <4>1, <4>2, <4>3 DEF RingOrder
    <3>2. CASE ~Arrive
      <4>1. sent' = sent /\ InFifo' = InFifo
        BY <1>1, <3>2, FifoMoves
      <4> QED BY <2>1, <4>1 DEF RingOrder
    <3> QED BY <3>1, <3>2
  <2>3. RingOrder(g, w)' => RingOrder(g + 1, w)'
    BY DEF RingOrder
  <2> QED BY <1>1, <2>2, <2>3
<1>2. CASE DmaSegment
  <2>1. fifo # <<>> /\ ~Arrive /\ ~GiveBack
    BY <1>0, <1>2 DEF DmaSegment, DmaActive, Arrive, GiveBack, ethif, TypeOK, EthIfType
  <2>2. /\ At(w)' = Written /\ \A i \in g..(w - 1) : At(i)' = At(i)
    BY <1>2, DmaWrites DEF RingAt
  <2>3. Written.f = Head(fifo) /\ Written.ls = Bit(ClosesFrame)
    BY DEF Written
  <2>4. sent' = sent /\ InFifo' \subseteq InFifo
    BY <2>1, FifoMoves
  <2>5. /\ Head(fifo) \in InFifo /\ Head(fifo) \in 1..sent
        /\ \A f \in InFifo' : IF Written.ls = 1 THEN Head(fifo) < f ELSE Head(fifo) <= f
    <3>1. Head(fifo) \in InFifo /\ Head(fifo) \in 1..sent
      BY <2>1, HeadFirst
    <3>2. CASE ClosesFrame
      <4>1. fifo' = Tail(fifo)
        BY <1>2, <3>2 DEF DmaSegment
      <4>2. \A f \in InFifo' : Head(fifo) < f
        BY <2>1, <4>1, HeadFirst
      <4> QED BY <2>3, <3>1, <3>2, <4>2 DEF Bit
    <3>3. CASE ~ClosesFrame
      <4>1. \A f \in InFifo' : Head(fifo) <= f
        BY <2>1, <2>4, HeadFirst
      <4> QED BY <2>3, <3>1, <3>3, <4>1 DEF Bit
    <3> QED BY <3>2, <3>3
  <2>6. ASSUME NEW i \in g..w
        PROVE  /\ At(i)'.f \in 1..sent
               /\ \A j \in g..w : i < j => IF At(i)'.ls = 1 THEN At(i)'.f < At(j)'.f
                                                          ELSE At(i)'.f <= At(j)'.f
               /\ \A f \in InFifo' : IF At(i)'.ls = 1 THEN At(i)'.f < f ELSE At(i)'.f <= f
    <3>1. CASE i = w
      BY <2>2, <2>3, <2>5, <3>1
    <3>2. CASE i \in g..(w - 1)
      <4>1. At(i)' = At(i)
        BY <2>2, <3>2
      <4>2. \A j \in g..w : i < j => IF At(i).ls = 1 THEN At(i).f < At(j)'.f
                                                   ELSE At(i).f <= At(j)'.f
        <5> SUFFICES ASSUME NEW j \in g..w, i < j
                     PROVE  IF At(i).ls = 1 THEN At(i).f < At(j)'.f ELSE At(i).f <= At(j)'.f
          OBVIOUS
        <5>1. CASE j = w
          BY <2>2, <2>3, <2>5, <3>2, <5>1 DEF RingOrder
        <5>2. CASE j \in g..(w - 1)
          BY <2>2, <3>2, <5>2 DEF RingOrder
        <5> QED BY <5>1, <5>2
      <4>3. \A f \in InFifo' : IF At(i).ls = 1 THEN At(i).f < f ELSE At(i).f <= f
        BY <2>4, <3>2 DEF RingOrder
      <4> QED BY <1>0, <3>2, <4>1, <4>2, <4>3
    <3> QED BY <3>1, <3>2
  <2>7. w + 1 - 1 = w
    OBVIOUS
  <2>8. RingOrder(g, w + 1)'
    BY <2>4, <2>6, <2>7 DEF RingOrder
  <2> QED BY <1>2, <2>1, <2>8
<1> QED BY <1>1, <1>2

\* EthIf gets a frame of its own only by copying it.
LEMMA OwnedMoves ==
  ASSUME TypeOK, Accounts, [Next]_vars, ~AllocPbuf, Owned'
  PROVE  Owned /\ p' = p /\ (epc' # "give" => epc # "give" \/ GiveBackDone)
<1> USE DEF Owned, EGoto
<1>1. p = NULL \/ epc \notin {"wait", "lock", "get", "scan", "alloc", "ooseq"}
  BY DEF Accounts, InHandOnly
<1>2. CASE EthIf
  BY <1>1, <1>2
  DEF EthIf, EthIfWait, EthIfLockCore, GetReceivedFrame, ScanSegment, ScanLast,
      ScanNothing, AllocFails, OoseqPosted, OoseqTimesOut, GiveBack, GiveBackDone,
      ResumeDma, Input, InputPosted, InputTimesOut, EthIfUnlockCore
<1>3. CASE ~EthIf
  BY <1>3
  DEF Next, Arrive, Dma, DmaSegment, DmaSuspend, Isr, IsrCallback, IsrClear, Tcpip,
      TcpipTimeouts, TcpipUnlockCore, TcpipFetch, TcpipFetchTimeout, TcpipLockCore,
      HandleInpkt, HandleCallback, TcpipTransmit, TcpipTransmitted, AppEnter, AppEffect,
      AppLeave, vars, ethif
<1> QED BY <1>2, <1>3

\* The frame that AllocPbuf copies is the one whose last segment was scanned last.
LEMMA CopyId ==
  ASSUME NEW g \in Nat, NEW r \in Nat, NEW w \in Nat,
         TypeOK, RingAt(g, r, w), FrameInHand, Given = 0
  PROVE  /\ Id(RxFrame) = At(r - 1).f /\ At(r - 1).ls = 1
         /\ r - 1 \in g..(w - 1) /\ \A i \in g..(r - 1) : At(i).f = At(r - 1).f
<1>1. /\ Run(g, r) /\ Scanned(g, r) /\ segCount \in Nat /\ r <= w
  BY DEF RingAt, Arc, TypeOK, HethType
<1>2. /\ g = r - segCount /\ fsRx = Index(g) /\ segCount > 0 /\ r - 1 \in g..(r - 1)
      /\ g \in g..(r - 1) /\ 1 \in 1..segCount
  BY <1>1 DEF Run
<1>3. RxFrame[1] = <<At(g).f, At(g).s>>
  <2>1. NthDesc(fsRx, 0) = Index(g)
    BY <1>2, IndexNth
  <2>2. RxFrame[1] = LET b == buf[NthDesc(fsRx, 1 - 1)] IN <<b.f, b.s>>
    BY <1>2 DEF RxFrame
  <2> QED BY <2>1, <2>2 DEF At
<1> QED
  BY <1>1, <1>2, <1>3 DEF Scanned, Bit, Id

LEMMA HandMoves ==
  ASSUME NEW g \in Nat, NEW r \in Nat, NEW w \in Nat, TypeOK, Accounts, FifoOrder,
         RingAt(g, r, w), RingOrder(g, w), HandOrder(g, r, w), [Next]_vars
  PROVE  /\ DmaSegment => HandOrder(g, r, w + 1)'
         /\ ScanSegment \/ ScanLast => HandOrder(g, r + 1, w)'
         /\ GiveBack => HandOrder(g + 1, r, w)'
         /\ ~RingMoves => HandOrder(g, r, w)'
<1>0. /\ sent \in Nat /\ InFifo \subseteq 1..sent /\ g <= r /\ r <= w
      /\ \A i \in g..(w - 1) : At(i).f \in 1..sent
  BY FrameAssumption DEF TypeOK, NicType, FifoOrder, RingOrder, RingAt, Arc
<1>1. CASE ScanSegment \/ ScanLast
  <2>1. ~Owned' /\ ~DmaSegment /\ ~GiveBack
    BY <1>1 DEF ScanSegment, ScanLast, EGoto, Owned, DmaSegment, GiveBack, ethif, nic,
                TypeOK, EthIfType
  <2> QED BY <1>1, <2>1 DEF HandOrder, RingMoves
<1>2. CASE AllocPbuf
  <2>1. FrameInHand /\ Given = 0 /\ ~RingMoves /\ p' = RxFrame /\ epc' = "give"
        /\ UNCHANGED <<buf, fifo, sent>>
    BY <1>2 DEF AllocPbuf, EGoto, FrameInHand, Given, RingMoves, DmaSegment, ScanSegment,
                ScanLast, GiveBack, nic, ring, ethif, TypeOK, EthIfType
  <2>2. /\ Id(p') = At(r - 1).f /\ At(r - 1).ls = 1 /\ r - 1 \in g..(w - 1)
        /\ \A i \in g..(r - 1) : At(i).f = At(r - 1).f
    BY <2>1, CopyId
  <2>3. /\ \A i \in g..(w - 1) : IF i < r THEN At(i).f = Id(p') ELSE Id(p') < At(i).f
        /\ \A f \in InFifo : Id(p') < f
        /\ Id(p') \in 1..sent
    BY <1>0, <2>2 DEF RingOrder
  <2>4. \A i : At(i)' = At(i)
    BY <2>1 DEF At
  <2>5. InFifo' = InFifo
    BY <2>1 DEF InFifo
  <2>6. Id(p)' = Id(p') /\ epc' = "give" /\ sent' = sent
    BY <2>1 DEF Id
  <2>7. \A i \in g..(w - 1) : IF i < r THEN At(i)'.f = Id(p)' ELSE Id(p)' < At(i)'.f
    BY <2>3, <2>4, <2>6
  <2>8. HandOrder(g, r, w)'
    BY <2>3, <2>5, <2>6, <2>7 DEF HandOrder
  <2> QED BY <2>1, <2>8 DEF RingMoves
<1>3. CASE ~AllocPbuf /\ ~ScanSegment /\ ~ScanLast
  <2> SUFFICES ASSUME Owned'
               PROVE  /\ DmaSegment => HandOrder(g, r, w + 1)'
                      /\ GiveBack => HandOrder(g + 1, r, w)'
                      /\ ~DmaSegment /\ ~GiveBack => HandOrder(g, r, w)'
    BY <1>3 DEF HandOrder, RingMoves
  <2>1. Owned /\ p' = p /\ (epc' # "give" => epc # "give" \/ GiveBackDone)
    BY <1>3, OwnedMoves
  <2>2. /\ Id(p) \in 1..sent /\ Id(p)' = Id(p)
        /\ \A i \in g..(w - 1) : IF i < r THEN At(i).f = Id(p) ELSE Id(p) < At(i).f
        /\ \A f \in InFifo : Id(p) < f
        /\ epc # "give" => g = r
    BY <2>1 DEF HandOrder, Id
  <2>3. sent' \in Nat /\ sent <= sent' /\ \A f \in InFifo' : Id(p) < f
    <3>1. CASE Arrive
      <4>1. sent' = sent + 1 /\ InFifo' \subseteq InFifo \cup {sent + 1}
        BY <3>1, FifoMoves
      <4> QED BY <1>0, <2>2, <4>1
    <3>2. CASE ~Arrive
      <4>1. sent' = sent /\ InFifo' \subseteq InFifo
        BY <3>2, FifoMoves
      <4> QED BY <1>0, <2>2, <4>1
    <3> QED BY <3>1, <3>2
  <2>4. CASE DmaSegment
    <3>1. /\ At(w)'.f = Head(fifo) /\ \A i \in g..(w - 1) : At(i)' = At(i)
      BY <2>4, DmaWrites DEF RingAt, Written
    <3>2. Head(fifo) \in InFifo /\ epc' = epc /\ ~GiveBack
      BY <2>4, HeadFirst DEF DmaSegment, DmaActive, GiveBack, ethif, TypeOK, EthIfType
    <3>3. \A i \in g..w : IF i < r THEN At(i)'.f = Id(p) ELSE Id(p) < At(i)'.f
      <4> SUFFICES ASSUME NEW i \in g..w
                   PROVE  IF i < r THEN At(i)'.f = Id(p) ELSE Id(p) < At(i)'.f
        OBVIOUS
      <4>1. CASE i = w
        <5>1. ~(w < r)
          BY <1>0
        <5>2. Id(p) < Head(fifo)
          BY <2>2, <3>2
        <5>3. At(i)'.f = Head(fifo)
          BY <3>1, <4>1
        <5> QED BY <4>1, <5>1, <5>2, <5>3
      <4>2. CASE i \in g..(w - 1)
        BY <2>2, <3>1, <4>2
      <4> QED BY <4>1, <4>2
    <3>4. w + 1 - 1 = w
      OBVIOUS
    <3>5. Id(p) \in 1..sent'
      BY <1>0, <2>2, <2>3
    <3>6. HandOrder(g, r, w + 1)'
      BY <2>2, <2>3, <3>2, <3>3, <3>4, <3>5 DEF HandOrder
    <3> QED BY <2>4, <3>2, <3>6
  <2>5. CASE ~DmaSegment
    <3>1. \A i : At(i)' = At(i)
      BY <2>5, RingStays DEF At
    <3>2. Id(p) \in 1..sent'
      BY <1>0, <2>2, <2>3
    <3>3. GiveBackDone => g = r
      BY DEF GiveBackDone, EGoto, RingAt, Run, Given, TypeOK, HethType, EthIfType
    <3>4. GiveBack => epc' = "give"
      BY DEF GiveBack, EGoto
    <3>5. GiveBack => HandOrder(g + 1, r, w)'
      BY <2>2, <2>3, <3>1, <3>2, <3>4 DEF HandOrder
    <3>6. HandOrder(g, r, w)'
      BY <2>1, <2>2, <2>3, <3>1, <3>2, <3>3 DEF HandOrder
    <3> QED BY <2>5, <3>5, <3>6
  <2> QED BY <2>4, <2>5
<1> QED BY <1>1, <1>2, <1>3

\* What a step does to the frames in the ring.
LEMMA RingSets ==
  ASSUME NEW g \in Nat, NEW r \in Nat, NEW w \in Nat,
         TypeOK, RingAt(g, r, w), [Next]_vars
  PROVE  /\ DmaSegment => InRing' = InRing \cup {Head(fifo)}
         /\ GiveBack => \E f \in InRing : InRing = InRing' \cup {f}
         /\ ~DmaSegment /\ ~GiveBack => InRing' = InRing
<1>1. CASE DmaSegment
  <2>1. /\ own[dmaPos] = "DMA" /\ dmaPos \in Desc
        /\ own' = [own EXCEPT ![dmaPos] = "CPU"] /\ buf' = [buf EXCEPT ![dmaPos] = Written]
    BY <1>1 DEF DmaSegment, Written, TypeOK, NicType
  <2>2. own'[dmaPos] = "CPU" /\ buf'[dmaPos].f = Head(fifo)
    BY <2>1 DEF TypeOK, RingType, Written
  <2>3. \A d \in Desc : d # dmaPos => own'[d] = own[d] /\ buf'[d] = buf[d]
    BY <2>1 DEF TypeOK, RingType
  <2>4. InRing' = InRing \cup {Head(fifo)}
    BY <2>1, <2>2, <2>3 DEF InRing
  <2>5. ~GiveBack
    BY <1>1 DEF DmaSegment, GiveBack, ethif, TypeOK, EthIfType
  <2> QED BY <1>1, <2>4, <2>5
<1>2. CASE ~DmaSegment
  <2>1. UNCHANGED buf
    BY <1>2, RingStays
  <2>2. CASE GiveBack
    <3> DEFINE e == NthDesc(fsRx, cnt)
    <3>1. own' = [own EXCEPT ![e] = "DMA"] /\ e \in Desc /\ epc = "give" /\ cnt < segCount
      BY <2>2, DescFacts DEF GiveBack, EGoto, TypeOK, HethType, EthIfType
    <3>2. own[e] = "CPU"
      <4>1. FrameInHand /\ Given = cnt /\ cnt + 1 \in (cnt + 1)..segCount /\ cnt \in Nat
        BY <3>1 DEF FrameInHand, Given, TypeOK, HethType, EthIfType
      <4>2. own[InHand(cnt + 1)] = "CPU"
        BY <4>1, HandIsHeld DEF RingInv
      <4>3. InHand(cnt + 1) = e
        BY <4>1 DEF InHand
      <4> QED BY <4>2, <4>3
    <3>3. \A d \in Desc : d # e => own'[d] = own[d]
      BY <3>1 DEF TypeOK, RingType
    <3>4. own'[e] = "DMA"
      BY <3>1 DEF TypeOK, RingType
    <3> HIDE DEF e
    <3>5. buf[e].f \in InRing /\ InRing = InRing' \cup {buf[e].f}
      BY <2>1, <3>1, <3>2, <3>3, <3>4 DEF InRing
    <3> QED BY <1>2, <2>2, <3>5
  <2>3. CASE ~GiveBack
    BY <1>2, <2>1, <2>3, RingStays DEF InRing
  <2> QED BY <1>2, <2>2, <2>3
<1> QED BY <1>1, <1>2

\* A frame that has passed stays behind the others.
LEMMA PassedMoves ==
  ASSUME NEW g \in Nat, NEW r \in Nat, NEW w \in Nat, TypeOK, Accounts, FifoOrder,
         RingAt(g, r, w), [Next]_vars
  PROVE  Passed \subseteq Passed'
<1> SUFFICES ASSUME NEW x \in Passed PROVE x \in Passed'
  OBVIOUS
<1>1. x \in 0..sent /\ sent \in Nat /\ InFifo \subseteq 1..sent
  BY FrameAssumption DEF Passed, FifoOrder, TypeOK, NicType
<1>2. x \in 0..sent' /\ \A f \in InFifo' : x < f
  <2>1. CASE Arrive
    <3>1. sent' = sent + 1 /\ InFifo' \subseteq InFifo \cup {sent + 1}
      BY <2>1, FifoMoves
    <3> QED BY <1>1, <3>1 DEF Passed
  <2>2. CASE ~Arrive
    <3>1. sent' = sent /\ InFifo' \subseteq InFifo
      BY <2>2, FifoMoves
    <3> QED BY <1>1, <3>1 DEF Passed
  <2> QED BY <2>1, <2>2
<1>3. \A f \in InRing' : x < f
  <2>1. CASE DmaSegment
    <3>1. Head(fifo) \in InFifo
      BY <2>1, HeadFirst DEF DmaSegment, DmaActive
    <3> QED BY <2>1, <3>1, RingSets DEF Passed
  <2>2. CASE ~DmaSegment
    <3>1. InRing' \subseteq InRing
      BY <2>2, RingSets
    <3> QED BY <3>1 DEF Passed
  <2> QED BY <2>1, <2>2
<1>4. Owned' => x < Id(p)'
  <2>1. CASE AllocPbuf
    <3>1. FrameInHand /\ Given = 0 /\ p' = RxFrame
      BY <2>1 DEF AllocPbuf, EGoto, FrameInHand, Given
    <3>2. Id(p') = At(r - 1).f /\ r - 1 \in g..(w - 1)
      BY <3>1, CopyId
    <3>3. Id(p') \in InRing
      BY <3>2, RingFrames DEF RingAt
    <3> QED BY <3>3 DEF Passed, Id
  <2>2. CASE ~AllocPbuf
    BY <2>2, OwnedMoves DEF Passed, Id
  <2> QED BY <2>1, <2>2
<1> QED BY <1>2, <1>3, <1>4 DEF Passed

\* The steps that move a frame between the stages after the ring.
MsgMoves == OoseqPosted \/ InputPosted \/ TcpipFetch \/ HandleInpkt \/ HandleCallback

LEMMA MsgStays ==
  ASSUME [Next]_vars, ~MsgMoves
  PROVE  UNCHANGED <<mbox, tmsg, got>>
BY DEF Next, Arrive, Dma, DmaSegment, DmaSuspend, Isr, IsrCallback, IsrClear, EthIf,
       EthIfWait, EthIfLockCore, GetReceivedFrame, ScanSegment, ScanLast, ScanNothing,
       AllocPbuf, AllocFails, OoseqTimesOut, GiveBack, GiveBackDone, ResumeDma, Input,
       InputTimesOut, EthIfUnlockCore, Tcpip, TcpipTimeouts, TcpipUnlockCore,
       TcpipFetchTimeout, TcpipLockCore, TcpipTransmit, TcpipTransmitted, AppEnter,
       AppEffect, AppLeave, vars, tcpip, MsgMoves

LEMMA QueuedLast ==
  ASSUME TypeOK
  PROVE  \A m \in Msg : mbox' = Append(mbox, m) =>
           /\ Queued' = IF m.type = "INPKT" THEN Queued \cup {Len(mbox) + 1} ELSE Queued
           /\ \A i \in Queued : mbox'[i] = mbox[i] /\ i < Len(mbox) + 1
           /\ mbox'[Len(mbox) + 1] = m
<1> SUFFICES ASSUME NEW m \in Msg, mbox' = Append(mbox, m)
             PROVE  /\ Queued' = IF m.type = "INPKT" THEN Queued \cup {Len(mbox) + 1}
                                                     ELSE Queued
                    /\ \A i \in Queued : mbox'[i] = mbox[i] /\ i < Len(mbox) + 1
                    /\ mbox'[Len(mbox) + 1] = m
  OBVIOUS
<1>1. /\ DOMAIN mbox = 1..Len(mbox) /\ Len(mbox) \in Nat
      /\ DOMAIN mbox' = 1..(Len(mbox) + 1) /\ mbox'[Len(mbox) + 1] = m
      /\ \A i \in DOMAIN mbox : mbox'[i] = mbox[i]
  BY DEF TypeOK, TcpipType
<1>2. DOMAIN mbox' = DOMAIN mbox \cup {Len(mbox) + 1}
  BY <1>1
<1>3. \A i \in DOMAIN mbox : i < Len(mbox) + 1
  BY <1>1
<1>4. \A i \in Queued : i \in DOMAIN mbox
  BY DEF Queued
<1>5. Queued' = {i \in DOMAIN mbox' : mbox'[i].type = "INPKT"}
  BY DEF Queued
<1>6. \A i \in Queued' : i \in Queued \/ (i = Len(mbox) + 1 /\ m.type = "INPKT")
  BY <1>1, <1>2, <1>5 DEF Queued
<1>7. \A i \in Queued : i \in Queued'
  BY <1>1, <1>2, <1>5 DEF Queued
<1>8. m.type = "INPKT" => Len(mbox) + 1 \in Queued'
  BY <1>1, <1>2, <1>5
<1>9. Queued' = IF m.type = "INPKT" THEN Queued \cup {Len(mbox) + 1} ELSE Queued
  <2>1. CASE m.type = "INPKT"
    BY <1>6, <1>7, <1>8, <2>1
  <2>2. CASE m.type # "INPKT"
    BY <1>6, <1>7, <2>2
  <2> QED BY <2>1, <2>2
<1> QED BY <1>1, <1>3, <1>4, <1>9

LEMMA QueuedRest ==
  ASSUME TypeOK, mbox # <<>>, mbox' = Tail(mbox)
  PROVE  /\ \A i \in Queued' : i + 1 \in Queued /\ mbox'[i] = mbox[i + 1] /\ i \in Nat \ {0}
         /\ \A i \in Queued : i # 1 => i - 1 \in Queued' /\ mbox'[i - 1] = mbox[i]
         /\ Head(mbox) = mbox[1] /\ 1 \in DOMAIN mbox
<1>1. /\ DOMAIN mbox = 1..Len(mbox) /\ Len(mbox) \in Nat \ {0}
      /\ DOMAIN mbox' = 1..(Len(mbox) - 1) /\ Head(mbox) = mbox[1]
      /\ \A i \in DOMAIN mbox' : mbox'[i] = mbox[i + 1]
  BY DEF TypeOK, TcpipType
<1>2. \A i \in DOMAIN mbox' : i + 1 \in DOMAIN mbox /\ i \in Nat \ {0}
  BY <1>1
<1>3. \A i \in DOMAIN mbox : i # 1 => i - 1 \in DOMAIN mbox' /\ mbox'[i - 1] = mbox[i]
  BY <1>1
<1> QED BY <1>1, <1>2, <1>3 DEF Queued

LEMMA TakenMoves ==
  ASSUME NEW g \in Nat, NEW r \in Nat, NEW w \in Nat, TypeOK, Accounts, FifoOrder,
         RingAt(g, r, w), HandOrder(g, r, w), TakenOrder, [Next]_vars
  PROVE  TakenOrder'
<1>1. Passed \subseteq Passed'
  BY PassedMoves
<1>2. CASE ~MsgMoves
  <2>1. UNCHANGED <<mbox, tmsg, got>> /\ Queued' = Queued
    BY <1>2, MsgStays DEF Queued
  <2> QED BY <1>1, <2>1 DEF TakenOrder, Id
<1>3. CASE OoseqPosted
  <2>1. mbox' = Append(mbox, OoseqMsg) /\ UNCHANGED <<tmsg, got>>
    BY <1>3 DEF OoseqPosted, TryPost
  <2>2. Queued' = Queued /\ \A i \in Queued : mbox'[i] = mbox[i]
    <3>1. OoseqMsg \in Msg /\ OoseqMsg.type # "INPKT"
      BY DEF OoseqMsg, Msg
    <3> QED BY <2>1, <3>1, QueuedLast
  <2> QED BY <1>1, <2>1, <2>2 DEF TakenOrder, Id
<1>4. CASE InputPosted
  <2>1. /\ mbox' = Append(mbox, InpktMsg(p)) /\ UNCHANGED <<tmsg, got>> /\ Owned /\ ~Owned'
        /\ epc = "post" /\ p # NULL /\ p \in Pbuf
    BY <1>4 DEF InputPosted, TryPost, EGoto, Owned, TypeOK, EthIfType
  <2> DEFINE n == Len(mbox) + 1
  <2>2. InpktMsg(p) \in Msg /\ InpktMsg(p).type = "INPKT" /\ InpktMsg(p).p = p
    BY <2>1, MsgFacts DEF InpktMsg
  <2>3. /\ Queued' = Queued \cup {n} /\ mbox'[n] = InpktMsg(p)
        /\ \A i \in Queued : mbox'[i] = mbox[i] /\ i < n
    BY <2>1, <2>2, QueuedLast
  <2>4. Id(p) \in Passed'
    <3>1. ~DmaSegment /\ ~GiveBack /\ ~Arrive /\ ~RingMoves
      BY <1>4 DEF InputPosted, EGoto, DmaSegment, GiveBack, Arrive, RingMoves, ScanSegment,
                  ScanLast, ethif, nic, TypeOK, EthIfType, NicType
    <3>2. InFifo' = InFifo /\ InRing' = InRing /\ sent' = sent
      BY <3>1, FifoMoves, RingSets
    <3>3. InRing = {At(i).f : i \in g..(w - 1)}
      BY RingFrames DEF RingAt
    <3>4. \A f \in InFifo \cup InRing : Id(p) < f
      BY <2>1, <3>3 DEF HandOrder
    <3>5. Id(p) \in 0..sent
      BY <2>1, FrameAssumption DEF HandOrder, TypeOK, NicType
    <3>6. p' = p
      BY <1>4 DEF InputPosted
    <3> QED BY <2>1, <3>2, <3>4, <3>5, <3>6 DEF Passed, Id
  <2>5. /\ got < Id(p) /\ \A i \in Queued : Id(mbox[i].p) < Id(p)
        /\ tmsg.type = "INPKT" => Id(tmsg.p) < Id(p)
    BY <2>1 DEF TakenOrder, Passed
  <2>6. Id(mbox'[n].p) = Id(p) /\ \A i \in Queued : ~(n < i)
    <3>1. \A i \in Queued : i \in Int /\ n \in Int
      BY DEF Queued, TypeOK, TcpipType
    <3> QED BY <2>2, <2>3, <3>1
  <2>7. Id(p') = Id(p)
    BY <1>4 DEF InputPosted
  <2> HIDE DEF n
  <2> QED
    <3>1. got' \in Passed'
      BY <1>1, <2>1 DEF TakenOrder
    <3>2. \A i \in Queued' : Id(mbox'[i].p) \in Passed' /\ got' < Id(mbox'[i].p)
      <4>1. \A i \in Queued : Id(mbox'[i].p) \in Passed' /\ got' < Id(mbox'[i].p)
        BY <1>1, <2>1, <2>3 DEF TakenOrder, Id
      <4>2. Id(mbox'[n].p) \in Passed' /\ got' < Id(mbox'[n].p)
        BY <2>1, <2>2, <2>3, <2>4, <2>5, <2>6, <2>7 DEF Id
      <4> QED BY <2>3, <4>1, <4>2
    <3>3. \A i, j \in Queued' : i < j => Id(mbox'[i].p) < Id(mbox'[j].p)
      <4> SUFFICES ASSUME NEW i \in Queued', NEW j \in Queued', i < j
                   PROVE  Id(mbox'[i].p) < Id(mbox'[j].p)
        OBVIOUS
      <4>1. i \in Queued
        <5>1. n \in Int
          BY DEF n, TypeOK, TcpipType
        <5>2. j \in Queued => j < n
          BY <2>3
        <5> QED BY <2>3, <2>6, <5>1, <5>2
      <4>2. mbox'[i] = mbox[i]
        BY <2>3, <4>1
      <4>3. CASE j = n
        BY <2>5, <2>6, <4>1, <4>2, <4>3
      <4>4. CASE j \in Queued
        BY <2>3, <4>1, <4>2, <4>4 DEF TakenOrder
      <4> QED BY <2>3, <4>3, <4>4
    <3>4. tmsg'.type = "INPKT" =>
            /\ Id(tmsg'.p) \in Passed' /\ got' < Id(tmsg'.p)
            /\ \A i \in Queued' : Id(tmsg'.p) < Id(mbox'[i].p)
      BY <1>1, <2>1, <2>3, <2>5, <2>6 DEF TakenOrder, Id
    <3> QED BY <3>1, <3>2, <3>3, <3>4 DEF TakenOrder, Id
<1>5. CASE TcpipFetch
  <2>1. mbox # <<>> /\ mbox' = Tail(mbox) /\ tmsg' = Head(mbox) /\ UNCHANGED got
    BY <1>5 DEF TcpipFetch
  <2>2. /\ \A i \in Queued' : i + 1 \in Queued /\ mbox'[i] = mbox[i + 1] /\ i \in Nat \ {0}
        /\ tmsg' = mbox[1] /\ 1 \in DOMAIN mbox
    BY <2>1, QueuedRest
  <2>3. tmsg'.type = "INPKT" => 1 \in Queued
    BY <2>2 DEF Queued
  <2>4. got' \in Passed'
    BY <1>1, <2>1 DEF TakenOrder
  <2>5. \A i \in Queued' : Id(mbox'[i].p) \in Passed' /\ got' < Id(mbox'[i].p)
    BY <1>1, <2>1, <2>2 DEF TakenOrder, Id
  <2>6. \A i, j \in Queued' : i < j => Id(mbox'[i].p) < Id(mbox'[j].p)
    BY <2>2 DEF TakenOrder
  <2>7. tmsg'.type = "INPKT" =>
          /\ Id(tmsg'.p) \in Passed' /\ got' < Id(tmsg'.p)
          /\ \A i \in Queued' : Id(tmsg'.p) < Id(mbox'[i].p)
    <3> SUFFICES ASSUME tmsg'.type = "INPKT"
                 PROVE  /\ Id(tmsg'.p) \in Passed' /\ got' < Id(tmsg'.p)
                        /\ \A i \in Queued' : Id(tmsg'.p) < Id(mbox'[i].p)
      OBVIOUS
    <3>1. 1 \in Queued /\ tmsg' = mbox[1]
      BY <2>2, <2>3
    <3>2. Id(tmsg'.p) \in Passed' /\ got' < Id(tmsg'.p)
      BY <1>1, <2>1, <3>1 DEF TakenOrder
    <3>3. ASSUME NEW i \in Queued' PROVE Id(tmsg'.p) < Id(mbox'[i].p)
      <4>1. i + 1 \in Queued /\ mbox'[i] = mbox[i + 1] /\ 1 < i + 1
        BY <2>2
      <4> QED BY <3>1, <4>1 DEF TakenOrder
    <3> QED BY <3>2, <3>3
  <2> QED BY <2>4, <2>5, <2>6, <2>7 DEF TakenOrder, Id
<1>6. CASE HandleInpkt \/ HandleCallback
  <2>1. tmsg' = NoMsg /\ UNCHANGED mbox /\ Queued' = Queued /\ NoMsg.type # "INPKT"
    BY <1>6 DEF HandleInpkt, HandleCallback, Queued, NoMsg
  <2>2. got' = got \/ (tmsg.type = "INPKT" /\ got' = Id(tmsg.p))
    BY <1>6 DEF HandleInpkt, HandleCallback, Id
  <2> QED BY <1>1, <2>1, <2>2 DEF TakenOrder, Id
<1> QED BY <1>2, <1>3, <1>4, <1>5, <1>6 DEF MsgMoves

LEMMA LineStep ==
  TypeOK /\ Accounts /\ LineInv /\ FifoOrder /\ TakenOrder /\ [Next]_vars
    => LineInv' /\ FifoOrder' /\ TakenOrder'
<1> SUFFICES ASSUME TypeOK, Accounts, LineInv, FifoOrder, TakenOrder, [Next]_vars
             PROVE  LineInv' /\ FifoOrder' /\ TakenOrder'
  OBVIOUS
<1>1. PICK g \in Nat, r \in Nat, w \in Nat :
        RingAt(g, r, w) /\ RingOrder(g, w) /\ HandOrder(g, r, w)
  BY DEF LineInv
<1>2. FifoOrder'
  BY FifoMoves
<1>3. TakenOrder'
  BY <1>1, TakenMoves
<1>4. g + 1 \in Nat /\ r + 1 \in Nat /\ w + 1 \in Nat
  OBVIOUS
<1>5. CASE DmaSegment
  <2>1. RingAt(g, r, w + 1)' /\ RingOrder(g, w + 1)' /\ HandOrder(g, r, w + 1)'
    BY <1>1, <1>5, RingStep, OrderMoves, HandMoves
  <2> QED BY <1>2, <1>3, <1>4, <2>1 DEF LineInv
<1>6. CASE ScanSegment \/ ScanLast
  <2>1. ~DmaSegment
    BY <1>6 DEF ScanSegment, ScanLast, EGoto, DmaSegment, ethif, nic, heth, TypeOK,
                EthIfType, HethType
  <2>2. RingAt(g, r + 1, w)' /\ RingOrder(g, w)' /\ HandOrder(g, r + 1, w)'
    BY <1>1, <1>6, <2>1, RingStep, OrderMoves, HandMoves
  <2> QED BY <1>2, <1>3, <1>4, <2>2 DEF LineInv
<1>7. CASE GiveBack
  <2>1. RingAt(g + 1, r, w)' /\ RingOrder(g + 1, w)' /\ HandOrder(g + 1, r, w)'
    BY <1>1, <1>7, RingStep, OrderMoves, HandMoves
  <2> QED BY <1>2, <1>3, <1>4, <2>1 DEF LineInv
<1>8. CASE ~RingMoves
  <2>1. RingAt(g, r, w)' /\ RingOrder(g, w)' /\ HandOrder(g, r, w)'
    BY <1>1, <1>8, RingStep, OrderMoves, HandMoves DEF RingMoves
  <2> QED BY <1>2, <1>3, <2>1 DEF LineInv
<1> QED BY <1>5, <1>6, <1>7, <1>8 DEF RingMoves

LEMMA LineInit == Init => LineInv /\ FifoOrder /\ TakenOrder
<1> SUFFICES ASSUME Init PROVE LineInv /\ FifoOrder /\ TakenOrder
  OBVIOUS
<1>1. RingAt(0, 0, 0)
  BY RingInit
<1>2. InFifo = {} /\ InRing = {} /\ Queued = {} /\ ~Owned
  BY DEF Init, InFifo, InRing, Queued, Owned
<1>3. RingOrder(0, 0) /\ HandOrder(0, 0, 0)
  BY <1>2 DEF RingOrder, HandOrder
<1>4. FifoOrder
  BY <1>2 DEF FifoOrder, Init
<1>5. TakenOrder
  BY <1>2 DEF TakenOrder, Passed, Init, NoMsg
<1> QED BY <1>1, <1>3, <1>4, <1>5 DEF LineInv

LEMMA LineHolds == Spec => [](LineInv /\ FifoOrder /\ TakenOrder)
<1>1. TypeOK /\ Accounts /\ LineInv /\ FifoOrder /\ TakenOrder /\ [Next]_vars
        => LineInv' /\ FifoOrder' /\ TakenOrder'
  BY LineStep
<1> QED BY <1>1, LineInit, AccountsHold, TypeCorrect, PTL DEF Spec

(* The line of the frames, from the FIFO to the thread's hand.               *)

OfEthIf == IF Owned THEN {Id(p)} ELSE {}
InMbox == {Id(mbox[i].p) : i \in Queued}
InThread == IF tmsg.type = "INPKT" THEN {Id(tmsg.p)} ELSE {}
Line == InFifo \cup InRing \cup OfEthIf \cup InMbox \cup InThread

LEMMA FrameOfWhole ==
  ASSUME NEW b \in Pbuf, Whole(b)
  PROVE  FrameOf(b) = IF b = NULL THEN {} ELSE {Id(b)}
<1>1. CASE b = NULL
  BY <1>1 DEF FrameOf, NULL
<1>2. CASE b # NULL
  <2>1. 1 \in DOMAIN b
    BY <1>2 DEF Pbuf, NULL
  <2>2. \A k \in DOMAIN b : b[k][1] = Id(b)
    BY DEF Whole, Id
  <2> QED BY <1>2, <2>1, <2>2 DEF FrameOf
<1> QED BY <1>1, <1>2

LEMMA PendingIsLine == TypeOK /\ FramesWhole => PendingFrames = Line
<1> SUFFICES ASSUME TypeOK, FramesWhole PROVE PendingFrames = Line
  OBVIOUS
<1>1. (IF EthIfOwns = 1 THEN FrameOf(p) ELSE {}) = OfEthIf
  <2>1. FrameOf(p) = IF p = NULL THEN {} ELSE {Id(p)}
    BY FrameOfWhole DEF TypeOK, EthIfType, FramesWhole
  <2>2. EthIfOwns = 1 <=> Owned
    BY DEF EthIfOwns, Owned, Bit
  <2>3. Owned => p # NULL
    BY DEF Owned
  <2> QED BY <2>1, <2>2, <2>3 DEF OfEthIf
<1>2. \A m \in Msg \cup {NoMsg} : Whole(m.p) =>
        FrameOf(m.p) = IF m.type = "INPKT" THEN {Id(m.p)} ELSE {}
  <2> SUFFICES ASSUME NEW m \in Msg \cup {NoMsg}, Whole(m.p)
               PROVE  FrameOf(m.p) = IF m.type = "INPKT" THEN {Id(m.p)} ELSE {}
    OBVIOUS
  <2>1. CASE m \in {NoMsg, OoseqMsg}
    BY <2>1 DEF NoMsg, OoseqMsg, FrameOf, NULL
  <2>2. CASE m \in [type : {"INPKT"}, p : Pbuf \ {NULL}]
    BY <2>2, FrameOfWhole
  <2> QED BY <2>1, <2>2 DEF Msg
<1>3. FrameOf(tmsg.p) = InThread
  BY <1>2 DEF TypeOK, TcpipType, FramesWhole, InThread
<1>4. UNION {FrameOf(mbox[i].p) : i \in DOMAIN mbox} = InMbox
  <2>1. \A i \in DOMAIN mbox : FrameOf(mbox[i].p) = IF i \in Queued THEN {Id(mbox[i].p)} ELSE {}
    <3> SUFFICES ASSUME NEW i \in DOMAIN mbox
                 PROVE  FrameOf(mbox[i].p) = IF i \in Queued THEN {Id(mbox[i].p)} ELSE {}
      OBVIOUS
    <3>1. mbox[i] \in Msg /\ Whole(mbox[i].p)
      BY DEF TypeOK, TcpipType, FramesWhole
    <3>2. i \in Queued <=> mbox[i].type = "INPKT"
      BY DEF Queued
    <3> QED BY <1>2, <3>1, <3>2
  <2>2. Queued \subseteq DOMAIN mbox
    BY DEF Queued
  <2> DEFINE F == {FrameOf(mbox[i].p) : i \in DOMAIN mbox}
  <2>3. \A i \in Queued : Id(mbox[i].p) \in UNION F
    BY <2>1, <2>2
  <2>4. \A B \in F : B \subseteq InMbox
    BY <2>1 DEF InMbox
  <2> HIDE DEF F
  <2>5. UNION F = InMbox
    BY <2>3, <2>4 DEF InMbox
  <2> QED BY <2>5 DEF F
<1>5. TakenFrames = OfEthIf \cup InMbox \cup InThread
  BY <1>1, <1>3, <1>4 DEF TakenFrames
<1>6. PendingFrames = InFifo \cup InRing \cup TakenFrames
  BY DEF PendingFrames, InFifo, InRing
<1> QED BY <1>5, <1>6 DEF Line

LEMMA OneLess ==
  ASSUME NEW A, NEW B, NEW f, A = B \cup {f}
  PROVE  B = A \/ (f \in A /\ B = A \ {f})
<1>1. CASE f \in B
  BY <1>1
<1>2. CASE f \notin B
  BY <1>2
<1> QED BY <1>1, <1>2

\* What reception and the return of the descriptors do to FIFO and ring.
LEMMA RingLine ==
  ASSUME NEW g \in Nat, NEW r \in Nat, NEW w \in Nat,
         TypeOK, FifoOrder, RingAt(g, r, w), [Next]_vars, ~Arrive
  PROVE  \/ InFifo' \cup InRing' = InFifo \cup InRing
         \/ GiveBack /\ \E f \in InRing : InFifo \cup InRing = InFifo' \cup InRing' \cup {f}
<1>1. CASE DmaSegment
  <2>1. fifo # <<>> /\ InRing' = InRing \cup {Head(fifo)}
    BY <1>1, RingSets DEF DmaSegment, DmaActive
  <2>2. CASE ClosesFrame
    <3>1. fifo' = Tail(fifo)
      BY <1>1, <2>2 DEF DmaSegment
    <3>2. InFifo = InFifo' \cup {Head(fifo)}
      BY <2>1, <3>1, HeadFirst
    <3> QED BY <2>1, <3>2
  <2>3. CASE ~ClosesFrame
    <3>1. InFifo' = InFifo /\ Head(fifo) \in InFifo
      BY <1>1, <2>1, <2>3, HeadFirst DEF DmaSegment, InFifo
    <3> QED BY <2>1, <3>1
  <2> QED BY <2>2, <2>3
<1>2. CASE ~DmaSegment
  <2>1. InFifo' = InFifo
    BY <1>2, FifoMoves
  <2>2. CASE GiveBack
    <3>1. PICK f \in InRing : InRing = InRing' \cup {f}
      BY <2>2, RingSets
    <3> QED BY <2>1, <2>2, <3>1
  <2>3. CASE ~GiveBack
    BY <1>2, <2>1, <2>3, RingSets
  <2> QED BY <2>2, <2>3
<1> QED BY <1>1, <1>2

\* Which steps change what EthIf owns: it copies, posts or frees a frame.
LEMMA OwnStays ==
  ASSUME TypeOK, Accounts, [Next]_vars,
         ~AllocPbuf, ~Input, ~InputPosted, ~InputTimesOut
  PROVE  OfEthIf' = OfEthIf
<1> USE DEF Owned, OfEthIf, Id, EGoto
<1>1. p = NULL \/ epc \notin {"wait", "lock", "get", "scan", "alloc", "ooseq"}
  BY DEF Accounts, InHandOnly
<1>2. CASE EthIf
  BY <1>1, <1>2
  DEF EthIf, EthIfWait, EthIfLockCore, GetReceivedFrame, ScanSegment, ScanLast,
      ScanNothing, AllocFails, OoseqPosted, OoseqTimesOut, GiveBack, GiveBackDone,
      ResumeDma, EthIfUnlockCore
<1>3. CASE ~EthIf
  BY <1>3
  DEF Next, Arrive, Dma, DmaSegment, DmaSuspend, Isr, IsrCallback, IsrClear, Tcpip,
      TcpipTimeouts, TcpipUnlockCore, TcpipFetch, TcpipFetchTimeout, TcpipLockCore,
      HandleInpkt, HandleCallback, TcpipTransmit, TcpipTransmitted, AppEnter, AppEffect,
      AppLeave, vars, ethif
<1> QED BY <1>2, <1>3

\* What the other steps do to the frames of EthIf, the mailbox and the thread.
Taken == OfEthIf \cup InMbox \cup InThread

LEMMA TakenCopied ==
  ASSUME NEW g \in Nat, NEW r \in Nat, NEW w \in Nat,
         TypeOK, Accounts, RingAt(g, r, w), AllocPbuf
  PROVE  \E f \in InRing : Taken' = Taken \cup {f}
<1>1. /\ FrameInHand /\ Given = 0 /\ p' = RxFrame /\ epc' = "give" /\ epc = "alloc"
      /\ UNCHANGED <<mbox, tmsg>>
  BY DEF AllocPbuf, EGoto, FrameInHand, Given, tcpip
<1>2. Id(RxFrame) = At(r - 1).f /\ r - 1 \in g..(w - 1)
  BY <1>1, CopyId
<1>3. Id(p') \in InRing
  BY <1>1, <1>2, RingFrames DEF RingAt
<1>4. p' # NULL /\ ~Owned
  <2>1. segCount \in Nat \ {0}
    BY <1>1 DEF Accounts, InHandOnly, TypeOK, HethType
  <2>2. RxFrame # NULL
    BY <2>1 DEF RxFrame, NULL
  <2> QED BY <1>1, <2>2 DEF Owned
<1>5. OfEthIf' = {Id(p')} /\ OfEthIf = {}
  BY <1>1, <1>4 DEF OfEthIf, Owned, Id
<1>6. InMbox' = InMbox /\ InThread' = InThread
  BY <1>1 DEF InMbox, InThread, Queued, Id
<1> QED BY <1>3, <1>5, <1>6 DEF Taken

LEMMA TakenPosted ==
  ASSUME TypeOK, InputPosted
  PROVE  Taken' = Taken
<1>1. /\ mbox' = Append(mbox, InpktMsg(p)) /\ UNCHANGED tmsg /\ Owned /\ ~Owned'
      /\ p # NULL /\ p \in Pbuf
  BY DEF InputPosted, TryPost, EGoto, Owned, TypeOK, EthIfType
<1>2. InpktMsg(p) \in Msg /\ InpktMsg(p).type = "INPKT" /\ InpktMsg(p).p = p
  BY <1>1, MsgFacts DEF InpktMsg
<1>3. /\ Queued' = Queued \cup {Len(mbox) + 1} /\ mbox'[Len(mbox) + 1] = InpktMsg(p)
      /\ \A i \in Queued : mbox'[i] = mbox[i]
  BY <1>1, <1>2, QueuedLast
<1>4. InMbox' = {Id(mbox'[i].p) : i \in Queued'}
  BY DEF InMbox, Id
<1>5. InMbox' = InMbox \cup {Id(p)}
  BY <1>2, <1>3, <1>4 DEF InMbox
<1>6. OfEthIf = {Id(p)} /\ OfEthIf' = {} /\ InThread' = InThread
  BY <1>1 DEF OfEthIf, InThread, Id
<1> QED BY <1>5, <1>6 DEF Taken

LEMMA TakenFetched ==
  ASSUME TypeOK, Accounts, TcpipFetch
  PROVE  Taken' = Taken
<1>1. /\ mbox # <<>> /\ mbox' = Tail(mbox) /\ tmsg' = Head(mbox) /\ tmsg = NoMsg
      /\ UNCHANGED ethif
  BY DEF TcpipFetch, TGoto, Accounts, InHandOnly
<1>2. /\ \A i \in Queued' : i + 1 \in Queued /\ mbox'[i] = mbox[i + 1]
      /\ \A i \in Queued : i # 1 => i - 1 \in Queued' /\ mbox'[i - 1] = mbox[i]
      /\ tmsg' = mbox[1] /\ 1 \in DOMAIN mbox
  BY <1>1, QueuedRest
<1>3. InThread = {} /\ OfEthIf' = OfEthIf
  BY <1>1 DEF InThread, NoMsg, OfEthIf, Owned, ethif, Id
<1>4. InMbox' = {Id(mbox'[i].p) : i \in Queued'}
  BY DEF InMbox, Id
<1>5. InThread' = IF tmsg'.type = "INPKT" THEN {Id(tmsg'.p)} ELSE {}
  BY DEF InThread, Id
<1>6. 1 \in Queued <=> tmsg'.type = "INPKT"
  BY <1>2 DEF Queued
<1>7. InMbox' \cup InThread' = InMbox
  <2>1. \A i \in Queued' : Id(mbox'[i].p) \in InMbox
    BY <1>2 DEF InMbox
  <2>2. InThread' \subseteq InMbox
    BY <1>2, <1>5, <1>6 DEF InMbox
  <2>3. \A i \in Queued : Id(mbox[i].p) \in InMbox' \cup InThread'
    <3> SUFFICES ASSUME NEW i \in Queued
                 PROVE  Id(mbox[i].p) \in InMbox' \cup InThread'
      OBVIOUS
    <3>1. CASE i = 1
      BY <1>2, <1>5, <1>6, <3>1
    <3>2. CASE i # 1
      BY <1>2, <1>4, <3>2
    <3> QED BY <3>1, <3>2
  <2>4. InMbox' \subseteq InMbox
    BY <1>4, <2>1
  <2>5. InMbox \subseteq InMbox' \cup InThread'
    BY <2>3 DEF InMbox
  <2> QED BY <2>2, <2>4, <2>5
<1> QED BY <1>3, <1>7 DEF Taken

\* The frame in the thread's hand is the oldest one.
LEMMA HandFirst ==
  ASSUME TypeOK, TakenOrder, HandleInpkt
  PROVE  /\ got' = Id(tmsg.p) /\ got' \in Line
         /\ \A f \in InFifo \cup InRing \cup OfEthIf \cup InMbox : got' < f
         /\ got' \in Nat /\ InThread = {got'} /\ InThread' = {}
<1>1. tmsg.type = "INPKT" /\ got' = Id(tmsg.p) /\ tmsg'.type # "INPKT"
  BY DEF HandleInpkt, Id, NoMsg
<1>2. got' \in Passed /\ \A i \in Queued : got' < Id(mbox[i].p)
  BY <1>1 DEF TakenOrder
<1>3. \A f \in InFifo \cup InRing \cup OfEthIf : got' < f
  BY <1>2 DEF Passed, OfEthIf
<1>4. \A f \in InMbox : got' < f
  BY <1>2 DEF InMbox
<1>5. got' \in Nat
  BY <1>2, FrameAssumption DEF Passed, TypeOK, NicType
<1>6. InThread = {got'} /\ InThread' = {}
  BY <1>1 DEF InThread
<1> QED BY <1>1, <1>3, <1>4, <1>5, <1>6 DEF Line

LEMMA TakenMovesOn ==
  ASSUME TypeOK, Accounts, TakenOrder, [Next]_vars, ~AllocPbuf, ~HandleInpkt
  PROVE  Taken' = Taken \/ \E f : Taken = Taken' \cup {f}
<1>1. CASE InputPosted
  BY <1>1, TakenPosted
<1>2. CASE TcpipFetch
  BY <1>2, TakenFetched
<1>3. CASE OoseqPosted
  <2>1. mbox' = Append(mbox, OoseqMsg) /\ UNCHANGED tmsg
    BY <1>3 DEF OoseqPosted, TryPost
  <2>2. Queued' = Queued /\ \A i \in Queued : mbox'[i] = mbox[i]
    <3>1. OoseqMsg \in Msg /\ OoseqMsg.type # "INPKT"
      BY DEF OoseqMsg, Msg
    <3> QED BY <2>1, <3>1, QueuedLast
  <2>3. InMbox' = {Id(mbox'[i].p) : i \in Queued'}
    BY DEF InMbox, Id
  <2>4. InMbox' = InMbox /\ InThread' = InThread
    BY <2>1, <2>2, <2>3 DEF InMbox, InThread, Id
  <2>5. OfEthIf' = OfEthIf
    BY <1>3, OwnStays DEF OoseqPosted, EGoto, AllocPbuf, Input, InputPosted, InputTimesOut
  <2> QED BY <2>4, <2>5 DEF Taken
<1>4. CASE HandleCallback
  <2>1. tmsg.type # "INPKT" /\ tmsg'.type # "INPKT" /\ UNCHANGED <<mbox, ethif>>
    BY <1>4 DEF HandleCallback, NoMsg
  <2> QED BY <2>1 DEF Taken, InThread, InMbox, OfEthIf, Queued, Owned, Id, ethif
<1>5. CASE Input \/ InputTimesOut
  <2>1. UNCHANGED <<mbox, tmsg, p>> /\ epc \in {"input", "post"}
        /\ epc' \in {"post", "unlock"}
    BY <1>5 DEF Input, InputTimesOut
  <2>2. InMbox' = InMbox /\ InThread' = InThread
    BY <2>1 DEF InMbox, InThread, Queued, Id
  <2>3. OfEthIf' = OfEthIf \/ (OfEthIf' = {} /\ OfEthIf = {Id(p)})
    BY <2>1 DEF OfEthIf, Owned, Id, TypeOK, EthIfType
  <2> QED BY <2>2, <2>3 DEF Taken
<1>6. CASE ~MsgMoves /\ ~Input /\ ~InputTimesOut
  <2>1. UNCHANGED <<mbox, tmsg>>
    BY <1>6, MsgStays
  <2>2. InMbox' = InMbox /\ InThread' = InThread
    BY <2>1 DEF InMbox, InThread, Queued, Id
  <2>3. OfEthIf' = OfEthIf
    BY <1>6, OwnStays DEF MsgMoves
  <2> QED BY <2>2, <2>3 DEF Taken
<1> QED BY <1>1, <1>2, <1>3, <1>4, <1>5, <1>6 DEF MsgMoves

LEMMA LineMoves ==
  TypeOK /\ Accounts /\ LineInv /\ FifoOrder /\ TakenOrder
    /\ PendingFrames = Line /\ PendingFrames' = Line' /\ [Next]_vars
  => [Channel!Next]_Channel!vars
<1> SUFFICES ASSUME TypeOK, Accounts, LineInv, FifoOrder, TakenOrder,
                    PendingFrames = Line, PendingFrames' = Line', [Next]_vars
             PROVE  [Channel!Next]_Channel!vars
  OBVIOUS
<1>1. PICK g \in Nat, r \in Nat, w \in Nat : RingAt(g, r, w) /\ HandOrder(g, r, w)
  BY DEF LineInv
<1>2. Line = InFifo \cup InRing \cup Taken /\ Line' = InFifo' \cup InRing' \cup Taken'
  BY DEF Line, Taken
<1>3. CASE Arrive
  <2>1. sent' = sent + 1 /\ InFifo' \in {InFifo, InFifo \cup {sent + 1}}
    BY <1>3, FifoMoves
  <2>2. Taken' = Taken /\ InRing' = InRing /\ got' = got
    BY <1>3 DEF Arrive, Taken, OfEthIf, InMbox, InThread, Queued, Owned, InRing, Id,
                ring, ethif, tcpip
  <2>3. Line' \in {Line, Line \cup {sent + 1}}
    BY <1>2, <2>1, <2>2
  <2>4. Channel!Send
    BY <2>1, <2>2, <2>3 DEF Channel!Send
  <2> QED BY <2>4 DEF Channel!Next
<1>4. CASE HandleInpkt
  <2>1. UNCHANGED <<sent, fifo, own, buf, mbox, ethif>>
    BY <1>4 DEF HandleInpkt, nic, ring
  <2>2. InFifo' \cup InRing' \cup OfEthIf' \cup InMbox'
          = InFifo \cup InRing \cup OfEthIf \cup InMbox
    BY <2>1 DEF InFifo, InRing, OfEthIf, InMbox, Queued, Owned, Id, ethif
  <2>3. /\ got' \in Line /\ got' \in Nat /\ InThread = {got'} /\ InThread' = {}
        /\ \A f \in InFifo \cup InRing \cup OfEthIf \cup InMbox : got' < f
    BY <1>4, HandFirst
  <2>4. \A f \in InFifo \cup InRing \cup OfEthIf \cup InMbox : got' <= f /\ f # got'
    <3>1. sent \in Nat /\ InFifo \subseteq 1..sent /\ InRing \subseteq Nat
      BY FrameAssumption DEF FifoOrder, InRing, TypeOK, NicType, RingType
    <3>2. OfEthIf \subseteq Nat
      BY <1>1, <3>1 DEF OfEthIf, HandOrder
    <3>3. InMbox \subseteq Nat
      BY <3>1 DEF InMbox, TakenOrder, Passed
    <3>4. \A f \in InFifo \cup InRing \cup OfEthIf \cup InMbox : f \in Int
      BY <3>1, <3>2, <3>3
    <3> QED BY <2>3, <3>4
  <2>5. Line' = Line \ {got'}
    BY <2>2, <2>3, <2>4 DEF Line
  <2>6. \A f \in Line : got' <= f
    BY <2>3, <2>4 DEF Line
  <2>7. Channel!Deliver
    BY <2>1, <2>3, <2>5, <2>6 DEF Channel!Deliver
  <2> QED BY <2>7 DEF Channel!Next
<1>5. CASE ~Arrive /\ ~HandleInpkt
  <2>1. sent' = sent
    BY <1>5, FifoMoves
  <2>2. got' = got
    BY <1>5, MsgStays
    DEF MsgMoves, OoseqPosted, InputPosted, TcpipFetch, HandleCallback
  <2>3. Line' = Line \/ \E f : Line = Line' \cup {f}
    <3>1. CASE AllocPbuf
      <4>1. PICK f \in InRing : Taken' = Taken \cup {f}
        BY <1>1, <3>1, TakenCopied
      <4>2. InFifo' = InFifo /\ InRing' = InRing
        BY <3>1 DEF AllocPbuf, InFifo, InRing, nic, ring
      <4> QED BY <1>2, <4>1, <4>2
    <3>2. CASE GiveBack
      <4>1. Taken' = Taken
        BY <3>2 DEF GiveBack, EGoto, Taken, OfEthIf, InMbox, InThread, Queued, Owned, Id, tcpip
      <4> QED BY <1>1, <1>2, <1>5, <4>1, RingLine
    <3>3. CASE ~AllocPbuf /\ ~GiveBack
      <4>1. InFifo' \cup InRing' = InFifo \cup InRing
        BY <1>1, <1>5, <3>3, RingLine
      <4>2. Taken' = Taken \/ \E f : Taken = Taken' \cup {f}
        BY <1>5, <3>3, TakenMovesOn
      <4> QED BY <1>2, <4>1, <4>2
    <3> QED BY <3>1, <3>2, <3>3
  <2>4. Line' = Line \/ \E f \in Line : Line' = Line \ {f}
    BY <2>3, OneLess
  <2>5. CASE Line' = Line
    BY <2>1, <2>2, <2>5 DEF Channel!vars
  <2>6. CASE \E f \in Line : Line' = Line \ {f}
    BY <2>1, <2>2, <2>6 DEF Channel!Lose, Channel!Next
  <2> QED BY <2>4, <2>5, <2>6
<1> QED BY <1>3, <1>4, <1>5

(* The receive path implements FrameChannel: whatever the sizes of the ring, *)
(* the frames, the pools and the mailbox, tcpip_thread gets the frames in    *)
(* the order of their arrival and each one at most once.                     *)
THEOREM ChannelImplemented == Spec => ImplementsChannel
<1>1. Init => Channel!Init
  BY DEF Init, Channel!Init, PendingFrames, TakenFrames, FrameOf, EthIfOwns, Bit, NoMsg, NULL
<1>2. TypeOK /\ FramesWhole => PendingFrames = Line
  BY PendingIsLine
<1>3. TypeOK /\ Accounts /\ LineInv /\ FifoOrder /\ TakenOrder
        /\ PendingFrames = Line /\ (PendingFrames = Line)' /\ [Next]_vars
      => [Channel!Next]_Channel!vars
  BY LineMoves
<1> QED
  BY <1>1, <1>2, <1>3, LineHolds, WholeCopies, AccountsHold, TypeCorrect, PTL
  DEF Spec, ImplementsChannel, Channel!Spec

=============================================================================
