------------------------------- MODULE EthRx --------------------------------
(***************************************************************************)
(* The receive path: MAC and DMA, the ETH interrupt, the binary semaphore, *)
(* the EthIf thread (ethernetif_input, low_level_input and the HAL call    *)
(* under it), the pbuf pool, the tcpip mailbox and tcpip_thread.           *)
(*                                                                         *)
(* One core: the interrupt preempts every thread, EthIf (realtime) every   *)
(* other thread unless it blocks: on the semaphore, on the core lock, or in *)
(* a post to a full mailbox, which osMessagePut lets wait for one tick     *)
(* even with a timeout of 0.  The DMA runs beside the core.  The           *)
(* application threads (defaultTask, with the priority of tcpip_thread,    *)
(* then LinkThr) appear as one that enters the HAL lock without the core   *)
(* lock.                                                                   *)
(***************************************************************************)
EXTENDS Integers, Sequences, FiniteSets

CONSTANTS
  RxBufNb,    \* ETH_RXBUFNB: descriptors in the receive ring
  MaxFrames,  \* bound: frames the wire presents in a behaviour
  SegsOf,     \* descriptors that each frame fills
  FifoLen,    \* frames the MAC keeps while the DMA has no descriptor
  MboxSize,   \* TCPIP_MBOX_SIZE
  InpktNum,   \* MEMP_NUM_TCPIP_MSG_INPKT
  PoolSize,   \* frames that the pbuf pool can hold
  ReassMax    \* frames that IP reassembly may keep

Frame == 1..MaxFrames
Desc  == 0..(RxBufNb - 1)

ASSUME RxBufNbAssumption == RxBufNb \in Nat \ {0}
ASSUME FrameAssumption == MaxFrames \in Nat /\ SegsOf \in [Frame -> Nat \ {0}]
ASSUME SizeAssumption ==
  /\ FifoLen \in Nat
  /\ MboxSize \in Nat \ {0}
  /\ InpktNum \in Nat
  /\ PoolSize \in Nat
  /\ ReassMax \in Nat

VARIABLES
  sent,     \* frames presented by the wire so far
  rps,      \* receive DMA: "stopped", "running" or "suspended" without descriptor
  fifo,     \* frames in the MAC receive FIFO
  seg,      \* segments of Head(fifo) already written to the ring
  dmaPos,   \* descriptor the DMA uses next
  rbus,     \* DMASR.RBUS
  rs,       \* DMASR.R: receive interrupt pending
  own,      \* owner of each descriptor: its OWN bit
  buf,      \* segment in each buffer: frame, index in the frame, FS and LS bits
  rxDesc, fsRx, segCount, hlock,   \* fields of heth
  isr,      \* HAL_ETH_IRQHandler: "idle", or "clear" after the callback
  sem,      \* s_xSemaphore
  core,     \* holder of lock_tcpip_core
  epc, cnt, p,                     \* EthIf: control, loop counter, local p
  pass,     \* history: how the last pass of ethernetif_input ended
  poolFree, ooseq,                 \* pbuf pool, pbuf_free_ooseq_pending
  inpktFree, mbox, tpc, tmsg,      \* tcpip_thread and its mailbox
  reass,    \* frames kept by IP reassembly
  got,      \* history: the last frame given to ethernet_input
  app       \* application thread: "out" or the HAL call it is in

nic   == <<sent, rps, fifo, seg, dmaPos, rbus>>
ring  == <<own, buf>>
heth  == <<rxDesc, fsRx, segCount>>
ethif == <<epc, cnt, p, pass>>
tcpip == <<inpktFree, mbox, tpc, tmsg, reass, got>>
vars  == <<nic, rs, ring, heth, hlock, isr, sem, core, ethif, poolFree, ooseq,
           tcpip, app>>

NULL == <<>>
NoMsg == [type |-> "NONE", p |-> NULL]
InpktMsg(b) == [type |-> "INPKT", p |-> b]
OoseqMsg == [type |-> "CALLBACK", p |-> NULL]

Bit(b) == IF b THEN 1 ELSE 0

NextDesc(d) == IF d = RxBufNb - 1 THEN 0 ELSE d + 1
NthDesc(d, k) == (d + k) % RxBufNb

-----------------------------------------------------------------------------
(* State after low_level_init has started EthIf and before HAL_ETH_Start.  *)

Init ==
  /\ sent = 0 /\ rps = "stopped" /\ fifo = <<>> /\ seg = 0
  /\ dmaPos = 0 /\ rbus = 0 /\ rs = 0
  /\ own = [d \in Desc |-> "DMA"]
  /\ buf = [d \in Desc |-> [f |-> 0, s |-> 0, fs |-> 0, ls |-> 0]]
  /\ rxDesc = 0 /\ fsRx = 0 /\ segCount = 0 /\ hlock = "unlocked"
  /\ isr = "idle" /\ sem = 1 /\ core = "tcpip"
  /\ epc = "wait" /\ cnt = 0 /\ p = NULL /\ pass = "drained"
  /\ poolFree = PoolSize /\ ooseq = 0
  /\ inpktFree = InpktNum /\ mbox = <<>> /\ tpc = "again" /\ tmsg = NoMsg
  /\ reass = 0 /\ got = 0
  /\ app = "out"

-----------------------------------------------------------------------------
(* The MAC and the receive DMA (hardware).                                 *)

\* The wire presents a frame.  A suspended DMA tries its descriptor again.
Arrive ==
  /\ sent < MaxFrames
  /\ sent' = sent + 1
  /\ IF rps # "stopped" /\ Len(fifo) < FifoLen
       THEN fifo' = Append(fifo, sent + 1) /\ rps' = "running"
       ELSE UNCHANGED <<fifo, rps>>
  /\ UNCHANGED <<seg, dmaPos, rbus, rs, ring, heth, hlock, isr, sem, core,
                 ethif, poolFree, ooseq, tcpip, app>>

DmaActive == fifo # <<>> /\ (rps = "running" \/ seg > 0)

\* The DMA fills its descriptor.  It closes the frame when it was the last
\* segment, or when the CPU still owns the next descriptor (truncation).
ClosesFrame ==
  \/ seg + 1 = SegsOf[Head(fifo)]
  \/ NextDesc(dmaPos) = dmaPos
  \/ own[NextDesc(dmaPos)] = "CPU"

DmaSegment ==
  /\ DmaActive /\ own[dmaPos] = "DMA"
  /\ own' = [own EXCEPT ![dmaPos] = "CPU"]
  /\ buf' = [buf EXCEPT ![dmaPos] =
               [f |-> Head(fifo), s |-> seg + 1,
                fs |-> Bit(seg = 0), ls |-> Bit(ClosesFrame)]]
  /\ dmaPos' = NextDesc(dmaPos)
  /\ IF ClosesFrame
       THEN seg' = 0 /\ fifo' = Tail(fifo) /\ rs' = 1
       ELSE seg' = seg + 1 /\ UNCHANGED <<fifo, rs>>
  /\ UNCHANGED <<sent, rps, rbus, heth, hlock, isr, sem, core, ethif, poolFree,
                 ooseq, tcpip, app>>

\* No descriptor: the DMA raises RBUS (its interrupt is masked) and suspends.
DmaSuspend ==
  /\ DmaActive /\ own[dmaPos] = "CPU"
  /\ rps' = "suspended" /\ rbus' = 1
  /\ UNCHANGED <<sent, fifo, seg, dmaPos, rs, ring, heth, hlock, isr, sem,
                 core, ethif, poolFree, ooseq, tcpip, app>>

-----------------------------------------------------------------------------
(* HAL_ETH_IRQHandler.  The DMA may set R again between its two steps.     *)

IsrCallback ==
  /\ isr = "idle" /\ rs = 1
  /\ sem' = 1
  /\ isr' = "clear"
  /\ UNCHANGED <<nic, rs, ring, heth, hlock, core, ethif, poolFree, ooseq,
                 tcpip, app>>

IsrClear ==
  /\ isr = "clear"
  /\ rs' = 0 /\ hlock' = "unlocked"
  /\ isr' = "idle"
  /\ UNCHANGED <<nic, ring, heth, sem, core, ethif, poolFree, ooseq, tcpip, app>>

-----------------------------------------------------------------------------
(* Scheduling: fixed priorities on one core.                               *)

Sleeping == epc = "wait" /\ sem = 0                  \* EthIf in osSemaphoreWait
MboxFull == Len(mbox) >= MboxSize
Posting == epc \in {"ooseq", "post"} /\ MboxFull     \* EthIf in osMessagePut
EthIfRuns == isr = "idle" /\ ~Sleeping /\ ~Posting
TcpipRuns ==
  isr = "idle" /\ (Sleeping \/ Posting \/ (epc = "lock" /\ core = "tcpip"))
\* EthIf blocked on the core lock lends its priority to the holder: then the
\* application threads do not run.
AppRuns == isr = "idle" /\ (Sleeping \/ Posting)

-----------------------------------------------------------------------------
(* The EthIf thread.                                                       *)

EGoto(from, to) == EthIfRuns /\ epc = from /\ epc' = to

\* osSemaphoreWait(s_xSemaphore, TIME_WAITING_FOR_INPUT)
EthIfWait ==
  /\ EGoto("wait", "lock")
  /\ sem' = 0
  /\ UNCHANGED <<nic, rs, ring, heth, hlock, isr, core, cnt, p, pass,
                 poolFree, ooseq, tcpip, app>>

\* Mutant: ethernetif_input without LOCK_TCPIP_CORE().
EthIfLockCoreNot ==
  /\ EGoto("lock", "get")
  /\ core' = "ethif"
  /\ UNCHANGED <<nic, rs, ring, heth, hlock, isr, sem, cnt, p, pass,
                 poolFree, ooseq, tcpip, app>>

\* LOCK_TCPIP_CORE()
EthIfLockCore ==
  /\ EGoto("lock", "get")
  /\ core = "none" /\ core' = "ethif"
  /\ UNCHANGED <<nic, rs, ring, heth, hlock, isr, sem, cnt, p, pass,
                 poolFree, ooseq, tcpip, app>>

\* __HAL_LOCK in HAL_ETH_GetReceivedFrame_IT; HAL_BUSY makes p NULL.
GetReceivedFrame ==
  /\ EthIfRuns /\ epc = "get"
  /\ IF hlock = "locked"
       THEN epc' = "unlock" /\ pass' = "busy" /\ UNCHANGED <<hlock, cnt>>
       ELSE epc' = "scan" /\ hlock' = "locked" /\ cnt' = 0 /\ UNCHANGED pass
  /\ UNCHANGED <<nic, rs, ring, heth, isr, sem, core, p, poolFree, ooseq,
                 tcpip, app>>

Scanning == own[rxDesc] = "CPU" /\ cnt < RxBufNb

\* A descriptor that is not the last of its frame.
ScanSegment ==
  /\ EGoto("scan", "scan")
  /\ Scanning /\ buf[rxDesc].ls = 0
  /\ cnt' = cnt + 1
  /\ IF buf[rxDesc].fs = 1
       THEN fsRx' = rxDesc /\ segCount' = 1
       ELSE segCount' = segCount + 1 /\ UNCHANGED fsRx
  /\ rxDesc' = NextDesc(rxDesc)
  /\ UNCHANGED <<nic, rs, ring, hlock, isr, sem, core, p, pass, poolFree,
                 ooseq, tcpip, app>>

\* Mutant: the single-segment test comes before the increment.
ScanLastTestFirst ==
  /\ EGoto("scan", "alloc")
  /\ Scanning /\ buf[rxDesc].ls = 1
  /\ segCount' = segCount + 1
  /\ fsRx' = IF segCount = 1 THEN rxDesc ELSE fsRx
  /\ rxDesc' = NextDesc(rxDesc)
  /\ hlock' = "unlocked"
  /\ cnt' = 0
  /\ UNCHANGED <<nic, rs, ring, isr, sem, core, p, pass, poolFree, ooseq,
                 tcpip, app>>

\* The last segment: HAL_OK.
ScanLast ==
  /\ EGoto("scan", "alloc")
  /\ Scanning /\ buf[rxDesc].ls = 1
  /\ segCount' = segCount + 1
  /\ fsRx' = IF segCount' = 1 THEN rxDesc ELSE fsRx
  /\ rxDesc' = NextDesc(rxDesc)
  /\ hlock' = "unlocked"
  /\ cnt' = 0
  /\ UNCHANGED <<nic, rs, ring, isr, sem, core, p, pass, poolFree, ooseq,
                 tcpip, app>>

\* Nothing more owned by the CPU: HAL_ERROR, low_level_input returns NULL.
ScanNothing ==
  /\ EGoto("scan", "unlock")
  /\ ~Scanning
  /\ hlock' = "unlocked"
  /\ pass' = "drained"
  /\ cnt' = 0
  /\ UNCHANGED <<nic, rs, ring, heth, isr, sem, core, p, poolFree, ooseq,
                 tcpip, app>>

\* What low_level_input copies: the segments from FSRxDesc on.
RxFrame == [k \in 1..segCount |-> LET b == buf[NthDesc(fsRx, k - 1)]
                                  IN <<b.f, b.s>>]

\* xQueueGenericSend finds room.
TryPost(m) == ~MboxFull /\ mbox' = Append(mbox, m)

\* pbuf_alloc(PBUF_POOL) succeeds and the frame is copied.
AllocPbuf ==
  /\ EGoto("alloc", "give")
  /\ poolFree > 0 /\ poolFree' = poolFree - 1
  /\ p' = RxFrame
  /\ UNCHANGED <<nic, rs, ring, heth, hlock, isr, sem, core, cnt, pass,
                 ooseq, tcpip, app>>

\* The pool is empty: pbuf_pool_is_empty queues a callback unless one is queued.
AllocFails ==
  /\ EthIfRuns /\ epc = "alloc"
  /\ poolFree = 0
  /\ pass' = "starved"
  /\ epc' = IF ooseq = 1 THEN "give" ELSE "ooseq"
  /\ ooseq' = 1
  /\ UNCHANGED <<nic, rs, ring, heth, hlock, isr, sem, core, cnt, p, poolFree,
                 tcpip, app>>

\* tcpip_try_callback(pbuf_free_ooseq_callback)
OoseqPosted ==
  /\ EGoto("ooseq", "give")
  /\ TryPost(OoseqMsg)
  /\ UNCHANGED <<nic, rs, ring, heth, hlock, isr, sem, core, cnt, p, pass,
                 poolFree, ooseq, inpktFree, tpc, tmsg, reass, got, app>>

\* Mutant: the pending flag stays set when the callback cannot be posted.
OoseqTimesOutKeepsFlag ==
  /\ isr = "idle" /\ epc = "ooseq" /\ MboxFull
  /\ epc' = "give"
  /\ UNCHANGED <<nic, rs, ring, heth, hlock, isr, sem, core, cnt, p, pass,
                 poolFree, ooseq, tcpip, app>>

\* The tick comes and the mailbox is still full: ERR_MEM.
OoseqTimesOut ==
  /\ isr = "idle" /\ epc = "ooseq" /\ MboxFull
  /\ epc' = "give"
  /\ ooseq' = 0
  /\ UNCHANGED <<nic, rs, ring, heth, hlock, isr, sem, core, cnt, p, pass,
                 poolFree, tcpip, app>>

\* The frame's descriptors go back to the DMA one by one.
GiveBack ==
  /\ EGoto("give", "give")
  /\ cnt < segCount
  /\ own' = [own EXCEPT ![NthDesc(fsRx, cnt)] = "DMA"]
  /\ cnt' = cnt + 1
  /\ UNCHANGED <<nic, rs, buf, heth, hlock, isr, sem, core, p, pass, poolFree,
                 ooseq, tcpip, app>>

\* Mutant: SegCount is not cleared.
GiveBackDoneKeepsCount ==
  /\ EGoto("give", "resume")
  /\ cnt >= segCount
  /\ cnt' = 0
  /\ UNCHANGED <<nic, rs, ring, heth, hlock, isr, sem, core, p, pass,
                 poolFree, ooseq, tcpip, app>>

GiveBackDone ==
  /\ EGoto("give", "resume")
  /\ cnt >= segCount
  /\ segCount' = 0 /\ cnt' = 0
  /\ UNCHANGED <<nic, rs, ring, rxDesc, fsRx, hlock, isr, sem, core, p, pass,
                 poolFree, ooseq, tcpip, app>>

\* Mutant: RBUS is cleared without a poll demand.
ResumeDmaFlagOnly ==
  /\ EthIfRuns /\ epc = "resume"
  /\ epc' = IF p = NULL THEN "unlock" ELSE "input"
  /\ rbus' = 0
  /\ UNCHANGED <<sent, rps, fifo, seg, dmaPos, rs, ring, heth, hlock, isr, sem,
                 core, cnt, p, pass, poolFree, ooseq, tcpip, app>>

\* RBUS is cleared and a receive poll demand issued.
ResumeDma ==
  /\ EthIfRuns /\ epc = "resume"
  /\ epc' = IF p = NULL THEN "unlock" ELSE "input"
  /\ rbus' = 0
  /\ rps' = IF rbus = 1 /\ rps = "suspended" THEN "running" ELSE rps
  /\ UNCHANGED <<sent, fifo, seg, dmaPos, rs, ring, heth, hlock, isr, sem,
                 core, cnt, p, pass, poolFree, ooseq, tcpip, app>>

\* netif->input = tcpip_input -> tcpip_inpkt; for want of a message the pbuf is
\* freed by ethernetif_input.
Input ==
  /\ EthIfRuns /\ epc = "input"
  /\ IF inpktFree > 0
       THEN epc' = "post" /\ inpktFree' = inpktFree - 1 /\ UNCHANGED poolFree
       ELSE epc' = "unlock" /\ poolFree' = poolFree + 1 /\ UNCHANGED inpktFree
  /\ UNCHANGED <<nic, rs, ring, heth, hlock, isr, sem, core, cnt, p, pass,
                 ooseq, mbox, tpc, tmsg, reass, got, app>>

InputPosted ==
  /\ EGoto("post", "unlock")
  /\ TryPost(InpktMsg(p))
  /\ UNCHANGED <<nic, rs, ring, heth, hlock, isr, sem, core, cnt, p, pass,
                 poolFree, ooseq, inpktFree, tpc, tmsg, reass, got, app>>

\* The tick comes and the mailbox is still full: message and pbuf are freed.
InputTimesOut ==
  /\ isr = "idle" /\ epc = "post" /\ MboxFull
  /\ epc' = "unlock"
  /\ inpktFree' = inpktFree + 1 /\ poolFree' = poolFree + 1
  /\ UNCHANGED <<nic, rs, ring, heth, hlock, isr, sem, core, cnt, p, pass,
                 ooseq, mbox, tpc, tmsg, reass, got, app>>

\* Mutant: one frame per semaphore, no loop.
EthIfUnlockCoreOnce ==
  /\ EGoto("unlock", "wait")
  /\ core' = "none"
  /\ p' = NULL
  /\ UNCHANGED <<nic, rs, ring, heth, hlock, isr, sem, cnt, pass, poolFree,
                 ooseq, tcpip, app>>

\* UNLOCK_TCPIP_CORE() and the loop condition p != NULL.
EthIfUnlockCore ==
  /\ EthIfRuns /\ epc = "unlock"
  /\ core' = "none"
  /\ epc' = IF p = NULL THEN "wait" ELSE "lock"
  /\ p' = NULL
  /\ UNCHANGED <<nic, rs, ring, heth, hlock, isr, sem, cnt, pass, poolFree,
                 ooseq, tcpip, app>>

EthIf ==
  \/ EthIfWait \/ EthIfLockCore \/ GetReceivedFrame
  \/ ScanSegment \/ ScanLast \/ ScanNothing
  \/ AllocPbuf \/ AllocFails \/ OoseqPosted \/ OoseqTimesOut
  \/ GiveBack \/ GiveBackDone \/ ResumeDma
  \/ Input \/ InputPosted \/ InputTimesOut \/ EthIfUnlockCore

-----------------------------------------------------------------------------
(* tcpip_thread.  "again": in tcpip_timeouts_mbox_fetch with the core lock; *)
(* "fetch": waiting on the mailbox without it; "relock": a message or a    *)
(* timeout in hand, about to lock; "handle": in tcpip_thread_handle_msg.   *)

TGoto(from, to) == TcpipRuns /\ tpc = from /\ tpc' = to

\* sys_check_timeouts: IP reassembly gives up datagrams it kept.
TcpipTimeouts ==
  /\ TGoto("again", "again")
  /\ \E h \in 0..(reass - 1) :
       reass' = h /\ poolFree' = poolFree + (reass - h)
  /\ UNCHANGED <<nic, rs, ring, heth, hlock, isr, sem, core, ethif, ooseq,
                 inpktFree, mbox, tmsg, got, app>>

TcpipUnlockCore ==
  /\ TGoto("again", "fetch")
  /\ core' = "none"
  /\ UNCHANGED <<nic, rs, ring, heth, hlock, isr, sem, ethif, poolFree, ooseq,
                 inpktFree, mbox, tmsg, reass, got, app>>

TcpipFetch ==
  /\ TGoto("fetch", "relock")
  /\ mbox # <<>>
  /\ tmsg' = Head(mbox) /\ mbox' = Tail(mbox)
  /\ UNCHANGED <<nic, rs, ring, heth, hlock, isr, sem, core, ethif, poolFree,
                 ooseq, inpktFree, reass, got, app>>

TcpipFetchTimeout ==
  /\ TGoto("fetch", "relock")
  /\ mbox = <<>>
  /\ UNCHANGED <<nic, rs, ring, heth, hlock, isr, sem, core, ethif, poolFree,
                 ooseq, inpktFree, mbox, tmsg, reass, got, app>>

TcpipLockCore ==
  /\ TcpipRuns /\ tpc = "relock"
  /\ core = "none" /\ core' = "tcpip"
  /\ tpc' = IF tmsg = NoMsg THEN "again" ELSE "handle"
  /\ UNCHANGED <<nic, rs, ring, heth, hlock, isr, sem, ethif, poolFree, ooseq,
                 inpktFree, mbox, tmsg, reass, got, app>>

\* ethernet_input consumes the pbuf: it is freed, or kept for reassembly; a
\* datagram that is complete, or given up, frees what was kept.
HandleInpkt ==
  /\ TGoto("handle", "again")
  /\ tmsg.type = "INPKT"
  /\ got' = tmsg.p[1][1]
  /\ \E h \in 0..ReassMax :
       /\ h <= reass + 1
       /\ reass' = h /\ poolFree' = poolFree + (reass + 1 - h)
  /\ inpktFree' = inpktFree + 1
  /\ tmsg' = NoMsg
  /\ UNCHANGED <<nic, rs, ring, heth, hlock, isr, sem, core, ethif, ooseq,
                 mbox, app>>

\* pbuf_free_ooseq: the application opens no TCP connection, nothing is freed.
HandleCallback ==
  /\ TGoto("handle", "again")
  /\ tmsg.type = "CALLBACK"
  /\ ooseq' = 0
  /\ tmsg' = NoMsg
  /\ UNCHANGED <<nic, rs, ring, heth, hlock, isr, sem, core, ethif, poolFree,
                 inpktFree, mbox, reass, got, app>>

\* A handler transmits: HAL_ETH_TransmitFrame takes the HAL lock for a while.
TcpipTransmit ==
  /\ TGoto("again", "tx")
  /\ hlock = "unlocked" /\ hlock' = "locked"
  /\ UNCHANGED <<nic, rs, ring, heth, isr, sem, core, ethif, poolFree, ooseq,
                 inpktFree, mbox, tmsg, reass, got, app>>

TcpipTransmitted ==
  /\ TGoto("tx", "again")
  /\ hlock' = "unlocked"
  /\ UNCHANGED <<nic, rs, ring, heth, isr, sem, core, ethif, poolFree, ooseq,
                 inpktFree, mbox, tmsg, reass, got, app>>

Tcpip ==
  \/ TcpipTimeouts \/ TcpipUnlockCore \/ TcpipFetch \/ TcpipFetchTimeout
  \/ TcpipLockCore \/ HandleInpkt \/ HandleCallback
  \/ TcpipTransmit \/ TcpipTransmitted

-----------------------------------------------------------------------------
(* The application threads: HAL calls without the lwIP core lock.          *)

HalCalls == {"start", "stop", "transmit", "config"}

AppEnter ==
  /\ AppRuns /\ app = "out"
  /\ hlock = "unlocked" /\ hlock' = "locked"
  /\ app' \in HalCalls
  /\ UNCHANGED <<nic, rs, ring, heth, isr, sem, core, ethif, poolFree, ooseq, tcpip>>

AppEffect ==
  /\ AppRuns /\ app \in HalCalls
  /\ rps' = CASE app = "start" /\ rps = "stopped" -> "running"
              [] app = "stop" -> "stopped"
              [] OTHER -> rps
  /\ app' = "leave"
  /\ UNCHANGED <<sent, fifo, seg, dmaPos, rbus, rs, ring, heth, hlock, isr, sem,
                 core, ethif, poolFree, ooseq, tcpip>>

\* __HAL_UNLOCK, whether or not the interrupt has released the lock before.
AppLeave ==
  /\ AppRuns /\ app = "leave"
  /\ hlock' = "unlocked"
  /\ app' = "out"
  /\ UNCHANGED <<nic, rs, ring, heth, isr, sem, core, ethif, poolFree, ooseq, tcpip>>

-----------------------------------------------------------------------------
Dma == DmaSegment \/ DmaSuspend
Isr == IsrCallback \/ IsrClear
Next == Arrive \/ Dma \/ Isr \/ EthIf \/ Tcpip \/ AppEnter \/ AppEffect \/ AppLeave

Spec == Init /\ [][Next]_vars

FairSpec ==
  Spec /\ WF_vars(Dma) /\ WF_vars(Isr) /\ WF_vars(EthIf) /\ WF_vars(Tcpip)
       /\ SF_vars(TcpipUnlockCore)

-----------------------------------------------------------------------------
(* Properties.                                                             *)

NicType ==
  /\ sent \in 0..MaxFrames /\ rps \in {"stopped", "running", "suspended"}
  /\ fifo \in Seq(Frame) /\ seg \in Nat
  /\ dmaPos \in Desc /\ rbus \in {0, 1}

RingType ==
  /\ own \in [Desc -> {"CPU", "DMA"}]
  /\ buf \in [Desc -> [f : Nat, s : Nat, fs : {0, 1}, ls : {0, 1}]]

HethType == rxDesc \in Desc /\ fsRx \in Desc /\ segCount \in Nat

SyncType ==
  /\ rs \in {0, 1} /\ hlock \in {"unlocked", "locked"}
  /\ isr \in {"idle", "clear"} /\ sem \in {0, 1}
  /\ core \in {"none", "ethif", "tcpip"}
  /\ app \in HalCalls \cup {"out", "leave"}

Pbuf == Seq(Nat \X Nat)     \* the segments that a pbuf was filled from
Msg == [type : {"INPKT"}, p : Pbuf \ {NULL}] \cup {OoseqMsg}

EthIfType ==
  /\ epc \in {"wait", "lock", "get", "scan", "alloc", "ooseq", "give", "resume",
              "input", "post", "unlock"}
  /\ cnt \in Nat /\ p \in Pbuf /\ (epc \in {"input", "post"} => p # NULL) 
  /\ pass \in {"drained", "starved", "busy"}

PoolType == poolFree \in Nat /\ ooseq \in {0, 1}

TcpipType ==
  /\ inpktFree \in Nat
  /\ mbox \in Seq(Msg)
  /\ tpc \in {"again", "fetch", "relock", "handle", "tx"}
  /\ tmsg \in Msg \cup {NoMsg}
  /\ reass \in Nat /\ got \in Nat

\* Every variable keeps its type, and EthIf never calls netif->input with NULL.
TypeOK == NicType /\ RingType /\ HethType /\ SyncType /\ EthIfType /\ PoolType
          /\ TcpipType

\* HAL_ETH_GetReceivedFrame_IT finds the handle locked (HAL_BUSY, frames stay in the
\* ring) only if EthIf was resumed while an application thread was in the HAL: a
\* transmission of tcpip_thread never makes a reception fail.
BusyOnlyByApp == epc = "get" /\ hlock = "locked" => app # "out"

\* EthIf sleeps and no interrupt is pending: only a new frame can wake it.
Quiescent == Sleeping /\ isr = "idle" /\ rs = 0

\* When EthIf sleeps after a pass that did not end on a busy handle, the DMA owns
\* its next descriptor and is not suspended, so that the frame that must wake EthIf
\* can be received.  (After two busy passes all descriptors may be the CPU's: no
\* receive interrupt comes any more.)
NeverWedged ==
  Quiescent /\ pass # "busy" => own[dmaPos] = "DMA" /\ rps # "suspended"

\* No wakeup is lost between the callback and the clearing of R: unless its last
\* pass ended on an empty pool or on a busy handle, EthIf never sleeps over a
\* complete frame.
DrainedUnlessCut ==
  Quiescent /\ pass = "drained" => \A d \in Desc : own[d] = "DMA" \/ buf[d].ls = 0

InHand(k) == NthDesc(fsRx, k - 1)

\* low_level_input reads and returns only descriptors that the CPU owns: FSRxDesc
\* and SegCount describe one run of the ring that the DMA does not write.
CopyOwned ==
  /\ epc = "alloc" => segCount \in 1..RxBufNb /\ \A k \in 1..segCount : own[InHand(k)] = "CPU"
  /\ epc = "give" => \A k \in (cnt + 1)..segCount : own[InHand(k)] = "CPU"

Whole(b) == \A k \in DOMAIN b : b[k] = <<b[1][1], k>>

\* A pbuf holds consecutive segments of one frame from the first on, wherever it
\* is, also when a scan ended in the middle of the frame.
FramesWhole ==
  /\ Whole(p) /\ Whole(tmsg.p)
  /\ \A i \in DOMAIN mbox : Whole(mbox[i].p)

\* Packets waiting in a mailbox; the rest of it is the ooseq callback.
Inpkts(s) == Cardinality({i \in DOMAIN s : s[i].type = "INPKT"})

\* The message that tcpip_thread has in hand, what EthIf has in hand.
Handling(type) == Bit(tmsg.type = type)
PostsInpkt == Bit(epc = "post")
PostsOoseq == Bit(epc = "ooseq")
EthIfOwns == Bit(p # NULL /\ epc \in {"give", "resume", "input", "post"})

\* Every INPKT message is free, being posted, in the mailbox or in the thread's hand.
InpktConserved ==
  inpktFree + PostsInpkt + Inpkts(mbox) + Handling("INPKT") = InpktNum

\* Every pbuf is free or has one owner: EthIf, the mailbox, the thread or the
\* reassembly queue.
PoolConserved ==
  poolFree + EthIfOwns + Inpkts(mbox) + Handling("INPKT") + reass = PoolSize

\* pbuf_free_ooseq_pending is set exactly while its callback is being posted, in
\* the mailbox or in the thread's hand.
OoseqQueuedOnce ==
  PostsOoseq + Len(mbox) - Inpkts(mbox) + Handling("CALLBACK") = ooseq

\* No message and no pbuf is leaked or freed twice, and the ooseq callback is queued
\* at most once and can be queued again, on the error paths of tcpip_inpkt,
\* ethernetif_input and pbuf_pool_is_empty too.
NothingLeaked == InpktConserved /\ PoolConserved /\ OoseqQueuedOnce

\* Two INPKT messages more than the mailbox holds (8 and 6 in this project) are
\* enough: tcpip_input never fails for want of one.
InpktSuffices == InpktNum >= MboxSize + 2 /\ epc = "input" => inpktFree > 0

\* With two pbufs more than mailbox and reassembly can keep, pbuf_alloc never
\* fails in low_level_input.
PoolSuffices == PoolSize >= MboxSize + ReassMax + 2 => pass # "starved"

FrameOf(b) == {b[k][1] : k \in DOMAIN b}

\* Frames copied from the ring, and frames anywhere in the receive path.
TakenFrames ==
  (IF EthIfOwns = 1 THEN FrameOf(p) ELSE {})
    \cup (UNION {FrameOf(mbox[i].p) : i \in DOMAIN mbox})
    \cup FrameOf(tmsg.p)

PendingFrames ==
  {fifo[i] : i \in DOMAIN fifo}
    \cup {buf[d].f : d \in {e \in Desc : own[e] = "CPU"}}
    \cup TakenFrames

Channel == INSTANCE FrameChannel WITH pending <- PendingFrames
\* The receive path is a FIFO channel that may lose frames but never duplicates,
\* invents or reorders them: it implements FrameChannel.
ImplementsChannel == Channel!Spec

Received(f) ==
  \/ \E d \in Desc : own[d] = "CPU" /\ buf[d].ls = 1 /\ buf[d].f = f
  \/ f \in TakenFrames
\* A complete frame in the ring, or one taken from it, does not stay for ever: it
\* is handed to ethernet_input or dropped, and its buffers are free again - unless
\* EthIf goes to sleep over it because the handle was busy.
FramesTaken ==
  \A f \in Frame :
    Received(f) ~> (f \notin PendingFrames \/ (Quiescent /\ pass = "busy"))

\* EthIf does not block in netif->input: while it holds the core lock no other
\* thread takes a step (tcpip.c:333, sys.h:297).
PostNeverBlocks == [][core = "ethif" => UNCHANGED <<tpc, app>>]_vars

=============================================================================
