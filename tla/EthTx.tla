------------------------------- MODULE EthTx --------------------------------
(***************************************************************************)
(* The transmit path: low_level_output, HAL_ETH_TransmitFrame under it,    *)
(* HAL_ETH_Stop and HAL_ETH_Start beside it, the transmit DMA and the FIFO *)
(* of the MAC.  tcpip_thread sends with the lwIP core lock.  LinkThr has   *)
(* the lower priority and calls dhcp_start, netif_set_up and               *)
(* netif_set_link_up without that lock: it may send too, and it restarts   *)
(* the MAC; tcpip_thread can preempt it anywhere.                          *)
(*                                                                         *)
(* A frame (at most 1514 bytes) fits one buffer of ETH_TX_BUF_SIZE (2016)  *)
(* bytes, so that the loops over several buffers run once.                 *)
(***************************************************************************)
EXTENDS Integers, Sequences

CONSTANTS
  TxBufNb,    \* ETH_TXBUFNB
  FifoDepth,  \* frames in the FIFO: two with ETH_DMAOMR_OSF, which the HAL sets
  MaxFrames,  \* bound: calls of low_level_output in a behaviour
  LinkOps     \* what LinkThr does: a subset of {"send", "config"}

Frame  == 1..MaxFrames
Desc   == 0..(TxBufNb - 1)
Thread == {"tcpip", "link"}

ASSUME TxBufNbAssumption == TxBufNb \in Nat \ {0}
ASSUME FifoDepthAssumption == FifoDepth \in 1..TxBufNb
ASSUME MaxFramesAssumption == MaxFrames \in Nat
ASSUME LinkOpsAssumption == LinkOps \subseteq {"send", "config"}

VARIABLES
  own, buf, len,  \* descriptors: OWN bit, frame in the buffer, frame whose length is set
  txDesc, hlock,  \* heth.TxDesc, heth.Lock
  fifo, dmaPos,   \* FIFO: <<bytes, length>> of each frame fetched, descriptor of the first
  tps, tbus, tus, te,  \* transmit DMA: process state, DMASR.TBUS, DMASR.TUS; MACCR.TE
  calls,          \* calls of low_level_output so far
  pc, cur, dsc,   \* threads: control, frame, DmaTxDesc
  queued, wire, flushed,  \* history: frames given to the DMA, on the wire, discarded
  overlap         \* history: a send of LinkThr was preempted by one of tcpip_thread

ring   == <<own, buf, len>>
dma    == <<fifo, dmaPos, tps, tbus, tus, te>>
local  == <<cur, dsc>>
gone   == <<wire, flushed>>
vars   == <<ring, txDesc, hlock, dma, calls, pc, local, queued, gone, overlap>>

NextDesc(d) == IF d = TxBufNb - 1 THEN 0 ELSE d + 1

\* The k-th descriptor from the first that the DMA has not closed.
Nth(k) == (dmaPos + k) % TxBufNb

Init ==
  /\ own = [d \in Desc |-> "CPU"]
  /\ buf = [d \in Desc |-> 0] /\ len = [d \in Desc |-> 0]
  /\ txDesc = 0 /\ hlock = "unlocked"
  /\ fifo = <<>> /\ dmaPos = 0 /\ tps = "running" /\ tbus = 0 /\ tus = 0 /\ te = 1
  /\ calls = 0
  /\ pc = [t \in Thread |-> "out"]
  /\ cur = [t \in Thread |-> 0] /\ dsc = [t \in Thread |-> 0]
  /\ queued = {} /\ wire = <<>> /\ flushed = {} /\ overlap = FALSE

\* Fixed priorities: LinkThr runs while tcpip_thread waits for a message.
Runs(t) == t = "tcpip" \/ pc["tcpip"] = "out"
Goto(t, from, to) == Runs(t) /\ pc[t] = from /\ pc' = [pc EXCEPT ![t] = to]

\* Between the read of heth.TxDesc in low_level_output and its move.
Between(t) == pc[t] \in {"check", "copy", "lock", "set", "own", "give", "next"}

-----------------------------------------------------------------------------
(* low_level_output.                                                       *)

Output(t) ==
  /\ t = "tcpip" \/ "send" \in LinkOps
  /\ Goto(t, "out", "check")
  /\ calls < MaxFrames /\ calls' = calls + 1
  /\ cur' = [cur EXCEPT ![t] = calls + 1]
  /\ dsc' = [dsc EXCEPT ![t] = txDesc]
  /\ overlap' = (overlap \/ Between("link"))
  /\ UNCHANGED <<ring, txDesc, hlock, dma, queued, gone>>

\* Mutant: the OWN bit is not looked at before the copy.
CheckBufferAlways(t) ==
  /\ Goto(t, "check", "copy")
  /\ UNCHANGED <<ring, txDesc, hlock, dma, calls, local, queued, gone, overlap>>

\* The buffer of DmaTxDesc is free, or ERR_USE.
CheckBuffer(t) ==
  /\ Goto(t, "check", IF own[dsc[t]] = "CPU" THEN "copy" ELSE "use")
  /\ UNCHANGED <<ring, txDesc, hlock, dma, calls, local, queued, gone, overlap>>

CopyFrame(t) ==
  /\ Goto(t, "copy", "lock")
  /\ buf' = [buf EXCEPT ![dsc[t]] = cur[t]]
  /\ UNCHANGED <<own, len, txDesc, hlock, dma, calls, local, queued, gone, overlap>>

\* ERR_OK whatever HAL_ETH_TransmitFrame returned, or ERR_USE; after an underflow
\* the flag is cleared, and a poll demand wakes a suspended DMA.
Return(t) ==
  /\ Runs(t) /\ pc[t] \in {"ok", "use"}
  /\ pc' = [pc EXCEPT ![t] = "out"]
  /\ tus' = 0
  /\ tps' = IF tus = 1 /\ tps = "suspended" THEN "running" ELSE tps
  /\ UNCHANGED <<ring, txDesc, hlock, fifo, dmaPos, tbus, te, calls, local, queued, gone,
                 overlap>>

-----------------------------------------------------------------------------
(* HAL_ETH_TransmitFrame.  heth->TxDesc is read again at each step.        *)

\* __HAL_LOCK tests the lock and then sets it; HAL_BUSY if it was taken.
LockTest(t) ==
  /\ Goto(t, "lock", IF hlock = "locked" THEN "ok" ELSE "set")
  /\ UNCHANGED <<ring, txDesc, hlock, dma, calls, local, queued, gone, overlap>>

LockSet(t) ==
  /\ Goto(t, "set", "own")
  /\ hlock' = "locked"
  /\ UNCHANGED <<ring, txDesc, dma, calls, local, queued, gone, overlap>>

\* HAL_ERROR when the DMA owns the descriptor.
CheckDesc(t) ==
  /\ Goto(t, "own", IF own[txDesc] = "CPU" THEN "give" ELSE "ok")
  /\ hlock' = IF own[txDesc] = "CPU" THEN hlock ELSE "unlocked"
  /\ UNCHANGED <<ring, txDesc, dma, calls, local, queued, gone, overlap>>

GiveDesc(t) ==
  /\ Goto(t, "give", "next")
  /\ len' = [len EXCEPT ![txDesc] = cur[t]]
  /\ own' = [own EXCEPT ![txDesc] = "DMA"]
  /\ queued' = queued \cup {cur[t]}
  /\ UNCHANGED <<buf, txDesc, hlock, dma, calls, local, gone, overlap>>

\* Mutant: heth->TxDesc is not moved.
AdvanceDescNot(t) ==
  /\ Goto(t, "next", "resume")
  /\ UNCHANGED <<ring, txDesc, hlock, dma, calls, local, queued, gone, overlap>>

AdvanceDesc(t) ==
  /\ Goto(t, "next", "resume")
  /\ txDesc' = NextDesc(txDesc)
  /\ UNCHANGED <<ring, hlock, dma, calls, local, queued, gone, overlap>>

\* Mutant: TBUS is cleared without a poll demand.
ResumeDmaFlagOnly(t) ==
  /\ Goto(t, "resume", "unlock")
  /\ tbus' = 0
  /\ UNCHANGED <<ring, txDesc, hlock, fifo, dmaPos, tps, tus, te, calls, local, queued, gone,
                 overlap>>

\* A poll demand wakes a suspended DMA; it does not start a stopped one.
ResumeDma(t) ==
  /\ Goto(t, "resume", "unlock")
  /\ tbus' = 0
  /\ tps' = IF tbus = 1 /\ tps = "suspended" THEN "running" ELSE tps
  /\ UNCHANGED <<ring, txDesc, hlock, fifo, dmaPos, tus, te, calls, local, queued, gone,
                 overlap>>

Unlock(t) ==
  /\ Goto(t, "unlock", "ok")
  /\ hlock' = "unlocked"
  /\ UNCHANGED <<ring, txDesc, dma, calls, local, queued, gone, overlap>>

TransmitFrame(t) ==
  \/ LockTest(t) \/ LockSet(t) \/ CheckDesc(t) \/ GiveDesc(t) \/ AdvanceDesc(t)
  \/ ResumeDma(t) \/ Unlock(t)

-----------------------------------------------------------------------------
(* LinkThr in ethernetif_update_config: HAL_ETH_Stop; with the link up the *)
(* auto-negotiation, HAL_ETH_ConfigMAC and HAL_ETH_Start follow.  The HAL  *)
(* lock is free whenever LinkThr runs outside the HAL, so that its test    *)
(* and its setting are one step.                                           *)

HalEnter(from, to, busy) ==
  /\ Goto("link", from, IF hlock = "locked" THEN busy ELSE to)
  /\ hlock' = "locked"
  /\ UNCHANGED <<ring, txDesc, dma, calls, local, queued, gone, overlap>>

HalLeave(from, to) ==
  /\ Goto("link", from, to)
  /\ hlock' = "unlocked"
  /\ UNCHANGED <<ring, txDesc, dma, calls, local, queued, gone, overlap>>

\* A step in the HAL that changes no more than the state of the DMA and of the MAC.
Switch(from, to, tps1, te1) ==
  /\ Goto("link", from, to)
  /\ tps' = tps1 /\ te' = te1
  /\ UNCHANGED <<ring, txDesc, hlock, fifo, dmaPos, tbus, tus, calls, local, queued, gone,
                 overlap>>

\* ETH_FlushTransmitFIFO: the frames in the FIFO are discarded and their descriptors
\* closed; the one on its way to the wire becomes a runt and an underflow.
Flush(from, to) ==
  /\ Goto("link", from, to)
  /\ fifo' = <<>> /\ dmaPos' = Nth(Len(fifo))
  /\ own' = [d \in Desc |-> IF \E i \in DOMAIN fifo : d = Nth(i - 1) THEN "CPU" ELSE own[d]]
  /\ flushed' = flushed \cup {fifo[i][2] : i \in DOMAIN fifo}
  /\ tus' \in IF fifo = <<>> THEN {tus} ELSE {tus, 1}
  /\ UNCHANGED <<buf, len, txDesc, hlock, tps, tbus, te, calls, local, queued, wire, overlap>>

\* Mutant: HAL_ETH_Stop does not flush the FIFO.
StopFlushNot == Switch("stopFlush", "stopMac", tps, te)

Stop       == "config" \in LinkOps /\ HalEnter("out", "stopDma", "stopped")
StopDma    == Switch("stopDma", "stopFlush", "stopped", te)
StopFlush  == Flush("stopFlush", "stopMac")
StopMac    == Switch("stopMac", "stopLeave", tps, 0)
StopLeave  == HalLeave("stopLeave", "stopped")
LinkDown   == Switch("stopped", "out", tps, te)
ConfigMAC  == HalEnter("stopped", "macLeave", "ready")
MACLeave   == HalLeave("macLeave", "ready")
Start      == HalEnter("ready", "startMac", "out")
StartMac   == Switch("startMac", "startFlush", tps, 1)
StartFlush == Flush("startFlush", "startDma")
StartDma   == Switch("startDma", "startLeave", "running", te)
StartLeave == HalLeave("startLeave", "out")

Config ==
  \/ Stop \/ StopDma \/ StopFlush \/ StopMac \/ StopLeave \/ LinkDown \/ ConfigMAC \/ MACLeave
  \/ Start \/ StartMac \/ StartFlush \/ StartDma \/ StartLeave

-----------------------------------------------------------------------------
(* Hardware: the transmit DMA fetches a frame into the FIFO, the MAC sends *)
(* it and its descriptor is closed; the receive interrupt releases the HAL *)
(* lock whoever holds it.                                                  *)

\* The descriptor that the DMA looks at next.
Ahead == Nth(Len(fifo))

DmaFetch ==
  /\ tps = "running" /\ Len(fifo) < FifoDepth /\ own[Ahead] = "DMA"
  /\ fifo' = Append(fifo, <<buf[Ahead], len[Ahead]>>)
  /\ UNCHANGED <<ring, txDesc, hlock, dmaPos, tps, tbus, tus, te, calls, pc, local, queued,
                 gone, overlap>>

DmaSuspend ==
  /\ tps = "running" /\ Len(fifo) < FifoDepth /\ own[Ahead] = "CPU"
  /\ tps' = "suspended" /\ tbus' = 1
  /\ UNCHANGED <<ring, txDesc, hlock, fifo, dmaPos, tus, te, calls, pc, local, queued, gone,
                 overlap>>

MacTransmit ==
  /\ te = 1 /\ fifo # <<>>
  /\ wire' = Append(wire, Head(fifo)) /\ fifo' = Tail(fifo)
  /\ own' = [own EXCEPT ![dmaPos] = "CPU"]
  /\ dmaPos' = NextDesc(dmaPos)
  /\ UNCHANGED <<buf, len, txDesc, hlock, tps, tbus, tus, te, calls, pc, local, queued, flushed,
                 overlap>>

RxInterrupt ==
  /\ hlock = "locked" /\ hlock' = "unlocked"
  /\ UNCHANGED <<ring, txDesc, dma, calls, pc, local, queued, gone, overlap>>

-----------------------------------------------------------------------------
Dma == DmaFetch \/ DmaSuspend
Step(t) == Output(t) \/ CheckBuffer(t) \/ CopyFrame(t) \/ TransmitFrame(t) \/ Return(t)

Next == (\E t \in Thread : Step(t)) \/ Config \/ Dma \/ MacTransmit \/ RxInterrupt

Spec == Init /\ [][Next]_vars

FairSpec == Spec /\ WF_vars(Dma) /\ WF_vars(MacTransmit) /\ \A t \in Thread : WF_vars(Step(t))

-----------------------------------------------------------------------------
\* Every variable keeps its type; descriptors stay in the ring.
TypeOK ==
  /\ own \in [Desc -> {"CPU", "DMA"}]
  /\ buf \in [Desc -> 0..MaxFrames] /\ len \in [Desc -> 0..MaxFrames]
  /\ txDesc \in Desc /\ dmaPos \in Desc /\ hlock \in {"unlocked", "locked"}
  /\ fifo \in Seq((0..MaxFrames) \X (0..MaxFrames))
  /\ tps \in {"running", "suspended", "stopped"}
  /\ tbus \in {0, 1} /\ tus \in {0, 1} /\ te \in {0, 1}
  /\ calls \in 0..MaxFrames
  /\ pc \in [Thread -> {"out", "check", "copy", "lock", "set", "own", "give", "next",
                        "resume", "unlock", "ok", "use", "stopDma", "stopFlush", "stopMac",
                        "stopLeave", "stopped", "macLeave", "ready", "startMac",
                        "startFlush", "startDma", "startLeave"}]
  /\ cur \in [Thread -> 0..MaxFrames] /\ dsc \in [Thread -> Desc]
  /\ queued \subseteq Frame /\ flushed \subseteq 0..MaxFrames
  /\ wire \in Seq((0..MaxFrames) \X (0..MaxFrames)) /\ overlap \in BOOLEAN

\* No thread is in the driver.
Quiet == \A t \in Thread : pc[t] = "out"

\* LinkThr has passed the lock of a HAL call and has not left it.
LinkInHal ==
  pc["link"] \in {"own", "give", "next", "resume", "unlock", "stopDma", "stopFlush", "stopMac",
                  "stopLeave", "macLeave", "startMac", "startFlush", "startDma", "startLeave"}

\* low_level_output returns ERR_OK only for a frame that the DMA was given, as its
\* comment says.
OkMeansQueued ==
  [][\A t \in Thread : pc[t] = "ok" /\ pc'[t] = "out" => cur[t] \in queued]_vars

\* Frames are dropped with ERR_OK in two cases only: tcpip_thread preempted LinkThr
\* inside the HAL and meets its lock; or, once two sends have overlapped, the DMA owns
\* the descriptor that HAL_ETH_TransmitFrame is about to give it.
DropsOnlyBusy ==
  [][\A t \in Thread :
       /\ pc[t] = "lock" /\ pc'[t] = "ok" => t = "tcpip" /\ LinkInHal
       /\ pc[t] = "own" /\ pc'[t] = "ok" => overlap]_vars

\* Until two sends overlap, ERR_USE is returned only when the DMA owns the whole ring.
UseMeansFull ==
  [][\A t \in Thread : pc[t] = "check" /\ pc'[t] = "use" /\ ~overlap
       => \A d \in Desc : own[d] = "DMA"]_vars

\* The bytes of a frame on the wire are those of the call that set its length: no
\* buffer is overwritten before the DMA has fetched it.
FramesIntact == \A i \in DOMAIN wire : wire[i][1] = wire[i][2]

\* The same until tcpip_thread preempts LinkThr between its look at heth.TxDesc and the
\* move of it, to send a frame of its own.
IntactUntilOverlap == ~overlap => FramesIntact

\* With no thread in the driver, a suspended DMA has fetched everything it was given:
\* the TBUS test in HAL_ETH_TransmitFrame misses no suspension.
NoStall ==
  Quiet /\ tps = "suspended" /\ ~overlap
    => \A d \in Desc : own[d] = "DMA" => \E i \in DOMAIN fifo : d = Nth(i - 1)

\* HAL_ETH_Start discards nothing: its flush meets an empty FIFO, which HAL_ETH_Stop
\* has emptied after it stopped the DMA.
StartLosesNothing == [][pc["link"] = "startFlush" => UNCHANGED flushed]_vars

\* Descriptors between the first that the DMA has not closed and the first that the
\* CPU owns.
Backlog == CHOOSE n \in 0..TxBufNb :
             /\ \A k \in 0..(n - 1) : own[Nth(k)] = "DMA"
             /\ n = TxBufNb \/ own[Nth(n)] = "CPU"
Queue == INSTANCE FrameQueue
           WITH Size <- TxBufNb, Depth <- FifoDepth,
                queue <- [k \in 1..Backlog |-> len[Nth(k - 1)]], taken <- Len(fifo),
                wire <- [i \in DOMAIN wire |-> wire[i][1]], lost <- flushed
\* The ring implements FrameQueue until two sends overlap: a frame that was accepted
\* goes out whole, once and in order, or HAL_ETH_Stop discards it because the DMA had
\* fetched it; every other frame survives the restart of the MAC.
ImplementsQueue == Queue!Init /\ [][overlap \/ Queue!Next]_(Queue!vars)

\* Again and again every frame that was given to the DMA is on the wire or discarded from
\* the FIFO, also when LinkThr stopped the MAC and started it again meanwhile, as long as
\* the MAC is started for good in the end and no two sends overlap.
QueuedGoesOut ==
  <>[](tps # "stopped") /\ [](~overlap) =>
    []<>(\A f \in queued : f \in flushed \/ \E i \in DOMAIN wire : wire[i] = <<f, f>>)
=============================================================================
