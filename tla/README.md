# Formal model of the oinzen network firmware

oinzen is firmware for an STM32F746: FreeRTOS (through CMSIS-RTOS v1), the LwIP 2.1.2
stack and ST's HAL, with an Ethernet driver, a link monitor and DHCP.  This directory
holds TLA+ models of its network core, the TLC configurations that check them, and
proofs that TLAPS checks.  Every definition is translated from the source; `PROJECT.json`
("map") gives the lines each one stands for.

To check: `tlc -config X.cfg M` for each run below, `tlapm M.tla` for each `*Proofs` module.

## 1. Inventory

One Cortex-M7 core.  Threads, by priority: `EthIf` (realtime), `tcpip_thread` and
`defaultTask` (normal; the second runs `MX_LWIP_Init` once and then only sleeps),
`LinkThr` (below normal, one pass every 1000 ms), idle.  Above them the ETH interrupt,
beside them the Ethernet DMA.  Mutexes are not recursive and inherit priorities.

| Component (source) | State | Operations | Interacts with | Correct when |
|---|---|---|---|---|
| Receive path (`ethernetif.c`, `stm32f7xx_hal_eth.c`, `tcpip.c`, `pbuf.c`, `sys_arch.c`) | RX descriptor ring, `heth` cursor and `RxFrameInfos`, HAL lock, semaphore, core lock, pbuf pool, message pool, mailbox | interrupt, `ethernetif_input`, `low_level_input`, `HAL_ETH_GetReceivedFrame_IT`, `tcpip_inpkt`, `tcpip_thread` | DMA by descriptors and status flags; interrupt by semaphore; `tcpip_thread` by mailbox | no lost wakeup, no wedged DMA, frames whole and in order, no leak |
| Transmit path (`ethernetif.c`, `stm32f7xx_hal_eth.c`) | TX descriptor ring, `heth.TxDesc`, HAL lock, FIFO of the MAC | `low_level_output`, `HAL_ETH_TransmitFrame`, `HAL_ETH_Stop/ConfigMAC/Start` | DMA by descriptors, TBUS and TUS; called by `tcpip_thread` and, without the core lock, by `LinkThr` | buffers not overwritten, accepted frames go out, errors reported |
| DHCP client (`dhcp.c`) | `struct dhcp`, `netif->ip_addr` | fine and coarse timer, OFFER, ACK, NAK, ARP conflict, start, stop | timers and UDP in `tcpip_thread`; started and stopped by `LinkThr` | no address outlives its lease, negotiation never halts |
| Link monitor (`lwip.c`) | `dhcp_link_status`, netif flags | boot, poll and six status cases | PHY by MDIO; DHCP client and netif directly, no lock | client off without a link, loss noticed, an address in the end |
| Interface (`netif.c`) | flags, address | set up/down, link up/down, address | link callback to the MAC | (inside the models above) |
| PHY, link reconfiguration (`ethernetif_update_config`) | PHY registers, `heth.Init` | read/write with timeout, autonegotiation | `LinkThr` busy-waits on it | ends in time, forces a speed otherwise |
| OS port (`sys_arch.c`, `cmsis_os.c`) | semaphores, mailboxes, `lwip_sys_mutex` | post, fetch, wait with timeout, protect | FreeRTOS queues | a post that may not block does not; protect not nested |
| FreeRTOS kernel (`tasks.c`, `queue.c`) | ready, delayed, pending and event lists, tick, priorities, queue locks | take, give, receive, send, delay, give in an interrupt, tick | every thread; the ETH interrupt; the tick | highest ready task runs, no wake-up lost, timeouts exact, holders of mutexes inherit |
| Time base (`hal_timer.c`), lwIP timeouts (`timeouts.c`) | `uwTick`, sorted list | tick, wrap-around comparison | every timeout | periodic timers neither lost nor early |
| Clock set-up, boot, application (`system.c`, `init.c`, `main.c`, `freertos.c`) | registers | run once | - | - |
| C stubs, diagnostics, rest of lwIP and HAL, printf | - | - | - | vendored or pure I/O |

Hard behaviour, each listed at its line under "hazards" in `PROJECT.json`: the DMA races
the interrupt handler and the descriptor scan; the interrupt releases a HAL lock it does
not own; pools and the mailbox run out half-way through an operation; `LinkThr` drives the
DHCP client and the transmitter without `LOCK_TCPIP_CORE`, so that `tcpip_thread` preempts
it anywhere; DHCP replies come late, twice or never; lease timers outlive their lease; a post that
must not block waits for a tick; interrupts give a semaphore while a task decides to wait for it.

## 2. Modules and plan

| Module | What it is | State of the work |
|---|---|---|
| `FrameChannel` | abstract: FIFO channel that may lose frames | done |
| `EthRx` | receive path, 35 steps of DMA, interrupt, `EthIf`, `tcpip_thread`, application thread; implements `FrameChannel` | done |
| `EthRxProofs` | type invariant, pools, messages, the HAL lock; the descriptor ring: owned copies, no wedge, nothing left behind, whole frames; `EthRx` implements `FrameChannel` | done |
| `FrameQueue` | abstract: bounded FIFO queue whose first entries are taken into a FIFO and leave it in order, or are flushed from it together | done |
| `EthTx` | transmit path with preemption of `LinkThr`; implements `FrameQueue` | done |
| `EthTxProofs` | type invariant, frame integrity, who meets the HAL lock, flush, no stall, full ring; `EthTx` implements `FrameQueue` | done |
| `DhcpClient` | DHCP client, handlers as functions of the struct | done |
| `DhcpProofs` | type invariant, lease and timeout invariants, address and ARP check | done |
| `LinkMonitor` | `LinkThr` composed with `DhcpClient` (INSTANCE), access by access | done |
| `LinkMonitorProofs` | type invariant, client off without a link, never idle with one | done |
| `MC*` | values of constants that a .cfg cannot write | done |
| `LinkConfig` | `HAL_ETH_Init`, the link bit and `ethernetif_update_config` against PHY, cable and wrapping tick | done |
| `LinkConfigProofs` | type invariant, mode of the MAC, reception, length of a wait | done |
| `CyclicTimers` | abstract: periodic timers in integers, without a list | done |
| `Timeouts` | the sorted timeout list with words that wrap, and the sleep of `tcpip_thread`; implements `CyclicTimers` | done |
| `TimeoutsProofs` | type invariant, no timer lost, no oversleeping; `Timeouts` implements `CyclicTimers` | done |
| `Kernel` | the FreeRTOS kernel under the threads of the firmware: queues, semaphores, mutexes, delays, time-outs, tick, scheduler suspension | done |
| `KernelProofs` | type invariant, scheduler suspension and locks of queues, holders of mutexes, wake-ups | done |
| `KernelSchedProofs` | running task, priority inheritance; time-outs and delays are neither late nor early | done |

Every safety property of a passing run is also a theorem.

## 3. The models

**EthRx.** `own` and `buf` are the descriptors and what the DMA wrote; a frame is a number
and fills `SegsOf[f]` descriptors.  `rxDesc`, `fsRx`, `segCount`, `hlock` are fields of `heth`.
`rs`, `rbus`, `rps` are the status bits and process state of the DMA; `isr` has two steps, the callback and the
clearing of R, because the DMA may set R in between.  `epc` walks `EthIf` through
`ethernetif_input`, `low_level_input` and `HAL_ETH_GetReceivedFrame_IT`; `tpc` walks
`tcpip_thread`.  `EthIfRuns`, `TcpipRuns`, `AppRuns` express the priorities.  `app` is
`defaultTask` at boot or `LinkThr`, inside a HAL call without the core lock.
Abstractions: the pool is counted in frames; frame bytes and lengths are left out;
only the enabled interrupt causes (R) are modelled; handlers of `tcpip_thread` are reduced to what
they do to pools, locks and reassembly (`reass`).  `pass` (how the last input loop of `EthIf`
ended) and `got` are history variables.  A post to the full mailbox waits for a tick, because
`osMessagePut` turns the timeout 0 into 1 ("ooseq" and "post" of `epc`); whether a message or the tick
comes first is open.  `EthIf` holds the core lock meanwhile, and lower threads run.
A frame is cut when the CPU owns the next descriptor, as the DMA does it.

**EthTx.** `pc[t]` walks a thread through `low_level_output` and `HAL_ETH_TransmitFrame`,
which reads `heth.TxDesc` again at each step; `tcpip_thread` preempts `LinkThr`
between any two steps.  `LinkOps` says what `LinkThr` does: "send" (`dhcp_start`,
gratuitous ARP) and "config" (`HAL_ETH_Stop`, `ConfigMAC` and `Start`, one step per register
function).  The firmware does both, and so do all runs but `tx_unlocked`.  A frame fits one buffer (1514 of 2016 bytes), so
the multi-buffer loop runs once.  `buf` is the frame whose bytes are in the buffer, `len`
the one whose length was written: the wire carries both.  The DMA takes frames into `fifo`, of at most two
(`ETH_DMAOMR_OSF`), and the MAC sends them and closes their descriptors; both run on their own.
`Flush` (`ETH_FlushTransmitFIFO`) empties the FIFO: its frames are lost (`flushed`) and their descriptors closed.  A frame
that is cut on the wire is an underflow, which may set TUS; `Return` then clears it and demands a poll.
Abstractions: the two reads of `heth.TxDesc` in `low_level_output` are one step, as are the test and the setting
of the HAL lock by `LinkThr` outside `HAL_ETH_TransmitFrame` (the lock is free there, `LockHeld`);
the test of TUS, the clearing and the poll demand; the DMA's fetch of a descriptor and its TBUS bit.
The second write of FTF comes after the first has been done and meets the same FIFO.
An auto-negotiation that fails changes nothing here (it is in `LinkConfig`), and neither does the first
`HAL_ETH_Start`, before any frame.

`overlap` is a history variable: `tcpip_thread` began to send while `LinkThr` was between its look at
`heth.TxDesc` and the move of it.  That can happen in the firmware, and from then on frames may be mixed,
as `tx_unlocked` shows, and `heth.TxDesc` and the DMA may be apart for good.  Five properties are therefore claimed until the first overlap only; `StartLosesNothing` and the first half of `DropsOnlyBusy` hold for ever.

**DhcpClient.** Handlers call each other, so each is a function of the struct; the actions
apply them under the core lock.  The transaction id is abstracted to what was asked under
the current one (`asked`); replies may be lost, repeated and late; a reply to an older id is a no-op.
A request timeout is 0 or 1 (pending), of arbitrary length.  Times are whole minutes
as `dhcp_bind` leaves them, 0 becoming 1, and `Forever` standing for
0xffffffff, which leaves the timer as it was.  INIT and REBOOTING are not modelled:
they need a client that is on while the link is down, and `OffWhileLinkDown` shows that there is
none.  The option parser is abstracted to the values it leaves.  `faults` is the environment:
which kinds of trouble this network makes, chosen once, each of which then happens or not at every occasion.

**LinkMonitor.** `lpc` is the control of `MX_LWIP_Init` and then of `ethernetif_set_link`.
`dhcp_stop` and `dhcp_start` are five steps each, split where they write shared state, because `LinkThr` holds no
lock; `tcpip_thread`'s handlers come in between, whole, since they have the higher priority.
Boot is not interleaved with `tcpip_thread` inside its steps (equal priority).
`Plug` is the cable.  A failing PHY read gives 0, as in the code.

**LinkConfig.** One thread, `booting` telling `defaultTask` in `low_level_init` from `LinkThr`;
`pc` is its place in `HAL_ETH_Init`, in a pass or in the link callback.  A register is
the set of its bits that are one, so that bit 2, which is PHY_LINKED_STATUS in one register
and PHY_SPEED_STATUS in another, is the same bit here, as in the code that decodes the wrong
register after a failed read.  `latch` is the memory of PHY_BSR for a lost link; setting
PHY_AUTONEGOTIATION enables the negotiation and does not restart a running one.  The PHY is not
in the repository: this is what its data sheet and IEEE 802.3 say of the registers read.
An access is one step, at the end of which it has worked or PhyTimeout has passed.
`LinkComesUp` lets the other end choose any mode, except that a forced PHY keeps its own.
`waited` is a history variable, the true length of a wait.  The locals of a function are
cleared when it returns.  The HAL lock is left out: the threads that share it have higher priority.

**Kernel.** `k` is the scheduler: `state` says in which list the state item of a task is
("overflow" is the delayed list of the next turn of the tick), `event` the event lists,
`pend` and `pended` what came while the scheduler was suspended (`susp`), `yield` is
`xYieldPending`, `cur` the running task.  `thread[t].pc` walks a task through
`xQueueSemaphoreTake`, `xQueueReceive` and `xQueueGenericSend`, which share their shape: "try",
"suspend", "lock", "test", "place", "unlock", "resume", and after a time-out "expired" and "restore";
a delay goes through "suspend", "place" and "resume".  A critical section is one step; a switch
it asks for follows at once.  Since the scheduler is suspended, only `SysTick` and `GiveFromISR`
come between "suspend" and "resume".  Abstractions: ready lists and `uxTopReadyPriority` are
the set of ready tasks, of which any of the highest priority may be next; event item values are the priority they
are computed from; messages have no content; `cRxLock` is left out, since no interrupt receives;
of the configuration options only those of `FreeRTOSConfig.h` are modelled.  `MCKernel` gives `EthIf`,
`tcpip_thread` and `LinkThr` the calls they make in the firmware, plus one that it does not have
(a mutex taken with a time-out, a message taken back), without which some of the kernel's code is not reached.
`Patient` and `Ranked` are no part of the model: they say what two theorems ask of the programs,
and `MCKernel` has TLC evaluate them for those of the firmware (`FirmwareAssumption`).
`waited`, the ticks since a timed call began to wait, is a history variable.  `EthRx` uses what is checked here:
its guards `EthIfRuns`, `TcpipRuns` and `AppRuns` are `HighestRuns`, and its semaphore loses no
token because of `NoLostWakeUp`.

**Timeouts.** `list` is the linked list, head first; its entries come from a pool.  `pc` is
`tcpip_thread` in `tcpip_timeouts_mbox_fetch` and `sys_check_timeouts`, which reads the time
once (`limit`).  `sleeptime` is read with the core lock held; "unlocked" is the time from the release of the lock
until the kernel begins to wait, with messages, ticks and other threads in between.  `wake` counts kernel ticks, which are as long as those of `sys_now` but
not in phase; `Infinite` is no timeout at all and does not count down.  Left out: TCP's timer (no TCP connection is opened), `sys_untimeout` and
`sys_restart_timeouts` (no callers in the firmware), one-shot timeouts (likewise).
The mapping to `CyclicTimers` takes the signed distance of each time from now, which is
defined only while it stays within half a word: the longest interval and the longest
delay together must be less than that, which is 24 days in the firmware.

## 4. Runs

| Run | Shows | Bounds |
|---|---|---|
| `rx_safety` | no lost wakeup, no wedge, owned copies, whole frames, conserved pools, FIFO channel | ring 3, 4 frames of 1 or 2 segments, FIFO 1, mailbox 1, 3 messages, pool 2, reassembly 1 |
| `rx_live` | received frames are taken out; the smallest pool that never runs out | ring 2, 3 frames, the second of 2 segments, mailbox 1, pool 3, no reassembly |
| `rx_post` | **violated**: a non-blocking post blocks | as `rx_safety` |
| `tx_safety` | until two sends overlap: buffers intact, no stall, ERR_USE only when full, a FIFO queue that only a stop of the MAC takes frames from; always: drops with ERR_OK in two cases only, a start discards nothing; what the DMA was given goes out or is flushed | ring 3, FIFO 2, 4 frames, send and config |
| `tx_unlocked` | **violated**: two senders share a buffer | ring 3, FIFO 2, 4 frames, send |
| `tx_ok` | **violated**: ERR_OK for a frame that was not queued | as `tx_safety` |
| `dhcp_safety` | lease and timeout invariants under every subset of the faults; without a NAK, supplied means address, and ARP check first | tries 4, requests 2, leases of one to twelve minutes, Forever |
| `dhcp_supplied` | **violated**: `dhcp_supplied_address` true without an address | as `dhcp_safety` |
| `link` | client off without link, with a link an address or a client that cannot get stuck; loss noticed under all faults; the static address in the end with a silent server; an address again and again with one that answers | one lease, tries 4, limit 3, every subset of the faults |
| `link_config` | the MAC gets the mode of the PHY whatever the cable does, a link means reception, no wait ends early, every wait ends | tick of 10 values, time-outs 1, 2, 1 and 3, one tick between steps, every subset of the faults |
| `timeouts` | no timer is lost, no sleep past a timer but by the ticks before the wait begins, periodic timers neither early nor drifting, each runs again and again | words of 28 values, intervals 2, 4, 1, pool of 3, handlers late by up to 1 at each step |
| `kernel` | no switch and no wake-up is lost, time-outs and delays neither early nor late, holders of mutexes inherit | four tasks, four objects of size 1, tick of 4 values, 2 ticks pended, time-outs of 1 and 2 |

Why the bounds are enough: a ring of three is the smallest in which "owned by the DMA",
"being copied" and "received but not scanned" can all be non-empty, and the frames
suffice to go round it more than once, those of `tx_safety` as far as the first buffer again, which the fourth frame meets
while three are in the ring; with a FIFO of two the ring also holds a frame that a flush spares; two-segment frames straddle the end of the ring;
pools and mailbox of one or two run out, which is the case of interest.  The DHCP limits
only need the order `RequestTries < MaxDhcpTries < MaxTries`, the order 5 < 250 < 255 of
the code.  The ticks of `link_config` and `timeouts` wrap several times in a behaviour, in every place; what
matters of the time-outs of `link_config` is that an access to the PHY that fails lasts longer than the
waits it happens in, as 65535 against 5000 and 1000 ms.  The pool of `timeouts` has no spare entry, and its delays add up to
more than an interval, so that a timer also misses a whole period.  In `kernel` the
tick wraps within a wait and between two; no call lasts longer than one turn, as none lasts 49 days.  Runs of `EthTx` switch deadlock checking off because `MaxFrames` ends them;
the others never stop.  The wire and the number of calls are the only unbounded things cut.

Fairness.  `WF(Dma)`, `WF(Isr)`, `WF(EthIf)`, `WF(Tcpip)`: hardware and a preemptive kernel run
what can run.  `SF(TcpipUnlockCore)`: timeouts and transmissions of `tcpip_thread` do not
go on for ever, so it comes back to waiting for messages.  `WF(LinkThr)`: `osDelay` returns.  `WF(Fine)`: the
fine timer is served.  `SF(Offer)`, `SF(Ack)` are the assumption "a server answers often enough"; they are used
only in `link`, and say nothing of a silent server, whose replies are never enabled.  `WF(MacTransmit)` and `WF(Step(t))` in `EthTx`: the MAC sends and a thread in the driver runs on.
`WF(Thread)` and `WF(Tick)` in `LinkConfig` and `Timeouts`: the thread is scheduled, the tick interrupt is served.
`QueuedGoesOut` has its own premises, that the MAC is not stopped for ever, since nothing forces `LinkThr` to start it again,
and that no two sends overlap.

Disagreements between code and comments ("findings"): a post that "does NOT block" waits for a
tick (`cmsis_os.c:1074`); the sender without core lock (`lwip.c:191`); ERR_OK for a frame that HAL_BUSY dropped
(`ethernetif.c:308` against the comment in line 241); lease timers that survive a
NAK (`dhcp.c:550`).

Four more consequences were met on the way and are not runs of their own:
- The blocking post lets `LinkThr` into the HAL between two frames.  `HAL_ETH_GetReceivedFrame_IT`
  then returns HAL_BUSY, which ends the input loop like an empty ring.  Frames stay until the
  next one arrives; after two such passes the whole ring can belong to the CPU, the DMA is suspended, and no
  receive interrupt comes any more.  `NeverWedged` and `DrainedUnlessCut` exclude this case
  (`pass = "busy"`), and `BusyOnlyByApp` says that nothing else leads to it.
- `dhcp_stop` runs without the core lock too: an ACK that `tcpip_thread` handles after the address was
  removed and before the state is OFF binds it again, and it stays with the client off.
- `HighestRuns` depends on the programs: when a task sleeps while it holds two mutexes, a task of a higher
  priority waits for the inner and one of a lower priority for the outer, the give of the
  last mutex wakes the lower one and makes no switch, although the holder has lost its inherited
  priority (`xYieldRequired` in `xQueueGenericSend` counts only without a waiter).  In the
  firmware nobody sleeps with the core lock and `lwip_sys_mutex` held.
- A task whose wait for a mutex ended at `queue.c:1594` finds the mutex available, is preempted before it takes it,
  finds it taken with no time left, and the assertion in line 1505 stops the system, against the comment in line 1500
  (`pc = "halted"` in `Kernel`).  The firmware takes its mutexes without time-outs.

## 5. Proofs

Each theorem holds for every value of the constants that satisfies the named assumptions of its
module (`RxBufNbAssumption`, `FrameAssumption`, `SizeAssumption`; `TxBufNbAssumption`, `FifoDepthAssumption`, `MaxFramesAssumption`,
`LinkOpsAssumption`; `TriesAssumption`, `LeasesAssumption`; `TimeAssumption`, `FaultsAssumption`; `WordAssumption`,
`IntervalAssumption`, `PoolAssumption`, `MaxLagAssumption`); those that need more say so in their statement
and below.  Every inductive invariant was first checked by TLC on the instance of its run.

- `EthRxProofs`.  `TypeCorrect` needs that `EthIf` is past `low_level_input` only with a
  pbuf.  `OnlyAppBusy`: the invariant adds who may hold the HAL lock while `EthIf`
  runs: with the core lock held by `EthIf` it can only be an application thread.  `NoLeak` counts messages over the
  mailbox (lemmas on `Inpkts` of an appended and a shortened sequence) and the ooseq callback
  against its flag; `InpktEnough` and `PoolEnough` follow with the bounds of mailbox and reassembly.
  The ring is read as an endless tape: positions g (given back), r (read by
  the HAL) and w (written by the DMA) with g <= r <= w <= g + `RxBufNb`.  Descriptors between g and w belong to
  the CPU, all others to the DMA (`Arc`), and those between r and w are segments of consecutive frames (`Run`, `Segments`), of
  which the HAL has scanned a beginning (`Scanned`).  From this `CopiesOwn`
  and `WholeCopies`.  `Awake` says which flag, token or place of `EthIf` remembers that there is something to read or that the
  DMA is suspended; it gives `NotWedged` and `NothingLeftBehind`, both with the exception `pass = "busy"` of the
  properties.  `ChannelImplemented` is the refinement of `FrameChannel`: the frames in flight are those in the FIFO, in the ring, with
  `EthIf`, in the mailbox and with `tcpip_thread`, each set above the next, so a step takes out, loses or
  appends a frame at the place the channel does.
- `EthTxProofs`.  No theorem restricts what `LinkThr` does.  `HalInv` holds for ever: the HAL lock is taken only while a thread
  is inside the HAL (`LockHeld`), which `LinkThr`, running while `tcpip_thread` waits, never meets; and from the flush
  of `HAL_ETH_Stop` to the start of the DMA the FIFO is empty (`Stopped`), hence `StartFlushesNothing`.  The others need what holds
  until two sends overlap.  `Exclusive`: at most one thread is between its look at `heth.TxDesc` and the move of it; its descriptor
  is `heth.TxDesc`, the CPU owns it until it is given away, and descriptors of the DMA have equal `buf` and
  `len`; hence `WholeFrames` and, with `LockHeld`, `DroppedOnlyBusy`.  `RingInv`: the descriptors of the DMA are
  the n from its position on, the first of them are those in the FIFO, and the n-th is `heth.TxDesc`; a suspended DMA has fetched all of them,
  or a sender is about to demand a poll (`PollDue`).  Hence `NeverStalls`, `UseIsFull` and `QueueImplemented`, where the frames of
  the arc, in order, are the queue of `FrameQueue`; that numbers of frames are not used twice (`FreshUntil`) makes a flush remove
  just what it should.
- `DhcpProofs`.  One lemma per handler says what it leaves of state, timeout, PCB and lease.
  The invariant `IInv` strengthens `LeaseHeld` by `BeforeEnd` in every state: the
  lease counter stays below its end also after a NAK, which is why the equality test in
  `dhcp_coarse_tmr` never misses it.  Theorems: `TypeCorrect`, `LeaseBeforeEnd`, `TimeoutPending`.  `SuppliedHasAddr`
  (without a NAK) and `AddrAfterCheck` follow from what each handler does to address, ARP check and the faults that have happened.
- `LinkMonitorProofs` takes the lemmas of `DhcpProofs` over by INSTANCE.  The invariant says of each place
  of `LinkThr` what the client looks like there, in the middle of `dhcp_start` and `dhcp_stop` too,
  and is kept by every handler that may preempt it.  Theorems: `TypeCorrect`, `OffWithoutLink`, `NeverIdle`
  (the properties `OffWhileLinkDown` and `AddressOrTrying`).
- `LinkConfigProofs`.  `MacFollowsPhy` carries the mode through the pass: what has been read from PHY_SR, what
  `heth.Init` holds and what the MAC was given agree with the PHY, or a later link event is pending.  `ReceptionEnabled` and
  `NeverGivesUpEarly` (unsigned differences of a tick that wraps) have invariants of their own.
- `TimeoutsProofs`.  Words are reasoned about by `Plus`, `Minus` and `Until`, the signed distance.  Each armed timer is on the list exactly
  once (`Listed`), the list is sorted by distance (`Sorted`), and no distance leaves the half word, because the lateness of
  every place of the thread has a budget (`Soon`, `Punctual`).  That the time to sleep is at least 1 when the
  wait begins (`Waits`) is needed for the type of `wake`.  Theorems: `TypeCorrect`, `TimersKept`,
  `SleepsInTime` (late by at most `MaxLag`, the ticks between the read of the time and the wait), `TimersImplemented` (the refinement of `CyclicTimers`).  The budgets assume `Prompt`,
  4 (`NTimers` + 1) `MaxLag` < `Word` \div 4: with words of 32 bits and a dozen timers, a handler may be late by
  more than two hours at each step.

- `KernelProofs` (assumptions `TaskAssumption`, `ObjectAssumption`, `TickAssumption`, `ProgramsAssumption`, `BalanceAssumption`;
  the last says that a program gives what it takes, as the firmware does with its locks).  One lemma per action says
  what it does (`...Effect`), two why it keeps `Control` and `Mutexes`.  `TypeCorrect` is not inductive: that the give of a mutex
  finds it taken and `uxMutexesHeld` above 0 needs `Mutexes` (a mutex has the holder that the position of the threads in their
  programs says), and this needs `Control`: while the scheduler is suspended only the running thread is between
  "lock" and "resume", it alone has locked a queue, and `path` says where it goes on.  `SafeAlways` states
  the whole invariant.  The pending ticks of `xTaskResumeAll` and the lists are reasoned about by induction over sets of numbers
  (`BoundedInduction`).  `WakeUps` (the property `NoLostWakeUp`) counts: as long as tasks wait for an object, at least as many others are awake and
  about to try (`Trying`) as it has messages or free places (`Spare`), less the gives that cTxLock still remembers
  (`Wakeups`).  A give or take adds one and wakes one; `prvUnlockQueue` wakes as many as it forgets; a task
  that blocks has just seen that there is nothing (`Placing`), and whoever sees so stops being counted.  The lists it needs
  (`Lists`): who sleeps in a call is in the event list of that call or pending, and nowhere twice.
- `KernelSchedProofs`, priorities.  `HighestFirst` (`HighestRuns`) and `Inheritance` (`Inherited`) go together (`Prios`): that a mutex given to waiting
  tasks is taken by one with a priority like theirs (`Promised`) needs that the highest task runs (`Top`), and
  that a holder who gets its own priority back is switched out needs that the inherited one was that of the
  first waiter (`Lent`), who stands before nobody of a higher own priority (`Queued`).
  Both have two hypotheses.  `Patient`: mutexes are taken with Forever, as `sys_mutex_lock` and
  `sys_arch_protect` do; `vTaskPriorityDisinheritAfterTimeout` leaves the holder of two mutexes the priority of a waiter that has
  given up.  `Ranked`: a task that nests mutexes has the highest priority (`EthIf`), or a lower one than the other users of the mutex it gives
  last (`tcpip_thread` gives `lock_tcpip_core` last, which only `EthIf` shares).  Without `Ranked` the kernel breaks
  `HighestRuns`, as TLC finds in 29 steps with such a task: `xTaskPriorityDisinherit` takes the priority back only with the last mutex, and
  `xQueueGenericSend` switches only for the task waiting for that one, not for the one that waited
  for the mutex given before.

- `KernelSchedProofs`, time.  `InTime` and `NotBefore` (the properties `NeverLate` and `NeverEarly`) hold for any
  width of the tick and any `MaxPended`, without `Patient` and `Ranked`.  The invariant `Timing`, proved with `Orderly` (`TimingAlways`), speaks of two
  numbers for every call that began to wait: `Rest`, the ticks it has still to wait, those that wait for `xTaskResumeAll`
  (`pended`) included, and `Since`, the ticks since its time-out was last looked at.  Whoever sleeps has its wake time `Rest` ticks
  ahead, in the delayed list of this turn of the tick or, a turn less, in the overflow list (`Sleeps`); the tick is `Since`
  ahead of `start`, less a turn if it has wrapped, which `over` says (`Clocked`); and nobody sleeps past
  `xNextTaskUnblockTime` (`Unblocks`).  A tick takes one from every `Rest`, and wakes whoever is at 0
  (`TickSleeps`), the switch of the lists included; a resumption does so as often as ticks are pended, once
  the tasks woken in the meantime are out of the delayed lists (`ResumedSleeps`, by induction over the
  pended ticks).  `xTaskCheckForTimeOut` finds `Since` by the wrapping difference or sees that a turn is over (`TimeoutSeen`), which is exact
  because no call lasts longer than one turn.  That is the bound in `SysTick` (`waited[t] < TickMod`), the
  only hypothesis about time that the code does not guarantee by itself: to break it, a task that may run must be
  kept from running for 49 days.

Only model-checked: liveness under fairness, which is out of reach of the prover.
Run `timeouts` has words of 28 values, too few for `Prompt`: there TLC shows the properties at a tighter bound than the
proof does.  With words of 68 values, where `Prompt` holds, it takes two minutes and finds no error either.

## 6. Not modelled

Creation of tasks and objects, and the order in which the tasks come up, are not modelled: they run
once, before anything they share is used.  Clock and pin
set-up, C stubs and diagnostics are straight-line code or I/O.  TCP, UDP, ARP, ICMP
and the rest of the HAL are vendored; what the models need of them is external.  Known limits of
the firmware that no run states yet: a server that offers and never acknowledges keeps
`tries` below the limit, so the static address is never taken; a lease lost after
LINK_UP_IP_ACQUIRED has no fallback; a static address stays on the interface without a link.
Two limits show as premises of the properties of `LinkConfig`: `ethernetif_update_config` does not look at what
its read of PHY_SR returns, so that after a read that timed out it decodes the bits of PHY_BSR
(`MacMatchesPhy` excludes failing accesses); and `low_level_init` goes on after a failed
software reset, with a MAC that never gets its receive interrupt (`ReceivesWhenUp` excludes it).
