----------------------------- MODULE LinkConfig -----------------------------
(***************************************************************************)
(* How the MAC follows the PHY: HAL_ETH_Init at boot, the link bit that    *)
(* LinkThr polls, and ethernetif_update_config, the link callback of       *)
(* LwIP.  One thread at a time is in this code: defaultTask until          *)
(* low_level_init returns, then LinkThr.  Both busy-wait on the PHY, with  *)
(* timeouts computed from the wrapping millisecond tick, while the cable,  *)
(* the negotiation and the tick go on.                                     *)
(*                                                                         *)
(* A register is the set of its bits that are one, and that the code       *)
(* looks at.  A mode of the MAC or the PHY is such a set, too.             *)
(* The HAL lock is left out: the threads that share it have the higher     *)
(* priority and give it back before LinkThr runs (see EthTx and EthRx).    *)
(***************************************************************************)
EXTENDS Integers

CONSTANTS
  TickMod,         \* 2^32, the values of uwTick
  ResetTimeout,    \* ETH_TIMEOUT_SWRESET
  InitTimeout,     \* ETH_TIMEOUT_LINKED_STATE, ETH_TIMEOUT_AUTONEGO_COMPLETED
  AutonegTimeout,  \* the 1000 ms of ethernetif_update_config
  PhyTimeout,      \* PHY_READ_TO, PHY_WRITE_TO
  MaxLag,          \* bound: ticks between two steps of the thread
  Faults           \* what may go wrong: a subset of {"swr", "mii"}

ASSUME TimeAssumption ==
  /\ {ResetTimeout, InitTimeout, AutonegTimeout, PhyTimeout, MaxLag} \subseteq Nat
  /\ TickMod \in Nat /\ InitTimeout < PhyTimeout /\ AutonegTimeout < PhyTimeout
  /\ InitTimeout + AutonegTimeout + PhyTimeout + 2 * MaxLag + 1 < TickMod
ASSUME FaultsAssumption == Faults \subseteq {"swr", "mii"}

\* Bit numbers.  The status bit of the link and the speed bit are the same.
Linked       == 2    \* PHY_LINKED_STATUS, in PHY_BSR
NegoComplete == 5    \* PHY_AUTONEGO_COMPLETE, in PHY_BSR
Speed10      == 2    \* PHY_SPEED_STATUS, in PHY_SR
FullDuplex   == 4    \* PHY_DUPLEX_STATUS, in PHY_SR

ModeBits == {Speed10, FullDuplex}
Mode     == SUBSET ModeBits

VARIABLES
  pc, booting,          \* control; is the thread in low_level_init?
  regvalue, tickstart,  \* locals of the functions
  linkUp,               \* NETIF_FLAG_LINK_UP
  init, mac,            \* speed and duplex: heth.Init, and the register MACCR
  running, rxint,       \* MAC and DMA enabled, receive interrupt enabled
  phy, cable,           \* the PHY, and whether something is at the other end
  tick, lag,            \* uwTick, and the ticks since the thread's last step
  waited,               \* history: ticks since tickstart was read
  faults                \* which faults this board has

thread == <<pc, booting>>
eth    == <<init, mac, running, rxint>>
vars   == <<thread, regvalue, tickstart, linkUp, eth, phy, cable, tick, lag, waited, faults>>

-----------------------------------------------------------------------------
(* The PHY and the tick.                                                   *)

\* The link is lost: PHY_BSR remembers that until it is read.
Dropped(p) ==
  [p EXCEPT !.link = FALSE, !.aneg = FALSE, !.mode = {}, !.latch = @ \/ p.link]

Reset(p)      == [Dropped(p) EXCEPT !.auto = TRUE, !.forced = {}]
\* PHY_AUTONEGOTIATION enables the negotiation and does not restart it.
EnableAutoneg(p) == IF p.auto THEN p ELSE Reset(p)
Forced(p, m)   == [Dropped(p) EXCEPT !.auto = FALSE, !.forced = m]
Seen(p)       == [p EXCEPT !.latch = FALSE]

Bsr == (IF phy.link /\ ~phy.latch THEN {Linked} ELSE {}) \cup
       (IF phy.aneg THEN {NegoComplete} ELSE {})
Sr  == phy.mode

Plug ==
  /\ cable' = ~cable
  /\ phy' = IF cable THEN Dropped(phy) ELSE phy
  /\ UNCHANGED <<thread, regvalue, tickstart, linkUp, eth, tick, lag, waited, faults>>

LinkComesUp ==
  /\ cable /\ ~phy.link
  /\ \E m \in Mode :
       /\ ~phy.auto => m = phy.forced
       /\ phy' = [phy EXCEPT !.link = TRUE, !.aneg = phy.auto, !.mode = m]
  /\ UNCHANGED <<thread, regvalue, tickstart, linkUp, eth, cable, tick, lag, waited, faults>>

Later(t, n) == (t + n) % TickMod
Waiting == {"reset", "linked", "linked?", "negotiate", "negotiate?"}
\* The history of a wait saturates: no wait is that long.
MoreWaited(n) ==
  IF pc \notin Waiting THEN 0 ELSE IF waited + n < TickMod THEN waited + n ELSE TickMod

Tick ==
  /\ lag < MaxLag
  /\ tick' = Later(tick, 1) /\ lag' = lag + 1 /\ waited' = MoreWaited(1)
  /\ UNCHANGED <<thread, regvalue, tickstart, linkUp, eth, phy, cable, faults>>

-----------------------------------------------------------------------------
(* What the functions share.                                               *)

Goto(from, to) == pc = from /\ pc' = to /\ lag' = 0

StartsWaiting == tickstart' = tick' /\ waited' = 0

\* Mutant: the comparison does not survive the wrap of the tick.
ElapsedSigned == IF tick < tickstart THEN 0 ELSE tick - tickstart
\* Mutant: a deadline is computed instead of a difference.
PastDeadline(limit) == tick > Later(tickstart, limit)

Elapsed == (tick - tickstart) % TickMod
TimedOut(limit) == Elapsed > limit

\* An access that fails has lasted for PhyTimeout.
AccessWorks == UNCHANGED tick
AccessFails == "mii" \in faults /\ tick' = Later(tick, PhyTimeout + 1)
Time == waited' = MoreWaited((tick' - tick) % TickMod) /\ UNCHANGED tickstart

\* HAL_ETH_ReadPHYRegister leaves *RegValue alone when it fails.
ReadBsr ==
  \/ AccessWorks /\ regvalue' = Bsr /\ phy' = Seen(phy)
  \/ AccessFails /\ UNCHANGED <<regvalue, phy>>

ReadSr ==
  \/ AccessWorks /\ regvalue' = Sr
  \/ AccessFails /\ UNCHANGED regvalue

\* HAL_ETH_WritePHYRegister; when it fails the PHY may have got the value or not.
WriteBcr(new) ==
  \/ AccessWorks /\ phy' = new
  \/ AccessFails /\ phy' \in {phy, new}

\* ETH_MACDMAConfig.
ConfigMacDma(m) == init' = m /\ mac' = m /\ rxint' = TRUE

\* HAL_ETH_Init gives up: 100 Mbit/s full duplex, and no NETIF_FLAG_LINK_UP.
InitFails(from) ==
  /\ booting /\ Goto(from, "start")
  /\ ConfigMacDma({FullDuplex})
  /\ UNCHANGED <<running, linkUp>>

-----------------------------------------------------------------------------
(* HAL_ETH_Init.                                                           *)

\* Without the clock of the PHY the software reset of the MAC never ends.
WaitReset ==
  /\ Goto("reset", IF "swr" \notin faults THEN "phy_reset"
                   ELSE IF TimedOut(ResetTimeout) THEN "start" ELSE "reset")
  /\ UNCHANGED <<booting, regvalue, tickstart, linkUp, eth, phy, cable, tick, waited, faults>>

PhyReset ==
  /\ WriteBcr(Reset(phy))
  /\ \/ tick' = tick /\ Goto("phy_reset", "linked") /\ StartsWaiting
        /\ UNCHANGED <<linkUp, eth>>
     \/ tick' # tick /\ InitFails("phy_reset") /\ Time
  /\ UNCHANGED <<booting, regvalue, cable, faults>>

ReadLinked ==
  /\ Goto("linked", "linked?") /\ ReadBsr /\ Time
  /\ UNCHANGED <<booting, linkUp, eth, cable, faults>>

CheckLinked ==
  /\ IF TimedOut(InitTimeout) THEN InitFails("linked?")
     ELSE /\ Goto("linked?", IF Linked \in regvalue THEN "autoneg" ELSE "linked")
          /\ UNCHANGED <<linkUp, eth>>
  /\ UNCHANGED <<booting, regvalue, tickstart, phy, cable, tick, waited, faults>>

-----------------------------------------------------------------------------
(* The negotiation, in HAL_ETH_Init and in ethernetif_update_config.       *)

\* Only HAL_ETH_Init looks at what the write returns.
Autoneg ==
  /\ WriteBcr(EnableAutoneg(phy))
  /\ \/ /\ booting => tick' = tick
        /\ Goto("autoneg", "negotiate") /\ StartsWaiting
        /\ UNCHANGED <<linkUp, eth>>
     \/ tick' # tick /\ InitFails("autoneg") /\ Time
  /\ UNCHANGED <<booting, regvalue, cable, faults>>

ReadNegotiated ==
  /\ Goto("negotiate", "negotiate?") /\ ReadBsr /\ Time
  /\ UNCHANGED <<booting, linkUp, eth, cable, faults>>

CheckNegotiated ==
  /\ \/ booting /\ TimedOut(InitTimeout) /\ InitFails("negotiate?")
     \/ /\ ~booting /\ TimedOut(AutonegTimeout)
        /\ Goto("negotiate?", "force") /\ UNCHANGED <<linkUp, eth>>
     \/ /\ ~TimedOut(IF booting THEN InitTimeout ELSE AutonegTimeout)
        /\ Goto("negotiate?", IF NegoComplete \in regvalue THEN "result" ELSE "negotiate")
        /\ UNCHANGED <<linkUp, eth>>
  /\ UNCHANGED <<booting, regvalue, tickstart, phy, cable, tick, waited, faults>>

\* Only HAL_ETH_Init looks at what the read returns.
ReadResult ==
  /\ ReadSr /\ Time
  /\ \/ /\ booting => tick' = tick
        /\ Goto("result", "decode") /\ UNCHANGED <<linkUp, eth>>
     \/ tick' # tick /\ InitFails("result")
  /\ UNCHANGED <<booting, phy, cable, faults>>

\* Mutant: the duplex bit of the result is not looked at.
DecodeSpeedOnly ==
  /\ IF booting
       THEN /\ Goto("decode", "start") /\ ConfigMacDma(regvalue \cap {Speed10})
            /\ linkUp' = TRUE /\ UNCHANGED running
       ELSE /\ Goto("decode", "config_mac") /\ init' = regvalue \cap {Speed10}
            /\ UNCHANGED <<mac, running, rxint, linkUp>>
  /\ UNCHANGED <<booting, regvalue, tickstart, phy, cable, tick, waited, faults>>

Decode ==
  /\ IF booting
       THEN /\ Goto("decode", "start") /\ ConfigMacDma(regvalue \cap ModeBits)
            /\ linkUp' = TRUE /\ UNCHANGED running
       ELSE /\ Goto("decode", "config_mac") /\ init' = regvalue \cap ModeBits
            /\ UNCHANGED <<mac, running, rxint, linkUp>>
  /\ UNCHANGED <<booting, regvalue, tickstart, phy, cable, tick, waited, faults>>

\* After a timeout the PHY is told the speed and duplex mode of heth.Init.
ForceMode ==
  /\ Goto("force", "config_mac") /\ WriteBcr(Forced(phy, init)) /\ Time
  /\ UNCHANGED <<booting, regvalue, linkUp, eth, cable, faults>>

ConfigMac ==
  /\ Goto("config_mac", "start") /\ mac' = init
  /\ UNCHANGED <<booting, regvalue, tickstart, linkUp, init, running, rxint, phy, cable, tick,
                 waited, faults>>

\* Mutant: the MAC is started by low_level_init only.
StartBootOnly ==
  /\ Goto("start", "sleep")
  /\ running' = (running \/ booting) /\ booting' = FALSE
  /\ regvalue' = {} /\ tickstart' = 0 /\ waited' = 0
  /\ UNCHANGED <<linkUp, init, mac, rxint, phy, cable, tick, faults>>

\* HAL_ETH_Start, and the end of low_level_init or ethernetif_update_config and their locals.
Start ==
  /\ Goto("start", "sleep")
  /\ running' = TRUE /\ booting' = FALSE
  /\ regvalue' = {} /\ tickstart' = 0 /\ waited' = 0
  /\ UNCHANGED <<linkUp, init, mac, rxint, phy, cable, tick, faults>>

-----------------------------------------------------------------------------
(* A pass of LinkThr, as far as the link is concerned.                     *)

\* regvalue is zero when ethernetif_phy_link_status_bit starts to read.
Poll ==
  /\ Goto("sleep", "decide")
  /\ \/ AccessWorks /\ regvalue' = Bsr \cap {Linked} /\ phy' = Seen(phy)
     \/ AccessFails /\ regvalue' = {} /\ UNCHANGED phy
  /\ Time
  /\ UNCHANGED <<booting, linkUp, eth, cable, faults>>

\* netif_set_link_down and the callback.
LinkDown ==
  /\ linkUp /\ regvalue = {}
  /\ Goto("decide", "sleep") /\ linkUp' = FALSE /\ running' = FALSE
  /\ UNCHANGED <<booting, regvalue, tickstart, init, mac, rxint, phy, cable, tick, waited, faults>>

\* netif_set_link_up and the begin of the callback.
LinkUp ==
  /\ ~linkUp /\ regvalue # {}
  /\ Goto("decide", "autoneg") /\ linkUp' = TRUE /\ running' = FALSE /\ regvalue' = {}
  /\ UNCHANGED <<booting, tickstart, init, mac, rxint, phy, cable, tick, waited, faults>>

NoChange ==
  /\ linkUp <=> regvalue # {}
  /\ Goto("decide", "sleep")
  /\ UNCHANGED <<booting, regvalue, tickstart, linkUp, eth, phy, cable, tick, waited, faults>>

-----------------------------------------------------------------------------
\* The PHY negotiates after power-on; heth and MACCR are zero: 10 Mbit/s, half duplex.
Init ==
  /\ pc = "reset" /\ booting = TRUE /\ regvalue = {} /\ linkUp = FALSE
  /\ init = {Speed10} /\ mac = {Speed10} /\ running = FALSE /\ rxint = FALSE
  /\ phy = [auto |-> TRUE, forced |-> {}, link |-> FALSE, aneg |-> FALSE, latch |-> FALSE,
            mode |-> {}]
  /\ cable \in BOOLEAN
  /\ tick = 0 /\ tickstart = 0 /\ lag = 0 /\ waited = 0
  /\ faults \in SUBSET Faults

HalInit == WaitReset \/ PhyReset \/ ReadLinked \/ CheckLinked
Negotiation == Autoneg \/ ReadNegotiated \/ CheckNegotiated \/ ReadResult \/ Decode
Config == ForceMode \/ ConfigMac \/ Start
Pass == Poll \/ LinkDown \/ LinkUp \/ NoChange

Thread == HalInit \/ Negotiation \/ Config \/ Pass
Next == Thread \/ Tick \/ Plug \/ LinkComesUp

Spec == Init /\ [][Next]_vars

\* The thread is scheduled and the tick interrupt is served.
FairSpec == Spec /\ WF_vars(Thread) /\ WF_vars(Tick)

-----------------------------------------------------------------------------
\* Every variable keeps its type.
TypeOK ==
  /\ pc \in {"reset", "phy_reset", "linked", "linked?", "autoneg", "negotiate", "negotiate?",
             "result", "decode", "force", "config_mac", "start", "sleep", "decide"}
  /\ {booting, linkUp, running, rxint, cable} \subseteq BOOLEAN
  /\ regvalue \subseteq {Linked, NegoComplete, FullDuplex}
  /\ {init, mac} \subseteq Mode
  /\ phy \in [auto : BOOLEAN, forced : Mode, link : BOOLEAN, aneg : BOOLEAN, latch : BOOLEAN,
              mode : Mode]
  /\ {tick, tickstart} \subseteq 0..(TickMod - 1)
  /\ lag \in 0..MaxLag /\ waited \in 0..TickMod
  /\ faults \subseteq Faults

\* Between two passes the MAC has the speed and duplex mode of the PHY, whatever the cable
\* did meanwhile, unless PHY_BSR remembers a loss of the link that the next pass will see.
\* Not so when an access to the PHY timed out: ethernetif_update_config then decodes
\* the bits of PHY_BSR as if they were those of PHY_SR.
MacMatchesPhy ==
  pc = "sleep" /\ linkUp /\ phy.link /\ ~phy.latch /\ "mii" \notin faults => mac = phy.mode

\* Between two passes an interface with a link receives: MAC and DMA are enabled, and the
\* receive interrupt is, also after failed accesses to the PHY.  Not so when the software
\* reset failed: low_level_init ignores that and nothing configures the DMA later.
ReceivesWhenUp == pc = "sleep" /\ linkUp => running /\ (rxint \/ "swr" \in faults)

\* Neither the negotiation nor the initialisation is given up before its time is over,
\* also when the tick wraps while the thread waits.
GivesUpLate ==
  [][/\ pc = "negotiate?" /\ pc' = "force" => waited > AutonegTimeout
     /\ pc \in {"linked?", "negotiate?"} /\ pc' = "start" => waited > InitTimeout]_vars

\* The busy waits end: LinkThr always comes back to its sleep, cable or not, PHY or not.
WaitsEnd == []<>(pc = "sleep")
=============================================================================
