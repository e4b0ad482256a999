---------------------------- MODULE LinkMonitor -----------------------------
(***************************************************************************)
(* The link monitor: MX_LWIP_Init and then LinkThr (ethernetif_set_link),  *)
(* which polls the PHY every second, and starts and stops the DHCP client  *)
(* without the lwIP core lock.  tcpip_thread has the higher priority: its  *)
(* timers and handlers (DhcpClient) run whole between two steps of LinkThr *)
(* and may come between any two accesses of dhcp_start and dhcp_stop.      *)
(*                                                                         *)
(* MX_LWIP_Init runs in defaultTask; LinkThr exists when it is done, so    *)
(* that one control, "lpc", stands for both.                               *)
(***************************************************************************)
EXTENDS Integers

CONSTANTS MaxTries, RequestTries, Leases,   \* see DhcpClient
  Faults,       \* those of DhcpClient; "phy": a PHY read fails; "pcb": no PCB is left
  MaxDhcpTries  \* MAX_DHCP_TRIES

ASSUME TriesAssumption == MaxTries \in Nat /\ RequestTries \in Nat
ASSUME MaxDhcpTriesAssumption == MaxDhcpTries \in Nat /\ MaxDhcpTries < MaxTries
ASSUME FaultsAssumption == Faults \subseteq {"nak", "conflict", "alloc", "silent", "phy", "pcb"}

VARIABLES
  dhcp, addr, faults,  \* see DhcpClient
  phy,         \* link bit of the PHY
  flags,       \* netif->flags: a subset of {"up", "link_up"}
  status,      \* dhcp_link_status
  lpc, reg,    \* control and regvalue
  after        \* where dhcp_stop returns to

Dhcp == INSTANCE DhcpClient

ASSUME LeasesAssumption ==
  Leases \subseteq (0..Dhcp!Forever) \X (0..Dhcp!Forever) \X (0..Dhcp!Forever)

client == <<dhcp, addr>>
net    == <<phy, faults>>
thread == <<lpc, reg, after>>
vars   == <<client, net, flags, status, thread>>

Init ==
  /\ Dhcp!Init
  /\ phy \in {0, 1} /\ flags = {} /\ status = "NOT_INITIALIZED"
  /\ lpc = "boot" /\ reg = 0 /\ after = "sleep"

Up == flags \cap {"link_up"}
Goto(from, to) == lpc = from /\ lpc' = to

-----------------------------------------------------------------------------
(* MX_LWIP_Init: HAL_ETH_Init fails without a link.                        *)

Boot ==
  /\ lpc = "boot"
  /\ \/ /\ phy = 1
        /\ flags' = {"up", "link_up"} /\ lpc' = "start"
        /\ UNCHANGED status
     \/ /\ status' = "LINK_DOWN_INIT" /\ lpc' = "sleep"
        /\ UNCHANGED flags
  /\ UNCHANGED <<client, net, reg, after>>

-----------------------------------------------------------------------------
(* ethernetif_set_link.                                                    *)

\* ethernetif_phy_link_status_bit: 0 when HAL_ETH_ReadPHYRegister fails.
Poll ==
  /\ Goto("sleep", "decide")
  /\ reg' \in {phy} \cup IF "phy" \in faults THEN {0} ELSE {}
  /\ UNCHANGED <<client, net, flags, status, after>>

LinkUpStatus == {"LINK_UP_WAITING_DHCP", "LINK_UP_IP_ACQUIRED", "LINK_UP_DHCP_ERROR"}

Call(from, returnTo) == Goto(from, "stop") /\ after' = returnTo

\* Mutant: dhcp_stop is not called when the link is lost.
SeeLinkLossNoStop ==
  /\ status \in LinkUpStatus /\ Up # {} /\ reg = 0
  /\ Goto("decide", "link_down")
  /\ UNCHANGED <<client, net, flags, status, reg, after>>

SeeLinkLoss ==
  /\ status \in LinkUpStatus /\ Up # {} /\ reg = 0
  /\ Call("decide", "link_down")
  /\ UNCHANGED <<client, net, flags, status, reg>>

SeeLink ==
  /\ \/ status = "LINK_DOWN" /\ Up = {} /\ flags' = flags \cup {"link_up"}
     \/ status = "LINK_DOWN_INIT" /\ flags' = {"up", "link_up"}
  /\ reg = 1
  /\ Goto("decide", "start")
  /\ UNCHANGED <<client, net, status, reg, after>>

SeeNoChange ==
  /\ \/ status \in {"LINK_DOWN", "LINK_DOWN_INIT"} /\ reg = 0
     \/ status = "LINK_UP_IP_ACQUIRED" /\ reg = 1
  /\ Goto("decide", "sleep")
  /\ UNCHANGED <<client, net, flags, status, reg, after>>

SeeSupplied ==
  /\ status = "LINK_UP_WAITING_DHCP" /\ reg = 1
  /\ IF Dhcp!Supplied(dhcp)
       THEN Goto("decide", "sleep") /\ status' = "LINK_UP_IP_ACQUIRED"
       ELSE Goto("decide", "tries") /\ UNCHANGED status
  /\ UNCHANGED <<client, net, flags, reg, after>>

\* Mutant: the limit is where dhcp->tries saturates.
SeeTriesNever ==
  /\ IF dhcp.tries > MaxTries
       THEN Call("tries", "error")
       ELSE Goto("tries", "sleep") /\ UNCHANGED after
  /\ UNCHANGED <<client, net, flags, status, reg>>

SeeTries ==
  /\ IF dhcp.tries > MaxDhcpTries
       THEN Call("tries", "error")
       ELSE Goto("tries", "sleep") /\ UNCHANGED after
  /\ UNCHANGED <<client, net, flags, status, reg>>

SeeDhcpError ==
  /\ status = "LINK_UP_DHCP_ERROR" /\ reg = 1
  /\ Call("decide", "static")
  /\ UNCHANGED <<client, net, flags, status, reg>>

LinkDown ==
  /\ Goto("link_down", "sleep")
  /\ flags' = flags \ {"link_up"} /\ status' = "LINK_DOWN"
  /\ UNCHANGED <<client, net, reg, after>>

DhcpError ==
  /\ Goto("error", "sleep") /\ status' = "LINK_UP_DHCP_ERROR"
  /\ UNCHANGED <<client, net, flags, reg, after>>

\* Mutant: the static address is not set.
StaticAddressNot ==
  /\ Goto("static", "sleep") /\ status' = "LINK_UP_IP_ACQUIRED"
  /\ UNCHANGED <<client, net, flags, reg, after>>

StaticAddress ==
  /\ Goto("static", "sleep") /\ status' = "LINK_UP_IP_ACQUIRED"
  /\ addr' = "static"
  /\ UNCHANGED <<dhcp, net, flags, reg, after>>

Decide == SeeLinkLoss \/ SeeLink \/ SeeNoChange \/ SeeSupplied \/ SeeDhcpError
Act == SeeTries \/ LinkDown \/ DhcpError \/ StaticAddress

-----------------------------------------------------------------------------
(* dhcp_stop, step by step.                                                *)

StopForget ==
  /\ IF dhcp.state = "off"
       THEN Goto("stop", after) /\ UNCHANGED dhcp
       ELSE Goto("stop", "release") /\ dhcp' = Dhcp!Forget(dhcp)
  /\ UNCHANGED <<addr, net, flags, status, reg, after>>

StopRelease ==
  /\ Goto("release", "noaddr")
  /\ \E ok \in Dhcp!Alloc : dhcp' = Dhcp!TellServer(dhcp, ok)
  /\ UNCHANGED <<addr, net, flags, status, reg, after>>

StopNoAddr ==
  /\ Goto("noaddr", "off") /\ addr' = "none"
  /\ UNCHANGED <<dhcp, net, flags, status, reg, after>>

StopOff ==
  /\ Goto("off", "free") /\ dhcp' = Dhcp!SwitchOff(dhcp)
  /\ UNCHANGED <<addr, net, flags, status, reg, after>>

StopFree ==
  /\ Goto("free", after) /\ dhcp' = Dhcp!FreePcb(dhcp)
  /\ UNCHANGED <<addr, net, flags, status, reg, after>>

DhcpStop == StopForget \/ StopRelease \/ StopNoAddr \/ StopOff \/ StopFree

-----------------------------------------------------------------------------
(* dhcp_start and dhcp_discover, step by step.                             *)

StartClear ==
  /\ Goto("start", "pcb") /\ dhcp' = Dhcp!Clear(dhcp)
  /\ UNCHANGED <<addr, net, flags, status, reg, after>>

\* ERR_MEM when udp_new finds no PCB.
StartPcb ==
  /\ \/ /\ Goto("pcb", "discover") /\ dhcp' = Dhcp!TakePcb(dhcp)
        /\ UNCHANGED status
     \/ /\ "pcb" \in faults
        /\ Goto("pcb", "sleep") /\ status' = "LINK_UP_DHCP_ERROR"
        /\ UNCHANGED dhcp
  /\ UNCHANGED <<addr, net, flags, reg, after>>

StartDiscover ==
  /\ Goto("discover", "send")
  /\ dhcp' = Dhcp!SetState([dhcp EXCEPT !.offered = "none"], "selecting")
  /\ UNCHANGED <<addr, net, flags, status, reg, after>>

StartSend ==
  /\ Goto("send", "tried")
  /\ \E ok \in Dhcp!Alloc : dhcp' = Dhcp!Send(dhcp, "discover", ok)
  /\ UNCHANGED <<addr, net, flags, status, reg, after>>

StartTried ==
  /\ Goto("tried", "sleep")
  /\ dhcp' = Dhcp!Tried(dhcp) /\ status' = "LINK_UP_WAITING_DHCP"
  /\ UNCHANGED <<addr, net, flags, reg, after>>

DhcpStart == StartClear \/ StartPcb \/ StartDiscover \/ StartSend \/ StartTried

-----------------------------------------------------------------------------
LinkThr == Boot \/ Poll \/ Decide \/ Act \/ DhcpStop \/ DhcpStart

\* tcpip_thread under the core lock, which LinkThr does not take.
rest == <<phy, flags, status, thread>>
Tcpip == Dhcp!Client /\ UNCHANGED rest

\* The cable is plugged in or pulled out.
Plug == phy' = 1 - phy /\ UNCHANGED <<client, faults, flags, status, thread>>

Next == LinkThr \/ Tcpip \/ Plug

Spec == Init /\ [][Next]_vars

Fine == Dhcp!FineTimer /\ UNCHANGED rest
Offer == Dhcp!RecvOffer /\ UNCHANGED rest
Ack == Dhcp!RecvAck /\ UNCHANGED rest

\* LinkThr and the timers of lwIP run; a server that is not silent answers often enough.
FairSpec == Spec /\ WF_vars(LinkThr) /\ WF_vars(Fine) /\ SF_vars(Offer) /\ SF_vars(Ack)

-----------------------------------------------------------------------------
\* Every variable keeps its type.
TypeOK ==
  /\ Dhcp!DhcpType /\ addr \in {"none", "lease", "static"} /\ faults \subseteq Faults
  /\ phy \in {0, 1} /\ reg \in {0, 1} /\ flags \subseteq {"up", "link_up"}
  /\ status \in LinkUpStatus \cup {"NOT_INITIALIZED", "LINK_DOWN", "LINK_DOWN_INIT"}
  /\ lpc \in {"boot", "sleep", "decide", "tries", "link_down", "error", "static", "stop",
              "release", "noaddr", "off", "free", "start", "pcb", "discover", "send", "tried"}
  /\ after \in {"sleep", "link_down", "error", "static"}

\* The DHCP client is off as long as the interface has no link: nothing that
\* tcpip_thread does during dhcp_stop starts it again.  So netif_set_link_up finds
\* nothing to reboot.
OffWhileLinkDown == Up = {} => dhcp.state = "off"

\* While LinkThr believes in a link and sleeps, the interface has an address or the client
\* is at work on one, with a lease or with a timeout pending: although tcpip_thread
\* interrupts dhcp_start and dhcp_stop, e.g. handles the OFFER before the first try is counted.
AddressOrTrying ==
  lpc = "sleep" /\ status \in {"LINK_UP_WAITING_DHCP", "LINK_UP_IP_ACQUIRED"}
    => \/ addr # "none"
       \/ Dhcp!Supplied(dhcp)
       \/ dhcp.state # "off" /\ dhcp.timer = 1

\* A link that stays down is noticed, whatever the client is doing.
LossNoticed == <>[](phy = 0) => <>[](Up = {} /\ dhcp.state = "off")

\* With a link that stays and a silent server the static address is used in the end,
\* also when messages and PCBs cannot be allocated.
StaticFallback ==
  "silent" \in faults /\ "phy" \notin faults /\ <>[](phy = 1) => <>[](addr = "static")

\* With a link that stays and a server that answers the interface is never without
\* an address for ever.
ServedAgain == faults \subseteq {"pcb"} /\ <>[](phy = 1) => []<>(addr # "none")
=============================================================================
