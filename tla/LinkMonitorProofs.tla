------------------------- MODULE LinkMonitorProofs -------------------------
(***************************************************************************)
(* Proofs about LinkMonitor, for every limit of tries, every set of leases *)
(* and every fault.  What the handlers of the DHCP client do to the struct *)
(* is proved in DhcpProofs; here they come between any two steps of        *)
(* dhcp_start and dhcp_stop.                                               *)
(***************************************************************************)
EXTENDS LinkMonitor, TLAPS

Lease == INSTANCE DhcpProofs

-----------------------------------------------------------------------------
(* The DHCP client of LinkMonitor is that of the lemmas.                   *)

LEMMA ForeverSame == Dhcp!Forever = Lease!Forever
  BY DEF Dhcp!Forever, Lease!Forever

LEMMA PartsSame ==
  /\ \A d, s : Dhcp!SetState(d, s) = Lease!SetState(d, s)
  /\ \A d : Dhcp!Tried(d) = Lease!Tried(d)
  /\ \A d, k, ok : Dhcp!Send(d, k, ok) = Lease!Send(d, k, ok)
  /\ \A d : Dhcp!Supplied(d) <=> Lease!Supplied(d)
  /\ \A d : Dhcp!Forget(d) = Lease!Forget(d)
  /\ \A d : Dhcp!FreePcb(d) = Lease!FreePcb(d)
  /\ \A d : Dhcp!TakePcb(d) = Lease!TakePcb(d)
  /\ \A d : Dhcp!Clear(d) = Lease!Clear(d)
  /\ Dhcp!Cleared = Lease!Cleared
  BY DEF Dhcp!SetState, Lease!SetState, Dhcp!Tried, Lease!Tried, Dhcp!Send, Lease!Send,
         Dhcp!Supplied, Lease!Supplied, Dhcp!Forget, Lease!Forget,
         Dhcp!FreePcb, Lease!FreePcb, Dhcp!TakePcb, Lease!TakePcb,
         Dhcp!Clear, Lease!Clear, Dhcp!Cleared, Lease!Cleared

LEMMA StopSame ==
  /\ \A d, ok : Dhcp!TellServer(d, ok) = Lease!TellServer(d, ok)
  /\ \A d : Dhcp!SwitchOff(d) = Lease!SwitchOff(d)
  BY PartsSame DEF Dhcp!TellServer, Lease!TellServer, Dhcp!SwitchOff, Lease!SwitchOff

LEMMA RequestsSame ==
  /\ \A d, ok : Dhcp!Discover(d, ok) = Lease!Discover(d, ok)
  /\ \A d, s, ok : Dhcp!Request(d, s, ok) = Lease!Request(d, s, ok)
  /\ \A d : Dhcp!Check(d) = Lease!Check(d)
  /\ \A d, ok : Dhcp!Decline(d, ok) = Lease!Decline(d, ok)
<1>1. ASSUME NEW d, NEW ok PROVE Dhcp!Discover(d, ok) = Lease!Discover(d, ok)
  BY PartsSame DEF Dhcp!Discover, Lease!Discover
<1>2. ASSUME NEW d, NEW s, NEW ok PROVE Dhcp!Request(d, s, ok) = Lease!Request(d, s, ok)
  BY PartsSame DEF Dhcp!Request, Lease!Request
<1>3. ASSUME NEW d PROVE Dhcp!Check(d) = Lease!Check(d)
  BY PartsSame DEF Dhcp!Check, Lease!Check
<1>4. ASSUME NEW d, NEW ok PROVE Dhcp!Decline(d, ok) = Lease!Decline(d, ok)
  BY PartsSame DEF Dhcp!Decline, Lease!Decline
<1> QED BY <1>1, <1>2, <1>3, <1>4

LEMMA BindSame == \A d : Dhcp!Bind(d) = Lease!Bind(d)
<1> SUFFICES ASSUME NEW d PROVE Dhcp!Bind(d) = Lease!Bind(d)
  OBVIOUS
<1>1. Dhcp!SetState(d, "bound") = Lease!SetState(d, "bound")
  BY PartsSame
<1> QED BY <1>1, ForeverSame DEF Dhcp!Bind, Lease!Bind

LEMMA RestartSame == \A d, ok1, ok2 : Dhcp!Restart(d, ok1, ok2) = Lease!Restart(d, ok1, ok2)
  BY PartsSame, StopSame, RequestsSame
  DEF Dhcp!Restart, Lease!Restart, Dhcp!Release, Lease!Release

LEMMA TimeoutSame == \A d, ok1, ok2 : Dhcp!Timeout(d, ok1, ok2) = Lease!Timeout(d, ok1, ok2)
  BY RequestsSame, BindSame, RestartSame
  DEF Dhcp!Timeout, Lease!Timeout, Dhcp!Select, Lease!Select

LEMMA FineSame == Dhcp!FineTimer => Lease!FineTimer
  BY TimeoutSame DEF Dhcp!FineTimer, Lease!FineTimer, Dhcp!Alloc, Lease!Alloc

LEMMA RenewSame ==
  /\ \A d, ok : Dhcp!RenewTimeout(d, ok) = Lease!RenewTimeout(d, ok)
  /\ \A d, ok : Dhcp!RebindTimeout(d, ok) = Lease!RebindTimeout(d, ok)
  BY RequestsSame DEF Dhcp!RenewTimeout, Lease!RenewTimeout, Dhcp!RebindTimeout,
     Lease!RebindTimeout, Dhcp!Renew, Lease!Renew, Dhcp!Rebind, Lease!Rebind,
     Dhcp!Half, Lease!Half

LEMMA CoarseSame == Dhcp!CoarseTimer => Lease!CoarseTimer
  BY RestartSame, RenewSame DEF Dhcp!CoarseTimer, Lease!CoarseTimer, Dhcp!Alloc, Lease!Alloc,
     Dhcp!LeaseEnds, Lease!LeaseEnds, Dhcp!Minus1, Lease!Minus1

LEMMA RepliesSame == Dhcp!Replies => Lease!Replies
<1>1. Dhcp!RecvOffer => Lease!RecvOffer
  BY RequestsSame DEF Dhcp!RecvOffer, Lease!RecvOffer, Dhcp!Select, Lease!Select,
     Dhcp!Alloc, Lease!Alloc, Dhcp!Answered, Lease!Answered
<1>2. Dhcp!RecvAck => Lease!RecvAck
  BY RequestsSame, BindSame DEF Dhcp!RecvAck, Lease!RecvAck, Dhcp!Answered, Lease!Answered
<1>3. Dhcp!RecvNak => Lease!RecvNak
  BY PartsSame, RequestsSame DEF Dhcp!RecvNak, Lease!RecvNak,
     Dhcp!Alloc, Lease!Alloc, Dhcp!Answered, Lease!Answered
<1>4. Dhcp!ArpConflict => Lease!ArpConflict
  BY RequestsSame DEF Dhcp!ArpConflict, Lease!ArpConflict, Dhcp!Alloc, Lease!Alloc
<1> QED BY <1>1, <1>2, <1>3, <1>4 DEF Dhcp!Replies, Lease!Replies

LEMMA ClientSame == Dhcp!Client => Lease!Client
  BY FineSame, CoarseSame, RepliesSame
  DEF Dhcp!Client, Lease!Client, Dhcp!Timers, Lease!Timers

-----------------------------------------------------------------------------
(* What a step of dhcp_start or dhcp_stop leaves of the struct, and what   *)
(* tcpip_thread makes of it in between.                                    *)

LEMMA LeaseAssumptions ==
  /\ MaxTries \in Nat /\ RequestTries \in Nat
  /\ Leases \subseteq (0..Lease!Forever) \X (0..Lease!Forever) \X (0..Lease!Forever)
  BY TriesAssumption, LeasesAssumption, ForeverSame

Sane(d) ==
  /\ d \in Lease!Struct /\ Lease!BeforeEnd(d)
  /\ d.state # "off" => d.pcb = 1

LEMMA ClientStep ==
  ASSUME Sane(dhcp), Dhcp!Client
  PROVE  /\ Sane(dhcp')
         /\ dhcp.state = "off" =>
              dhcp'.state = "off" /\ dhcp'.pcb = dhcp.pcb /\ addr' = addr
         /\ dhcp.state # "off" =>
              dhcp'.state # "off" /\ (Lease!Armed(dhcp) => Lease!Armed(dhcp'))
         /\ addr' \in {addr, "none", "lease"}
<1>1. Lease!Client
  BY ClientSame
<1>2. CASE dhcp.state = "off"
  <2>1. dhcp' = [dhcp EXCEPT !.timer = 0] /\ addr' = addr
    BY <1>1, <1>2, Lease!ClientOff, LeaseAssumptions DEF Sane
  <2>2. /\ dhcp' \in Lease!Struct /\ dhcp'.state = "off" /\ dhcp'.pcb = dhcp.pcb
        /\ dhcp'.t0 = dhcp.t0 /\ dhcp'.used = dhcp.used
    BY <1>2, <2>1 DEF Sane, Lease!Struct
  <2> QED BY <1>2, <2>1, <2>2 DEF Sane, Lease!BeforeEnd
<1>3. CASE dhcp.state # "off"
  <2>1. Lease!On(dhcp)
    BY <1>3 DEF Sane, Lease!On
  <2>2. /\ Lease!On(dhcp') /\ (Lease!Armed(dhcp) => Lease!Armed(dhcp'))
        /\ addr' \in {addr, "none", "lease"}
    BY <1>1, <2>1, Lease!ClientOn, LeaseAssumptions
  <2> QED BY <1>3, <2>2 DEF Sane, Lease!On
<1> QED BY <1>2, <1>3

(* A step that changes neither the times of the lease nor the PCB. *)
LEMMA KeptFine ==
  ASSUME NEW d, NEW e \in Lease!Struct, Sane(d), Lease!Kept(d, e),
         e.state # "off" => d.state # "off" \/ d.pcb = 1
  PROVE  Sane(e)
  BY DEF Sane, Lease!Kept, Lease!BeforeEnd

LEMMA ForgetFacts ==
  ASSUME NEW d, Sane(d)
  PROVE  /\ Sane(Dhcp!Forget(d))
         /\ Dhcp!Forget(d).state = d.state /\ Dhcp!Forget(d).timer = d.timer
<1> DEFINE e == Lease!Forget(d)
<1>1. /\ e \in Lease!Struct /\ e.state = d.state /\ e.timer = d.timer
      /\ e.pcb = d.pcb /\ e.t0 = 0
  BY Lease!TimeFacts, LeaseAssumptions DEF Lease!Forget, Lease!Struct, Sane
<1>2. Sane(e)
  BY <1>1 DEF Sane, Lease!BeforeEnd
<1> QED BY <1>1, <1>2, PartsSame

LEMMA TellServerFacts ==
  ASSUME NEW d, NEW ok, Sane(d)
  PROVE  /\ Sane(Dhcp!TellServer(d, ok))
         /\ Dhcp!TellServer(d, ok).state = d.state
         /\ Dhcp!TellServer(d, ok).timer = d.timer
<1> DEFINE e == Lease!Send(d, "release", ok)
<1>1. /\ e \in Lease!Struct /\ e.state = d.state /\ e.timer = d.timer
      /\ Lease!Kept(d, e)
  BY Lease!SendFacts, LeaseAssumptions DEF Sane
<1>2. Sane(e)
  BY <1>1, KeptFine
<1>3. Dhcp!TellServer(d, ok) \in {d, e}
  BY PartsSame DEF Dhcp!TellServer
<1> QED BY <1>1, <1>2, <1>3

LEMMA SetStateFacts ==
  ASSUME NEW d, NEW s \in Lease!State, Sane(d), d.pcb = 1 \/ s = "off"
  PROVE  Sane(Dhcp!SetState(d, s)) /\ Dhcp!SetState(d, s).state = s
<1> DEFINE e == Lease!SetState(d, s)
<1>1. e \in Lease!Struct /\ e.state = s /\ Lease!Kept(d, e)
  BY Lease!SetStateFacts, LeaseAssumptions DEF Sane
<1>2. Sane(e)
  BY <1>1, KeptFine
<1> QED BY <1>1, <1>2, PartsSame

LEMMA PcbFacts ==
  ASSUME NEW d, Sane(d)
  PROVE  /\ Sane(Dhcp!TakePcb(d)) /\ Dhcp!TakePcb(d).state = d.state
         /\ Dhcp!TakePcb(d).pcb = 1
         /\ d.state = "off" =>
              Sane(Dhcp!FreePcb(d)) /\ Dhcp!FreePcb(d).state = "off"
  BY DEF Sane, Dhcp!TakePcb, Dhcp!FreePcb, Lease!Struct, Lease!BeforeEnd

LEMMA ClearFacts ==
  ASSUME NEW d, Sane(d)
  PROVE  Sane(Dhcp!Clear(d)) /\ Dhcp!Clear(d).state = "off"
<1> DEFINE e == Lease!Clear(d)
<1>1. e \in Lease!Struct /\ e.state = "off" /\ e.t0 = 0
  BY Lease!ClearedFacts, LeaseAssumptions DEF Lease!Clear, Lease!Cleared, Lease!Struct, Sane
<1>2. Sane(e)
  BY <1>1 DEF Sane, Lease!BeforeEnd
<1> QED BY <1>1, <1>2, PartsSame

LEMMA OfferedFacts ==
  ASSUME NEW d, Sane(d)
  PROVE  /\ Sane([d EXCEPT !.offered = "none"])
         /\ [d EXCEPT !.offered = "none"].pcb = d.pcb
  BY DEF Sane, Lease!Struct, Lease!BeforeEnd

LEMMA SendFacts ==
  ASSUME NEW d, NEW ok, Sane(d)
  PROVE  /\ Sane(Dhcp!Send(d, "discover", ok))
         /\ Dhcp!Send(d, "discover", ok).state = d.state
<1> DEFINE e == Lease!Send(d, "discover", ok)
<1>1. e \in Lease!Struct /\ e.state = d.state /\ Lease!Kept(d, e)
  BY Lease!SendFacts, LeaseAssumptions DEF Sane
<1>2. Sane(e)
  BY <1>1, KeptFine
<1> QED BY <1>1, <1>2, PartsSame

LEMMA TriedFacts ==
  ASSUME NEW d, Sane(d)
  PROVE  /\ Sane(Dhcp!Tried(d)) /\ Dhcp!Tried(d).state = d.state
         /\ Dhcp!Tried(d).timer = 1
<1> DEFINE e == Lease!Tried(d)
<1>1. e \in Lease!Struct /\ e.state = d.state /\ e.timer = 1 /\ Lease!Kept(d, e)
  BY Lease!TriedFacts, LeaseAssumptions DEF Sane
<1>2. Sane(e)
  BY <1>1, KeptFine
<1> QED BY <1>1, <1>2, PartsSame

-----------------------------------------------------------------------------
(* The inductive invariant: each control of LinkThr has its client.  It is  *)
(* off before dhcp_start and after dhcp_stop, and without lease and timeout *)
(* only between dhcp_set_state and the first try.                           *)

Running == dhcp.state # "off"
Starting == {"start", "pcb", "discover", "send", "tried"}
Stopping == {"stop", "release", "noaddr", "off", "free"}
OffControls == {"boot", "free", "link_down", "error", "static", "start", "pcb", "discover"}
Controls == {"sleep", "decide", "tries"} \cup OffControls \cup Starting \cup Stopping
Statuses == LinkUpStatus \cup {"NOT_INITIALIZED", "LINK_DOWN", "LINK_DOWN_INIT"}

TypeInv ==
  /\ addr \in {"none", "lease", "static"} /\ faults \subseteq Faults
  /\ phy \in {0, 1} /\ reg \in {0, 1} /\ flags \subseteq {"up", "link_up"}
  /\ status \in Statuses /\ lpc \in Controls
  /\ after \in {"sleep", "link_down", "error", "static"}

ClientInv ==
  /\ Sane(dhcp)
  /\ Running /\ lpc \notin {"send", "tried"} => Lease!Armed(dhcp)
  /\ lpc \in OffControls => ~Running
  /\ lpc = "discover" => dhcp.pcb = 1
  /\ lpc \in {"send", "tried"} => Running

LinkInv ==
  /\ Up = {} => lpc \in {"boot", "sleep", "decide"} /\ ~Running /\ status \notin LinkUpStatus
  /\ status \notin LinkUpStatus => lpc \in {"boot", "sleep", "decide"} \cup Starting
  /\ status \notin LinkUpStatus /\ lpc \in {"sleep", "decide"} => Up = {}
  /\ lpc = "boot" => Up = {}
  /\ lpc \in Stopping => after \in {"link_down", "error", "static"}

AddrInv ==
  /\ lpc \in {"sleep", "decide", "tries"} /\ status = "LINK_UP_WAITING_DHCP" => Running
  /\ lpc \in {"sleep", "decide"} /\ status = "LINK_UP_IP_ACQUIRED"
       => Running \/ addr # "none"
  /\ lpc = "tries" => status = "LINK_UP_WAITING_DHCP"

IInv == TypeInv /\ ClientInv /\ LinkInv /\ AddrInv

LEMMA InitIInv == Init => IInv
<1> SUFFICES ASSUME Init PROVE IInv
  OBVIOUS
<1>1. dhcp = Lease!Cleared /\ addr = "none" /\ faults \subseteq Faults
  BY PartsSame DEF Init, Dhcp!Init
<1>2. dhcp \in Lease!Struct /\ dhcp.state = "off" /\ dhcp.t0 = 0
  BY <1>1, Lease!ClearedFacts, LeaseAssumptions DEF Lease!Cleared
<1>3. Sane(dhcp)
  BY <1>2 DEF Sane, Lease!BeforeEnd
<1> QED BY <1>1, <1>2, <1>3
        DEF Init, IInv, TypeInv, ClientInv, LinkInv, AddrInv, Running, Up, Statuses, Controls,
            OffControls, Starting, Stopping, LinkUpStatus

(* The thread's own steps, which leave the client alone. *)
LEMMA ControlStep ==
  ASSUME IInv, Boot \/ Poll \/ Decide \/ Act
  PROVE  IInv'
<1> USE DEF IInv, TypeInv, ClientInv, LinkInv, AddrInv, Running, Up, Statuses, Controls,
            OffControls, Starting, Stopping, LinkUpStatus, Goto, client, net
<1>1. CASE Boot
  <2>1. CASE lpc' = "start" /\ flags' = {"up", "link_up"} /\ status' = status
    <3>1. "link_up" \in Up'
      BY <2>1
    <3> QED BY <1>1, <2>1, <3>1 DEF Boot
  <2>2. CASE lpc' = "sleep" /\ flags' = flags /\ status' = "LINK_DOWN_INIT"
    BY <1>1, <2>2 DEF Boot
  <2> QED BY <1>1, <2>1, <2>2 DEF Boot
<1>2. CASE Poll
  BY <1>2 DEF Poll
<1>3. CASE SeeLinkLoss
  BY <1>3 DEF SeeLinkLoss, Call
<1>4. CASE SeeLink
  BY <1>4 DEF SeeLink
<1>5. CASE SeeNoChange
  BY <1>5 DEF SeeNoChange
<1>6. CASE SeeSupplied
  BY <1>6 DEF SeeSupplied
<1>7. CASE SeeDhcpError
  BY <1>7 DEF SeeDhcpError, Call
<1>8. CASE SeeTries
  BY <1>8 DEF SeeTries, Call
<1>9. CASE LinkDown
  BY <1>9 DEF LinkDown
<1>10. CASE DhcpError
  BY <1>10 DEF DhcpError
<1>11. CASE StaticAddress
  BY <1>11 DEF StaticAddress
<1> QED BY <1>1, <1>2, <1>3, <1>4, <1>5, <1>6, <1>7, <1>8, <1>9, <1>10, <1>11
        DEF Decide, Act

LEMMA StopSteps ==
  ASSUME IInv, DhcpStop
  PROVE  IInv'
<1> USE DEF IInv, TypeInv, ClientInv, LinkInv, AddrInv, Running, Up, Statuses, Controls,
            OffControls, Starting, Stopping, LinkUpStatus, Goto, net
<1>1. CASE StopForget
  BY <1>1, ForgetFacts DEF StopForget, Lease!Armed, Lease!Supplied
<1>2. CASE StopRelease
  BY <1>2, TellServerFacts DEF StopRelease, Lease!Armed, Lease!Supplied
<1>3. CASE StopNoAddr
  BY <1>3 DEF StopNoAddr
<1>4. CASE StopOff
  BY <1>4, SetStateFacts DEF StopOff, Dhcp!SwitchOff, Lease!State
<1>5. CASE StopFree
  BY <1>5, PcbFacts DEF StopFree
<1> QED BY <1>1, <1>2, <1>3, <1>4, <1>5 DEF DhcpStop

LEMMA StartSteps ==
  ASSUME IInv, DhcpStart
  PROVE  IInv'
<1> USE DEF IInv, TypeInv, ClientInv, LinkInv, AddrInv, Running, Up, Statuses, Controls,
            OffControls, Starting, Stopping, LinkUpStatus, Goto, net
<1>1. CASE StartClear
  BY <1>1, ClearFacts DEF StartClear
<1>2. CASE StartPcb
  BY <1>2, PcbFacts DEF StartPcb
<1>3. CASE StartDiscover
  <2> DEFINE d == [dhcp EXCEPT !.offered = "none"]
  <2>1. Sane(d) /\ d.pcb = 1
    BY <1>3, OfferedFacts DEF StartDiscover
  <2> HIDE DEF d
  <2>2. Sane(Dhcp!SetState(d, "selecting")) /\ Dhcp!SetState(d, "selecting").state # "off"
    BY <2>1, SetStateFacts DEF Lease!State
  <2>3. dhcp' = Dhcp!SetState(d, "selecting")
    BY <1>3 DEF StartDiscover, d
  <2> QED BY <1>3, <2>2, <2>3 DEF StartDiscover
<1>4. CASE StartSend
  <2>1. PICK ok : dhcp' = Dhcp!Send(dhcp, "discover", ok)
    BY <1>4 DEF StartSend
  <2>2. Sane(dhcp') /\ dhcp'.state = dhcp.state
    BY <2>1, SendFacts
  <2> QED BY <1>4, <2>2 DEF StartSend
<1>5. CASE StartTried
  BY <1>5, TriedFacts DEF StartTried, Lease!Armed
<1> QED BY <1>1, <1>2, <1>3, <1>4, <1>5 DEF DhcpStart

LEMMA TcpipStep ==
  ASSUME IInv, Tcpip
  PROVE  IInv'
<1>1. Sane(dhcp) /\ Dhcp!Client /\ UNCHANGED <<phy, flags, status, lpc, reg, after>>
  BY DEF IInv, ClientInv, Tcpip, rest, thread
<1>2. faults' = faults
  BY <1>1 DEF Dhcp!Client, Dhcp!Timers, Dhcp!Replies, Dhcp!FineTimer, Dhcp!CoarseTimer,
     Dhcp!RecvOffer, Dhcp!RecvAck, Dhcp!RecvNak, Dhcp!ArpConflict
<1>3. TypeInv'
  BY <1>1, <1>2, ClientStep DEF IInv, TypeInv
<1>4. ClientInv' /\ LinkInv' /\ AddrInv'
  BY <1>1, ClientStep
  DEF IInv, ClientInv, LinkInv, AddrInv, Running, Up, OffControls
<1> QED BY <1>3, <1>4 DEF IInv

LEMMA StepIInv == IInv /\ [Next]_vars => IInv'
<1> SUFFICES ASSUME IInv, [Next]_vars PROVE IInv'
  OBVIOUS
<1>1. CASE LinkThr
  BY <1>1, ControlStep, StopSteps, StartSteps DEF LinkThr
<1>2. CASE Tcpip
  BY <1>2, TcpipStep
<1>3. CASE Plug
  <2>1. phy' \in {0, 1}
    BY <1>3 DEF Plug, IInv, TypeInv
  <2> QED BY <1>3, <2>1 DEF Plug, client, thread,
          IInv, TypeInv, ClientInv, LinkInv, AddrInv, Running, Up
<1>4. CASE UNCHANGED vars
  BY <1>4 DEF vars, client, net, thread,
     IInv, TypeInv, ClientInv, LinkInv, AddrInv, Running, Up
<1> QED BY <1>1, <1>2, <1>3, <1>4 DEF Next

LEMMA Inductive == Spec => []IInv
  BY InitIInv, StepIInv, PTL DEF Spec

-----------------------------------------------------------------------------
(* Every variable keeps its type, wherever tcpip_thread interrupts LinkThr. *)
THEOREM TypeCorrect == Spec => []TypeOK
<1>1. IInv => TypeOK
  <2> SUFFICES ASSUME IInv PROVE TypeOK
    OBVIOUS
  <2>1. Dhcp!Time = Lease!Time /\ Dhcp!State = Lease!State
    BY ForeverSame DEF Dhcp!Time, Lease!Time, Dhcp!State, Lease!State
  <2>2. Dhcp!DhcpType
    BY <2>1 DEF IInv, ClientInv, Sane, Dhcp!DhcpType, Lease!Struct
  <2> QED BY <2>2 DEF IInv, TypeInv, TypeOK, Statuses, Controls, OffControls, Starting, Stopping
<1> QED BY <1>1, Inductive, PTL

(* The DHCP client is off as long as the interface has no link: netif_set_link_up *)
(* finds nothing to reboot.                                                       *)
THEOREM OffWithoutLink == Spec => []OffWhileLinkDown
<1>1. IInv => OffWhileLinkDown
  BY DEF IInv, LinkInv, Running, OffWhileLinkDown
<1> QED BY <1>1, Inductive, PTL

(* While LinkThr believes in a link and sleeps, the interface has an address or the *)
(* client is at work on one, although dhcp_start and dhcp_stop take no lock.        *)
THEOREM NeverIdle == Spec => []AddressOrTrying
<1>1. IInv => AddressOrTrying
  BY PartsSame DEF IInv, ClientInv, AddrInv, Running, Lease!Armed, AddressOrTrying
<1> QED BY <1>1, Inductive, PTL
=============================================================================
