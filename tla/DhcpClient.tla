----------------------------- MODULE DhcpClient ------------------------------
(***************************************************************************)
(* The DHCP client of lwIP as the firmware uses it: started when the link  *)
(* is up, stopped before the link goes down.  Then INIT and REBOOTING are  *)
(* never entered: LinkMonitor checks it (OffWhileLinkDown).                *)
(*                                                                         *)
(* Every handler is a function of the dhcp struct, because handlers call   *)
(* each other; tcpip_thread runs each one under the core lock.             *)
(*                                                                         *)
(* Messages: a reply counts when its transaction id is that of the struct, *)
(* so that only the kinds of request sent under the current id matter      *)
(* ("asked"); replies to them may be lost, repeated and arbitrarily late.  *)
(* The length of a request timeout is abstracted: it expires some time.    *)
(***************************************************************************)
EXTENDS Integers

CONSTANTS
  MaxTries,      \* where dhcp->tries saturates: 255
  RequestTries,  \* requests after an offer before it starts again: 5
  Leases,        \* lease, renewal and rebinding times that an ACK leaves, in minutes
  Faults         \* what may go wrong: "nak", "conflict", "alloc", "silent"

Forever == 65536   \* 0xffffffff seconds; finite times are cut at 0xffff minutes

ASSUME TriesAssumption == MaxTries \in Nat /\ RequestTries \in Nat
ASSUME LeasesAssumption == Leases \subseteq (0..Forever) \X (0..Forever) \X (0..Forever)

VARIABLES
  dhcp,   \* struct dhcp of the interface
  addr,   \* netif->ip_addr: "none", "lease" or (LinkMonitor) "static"
  faults  \* environment: what goes wrong in this behaviour, now and then

State == {"off", "selecting", "requesting", "checking", "bound", "renewing",
          "rebinding", "backing_off"}

\* The struct after memset.
Cleared ==
  [state |-> "off", tries |-> 0, timer |-> 0, pcb |-> 0, xid |-> "none", asked |-> {},
   offered |-> "none", lease |-> <<0, 0, 0>>,
   t0 |-> 0, t1 |-> 0, t2 |-> 0, rebind |-> 0, used |-> 0]

Supplied(d) == d.state \in {"bound", "renewing", "rebinding"}

\* Whether pbuf_alloc in dhcp_create_msg succeeds.
Alloc == IF "alloc" \in faults THEN {0, 1} ELSE {1}

-----------------------------------------------------------------------------
(* The struct.                                                             *)

\* A new state starts with no try and no timeout.
SetState(d, s) ==
  IF d.state = s THEN d ELSE [d EXCEPT !.state = s, !.tries = 0, !.timer = 0]

\* Mutant: the request timeout is not set.
TriedUnarmed(d) == [d EXCEPT !.tries = IF @ < MaxTries THEN @ + 1 ELSE @]

\* Mutant: the counter does not saturate.
TriedUnbounded(d) == [d EXCEPT !.tries = @ + 1, !.timer = 1]

\* A request was made, or could not be: count it and set its timeout.
Tried(d) == [d EXCEPT !.tries = IF @ < MaxTries THEN @ + 1 ELSE @, !.timer = 1]

\* dhcp_create_msg: the first message of a state takes a new transaction id,
\* except a REQUEST, which keeps that of the OFFER.
Send(d, kind, ok) ==
  IF ok = 0 THEN d
  ELSE IF kind = "request" THEN [d EXCEPT !.asked = @ \cup {kind}]
  ELSE [d EXCEPT !.xid = "current",
                 !.asked = (IF d.tries = 0 THEN {} ELSE @) \cup ({kind} \cap {"discover"})]

Discover(d, ok) ==
  Tried(Send(SetState([d EXCEPT !.offered = "none"], "selecting"), "discover", ok))
Request(d, s, ok) == Tried(Send(SetState(d, s), "request", ok))
Select(d, ok) == Request(d, "requesting", ok)
Renew(d, ok) == Request(d, "renewing", ok)
Rebind(d, ok) == Request(d, "rebinding", ok)
Check(d) == Tried(SetState(d, "checking"))
Decline(d, ok) == Tried(Send(SetState(d, "backing_off"), "decline", ok))

\* Mutant: the time used of the lease is not reset.
BindKeepsUsed(d) ==
  LET time(i, old) == IF d.lease[i] = Forever THEN old
                      ELSE IF d.lease[i] = 0 THEN 1 ELSE d.lease[i]
  IN [SetState(d, "bound") EXCEPT !.t0 = time(1, @), !.t1 = time(2, @),
                                  !.t2 = time(3, @), !.rebind = time(3, @)]

\* An infinite time leaves the timer as it was.
Bind(d) ==
  LET time(i, old) == IF d.lease[i] = Forever THEN old
                      ELSE IF d.lease[i] = 0 THEN 1 ELSE d.lease[i]
  IN [SetState(d, "bound") EXCEPT !.used = 0, !.t0 = time(1, @), !.t1 = time(2, @),
                                  !.t2 = time(3, @), !.rebind = time(3, @)]

\* dhcp_release_and_stop in its parts: forget the lease, tell the server, switch off.
Forget(d) ==
  [d EXCEPT !.offered = "none", !.lease = <<0, 0, 0>>,
            !.t0 = 0, !.t1 = 0, !.t2 = 0, !.used = 0]
TellServer(d, ok) == IF Supplied(d) THEN Send(d, "release", ok) ELSE d
SwitchOff(d) == SetState(d, "off")
FreePcb(d) == [d EXCEPT !.pcb = 0]
Release(d, ok) ==
  IF d.state = "off" THEN d ELSE FreePcb(SwitchOff(TellServer(Forget(d), ok)))

\* dhcp_start in its parts: memset, allocate the PCB, discover.
Clear(d) == [Cleared EXCEPT !.asked = d.asked]
TakePcb(d) == [d EXCEPT !.pcb = 1]
Restart(d, okRelease, ok) == Discover(TakePcb(Clear(Release(d, okRelease))), ok)

-----------------------------------------------------------------------------
(* Timers.                                                                 *)

\* dhcp_timeout has nothing to do in the states of a lease and when off.
Timeout(d, okRelease, ok) ==
  CASE d.state \in {"backing_off", "selecting"} -> Discover(d, ok)
    [] d.state = "requesting" /\ d.tries <= RequestTries -> Select(d, ok)
    [] d.state = "requesting" /\ d.tries > RequestTries -> Restart(d, okRelease, ok)
    [] d.state = "checking" /\ d.tries <= 1 -> Check(d)
    [] d.state = "checking" /\ d.tries > 1 -> Bind(d)
    [] OTHER -> d

\* Mutant: the lease is bound but the address is not set.
FineTimerNoAddr ==
  /\ dhcp.timer = 1
  /\ \E okRelease, ok \in Alloc :
       dhcp' = Timeout([dhcp EXCEPT !.timer = 0], okRelease, ok)
  /\ UNCHANGED <<addr, faults>>

FineTimer ==
  /\ dhcp.timer = 1
  /\ \E okRelease, ok \in Alloc :
       dhcp' = Timeout([dhcp EXCEPT !.timer = 0], okRelease, ok)
  /\ addr' = CASE dhcp.state = "requesting" /\ dhcp.tries > RequestTries -> "none"
               [] dhcp.state = "checking" /\ dhcp.tries > 1 -> dhcp.offered
               [] OTHER -> addr
  /\ UNCHANGED faults

\* Half of what is left, when that is at least a minute.
Half(left, old) == IF left \div 2 >= 1 THEN left \div 2 ELSE old

RenewTimeout(d, ok) ==
  IF d.state \in {"requesting", "bound", "renewing"}
    THEN [Renew(d, ok) EXCEPT !.t1 = Half(d.rebind - d.used, @)] ELSE d
RebindTimeout(d, ok) ==
  IF d.state \in {"requesting", "bound", "renewing", "rebinding"}
    THEN [Rebind(d, ok) EXCEPT !.t2 = Half(d.t0 - d.used, @)] ELSE d

LeaseEnds(d) == d.t0 # 0 /\ d.used + 1 = d.t0

Minus1(t) == IF t = 0 THEN 0 ELSE t - 1

\* At most one of the three timers fires in a minute; t1 stands still when t2 fires.
CoarseTimer ==
  LET d == [dhcp EXCEPT !.used = IF dhcp.t0 # 0 THEN @ + 1 ELSE @]
      e == [d EXCEPT !.t2 = Minus1(@)]
      f == [e EXCEPT !.t1 = Minus1(@)]
  IN /\ dhcp.state # "off"
     /\ \E okRelease, ok \in Alloc :
          dhcp' = IF LeaseEnds(dhcp) THEN Restart(d, okRelease, ok)
                  ELSE IF d.t2 = 1 THEN RebindTimeout(e, ok)
                  ELSE IF d.t1 = 1 THEN RenewTimeout(f, ok) ELSE f
     /\ addr' = IF LeaseEnds(dhcp) THEN "none" ELSE addr
     /\ UNCHANGED faults

-----------------------------------------------------------------------------
(* Replies.                                                                *)

Answered(kind) ==
  "silent" \notin faults /\ dhcp.pcb = 1 /\ dhcp.xid = "current" /\ kind \in dhcp.asked

\* dhcp_handle_offer stops the timer; dhcp_select sets it again.
RecvOffer ==
  /\ Answered("discover") /\ dhcp.state = "selecting"
  /\ \E ok \in Alloc : dhcp' = Select([dhcp EXCEPT !.timer = 0, !.offered = "lease"], ok)
  /\ UNCHANGED <<addr, faults>>

\* Mutant: the acknowledged address is bound without asking for it by ARP.
RecvAckUnchecked ==
  /\ Answered("request") /\ UNCHANGED faults
  /\ \E l \in Leases \cup {dhcp.lease} :
       LET d == [dhcp EXCEPT !.lease = l, !.offered = "lease"]
       IN /\ dhcp.state \in {"requesting", "renewing", "rebinding"}
          /\ dhcp' = Bind(d) /\ addr' = "lease"

\* A lease time that the ACK does not give is that of the struct.
RecvAck ==
  /\ Answered("request") /\ UNCHANGED faults
  /\ \E l \in Leases \cup {dhcp.lease} :
       LET d == [dhcp EXCEPT !.lease = l, !.offered = "lease"]
       IN \/ /\ dhcp.state = "requesting"
             /\ dhcp' = Check(d) /\ UNCHANGED addr
          \/ /\ dhcp.state \in {"renewing", "rebinding"}
             /\ dhcp' = Bind(d) /\ addr' = "lease"

RecvNak ==
  /\ Answered("request") /\ "nak" \in faults
  /\ dhcp.state \in {"requesting", "renewing", "rebinding"}
  /\ \E ok \in Alloc : dhcp' = Discover(SetState(dhcp, "backing_off"), ok)
  /\ addr' = "none" /\ UNCHANGED faults

\* dhcp_arp_reply: another host has the address that was offered.
ArpConflict ==
  /\ "conflict" \in faults
  /\ dhcp.state = "checking"
  /\ \E ok \in Alloc : dhcp' = Decline(dhcp, ok)
  /\ UNCHANGED <<addr, faults>>

-----------------------------------------------------------------------------
(* The client by itself: it is started and stopped under the core lock.    *)

Start ==
  /\ dhcp.state = "off"
  /\ \E ok \in Alloc : dhcp' = Discover(TakePcb(Clear(dhcp)), ok)
  /\ UNCHANGED <<addr, faults>>

Stop ==
  /\ dhcp.state # "off"
  /\ \E ok \in Alloc : dhcp' = Release(dhcp, ok)
  /\ addr' = "none" /\ UNCHANGED faults

Init == dhcp = Cleared /\ addr = "none" /\ faults \in SUBSET Faults

Timers == FineTimer \/ CoarseTimer
Replies == RecvOffer \/ RecvAck \/ RecvNak \/ ArpConflict
Client == Timers \/ Replies

Next == Client \/ Start \/ Stop

vars == <<dhcp, addr, faults>>

Spec == Init /\ [][Next]_vars

-----------------------------------------------------------------------------
Time == 0..Forever

DhcpType ==
  /\ dhcp.state \in State /\ dhcp.tries \in 0..MaxTries /\ dhcp.timer \in {0, 1}
  /\ dhcp.pcb \in {0, 1} /\ dhcp.xid \in {"none", "current"}
  /\ dhcp.asked \subseteq {"discover", "request"} /\ dhcp.offered \in {"none", "lease"}
  /\ dhcp.lease \in Time \X Time \X Time
  /\ dhcp.t0 \in Time /\ dhcp.t1 \in Time /\ dhcp.t2 \in Time
  /\ dhcp.rebind \in Time /\ dhcp.used \in Time

\* The struct and the address keep their types; a client that is off holds no PCB.
TypeOK ==
  /\ DhcpType /\ addr \in {"none", "lease", "static"} /\ faults \subseteq Faults
  /\ (dhcp.state = "off" <=> dhcp.pcb = 0)

\* A leased address is on the interface only in the states of a lease and before the
\* lease ends, however the server's NAKs, the timers and repeated ACKs follow each other.
LeaseHeld ==
  addr = "lease" => Supplied(dhcp) /\ (dhcp.t0 = 0 \/ dhcp.used < dhcp.t0)

\* In every other state but "off" a request timeout is pending: the negotiation never
\* comes to a halt because a message was lost or could not be allocated.
NeverStuck == dhcp.state # "off" /\ ~Supplied(dhcp) => dhcp.timer = 1

\* dhcp_supplied_address tells whether the interface has a leased address.
SuppliedMeansAddr == Supplied(dhcp) => addr = "lease"

\* It does as long as no server sends a NAK, whatever else goes wrong.
SuppliedUnlessNak == "nak" \notin faults => SuppliedMeansAddr

\* As long as no server sends a NAK, an address is taken without a fresh ARP check only
\* to renew the lease of it.
TakenAfterCheck ==
  [][addr = "none" /\ addr' = "lease" /\ "nak" \notin faults
       => dhcp.state = "checking" /\ dhcp.tries > 1]_vars
=============================================================================
