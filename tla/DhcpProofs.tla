----------------------------- MODULE DhcpProofs ------------------------------
(***************************************************************************)
(* Proofs about DhcpClient, for every limit of tries, every set of leases  *)
(* and every fault.  The handlers are functions of the struct: a lemma for *)
(* each says what it leaves of state, timeout, PCB and lease; the actions  *)
(* then follow from the lemmas.                                            *)
(***************************************************************************)
EXTENDS DhcpClient, TLAPS

Struct ==
  [state : State, tries : 0..MaxTries, timer : {0, 1}, pcb : {0, 1},
   xid : {"none", "current"}, asked : SUBSET {"discover", "request"},
   offered : {"none", "lease"}, lease : Time \X Time \X Time,
   t0 : Time, t1 : Time, t2 : Time, rebind : Time, used : Time]

\* What no message and no change of state touches.
Kept(d, e) == e.t0 = d.t0 /\ e.t1 = d.t1 /\ e.t2 = d.t2 /\ e.used = d.used
              /\ e.rebind = d.rebind /\ e.pcb = d.pcb /\ e.lease = d.lease

LEMMA TimeFacts == Time \subseteq Int /\ 0 \in Time /\ 1 \in Time /\ Forever \in Time
  BY DEF Time, Forever

LEMMA ClearedFacts == Cleared \in Struct
  BY TimeFacts, TriesAssumption DEF Cleared, Struct, State

LEMMA SetStateFacts ==
  ASSUME NEW d \in Struct, NEW s \in State
  PROVE  /\ SetState(d, s) \in Struct /\ SetState(d, s).state = s
         /\ SetState(d, s).offered = d.offered
         /\ Kept(d, SetState(d, s))
<1>1. CASE d.state = s
  BY <1>1 DEF SetState, Kept
<1>2. CASE d.state # s
  <2>1. SetState(d, s) = [d EXCEPT !.state = s, !.tries = 0, !.timer = 0]
    BY <1>2 DEF SetState
  <2>2. 0 \in 0..MaxTries
    BY TriesAssumption
  <2>3. SetState(d, s) \in Struct
    BY <2>1, <2>2 DEF Struct
  <2>4. SetState(d, s).state = s /\ SetState(d, s).offered = d.offered
    BY <2>1 DEF Struct
  <2>5. Kept(d, SetState(d, s))
    BY <2>1 DEF Struct, Kept
  <2> QED BY <2>3, <2>4, <2>5
<1> QED BY <1>1, <1>2

LEMMA TriedFacts ==
  ASSUME NEW d \in Struct
  PROVE  /\ Tried(d) \in Struct /\ Tried(d).timer = 1
         /\ Tried(d).state = d.state /\ Tried(d).offered = d.offered
         /\ Kept(d, Tried(d))
<1>1. (IF d.tries < MaxTries THEN d.tries + 1 ELSE d.tries) \in 0..MaxTries
  BY TriesAssumption DEF Struct
<1> QED BY <1>1 DEF Tried, Struct, Kept

LEMMA SendFacts ==
  ASSUME NEW d \in Struct, NEW kind \in {"discover", "request", "decline", "release"},
         NEW ok
  PROVE  /\ Send(d, kind, ok) \in Struct
         /\ Send(d, kind, ok).state = d.state /\ Send(d, kind, ok).timer = d.timer
         /\ Send(d, kind, ok).offered = d.offered
         /\ Kept(d, Send(d, kind, ok))
<1>1. CASE ok = 0
  BY <1>1 DEF Send, Kept
<1>2. CASE ok # 0 /\ kind = "request"
  BY <1>2 DEF Send, Kept, Struct
<1>3. CASE ok # 0 /\ kind # "request"
  <2> DEFINE a == (IF d.tries = 0 THEN {} ELSE d.asked) \cup ({kind} \cap {"discover"})
  <2>1. a \in SUBSET {"discover", "request"}
    BY DEF Struct
  <2>2. Send(d, kind, ok) = [d EXCEPT !.xid = "current", !.asked = a]
    BY <1>3 DEF Send
  <2> HIDE DEF a
  <2>3. Send(d, kind, ok) \in Struct
    BY <2>1, <2>2 DEF Struct
  <2>4. /\ Send(d, kind, ok).state = d.state /\ Send(d, kind, ok).timer = d.timer
        /\ Send(d, kind, ok).offered = d.offered
    BY <2>2 DEF Struct
  <2>5. Kept(d, Send(d, kind, ok))
    BY <2>2 DEF Kept, Struct
  <2> QED BY <2>3, <2>4, <2>5
<1> QED BY <1>1, <1>2, <1>3

LEMMA RequestFacts ==
  ASSUME NEW d \in Struct, NEW s \in State, NEW ok
  PROVE  /\ Request(d, s, ok) \in Struct /\ Request(d, s, ok).timer = 1
         /\ Request(d, s, ok).state = s /\ Request(d, s, ok).offered = d.offered
         /\ Kept(d, Request(d, s, ok))
<1> DEFINE e == SetState(d, s)
           f == Send(e, "request", ok)
<1>1. e \in Struct /\ e.state = s /\ e.offered = d.offered /\ Kept(d, e)
  BY SetStateFacts
<1> HIDE DEF e
<1>2. f \in Struct /\ f.state = s /\ f.offered = d.offered /\ Kept(e, f)
  BY <1>1, SendFacts
<1> HIDE DEF f
<1>3. Tried(f) \in Struct /\ Tried(f).timer = 1 /\ Tried(f).state = s
      /\ Tried(f).offered = d.offered /\ Kept(f, Tried(f))
  BY <1>2, TriedFacts
<1>4. Kept(d, Tried(f))
  BY <1>1, <1>2, <1>3 DEF Kept
<1> QED BY <1>3, <1>4 DEF Request, e, f

LEMMA DiscoverFacts ==
  ASSUME NEW d \in Struct, NEW ok
  PROVE  /\ Discover(d, ok) \in Struct /\ Discover(d, ok).timer = 1
         /\ Discover(d, ok).state = "selecting" /\ Kept(d, Discover(d, ok))
<1> DEFINE c == [d EXCEPT !.offered = "none"]
           e == SetState(c, "selecting")
           f == Send(e, "discover", ok)
<1>0. c \in Struct /\ Kept(d, c)
  BY DEF Struct, Kept
<1> HIDE DEF c
<1>1. e \in Struct /\ e.state = "selecting" /\ Kept(c, e)
  BY <1>0, SetStateFacts DEF State
<1> HIDE DEF e
<1>2. f \in Struct /\ f.state = "selecting" /\ Kept(e, f)
  BY <1>1, SendFacts
<1> HIDE DEF f
<1>3. Tried(f) \in Struct /\ Tried(f).timer = 1 /\ Tried(f).state = "selecting"
      /\ Kept(f, Tried(f))
  BY <1>2, TriedFacts
<1>4. Kept(d, Tried(f))
  BY <1>0, <1>1, <1>2, <1>3 DEF Kept
<1> QED BY <1>3, <1>4 DEF Discover, c, e, f

LEMMA CheckFacts ==
  ASSUME NEW d \in Struct
  PROVE  /\ Check(d) \in Struct /\ Check(d).timer = 1
         /\ Check(d).state = "checking" /\ Check(d).offered = d.offered
         /\ Kept(d, Check(d))
<1> DEFINE e == SetState(d, "checking")
<1>1. e \in Struct /\ e.state = "checking" /\ e.offered = d.offered /\ Kept(d, e)
  BY SetStateFacts DEF State
<1> HIDE DEF e
<1>2. Tried(e) \in Struct /\ Tried(e).timer = 1 /\ Tried(e).state = "checking"
      /\ Tried(e).offered = e.offered /\ Kept(e, Tried(e))
  BY <1>1, TriedFacts
<1>3. Kept(d, Tried(e))
  BY <1>1, <1>2 DEF Kept
<1> QED BY <1>1, <1>2, <1>3 DEF Check, e

LEMMA DeclineFacts ==
  ASSUME NEW d \in Struct, NEW ok
  PROVE  /\ Decline(d, ok) \in Struct /\ Decline(d, ok).timer = 1
         /\ Decline(d, ok).state = "backing_off" /\ Kept(d, Decline(d, ok))
<1> DEFINE e == SetState(d, "backing_off")
           f == Send(e, "decline", ok)
<1>1. e \in Struct /\ e.state = "backing_off" /\ Kept(d, e)
  BY SetStateFacts DEF State
<1> HIDE DEF e
<1>2. f \in Struct /\ f.state = "backing_off" /\ Kept(e, f)
  BY <1>1, SendFacts
<1> HIDE DEF f
<1>3. Tried(f) \in Struct /\ Tried(f).timer = 1 /\ Tried(f).state = "backing_off"
      /\ Kept(f, Tried(f))
  BY <1>2, TriedFacts
<1>4. Kept(d, Tried(f))
  BY <1>1, <1>2, <1>3 DEF Kept
<1> QED BY <1>3, <1>4 DEF Decline, e, f

(* A bound lease has all its time before it, or no end. *)
LEMMA BindFacts ==
  ASSUME NEW d \in Struct
  PROVE  /\ Bind(d) \in Struct /\ Bind(d).state = "bound" /\ Bind(d).pcb = d.pcb
         /\ Bind(d).used = 0
<1> DEFINE time(i, old) == IF d.lease[i] = Forever THEN old
                           ELSE IF d.lease[i] = 0 THEN 1 ELSE d.lease[i]
           e == SetState(d, "bound")
<1>1. e \in Struct /\ e.state = "bound" /\ e.pcb = d.pcb
  BY SetStateFacts DEF State, Kept
<1> HIDE DEF e
<1>2. \A i \in 1..3, old \in Time : time(i, old) \in Time
  BY TimeFacts DEF Struct
<1>3. time(1, e.t0) \in Time /\ time(2, e.t1) \in Time /\ time(3, e.t2) \in Time
      /\ time(3, e.rebind) \in Time
  BY <1>1, <1>2 DEF Struct
<1> HIDE DEF time
<1>4. Bind(d) = [e EXCEPT !.used = 0, !.t0 = time(1, @), !.t1 = time(2, @),
                          !.t2 = time(3, @), !.rebind = time(3, @)]
  BY DEF Bind, e, time
<1>5. Bind(d) \in Struct
  <2> DEFINE g == [e EXCEPT !.used = 0, !.t0 = time(1, e.t0)]
             h == [g EXCEPT !.t1 = time(2, e.t1)]
  <2>1. 0 \in Time
    BY TimeFacts
  <2>2. g \in Struct
    BY <1>1, <1>3, <2>1 DEF Struct
  <2>3. h \in Struct
    <3> HIDE DEF g
    <3> QED BY <1>3, <2>2 DEF Struct
  <2>4. [h EXCEPT !.t2 = time(3, e.t2), !.rebind = time(3, e.rebind)] \in Struct
    <3> HIDE DEF h
    <3> QED BY <1>3, <2>3 DEF Struct
  <2>5. Bind(d) = [h EXCEPT !.t2 = time(3, e.t2), !.rebind = time(3, e.rebind)]
    BY <1>1, <1>4 DEF Struct
  <2> QED BY <2>4, <2>5
<1>6. Bind(d).state = "bound" /\ Bind(d).pcb = d.pcb /\ Bind(d).used = 0
  BY <1>1, <1>4 DEF Struct
<1> QED BY <1>5, <1>6

LEMMA ReleaseFacts ==
  ASSUME NEW d \in Struct, NEW ok, d.state # "off"
  PROVE  /\ Release(d, ok) \in Struct /\ Release(d, ok).state = "off"
         /\ Release(d, ok).pcb = 0
         /\ Release(d, ok).t0 = 0 /\ Release(d, ok).t1 = 0 /\ Release(d, ok).t2 = 0
<1> DEFINE c == Forget(d)
           e == TellServer(c, ok)
           f == SwitchOff(e)
<1>1. c \in Struct /\ c.t0 = 0 /\ c.t1 = 0 /\ c.t2 = 0
  BY TimeFacts DEF Forget, Struct
<1> HIDE DEF c
<1>2. e \in Struct /\ e.t0 = 0 /\ e.t1 = 0 /\ e.t2 = 0
  BY <1>1, SendFacts DEF TellServer, Kept
<1> HIDE DEF e
<1>3. f \in Struct /\ f.state = "off" /\ f.t0 = 0 /\ f.t1 = 0 /\ f.t2 = 0
  BY <1>2, SetStateFacts DEF SwitchOff, State, Kept
<1> HIDE DEF f
<1>4. FreePcb(f) \in Struct /\ FreePcb(f).state = "off" /\ FreePcb(f).pcb = 0
      /\ FreePcb(f).t0 = 0 /\ FreePcb(f).t1 = 0 /\ FreePcb(f).t2 = 0
  BY <1>3 DEF FreePcb, Struct
<1> QED BY <1>4 DEF Release, c, e, f

(* dhcp_start: the client is at work, with its PCB. *)
LEMMA StartFacts ==
  ASSUME NEW d \in Struct, NEW ok
  PROVE  LET e == Discover(TakePcb(Clear(d)), ok)
         IN /\ e \in Struct /\ e.timer = 1 /\ e.state = "selecting" /\ e.pcb = 1
            /\ e.t0 = 0 /\ e.t1 = 0 /\ e.t2 = 0
<1> DEFINE c == TakePcb(Clear(d))
<1>1. c \in Struct /\ c.pcb = 1 /\ c.t0 = 0 /\ c.t1 = 0 /\ c.t2 = 0
  BY ClearedFacts DEF TakePcb, Clear, Cleared, Struct
<1> HIDE DEF c
<1>2. /\ Discover(c, ok) \in Struct /\ Discover(c, ok).timer = 1
      /\ Discover(c, ok).state = "selecting" /\ Discover(c, ok).pcb = 1
      /\ Discover(c, ok).t0 = 0 /\ Discover(c, ok).t1 = 0 /\ Discover(c, ok).t2 = 0
  BY <1>1, DiscoverFacts DEF Kept
<1> QED BY <1>2 DEF c

LEMMA RestartFacts ==
  ASSUME NEW d \in Struct, NEW ok1, NEW ok2, d.state # "off"
  PROVE  LET e == Restart(d, ok1, ok2)
         IN /\ e \in Struct /\ e.timer = 1 /\ e.state = "selecting" /\ e.pcb = 1
            /\ e.t0 = 0 /\ e.t1 = 0 /\ e.t2 = 0
  BY ReleaseFacts, StartFacts DEF Restart

-----------------------------------------------------------------------------
(* The inductive invariant.  The time used of a lease stays below its length in *)
(* every state, also in those that a NAK leads to with the old timers running. *)

PcbWhileOn == dhcp.state = "off" <=> dhcp.pcb = 0
BeforeEnd(d) == d.t0 = 0 \/ d.used < d.t0
LeaseInItsStates == addr = "lease" => Supplied(dhcp)

IInv == /\ dhcp \in Struct /\ addr \in {"none", "lease"}
        /\ PcbWhileOn /\ BeforeEnd(dhcp) /\ LeaseInItsStates /\ NeverStuck

\* A client that is on, and one with a lease or a request timeout.
On(d) == d \in Struct /\ d.state # "off" /\ d.pcb = 1 /\ BeforeEnd(d)
Armed(d) == ~Supplied(d) => d.timer = 1

\* What a handler leaves when the address is not touched or removed.
AtWork(d) == On(d) /\ Armed(d)

LEMMA AtWorkSuffices ==
  ASSUME AtWork(dhcp'), addr' \in {"none", "lease"}, addr' = "lease" => Supplied(dhcp')
  PROVE  IInv'
  BY DEF IInv, AtWork, On, Armed, PcbWhileOn, LeaseInItsStates, NeverStuck

LEMMA KeptBeforeEnd ==
  ASSUME NEW d, NEW e, Kept(d, e), BeforeEnd(d)
  PROVE  BeforeEnd(e)
  BY DEF Kept, BeforeEnd

(* The request timeout of a client that is on. *)
LEMMA TimeoutFacts ==
  ASSUME NEW d \in Struct, NEW ok1, NEW ok2, d.state # "off", d.pcb = 1, BeforeEnd(d)
  PROVE  /\ AtWork(Timeout(d, ok1, ok2))
         /\ Supplied(d) => Timeout(d, ok1, ok2) = d
         /\ d.state = "checking" /\ d.tries > 1 => Supplied(Timeout(d, ok1, ok2))
<1> DEFINE e == Timeout(d, ok1, ok2)
<1>0. d.tries \in Int /\ RequestTries \in Int
  BY TriesAssumption DEF Struct
<1>1. CASE d.state \in {"backing_off", "selecting"}
  <2>1. e = Discover(d, ok2)
    BY <1>1 DEF Timeout
  <2> QED BY <1>1, <2>1, DiscoverFacts, KeptBeforeEnd DEF AtWork, On, Armed, Supplied, Kept
<1>2. CASE d.state = "requesting" /\ d.tries <= RequestTries
  <2>1. e = Request(d, "requesting", ok2)
    BY <1>0, <1>2 DEF Timeout, Select
  <2> QED BY <1>2, <2>1, RequestFacts, KeptBeforeEnd DEF AtWork, On, Armed, Supplied, Kept, State
<1>3. CASE d.state = "requesting" /\ d.tries > RequestTries
  <2>1. e = Restart(d, ok1, ok2)
    BY <1>0, <1>3 DEF Timeout
  <2> QED BY <1>3, <2>1, RestartFacts DEF AtWork, On, Armed, Supplied, BeforeEnd
<1>4. CASE d.state = "checking" /\ d.tries <= 1
  <2>1. e = Check(d)
    BY <1>0, <1>4 DEF Timeout
  <2>2. ~(d.tries > 1)
    BY <1>0, <1>4
  <2> QED BY <1>4, <2>1, <2>2, CheckFacts, KeptBeforeEnd DEF AtWork, On, Armed, Supplied, Kept
<1>5. CASE d.state = "checking" /\ d.tries > 1
  <2>1. e = Bind(d)
    BY <1>0, <1>5 DEF Timeout
  <2>2. BeforeEnd(Bind(d))
    BY BindFacts, TimeFacts DEF BeforeEnd, Struct, Time
  <2> QED BY <1>5, <2>1, <2>2, BindFacts DEF AtWork, On, Armed, Supplied
<1>6. CASE Supplied(d)
  <2>1. e = d
    BY <1>6 DEF Timeout, Supplied
  <2> QED BY <1>6, <2>1 DEF AtWork, On, Armed, Supplied
<1> QED BY <1>1, <1>2, <1>3, <1>4, <1>5, <1>6, <1>0 DEF Struct, State, Supplied

LEMMA TimeRange ==
  /\ Forever \in Int
  /\ \A t \in Time : t \in Int /\ 0 <= t /\ t <= Forever
  /\ \A t \in Int : 0 <= t /\ t <= Forever => t \in Time
<1>1. Forever \in Int
  BY DEF Forever
<1>2. \A t \in 0..Forever : t \in Int /\ 0 <= t /\ t <= Forever
  BY <1>1
<1>3. \A t \in Int : 0 <= t /\ t <= Forever => t \in 0..Forever
  BY <1>1
<1> QED BY <1>1, <1>2, <1>3 DEF Time

LEMMA HalfFacts ==
  ASSUME NEW n \in Int, n <= Forever, NEW old \in Time
  PROVE  Half(n, old) \in Time
<1> DEFINE h == n \div 2
<1>1. h \in Int /\ 2 * h <= n
  BY SMT
<1> HIDE DEF h
<1>2. h >= 1 => h <= Forever
  BY <1>1, TimeRange
<1>3. h >= 1 => h \in Time
  BY <1>1, <1>2, TimeRange
<1> QED BY <1>3 DEF Half, h

LEMMA Minus1Facts ==
  ASSUME NEW t \in Time
  PROVE  Minus1(t) \in Time
BY TimeRange DEF Minus1

LEMMA LeftFacts ==
  ASSUME NEW x \in Time, NEW y \in Time
  PROVE  x - y \in Int /\ x - y <= Forever
BY TimeRange

(* dhcp_t1_timeout and dhcp_t2_timeout keep a lease in its states. *)
LEMMA RenewFacts ==
  ASSUME NEW d \in Struct, NEW ok, On(d)
  PROVE  /\ On(RenewTimeout(d, ok))
         /\ Armed(d) => Armed(RenewTimeout(d, ok))
         /\ Supplied(d) => Supplied(RenewTimeout(d, ok))
<1>1. CASE d.state \in {"requesting", "bound", "renewing"}
  <2> DEFINE e == Request(d, "renewing", ok)
             h == Half(d.rebind - d.used, e.t1)
  <2>1. e \in Struct /\ e.state = "renewing" /\ e.timer = 1 /\ Kept(d, e)
    BY RequestFacts DEF State
  <2>2. RenewTimeout(d, ok) = [e EXCEPT !.t1 = h]
    BY <1>1 DEF RenewTimeout, Renew
  <2> HIDE DEF e
  <2>3. h \in Time
    BY <2>1, HalfFacts, LeftFacts DEF On, Struct
  <2> HIDE DEF h
  <2>4. [e EXCEPT !.t1 = h] \in Struct
    BY <2>1, <2>3 DEF Struct
  <2>5. /\ [e EXCEPT !.t1 = h].state = "renewing" /\ [e EXCEPT !.t1 = h].pcb = 1
        /\ [e EXCEPT !.t1 = h].t0 = d.t0 /\ [e EXCEPT !.t1 = h].used = d.used
    BY <2>1 DEF Struct, Kept, On
  <2> QED BY <2>2, <2>4, <2>5 DEF On, Armed, Supplied, BeforeEnd
<1>2. CASE d.state \notin {"requesting", "bound", "renewing"}
  BY <1>2 DEF RenewTimeout
<1> QED BY <1>1, <1>2

LEMMA RebindFacts ==
  ASSUME NEW d \in Struct, NEW ok, On(d)
  PROVE  /\ On(RebindTimeout(d, ok))
         /\ Armed(d) => Armed(RebindTimeout(d, ok))
         /\ Supplied(d) => Supplied(RebindTimeout(d, ok))
<1>1. CASE d.state \in {"requesting", "bound", "renewing", "rebinding"}
  <2> DEFINE e == Request(d, "rebinding", ok)
             h == Half(d.t0 - d.used, e.t2)
  <2>1. e \in Struct /\ e.state = "rebinding" /\ e.timer = 1 /\ Kept(d, e)
    BY RequestFacts DEF State
  <2>2. RebindTimeout(d, ok) = [e EXCEPT !.t2 = h]
    BY <1>1 DEF RebindTimeout, Rebind
  <2> HIDE DEF e
  <2>3. h \in Time
    BY <2>1, HalfFacts, LeftFacts DEF On, Struct
  <2> HIDE DEF h
  <2>4. [e EXCEPT !.t2 = h] \in Struct
    BY <2>1, <2>3 DEF Struct
  <2>5. /\ [e EXCEPT !.t2 = h].state = "rebinding" /\ [e EXCEPT !.t2 = h].pcb = 1
        /\ [e EXCEPT !.t2 = h].t0 = d.t0 /\ [e EXCEPT !.t2 = h].used = d.used
    BY <2>1 DEF Struct, Kept, On
  <2> QED BY <2>2, <2>4, <2>5 DEF On, Armed, Supplied, BeforeEnd
<1>2. CASE d.state \notin {"requesting", "bound", "renewing", "rebinding"}
  BY <1>2 DEF RebindTimeout
<1> QED BY <1>1, <1>2

-----------------------------------------------------------------------------
(* The actions.                                                            *)

LEMMA OnHasPcb ==
  ASSUME IInv, dhcp.state # "off"
  PROVE  dhcp \in Struct /\ dhcp.pcb = 1
BY DEF IInv, PcbWhileOn, Struct

LEMMA InitIInv == Init => IInv
<1> SUFFICES ASSUME Init PROVE IInv
  OBVIOUS
<1>1. dhcp \in Struct /\ dhcp.state = "off" /\ dhcp.pcb = 0 /\ dhcp.t0 = 0
  BY ClearedFacts DEF Init, Cleared
<1>2. addr = "none"
  BY DEF Init
<1> QED BY <1>1, <1>2 DEF IInv, PcbWhileOn, BeforeEnd, LeaseInItsStates, NeverStuck

(* dhcp_fine_tmr: the address that it sets is that of a bound client. *)
LEMMA FineFacts ==
  ASSUME On(dhcp), FineTimer
  PROVE  /\ AtWork(dhcp') /\ addr' \in {addr, "none", "lease"}
         /\ addr' = "lease" => Supplied(dhcp') \/ (addr = "lease" /\ ~Supplied(dhcp))
<1> DEFINE d == [dhcp EXCEPT !.timer = 0]
<1>1. PICK ok1, ok2 : dhcp' = Timeout(d, ok1, ok2)
  BY DEF FineTimer
<1>2. d \in Struct /\ d.state = dhcp.state /\ d.pcb = dhcp.pcb /\ d.t0 = dhcp.t0
      /\ d.used = dhcp.used /\ d.tries = dhcp.tries
  BY DEF On, Struct
<1>3. dhcp.offered \in {"none", "lease"}
  BY DEF On, Struct
<1> HIDE DEF d
<1>4. d.state # "off" /\ d.pcb = 1 /\ BeforeEnd(d)
  BY <1>2 DEF On, BeforeEnd
<1>5. /\ AtWork(dhcp')
      /\ Supplied(d) => dhcp' = d
      /\ d.state = "checking" /\ d.tries > 1 => Supplied(dhcp')
  BY <1>1, <1>2, <1>4, TimeoutFacts
<1>6. CASE dhcp.state = "requesting" /\ dhcp.tries > RequestTries
  <2>1. addr' = "none"
    BY <1>6 DEF FineTimer
  <2> QED BY <1>5, <2>1
<1>7. CASE dhcp.state = "checking" /\ dhcp.tries > 1
  <2>1. addr' = dhcp.offered
    BY <1>7 DEF FineTimer
  <2> QED BY <1>2, <1>3, <1>5, <1>7, <2>1
<1>8. CASE ~(dhcp.state = "requesting" /\ dhcp.tries > RequestTries)
           /\ ~(dhcp.state = "checking" /\ dhcp.tries > 1)
  <2>1. addr' = addr
    BY <1>8 DEF FineTimer
  <2>2. Supplied(dhcp) => Supplied(dhcp')
    BY <1>2, <1>5 DEF Supplied
  <2> QED BY <1>5, <2>1, <2>2
<1> QED BY <1>6, <1>7, <1>8

(* tcpip_thread does not start a client that is off. *)
LEMMA ClientOff ==
  ASSUME dhcp \in Struct, dhcp.state = "off", Client
  PROVE  dhcp' = [dhcp EXCEPT !.timer = 0] /\ addr' = addr
<1>1. CASE FineTimer
  <2> DEFINE d == [dhcp EXCEPT !.timer = 0]
  <2>1. PICK ok1, ok2 : dhcp' = Timeout(d, ok1, ok2)
    BY <1>1 DEF FineTimer
  <2>2. d.state = "off"
    BY DEF Struct
  <2>3. addr' = addr
    BY <1>1 DEF FineTimer
  <2> HIDE DEF d
  <2>4. dhcp' = d
    BY <2>1, <2>2 DEF Timeout
  <2> QED BY <2>3, <2>4 DEF d
<1>2. ~CoarseTimer /\ ~Replies
  BY DEF CoarseTimer, Replies, RecvOffer, RecvAck, RecvNak, ArpConflict
<1> QED BY <1>1, <1>2 DEF Client, Timers

LEMMA FineTimerStep == IInv /\ FineTimer => IInv'
<1> SUFFICES ASSUME IInv, FineTimer PROVE IInv'
  OBVIOUS
<1>1. CASE dhcp.state = "off"
  <2>1. dhcp' = [dhcp EXCEPT !.timer = 0] /\ addr' = addr
    BY <1>1, ClientOff DEF IInv, Client, Timers
  <2>2. /\ dhcp' \in Struct /\ dhcp'.state = "off" /\ dhcp'.pcb = dhcp.pcb
        /\ dhcp'.t0 = dhcp.t0 /\ dhcp'.used = dhcp.used
    BY <1>1, <2>1 DEF IInv, Struct
  <2> QED BY <1>1, <2>1, <2>2
          DEF IInv, PcbWhileOn, BeforeEnd, LeaseInItsStates, NeverStuck, Supplied
<1>2. CASE dhcp.state # "off"
  <2>1. On(dhcp)
    BY <1>2, OnHasPcb DEF IInv, On
  <2>2. /\ AtWork(dhcp') /\ addr' \in {"none", "lease"}
        /\ addr' = "lease" => Supplied(dhcp')
    BY <2>1, FineFacts DEF IInv, LeaseInItsStates
  <2> QED BY <2>2, AtWorkSuffices
<1> QED BY <1>1, <1>2

(* dhcp_coarse_tmr takes an address only away, and keeps a lease until it ends. *)
LEMMA CoarseFacts ==
  ASSUME On(dhcp), CoarseTimer
  PROVE  /\ On(dhcp') /\ (Armed(dhcp) => Armed(dhcp'))
         /\ \/ addr' = "none" /\ Armed(dhcp')
            \/ addr' = addr /\ (Supplied(dhcp) => Supplied(dhcp'))
<1> DEFINE u == IF dhcp.t0 # 0 THEN dhcp.used + 1 ELSE dhcp.used
           d == [dhcp EXCEPT !.used = IF dhcp.t0 # 0 THEN @ + 1 ELSE @]
           e == [d EXCEPT !.t2 = Minus1(@)]
           f == [e EXCEPT !.t1 = Minus1(@)]
<1>1. dhcp.state # "off" /\ dhcp.pcb = 1 /\ dhcp \in Struct /\ BeforeEnd(dhcp)
  BY DEF On
<1>2. PICK ok1, ok2 :
        dhcp' = IF LeaseEnds(dhcp) THEN Restart(d, ok1, ok2)
                ELSE IF d.t2 = 1 THEN RebindTimeout(e, ok2)
                ELSE IF d.t1 = 1 THEN RenewTimeout(f, ok2) ELSE f
  BY DEF CoarseTimer
<1>3. addr' = IF LeaseEnds(dhcp) THEN "none" ELSE addr
  BY DEF CoarseTimer
<1>4. u \in Time /\ (LeaseEnds(dhcp) \/ dhcp.t0 = 0 \/ u < dhcp.t0)
  <2>1. dhcp.t0 \in Time /\ dhcp.used \in Time
    BY <1>1 DEF Struct
  <2>2. CASE dhcp.t0 = 0
    BY <2>1, <2>2
  <2>3. CASE dhcp.t0 # 0
    <3>1. dhcp.used < dhcp.t0
      BY <1>1, <2>3 DEF BeforeEnd
    <3> QED BY <2>1, <2>3, <3>1, TimeRange DEF LeaseEnds
  <2> QED BY <2>2, <2>3
<1>5. d = [dhcp EXCEPT !.used = u]
  OBVIOUS
<1> HIDE DEF u
<1>6. d \in Struct /\ d.state = dhcp.state /\ d.timer = dhcp.timer /\ d.pcb = 1
      /\ d.t0 = dhcp.t0 /\ d.used = u
  BY <1>1, <1>4, <1>5 DEF Struct
<1> HIDE DEF d
<1>7. e \in Struct /\ e.state = dhcp.state /\ e.timer = dhcp.timer /\ e.pcb = 1
      /\ e.t0 = dhcp.t0 /\ e.used = u
  <2>1. Minus1(d.t2) \in Time
    BY <1>6, Minus1Facts DEF Struct
  <2> QED BY <1>6, <2>1 DEF Struct
<1> HIDE DEF e
<1>8. f \in Struct /\ f.state = dhcp.state /\ f.timer = dhcp.timer /\ f.pcb = 1
      /\ f.t0 = dhcp.t0 /\ f.used = u
  <2>1. Minus1(e.t1) \in Time
    BY <1>7, Minus1Facts DEF Struct
  <2> QED BY <1>7, <2>1 DEF Struct
<1> HIDE DEF f
<1>9. CASE LeaseEnds(dhcp)
  <2>1. dhcp' = Restart(d, ok1, ok2) /\ addr' = "none"
    BY <1>2, <1>3, <1>9
  <2>2. On(dhcp') /\ Armed(dhcp')
    BY <1>1, <1>6, <2>1, RestartFacts DEF On, Armed, BeforeEnd
  <2> QED BY <2>1, <2>2
<1>10. CASE ~LeaseEnds(dhcp)
  <2>1. addr' = addr
    BY <1>3, <1>10
  <2>2. On(e) /\ (Supplied(e) <=> Supplied(dhcp)) /\ e.timer = dhcp.timer
    BY <1>1, <1>4, <1>7, <1>10 DEF On, Supplied, BeforeEnd
  <2>3. On(f) /\ (Supplied(f) <=> Supplied(dhcp)) /\ f.timer = dhcp.timer
    BY <1>1, <1>4, <1>8, <1>10 DEF On, Supplied, BeforeEnd
  <2>4. (Armed(e) <=> Armed(dhcp)) /\ (Armed(f) <=> Armed(dhcp))
    BY <2>2, <2>3 DEF Armed
  <2>5. /\ On(dhcp') /\ (Armed(dhcp) => Armed(dhcp'))
        /\ Supplied(dhcp) => Supplied(dhcp')
    <3>1. CASE d.t2 = 1
      <4>1. dhcp' = RebindTimeout(e, ok2)
        BY <1>2, <1>10, <3>1
      <4> QED BY <1>7, <2>2, <2>4, <4>1, RebindFacts
    <3>2. CASE d.t2 # 1 /\ d.t1 = 1
      <4>1. dhcp' = RenewTimeout(f, ok2)
        BY <1>2, <1>10, <3>2
      <4> QED BY <1>8, <2>3, <2>4, <4>1, RenewFacts
    <3>3. CASE d.t2 # 1 /\ d.t1 # 1
      <4>1. dhcp' = f
        BY <1>2, <1>10, <3>3
      <4> QED BY <2>3, <2>4, <4>1
    <3> QED BY <3>1, <3>2, <3>3
  <2> QED BY <2>1, <2>5
<1> QED BY <1>9, <1>10

LEMMA CoarseTimerStep == IInv /\ CoarseTimer => IInv'
<1> SUFFICES ASSUME IInv, CoarseTimer PROVE IInv'
  OBVIOUS
<1>1. dhcp.state # "off"
  BY DEF CoarseTimer
<1>2. On(dhcp) /\ Armed(dhcp)
  BY <1>1, OnHasPcb DEF IInv, On, Armed, NeverStuck
<1>3. /\ AtWork(dhcp')
      /\ addr' = "none" \/ (addr' = addr /\ (Supplied(dhcp) => Supplied(dhcp')))
  BY <1>2, CoarseFacts DEF AtWork
<1> QED BY <1>3, AtWorkSuffices DEF IInv, LeaseInItsStates

(* Replies leave the client at work, and set an address only with a lease. *)
LEMMA ReplyFacts ==
  ASSUME On(dhcp), Replies
  PROVE  /\ AtWork(dhcp')
         /\ \/ addr' = addr /\ ~Supplied(dhcp)
            \/ addr' = "none"
            \/ addr' = "lease" /\ Supplied(dhcp')
<1>0. dhcp \in Struct /\ dhcp.pcb = 1 /\ BeforeEnd(dhcp)
  BY DEF On
<1>1. CASE RecvOffer
  <2> DEFINE d == [dhcp EXCEPT !.timer = 0, !.offered = "lease"]
  <2>1. dhcp.state = "selecting" /\ addr' = addr
    BY <1>1 DEF RecvOffer
  <2>2. PICK ok : dhcp' = Request(d, "requesting", ok)
    BY <1>1 DEF RecvOffer, Select
  <2>3. d \in Struct /\ d.pcb = 1 /\ BeforeEnd(d)
    BY <1>0 DEF Struct, BeforeEnd
  <2> HIDE DEF d
  <2>4. AtWork(dhcp')
    BY <2>2, <2>3, RequestFacts, KeptBeforeEnd DEF AtWork, On, Armed, Kept, State
  <2> QED BY <2>1, <2>4 DEF Supplied
<1>2. CASE RecvAck
  <2> DEFINE d(l) == [dhcp EXCEPT !.lease = l, !.offered = "lease"]
  <2>1. PICK l \in Leases \cup {dhcp.lease} :
          \/ dhcp.state = "requesting" /\ dhcp' = Check(d(l)) /\ addr' = addr
          \/ dhcp' = Bind(d(l)) /\ addr' = "lease"
    BY <1>2 DEF RecvAck
  <2>2. l \in Time \X Time \X Time
    BY <1>0, LeasesAssumption DEF Struct, Time
  <2>3. d(l) \in Struct /\ d(l).pcb = 1 /\ BeforeEnd(d(l))
    BY <1>0, <2>2 DEF Struct, BeforeEnd
  <2> HIDE DEF d
  <2>4. CASE dhcp.state = "requesting" /\ dhcp' = Check(d(l)) /\ addr' = addr
    <3>1. AtWork(dhcp')
      BY <2>3, <2>4, CheckFacts, KeptBeforeEnd DEF AtWork, On, Armed, Kept
    <3> QED BY <2>4, <3>1 DEF Supplied
  <2>5. CASE dhcp' = Bind(d(l)) /\ addr' = "lease"
    <3>1. /\ dhcp' \in Struct /\ dhcp'.state = "bound" /\ dhcp'.pcb = 1
          /\ dhcp'.used = 0
      BY <2>3, <2>5, BindFacts
    <3>2. dhcp'.t0 = 0 \/ 0 < dhcp'.t0
      BY <3>1, TimeRange DEF Struct
    <3>3. AtWork(dhcp') /\ Supplied(dhcp')
      BY <3>1, <3>2 DEF AtWork, On, Armed, Supplied, BeforeEnd
    <3> QED BY <2>5, <3>3
  <2> QED BY <2>1, <2>4, <2>5
<1>3. CASE RecvNak
  <2> DEFINE d == SetState(dhcp, "backing_off")
  <2>1. addr' = "none"
    BY <1>3 DEF RecvNak
  <2>2. PICK ok : dhcp' = Discover(d, ok)
    BY <1>3 DEF RecvNak
  <2>3. d \in Struct /\ d.pcb = 1 /\ BeforeEnd(d)
    BY <1>0, SetStateFacts, KeptBeforeEnd DEF Kept, State
  <2> HIDE DEF d
  <2>4. AtWork(dhcp')
    BY <2>2, <2>3, DiscoverFacts, KeptBeforeEnd DEF AtWork, On, Armed, Kept
  <2> QED BY <2>1, <2>4
<1>4. CASE ArpConflict
  <2>1. dhcp.state = "checking" /\ addr' = addr
    BY <1>4 DEF ArpConflict
  <2>2. PICK ok : dhcp' = Decline(dhcp, ok)
    BY <1>4 DEF ArpConflict
  <2>3. AtWork(dhcp')
    BY <1>0, <2>2, DeclineFacts, KeptBeforeEnd DEF AtWork, On, Armed, Kept
  <2> QED BY <2>1, <2>3 DEF Supplied
<1> QED BY <1>1, <1>2, <1>3, <1>4 DEF Replies

(* tcpip_thread does not stop a client that is on, nor leave it without a timeout. *)
LEMMA ClientOn ==
  ASSUME On(dhcp), Client
  PROVE  /\ On(dhcp') /\ (Armed(dhcp) => Armed(dhcp'))
         /\ addr' \in {addr, "none", "lease"}
<1>1. CASE FineTimer
  BY <1>1, FineFacts DEF AtWork
<1>2. CASE CoarseTimer
  BY <1>2, CoarseFacts
<1>3. CASE Replies
  BY <1>3, ReplyFacts DEF AtWork
<1> QED BY <1>1, <1>2, <1>3 DEF Client, Timers

LEMMA RepliesStep == IInv /\ Replies => IInv'
<1> SUFFICES ASSUME IInv, Replies PROVE IInv'
  OBVIOUS
<1>1. dhcp.state # "off"
  BY DEF Replies, RecvOffer, RecvAck, RecvNak, ArpConflict
<1>2. On(dhcp) /\ (addr = "lease" => Supplied(dhcp)) /\ addr \in {"none", "lease"}
  BY <1>1, OnHasPcb DEF IInv, On, LeaseInItsStates
<1> QED BY <1>2, ReplyFacts, AtWorkSuffices

LEMMA StartStep == IInv /\ Start => IInv'
<1> SUFFICES ASSUME IInv, Start PROVE IInv'
  OBVIOUS
<1>1. dhcp \in Struct /\ addr' = addr /\ addr = "none"
  BY DEF Start, IInv, LeaseInItsStates, Supplied
<1>2. PICK ok : dhcp' = Discover(TakePcb(Clear(dhcp)), ok)
  BY DEF Start
<1>3. AtWork(dhcp')
  BY <1>1, <1>2, StartFacts DEF AtWork, On, Armed, BeforeEnd
<1> QED BY <1>1, <1>3, AtWorkSuffices

LEMMA StopStep == IInv /\ Stop => IInv'
<1> SUFFICES ASSUME IInv, Stop PROVE IInv'
  OBVIOUS
<1>1. dhcp \in Struct /\ dhcp.state # "off" /\ addr' = "none"
  BY DEF Stop, IInv
<1>2. PICK ok : dhcp' = Release(dhcp, ok)
  BY DEF Stop
<1>3. dhcp' \in Struct /\ dhcp'.state = "off" /\ dhcp'.pcb = 0 /\ dhcp'.t0 = 0
  BY <1>1, <1>2, ReleaseFacts
<1> QED BY <1>1, <1>3 DEF IInv, PcbWhileOn, BeforeEnd, LeaseInItsStates, NeverStuck

LEMMA StepIInv == IInv /\ [Next]_vars => IInv'
<1> SUFFICES ASSUME IInv, [Next]_vars PROVE IInv'
  OBVIOUS
<1>1. CASE FineTimer
  BY <1>1, FineTimerStep
<1>2. CASE CoarseTimer
  BY <1>2, CoarseTimerStep
<1>3. CASE Replies
  BY <1>3, RepliesStep
<1>4. CASE Start
  BY <1>4, StartStep
<1>5. CASE Stop
  BY <1>5, StopStep
<1>6. CASE UNCHANGED vars
  BY <1>6 DEF vars, IInv, PcbWhileOn, BeforeEnd, LeaseInItsStates, NeverStuck, Supplied
<1> QED BY <1>1, <1>2, <1>3, <1>4, <1>5, <1>6 DEF Next, Client, Timers

LEMMA Inductive == Spec => []IInv
  BY InitIInv, StepIInv, PTL DEF Spec

-----------------------------------------------------------------------------
(* The struct and the address keep their types, and a PCB is held exactly by a   *)
(* client that is on.                                                            *)
THEOREM TypeCorrect == Spec => []TypeOK
<1>1. IInv /\ faults \subseteq Faults => TypeOK
  BY DEF IInv, PcbWhileOn, TypeOK, DhcpType, Struct
<1>2. Init => faults \subseteq Faults
  BY DEF Init
<1>3. faults \subseteq Faults /\ [Next]_vars => (faults \subseteq Faults)'
  BY DEF Next, Client, Timers, Replies, FineTimer, CoarseTimer, RecvOffer, RecvAck, RecvNak,
         ArpConflict, Start, Stop, vars
<1> QED BY <1>1, <1>2, <1>3, Inductive, PTL DEF Spec

(* A leased address is on the interface only in the states of a lease and before *)
(* its end, whatever the server, the timers and failing allocations do.          *)
THEOREM LeaseBeforeEnd == Spec => []LeaseHeld
<1>1. IInv => LeaseHeld
  BY DEF IInv, BeforeEnd, LeaseInItsStates, LeaseHeld
<1> QED BY <1>1, Inductive, PTL

(* A negotiation always has a timeout pending, whatever is lost or not allocated. *)
THEOREM TimeoutPending == Spec => []NeverStuck
<1>1. IInv => NeverStuck
  BY DEF IInv
<1> QED BY <1>1, Inductive, PTL

-----------------------------------------------------------------------------
(* Without a NAK.  The timers of a lease run only in its states, so that        *)
(* dhcp_coarse_tmr cannot renew what is not bound: what it does after a NAK.    *)

Clean(d) ==
  /\ ~Supplied(d) => d.t0 = 0 /\ d.t1 = 0 /\ d.t2 = 0
  /\ d.state \in {"requesting", "checking"} => d.offered = "lease"

CleanInv == "nak" \notin faults => Clean(dhcp) /\ (Supplied(dhcp) => addr = "lease")

LEMMA CleanTimeout ==
  ASSUME NEW d \in Struct, NEW ok1, NEW ok2, d.state # "off", Clean(d)
  PROVE  /\ Clean(Timeout(d, ok1, ok2))
         /\ Supplied(Timeout(d, ok1, ok2))
              => Supplied(d) \/ (d.state = "checking" /\ d.tries > 1)
<1> DEFINE e == Timeout(d, ok1, ok2)
<1>0. d.tries \in Int /\ RequestTries \in Int
  BY TriesAssumption DEF Struct
<1>1. CASE d.state \in {"backing_off", "selecting"}
  <2>1. e = Discover(d, ok2)
    BY <1>1 DEF Timeout
  <2> QED BY <1>1, <2>1, DiscoverFacts DEF Clean, Supplied, Kept
<1>2. CASE d.state = "requesting" /\ d.tries <= RequestTries
  <2>1. e = Request(d, "requesting", ok2)
    BY <1>0, <1>2 DEF Timeout, Select
  <2> QED BY <1>2, <2>1, RequestFacts DEF Clean, Supplied, Kept, State
<1>3. CASE d.state = "requesting" /\ d.tries > RequestTries
  <2>1. e = Restart(d, ok1, ok2)
    BY <1>0, <1>3 DEF Timeout
  <2> QED BY <1>3, <2>1, RestartFacts DEF Clean, Supplied
<1>4. CASE d.state = "checking" /\ d.tries <= 1
  <2>1. e = Check(d)
    BY <1>0, <1>4 DEF Timeout
  <2> QED BY <1>4, <2>1, CheckFacts DEF Clean, Supplied, Kept
<1>5. CASE d.state = "checking" /\ d.tries > 1
  <2>1. e = Bind(d)
    BY <1>0, <1>5 DEF Timeout
  <2> QED BY <1>5, <2>1, BindFacts DEF Clean, Supplied
<1>6. CASE Supplied(d)
  <2>1. e = d
    BY <1>6 DEF Timeout, Supplied
  <2> QED BY <1>6, <2>1 DEF Clean, Supplied
<1> QED BY <1>1, <1>2, <1>3, <1>4, <1>5, <1>6, <1>0 DEF Struct, State, Supplied

LEMMA CleanFine == IInv /\ CleanInv /\ FineTimer => CleanInv'
<1> SUFFICES ASSUME IInv, CleanInv, FineTimer, "nak" \notin faults
             PROVE  Clean(dhcp') /\ (Supplied(dhcp') => addr' = "lease")
  BY DEF CleanInv, FineTimer
<1> DEFINE d == [dhcp EXCEPT !.timer = 0]
<1>1. PICK ok1, ok2 : dhcp' = Timeout(d, ok1, ok2)
  BY DEF FineTimer
<1>2. /\ d \in Struct /\ d.state = dhcp.state /\ d.tries = dhcp.tries
      /\ d.offered = dhcp.offered
      /\ d.t0 = dhcp.t0 /\ d.t1 = dhcp.t1 /\ d.t2 = dhcp.t2
  BY DEF IInv, Struct
<1> HIDE DEF d
<1>3. Clean(d) /\ (Supplied(d) => addr = "lease")
  BY <1>2 DEF CleanInv, Clean, Supplied
<1>4. CASE dhcp.state = "off"
  <2>1. dhcp' = d /\ addr' = addr
    BY <1>1, <1>2, <1>4 DEF Timeout, FineTimer
  <2> QED BY <1>3, <2>1
<1>5. CASE dhcp.state # "off"
  <2>1. /\ Clean(dhcp')
        /\ Supplied(dhcp') => Supplied(d) \/ (d.state = "checking" /\ d.tries > 1)
    BY <1>1, <1>2, <1>3, <1>5, CleanTimeout
  <2>2. Supplied(d) => addr' = addr
    BY <1>2 DEF FineTimer, Supplied
  <2>3. dhcp.state = "checking" /\ dhcp.tries > 1 => addr' = dhcp.offered
    BY DEF FineTimer
  <2> QED BY <1>2, <1>3, <2>1, <2>2, <2>3 DEF Clean
<1> QED BY <1>4, <1>5

LEMMA CleanCoarse == IInv /\ CleanInv /\ CoarseTimer => CleanInv'
<1> SUFFICES ASSUME IInv, CleanInv, CoarseTimer, "nak" \notin faults
             PROVE  Clean(dhcp') /\ (Supplied(dhcp') => addr' = "lease")
  BY DEF CleanInv, CoarseTimer
<1>1. dhcp.state # "off" /\ dhcp \in Struct /\ Clean(dhcp)
  BY DEF CoarseTimer, IInv, CleanInv
<1>2. CASE LeaseEnds(dhcp)
  <2> DEFINE d == [dhcp EXCEPT !.used = IF dhcp.t0 # 0 THEN @ + 1 ELSE @]
  <2>1. PICK ok1, ok2 : dhcp' = Restart(d, ok1, ok2)
    BY <1>2 DEF CoarseTimer
  <2>2. dhcp.used + 1 \in Time /\ dhcp.used \in Time
    BY <1>1, <1>2 DEF LeaseEnds, Struct
  <2>3. d \in Struct /\ d.state # "off"
    BY <1>1, <2>2 DEF Struct
  <2> HIDE DEF d
  <2> QED BY <2>1, <2>3, RestartFacts DEF Clean, Supplied
<1>3. CASE ~LeaseEnds(dhcp) /\ Supplied(dhcp)
  <2>1. addr' = addr /\ addr = "lease"
    BY <1>3 DEF CoarseTimer, CleanInv
  <2>2. Supplied(dhcp')
    BY <1>3, <2>1, CoarseTimerStep DEF IInv, LeaseInItsStates
  <2> QED BY <2>1, <2>2 DEF Clean, Supplied
<1>4. CASE ~LeaseEnds(dhcp) /\ ~Supplied(dhcp)
  <2>1. dhcp.t0 = 0 /\ dhcp.t1 = 0 /\ dhcp.t2 = 0
    BY <1>1, <1>4 DEF Clean
  <2>2. dhcp' = dhcp
    <3> DEFINE d == [dhcp EXCEPT !.used = IF dhcp.t0 # 0 THEN @ + 1 ELSE @]
               e == [d EXCEPT !.t2 = Minus1(@)]
               f == [e EXCEPT !.t1 = Minus1(@)]
    <3>1. d = dhcp
      BY <1>1, <2>1 DEF Struct
    <3>2. e = dhcp
      BY <1>1, <2>1, <3>1 DEF Struct, Minus1
    <3>3. f = dhcp
      BY <1>1, <2>1, <3>2 DEF Struct, Minus1
    <3>4. PICK ok1, ok2 :
            dhcp' = IF LeaseEnds(dhcp) THEN Restart(d, ok1, ok2)
                    ELSE IF d.t2 = 1 THEN RebindTimeout(e, ok2)
                    ELSE IF d.t1 = 1 THEN RenewTimeout(f, ok2) ELSE f
      BY DEF CoarseTimer
    <3> QED BY <1>4, <2>1, <3>1, <3>3, <3>4
  <2> QED BY <1>1, <1>4, <2>2
<1> QED BY <1>2, <1>3, <1>4

LEMMA CleanReplies == IInv /\ CleanInv /\ Replies => CleanInv'
<1> SUFFICES ASSUME IInv, CleanInv, Replies, "nak" \notin faults
             PROVE  Clean(dhcp') /\ (Supplied(dhcp') => addr' = "lease")
  BY DEF CleanInv, Replies, RecvOffer, RecvAck, RecvNak, ArpConflict
<1>1. dhcp \in Struct /\ Clean(dhcp)
  BY DEF IInv, CleanInv
<1>2. CASE RecvOffer
  <2> DEFINE d == [dhcp EXCEPT !.timer = 0, !.offered = "lease"]
  <2>1. PICK ok : dhcp' = Request(d, "requesting", ok)
    BY <1>2 DEF RecvOffer, Select
  <2>2. /\ d \in Struct /\ d.offered = "lease"
        /\ d.t0 = dhcp.t0 /\ d.t1 = dhcp.t1 /\ d.t2 = dhcp.t2
    BY <1>1 DEF Struct
  <2> HIDE DEF d
  <2>3. ~Supplied(dhcp)
    BY <1>2 DEF RecvOffer, Supplied
  <2> QED BY <1>1, <2>1, <2>2, <2>3, RequestFacts DEF Clean, Supplied, Kept, State
<1>3. CASE RecvAck
  <2>1. PICK l \in Leases \cup {dhcp.lease} :
          LET d == [dhcp EXCEPT !.lease = l, !.offered = "lease"]
          IN \/ dhcp.state = "requesting" /\ dhcp' = Check(d)
             \/ dhcp' = Bind(d) /\ addr' = "lease"
    BY <1>3 DEF RecvAck
  <2> DEFINE d == [dhcp EXCEPT !.lease = l, !.offered = "lease"]
  <2>2. l \in Time \X Time \X Time
    BY <1>1, <2>1, LeasesAssumption DEF Struct, Time
  <2>3. /\ d \in Struct /\ d.offered = "lease"
        /\ d.t0 = dhcp.t0 /\ d.t1 = dhcp.t1 /\ d.t2 = dhcp.t2
    BY <1>1, <2>2 DEF Struct
  <2>4. \/ dhcp.state = "requesting" /\ dhcp' = Check(d)
        \/ dhcp' = Bind(d) /\ addr' = "lease"
    BY <2>1
  <2> HIDE DEF d
  <2>5. CASE dhcp.state = "requesting" /\ dhcp' = Check(d)
    BY <1>1, <2>3, <2>5, CheckFacts DEF Clean, Supplied, Kept
  <2>6. CASE dhcp' = Bind(d) /\ addr' = "lease"
    BY <2>3, <2>6, BindFacts DEF Clean, Supplied
  <2> QED BY <2>4, <2>5, <2>6
<1>4. CASE ArpConflict
  <2>1. PICK ok : dhcp' = Decline(dhcp, ok)
    BY <1>4 DEF ArpConflict
  <2>2. ~Supplied(dhcp)
    BY <1>4 DEF ArpConflict, Supplied
  <2> QED BY <1>1, <2>1, <2>2, DeclineFacts DEF Clean, Supplied, Kept
<1> QED BY <1>2, <1>3, <1>4 DEF Replies, RecvNak

LEMMA CleanStartStop == IInv /\ CleanInv /\ (Start \/ Stop) => CleanInv'
<1> SUFFICES ASSUME IInv, CleanInv, Start \/ Stop
             PROVE  Clean(dhcp') /\ (Supplied(dhcp') => addr' = "lease")
  BY DEF CleanInv
<1>1. CASE Start
  <2>1. PICK ok : dhcp' = Discover(TakePcb(Clear(dhcp)), ok)
    BY <1>1 DEF Start
  <2> QED BY <2>1, StartFacts DEF IInv, Clean, Supplied
<1>2. CASE Stop
  <2>1. PICK ok : dhcp' = Release(dhcp, ok)
    BY <1>2 DEF Stop
  <2> QED BY <1>2, <2>1, ReleaseFacts DEF IInv, Stop, Clean, Supplied
<1> QED BY <1>1, <1>2

LEMMA CleanHolds == Spec => []CleanInv
<1>1. Init => CleanInv
  BY DEF Init, Cleared, CleanInv, Clean, Supplied
<1>2. IInv /\ CleanInv /\ [Next]_vars => CleanInv'
  <2>1. CleanInv /\ UNCHANGED vars => CleanInv'
    BY DEF CleanInv, vars
  <2> QED BY <2>1, CleanFine, CleanCoarse, CleanReplies, CleanStartStop
      DEF Next, Client, Timers
<1> QED BY <1>1, <1>2, Inductive, PTL DEF Spec

(* dhcp_supplied_address tells the truth as long as no server sends a NAK. *)
THEOREM SuppliedHasAddr == Spec => []SuppliedUnlessNak
<1>1. CleanInv => SuppliedUnlessNak
  BY DEF CleanInv, SuppliedUnlessNak, SuppliedMeansAddr
<1> QED BY <1>1, CleanHolds, PTL

(* Without a NAK an address is taken only after the ARP check, or to renew it. *)
THEOREM AddrAfterCheck == Spec => TakenAfterCheck
<1>1. IInv /\ CleanInv /\ [Next]_vars
        => [addr = "none" /\ addr' = "lease" /\ "nak" \notin faults
              => dhcp.state = "checking" /\ dhcp.tries > 1]_vars
  <2> SUFFICES ASSUME CleanInv, Next, addr = "none", addr' = "lease", "nak" \notin faults
               PROVE  dhcp.state = "checking" /\ dhcp.tries > 1
    OBVIOUS
  <2>1. CASE FineTimer
    BY <2>1 DEF FineTimer
  <2>2. CASE CoarseTimer
    BY <2>2 DEF CoarseTimer
  <2>3. CASE Replies
    BY <2>3 DEF Replies, RecvOffer, RecvAck, RecvNak, ArpConflict, CleanInv, Supplied
  <2>4. CASE Start \/ Stop
    BY <2>4 DEF Start, Stop
  <2> QED BY <2>1, <2>2, <2>3, <2>4 DEF Next, Client, Timers
<1> QED BY <1>1, Inductive, CleanHolds, PTL DEF Spec, TakenAfterCheck
=============================================================================
