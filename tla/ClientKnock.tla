---------------------------- MODULE ClientKnock -----------------------------
(***************************************************************************)
(* spa-client against a gate, over UDP: Knocker::knock and Enroller::knock *)
(* (send and hope), Knocker::with_open (knock, wait a grace, connect,      *)
(* retry with a fresh knock) and the CLI's knock_descriptor with           *)
(* confirm_open (knock once, probe until a SYN gets through).  The network *)
(* loses, delays, duplicates and reorders knocks; the gate is seen through *)
(* what Gatekeeper does: it admits a knock within the skew window, at most *)
(* once, and writes a grant if ALLOW, which other sources fill too, has    *)
(* room.  The client's clock is mono; the gate's wall clock is Drift ahead *)
(* of it.                                                                  *)
(***************************************************************************)
EXTENDS GrantMap

CONSTANTS
    Self,           \* the client's address as the gate sees it
    PortList,       \* port lists calls ask for
    Attempts,       \* values of with_open's attempts, 0 included
    Grace,          \* KNOCK_GRACE_MS
    ConnectMax,     \* bound on one connect(), and on one round trip of a probe
    MaxLate,        \* bound on how late a sleep ends
    ConfirmWindow,  \* SPA_KNOCK_CONFIRM_MS
    Skew,           \* the gate's skew_nanos
    Drift,          \* the gate's wall clock minus the client's
    MaxStall,       \* bound on the time from the gate's skew check to its grant
    MaxCalls,       \* bound on calls
    MaxTime         \* bound on the clock

\* A knock asks for 1..MAX_PORTS ports, all of which fit into a grant.
ASSUME ClientAssumption ==
    /\ PortList \subseteq Seq(Port) /\ \A ps \in PortList : Len(ps) \in 1..MaxPorts
    /\ MaxPorts <= MaxGrantPorts
    /\ Self \in Addr /\ Attempts \subseteq Nat
    /\ Grace \in Nat /\ ConnectMax \in Nat /\ ConfirmWindow \in Nat /\ Skew \in Nat
    /\ MaxLate \in Nat /\ MaxStall \in Nat
    /\ Drift \in Int /\ MaxCalls \in Nat /\ MaxTime \in Nat

VARIABLES
    pc,             \* where the client is in its call
    ports,          \* what the call asks for
    left,           \* attempts with_open has left
    wake,           \* when its sleep, or its connect(), began or ends
    deadline,       \* when confirm_open gives up
    result,         \* what the last call returned, or "None" while one runs
    calls,          \* calls so far
    net,            \* every knock ever sent: it may still arrive, once more or at all
    hand, checked,  \* the knock the gate works on, or NoKnock, and when it checked the skew
    seen,           \* nonces the gate admitted
    last            \* history: the knock it admitted last, or NoKnock

clientVars == <<pc, ports, left, wake, deadline, result, calls>>
gateVars == <<allow, hand, checked, seen, last>>
vars == <<gateVars, mono, clientVars, net>>

AbsDiff(a, b) == IF a < b THEN b - a ELSE a - b
Max1(n) == IF n = 0 THEN 1 ELSE n

\* The longest a call may take: none is begun too late to end before MaxTime.
WithOpenTime(n) == Max1(n) * (Grace + MaxLate + ConnectMax)
ConfirmTime == ConfirmWindow + 1 + MaxLate + ConnectMax

-----------------------------------------------------------------------------
\* What a knock of this client says, gate id and authenticator aside.
KnockRequest == [nonce : Nat, ts : Nat, ports : PortList]
NoKnock == [nonce |-> 0, ts |-> 0, ports |-> <<>>]

\* Mutant: the nonce is drawn once for all knocks.
SealReused(ps) == [nonce |-> 1, ts |-> mono, ports |-> ps]

\* Knocker::seal and Enroller::knock: a fresh nonce and the current time.
Seal(ps) == [nonce |-> Cardinality(net) + 1, ts |-> mono, ports |-> ps]

\* send_udp
Send(ps) == net' = net \cup {Seal(ps)}

\* The call is over, and its locals with it.
Return(r) ==
    /\ pc' = "idle" /\ result' = r
    /\ left' = 0 /\ wake' = 0 /\ deadline' = 0

Begin(ps, time) ==
    /\ pc = "idle" /\ calls < MaxCalls
    /\ mono + time <= MaxTime
    /\ calls' = calls + 1
    /\ ports' = ps
    /\ UNCHANGED <<gateVars, mono>>

\* knock: one packet, no answer; or send_udp fails and the call with it, as it
\* does for a first knock of with_open or knock_descriptor.  This is also
\* knock_descriptor under SPA_KNOCK_NO_CONFIRM.
Knock(ps) ==
    /\ Begin(ps, 0)
    /\ \/ Send(ps) /\ Return("Sent")
       \/ UNCHANGED net /\ Return("Io")

\* with_open: the first knock; attempts.max(1) of them in all.
WithOpen(ps, n) ==
    /\ Begin(ps, WithOpenTime(n))
    /\ Send(ps)
    /\ left' = Max1(n) - 1
    /\ wake' = mono + Grace
    /\ pc' = "grace" /\ result' = "None"
    /\ UNCHANGED deadline

\* The grace is over and connect() runs.
Connect ==
    /\ pc = "grace" /\ mono >= wake
    /\ pc' = "connect" /\ wake' = mono
    /\ UNCHANGED <<gateVars, mono, ports, left, deadline, result, calls, net>>

\* connect() gets its SYN through and the service answers.
ConnectOk ==
    /\ pc = "connect"
    /\ SourceAllowed(Self, Head(ports), mono)
    /\ Return("Ok")
    /\ UNCHANGED <<gateVars, mono, ports, calls, net>>

\* connect() fails, whatever the reason: knock again, or give up.
ConnectErr ==
    /\ pc = "connect"
    /\ \/ /\ left > 0
          /\ left' = left - 1
          /\ Send(ports)
          /\ wake' = mono + Grace
          /\ pc' = "grace" /\ UNCHANGED <<result, deadline>>
       \/ /\ left > 0                \* send_udp fails: "?" ends the call
          /\ Return("Io") /\ UNCHANGED net
       \/ /\ left = 0
          /\ Return("Unreachable") /\ UNCHANGED net
    /\ UNCHANGED <<gateVars, mono, ports, calls>>

-----------------------------------------------------------------------------
\* knock_descriptor: one knock, then confirm_open on the first port.
KnockDescriptor(ps) ==
    /\ Begin(ps, ConfirmTime)
    /\ Send(ps)
    /\ pc' = "probe" /\ wake' = mono /\ result' = "None"
    /\ deadline' = mono + ConfirmWindow
    /\ UNCHANGED left

\* A probe's SYN gets through: the answer, SYN-ACK or RST, is on its way.
ProbePasses ==
    /\ pc = "probe" /\ mono >= wake
    /\ SourceAllowed(Self, Head(ports), mono)
    /\ pc' = "answer" /\ wake' = mono
    /\ UNCHANGED <<gateVars, mono, ports, left, deadline, result, calls, net>>

Confirmed ==
    /\ pc = "answer"
    /\ Return("Confirmed")
    /\ UNCHANGED <<gateVars, mono, ports, calls, net>>

\* Mutant: the deadline is counted from the latest probe.
ProbeTimeoutForever ==
    /\ pc = "probe" /\ mono >= wake
    /\ wake' = mono + 1 /\ deadline' = mono + ConfirmWindow
    /\ UNCHANGED <<gateVars, mono, pc, result, ports, left, calls, net>>

\* A probe times out: again after a pause, until the window is over.
ProbeTimeout ==
    /\ pc = "probe" /\ mono >= wake
    /\ \/ /\ mono < deadline
          /\ wake' = mono + 1
          /\ UNCHANGED <<pc, result, left, deadline>>
       \/ /\ mono >= deadline
          /\ Return("NeverOpened")
    /\ UNCHANGED <<gateVars, mono, ports, calls, net>>

-----------------------------------------------------------------------------
\* Mutant: the gate compares only timestamps from the future.
ReceiveStale(k) ==
    /\ hand = NoKnock /\ k.nonce \notin seen
    /\ k.ts - (mono + Drift) <= Skew
    /\ hand' = k /\ checked' = mono
    /\ UNCHANGED <<allow, seen, last, mono, clientVars, net>>

\* The gate receives a knock, for the first time or again, and compares its
\* timestamp with the clock.  A stale or repeated one changes nothing.
Receive(k) ==
    /\ hand = NoKnock /\ k.nonce \notin seen
    /\ AbsDiff(mono + Drift, k.ts) <= Skew
    /\ hand' = k /\ checked' = mono
    /\ UNCHANGED <<allow, seen, last, mono, clientVars, net>>

\* The rest of admit: the nonce is remembered and BpfGateWriter::open called.
Grants ==
    /\ hand # NoKnock
    /\ seen' = seen \cup {hand.nonce} /\ last' = hand
    /\ allow' = AllowInsert(allow, Self, GrantFor(hand.ports, mono))
    /\ hand' = NoKnock /\ checked' = 0
    /\ UNCHANGED <<mono, clientVars, net>>

\* The gate admits another source's knock; what matters of it is that it takes
\* an entry of ALLOW, so the first one is enough.
GrantsOther(a, ps) ==
    /\ hand = NoKnock /\ a # Self /\ allow[a] = NoGrant
    /\ allow' = AllowInsert(allow, a, GrantFor(ps, mono))
    /\ UNCHANGED <<hand, checked, seen, last, mono, clientVars, net>>

\* Time passes; a sleep ends at most MaxLate late, connect() and the gate take
\* as long as they may.
Tick ==
    /\ mono < MaxTime
    /\ pc \in {"grace", "probe"} => mono < wake + MaxLate
    /\ pc \in {"connect", "answer"} => mono < wake + ConnectMax
    /\ hand # NoKnock => mono < checked + MaxStall
    /\ mono' = mono + 1
    /\ UNCHANGED <<gateVars, clientVars, net>>

-----------------------------------------------------------------------------
Init ==
    /\ mono = 0 /\ allow = [a \in Addr |-> NoGrant]
    /\ pc = "idle" /\ ports \in PortList /\ left = 0 /\ wake = 0 /\ deadline = 0
    /\ result = "None" /\ calls = 0 /\ net = {}
    /\ hand = NoKnock /\ checked = 0 /\ seen = {} /\ last = NoKnock

Client ==
    \/ Connect \/ ConnectOk \/ ConnectErr
    \/ ProbePasses \/ ProbeTimeout \/ Confirmed

Next ==
    \/ \E ps \in PortList : Knock(ps) \/ KnockDescriptor(ps)
    \/ \E ps \in PortList, n \in Attempts : WithOpen(ps, n)
    \/ Client
    \/ \E k \in net : Receive(k)
    \/ Grants
    \/ \E a \in Addr, ps \in PortList : GrantsOther(a, ps)
    \/ Tick

Spec == Init /\ [][Next]_vars

\* The client's thread and the gate's run and the clock moves; nothing is asked
\* of the network.
FairSpec == Spec /\ WF_vars(Client) /\ WF_vars(Tick) /\ WF_vars(Grants)

-----------------------------------------------------------------------------
\* Types.
TypeOK ==
    /\ mono \in 0..MaxTime /\ allow \in [Addr -> Grant]
    /\ pc \in {"idle", "grace", "connect", "probe", "answer"}
    /\ ports \in PortList /\ left \in Nat /\ wake \in Nat /\ deadline \in Nat
    /\ result \in {"None", "Sent", "Io", "Ok", "Unreachable", "Confirmed", "NeverOpened"}
    /\ calls \in 0..MaxCalls
    /\ net \subseteq KnockRequest
    /\ hand \in KnockRequest \cup {NoKnock} /\ checked \in Nat
    /\ seen \subseteq Nat /\ last \in KnockRequest \cup {NoKnock}

\* However late, often and out of order knocks arrive, the port closes no later
\* than a skew, one judgement and a pinhole after the client last sent one: a
\* client that gave up leaves no opening behind.
ExposureBounded ==
    mono < allow[Self].expiry =>
        \E k \in net : allow[Self].expiry <= k.ts + Skew - Drift + MaxStall + Pinhole

\* The knock sent last: nonces count up.
Newest == {k \in net : \A j \in net : j.nonce <= k.nonce}

\* with_open runs connect() with its attempt's own knock admitted, which was sent
\* less than a pinhole ago; and ALLOW had room for the client.
KnockCounts ==
    /\ pc = "connect" /\ allow[Self] # NoGrant
    /\ \E k \in Newest : k.nonce \in seen /\ mono < k.ts + Pinhole

\* Then what it knocked for is open, on a first attempt and on a retry, whenever
\* the knock arrived and whatever older knocks come in after it, except for ports
\* a late knock of an earlier call did not ask for.  ALLOW turns the client away
\* for good or never: a grant it once had room for is never refused later.
KnockedThenOpen ==
    KnockCounts =>
        \A p \in PortsOf(ports) \cap PortsOf(last.ports) : SourceAllowed(Self, p, mono)

\* Every call returns, whatever becomes of its packets: with_open after at most
\* attempts.max(1) knocks, confirm_open when its window is over.
Returns == (pc # "idle") ~> (pc = "idle")
=============================================================================
