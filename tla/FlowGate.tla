------------------------------ MODULE FlowGate ------------------------------
(***************************************************************************)
(* The TCP half of the XDP program (spa-ebpf, tcp_gate): PROTECTED, the    *)
(* flow table ESTABLISHED and the allow-list, read and written by one run  *)
(* of the program per CPU.  Every helper call on a map is one step; the    *)
(* clock is read once per packet, so a packet may act on a time that other *)
(* CPUs have passed.  Packets that pass before they have touched any map   *)
(* but PROTECTED (ports outside it, headers cut short before the port) are *)
(* left out.                                                               *)
(***************************************************************************)
EXTENDS GrantMap

CONSTANTS
    Cpu,            \* CPUs running the program
    Flow,           \* 4-tuples, as [src, dport, id]
    Flags,          \* the TCP flag sets packets come with
    PortList,       \* port lists of the grants the daemon writes
    ProtectedSet,   \* the sets of protected ports bundles come with
    ProtectedCap,   \* max_entries of PROTECTED (64)
    FlowIdle,       \* FLOW_IDLE_NS, in ticks
    FlowCap,        \* max_entries of ESTABLISHED (65536)
    Word,           \* 2^64, the modulus of wrapping_sub
    MaxLag,         \* bound on the time a run takes after its clock read
    MaxTime,        \* bound on the clock
    MaxBoots        \* bound on the number of times the daemon is started

ASSUME FlowAssumption ==
    /\ Flow \subseteq [src : Addr, dport : Port, id : Nat]
    /\ Flags \subseteq SUBSET {"SYN", "ACK", "FIN", "RST"}
    /\ PortList \subseteq Seq(Port) /\ ProtectedSet \subseteq SUBSET Port
    /\ FlowIdle \in Nat \ {0} /\ FlowCap \in Nat \ {0} /\ ProtectedCap \in Nat \ {0}
    /\ MaxLag \in Nat /\ MaxTime \in Nat /\ MaxBoots \in Nat
    /\ Word \in Nat /\ FlowIdle + MaxTime + MaxLag < Word

VARIABLES
    protected,      \* PROTECTED
    established,    \* ESTABLISHED: flow -> last-seen time, or Absent
    run,            \* CPU -> the packet it is working on
    boot            \* which start of the daemon this is

\* History variables; no guard reads them.
VARIABLES
    licence,        \* flow -> time of the SYN that opened it, or Absent
    lastPass,       \* flow -> latest arrival time of a packet let through, or Absent
    granted         \* address, port -> latest expiry this daemon wrote

historyVars == <<licence, lastPass, granted>>
vars == <<allow, mono, protected, established, run, boot, historyVars>>

Absent == -1
Idling == [step |-> "idle"]
Step == {"clock", "get", "refresh", "close", "expire", "syn", "track"}
Run  == [flow : Flow, flags : Flags, now : Nat, step : Step]

WrappingSub(a, b) == (a - b) % Word

Later(a, b) == IF a < b THEN b ELSE a

\* The CPU's program passes the packet and is done.
Pass(c) ==
    /\ run' = [run EXCEPT ![c] = Idling]
    /\ lastPass' = [lastPass EXCEPT ![run[c].flow] = Later(@, run[c].now)]

\* ESTABLISHED.insert: an LRU hash never refuses a key; when it is full some
\* other entry goes, not necessarily the oldest one.
Insert(f, now) ==
    \/ /\ \/ established[f] # Absent
          \/ Cardinality({g \in Flow : established[g] # Absent}) < FlowCap
       /\ established' = [established EXCEPT ![f] = now]
    \/ /\ established[f] = Absent
       /\ Cardinality({g \in Flow : established[g] # Absent}) >= FlowCap
       /\ \E g \in Flow :
             /\ established[g] # Absent
             /\ established' = [established EXCEPT ![g] = Absent, ![f] = now]

-----------------------------------------------------------------------------
\* A packet arrives whose port PROTECTED.get finds.
Arrive(c, f, fl) ==
    /\ run[c] = Idling
    /\ f.dport \in protected
    /\ run' = [run EXCEPT ![c] = [flow |-> f, flags |-> fl, now |-> 0, step |-> "clock"]]
    /\ UNCHANGED <<allow, mono, protected, established, boot, historyVars>>

\* Its header is cut short before the flags: load fails, and spa_gate passes it.
PassShort(c) ==
    /\ run[c] # Idling /\ run[c].step = "clock"
    /\ run' = [run EXCEPT ![c] = Idling]
    /\ UNCHANGED <<allow, mono, protected, established, boot, historyVars>>

\* The whole key and the flags are there; the program reads the clock.
ReadClock(c) ==
    /\ run[c] # Idling /\ run[c].step = "clock"
    /\ run' = [run EXCEPT ![c] = [@ EXCEPT !.now = mono, !.step = "get"]]
    /\ UNCHANGED <<allow, mono, protected, established, boot, historyVars>>

\* Mutant: the age of the entry is not looked at.
AfterGetAgeless(r, last) ==
    IF last = Absent THEN "syn"
    ELSE IF r.flags \cap {"FIN", "RST"} # {} THEN "close" ELSE "refresh"

\* What tcp_gate does next, given what ESTABLISHED.get returned.
AfterGet(r, last) ==
    IF last = Absent THEN "syn"
    ELSE IF WrappingSub(r.now, last) < FlowIdle
         THEN IF r.flags \cap {"FIN", "RST"} # {} THEN "close" ELSE "refresh"
         ELSE "expire"

Get(c) ==
    /\ run[c] # Idling /\ run[c].step = "get"
    /\ run' = [run EXCEPT ![c].step = AfterGet(run[c], established[run[c].flow])]
    /\ UNCHANGED <<allow, mono, protected, established, boot, historyVars>>

\* A live flow: remember this packet's time, and pass.
Refresh(c) ==
    /\ run[c] # Idling /\ run[c].step = "refresh"
    /\ Insert(run[c].flow, run[c].now)
    /\ Pass(c)
    /\ UNCHANGED <<allow, mono, protected, boot, licence, granted>>

\* Mutant: a closed flow is aged by the idle limit instead of being removed.
CloseAged(c) ==
    /\ run[c] # Idling /\ run[c].step = "close"
    /\ established' = [established EXCEPT ![run[c].flow] = @ - FlowIdle]
    /\ Pass(c)
    /\ UNCHANGED <<allow, mono, protected, boot, licence, granted>>

\* A live flow and a FIN or RST: forget the flow, and pass.
Close(c) ==
    /\ run[c] # Idling /\ run[c].step = "close"
    /\ established' = [established EXCEPT ![run[c].flow] = Absent]
    /\ Pass(c)
    /\ UNCHANGED <<allow, mono, protected, boot, licence, granted>>

\* An idle flow: forget it and treat the packet as one of a new flow.
Expire(c) ==
    /\ run[c] # Idling /\ run[c].step = "expire"
    /\ established' = [established EXCEPT ![run[c].flow] = Absent]
    /\ run' = [run EXCEPT ![c].step = "syn"]
    /\ UNCHANGED <<allow, mono, protected, boot, historyVars>>

PureSyn(fl) == "SYN" \in fl /\ "ACK" \notin fl

\* Mutant: the grant's expiry is not compared with the clock.
MayOpenForever(r) ==
    PureSyn(r.flags) /\ AllowsPort(allow[r.flow.src], r.flow.dport)

\* A pure SYN from a source holding a live grant for the port.
MayOpen(r) == PureSyn(r.flags) /\ SourceAllowed(r.flow.src, r.flow.dport, r.now)

\* The lookup in ALLOW; without a grant the packet is dropped.
Syn(c) ==
    /\ run[c] # Idling /\ run[c].step = "syn"
    /\ run' = IF MayOpen(run[c]) THEN [run EXCEPT ![c].step = "track"]
                                 ELSE [run EXCEPT ![c] = Idling]
    /\ UNCHANGED <<allow, mono, protected, established, boot, historyVars>>

\* A new flow is tracked, and its SYN passes.
Track(c) ==
    /\ run[c] # Idling /\ run[c].step = "track"
    /\ Insert(run[c].flow, run[c].now)
    /\ licence' = IF PureSyn(run[c].flags)
                  THEN [licence EXCEPT ![run[c].flow] = run[c].now] ELSE licence
    /\ Pass(c)
    /\ UNCHANGED <<allow, mono, protected, boot, granted>>

-----------------------------------------------------------------------------
\* The daemon writes a grant (BpfGateWriter::open).
Open(a, ports) ==
    LET grant == GrantFor(ports, mono) IN
    /\ allow' = AllowInsert(allow, a, grant)
    /\ granted' = [granted EXCEPT ![a] =
          [p \in Port |-> IF p \in PortsOf(ports) THEN grant.expiry ELSE @[p]]]
    /\ UNCHANGED <<mono, protected, established, run, boot, licence, lastPass>>

\* A reload inserts a port into PROTECTED; the error of a full map is dropped.
Protect(p) ==
    /\ protected' = IF Cardinality(protected) < ProtectedCap THEN protected \cup {p} ELSE protected
    /\ UNCHANGED <<allow, mono, established, run, boot, historyVars>>

\* A reload removes a port, which may not be there.
Unprotect(p) ==
    /\ protected' = protected \ {p}
    /\ UNCHANGED <<allow, mono, established, run, boot, historyVars>>

\* The daemon stops and starts: no map is pinned, so all of them are new, and
\* PROTECTED is filled from the bundle on disk; too many ports end the start.
Restart(ports) ==
    /\ boot < MaxBoots
    /\ Cardinality(ports) <= ProtectedCap
    /\ boot' = boot + 1
    /\ allow' = [a \in Addr |-> NoGrant]
    /\ established' = [f \in Flow |-> Absent]
    /\ run' = [c \in Cpu |-> Idling]
    /\ protected' = ports
    /\ licence' = [f \in Flow |-> Absent] /\ lastPass' = [f \in Flow |-> Absent]
    /\ granted' = [a \in Addr |-> [p \in Port |-> 0]]
    /\ UNCHANGED mono

Tick ==
    /\ mono < MaxTime
    /\ \A c \in Cpu :
          (run[c] # Idling /\ run[c].step # "clock") => mono < run[c].now + MaxLag
    /\ mono' = mono + 1
    /\ UNCHANGED <<allow, protected, established, run, boot, historyVars>>

-----------------------------------------------------------------------------
Init ==
    /\ mono = 0
    /\ allow = [a \in Addr |-> NoGrant]
    /\ protected \in ProtectedSet /\ Cardinality(protected) <= ProtectedCap
    /\ established = [f \in Flow |-> Absent]
    /\ run = [c \in Cpu |-> Idling]
    /\ boot = 1
    /\ licence = [f \in Flow |-> Absent] /\ lastPass = [f \in Flow |-> Absent]
    /\ granted = [a \in Addr |-> [p \in Port |-> 0]]

TcpGate(c) ==
    \/ \E f \in Flow, fl \in Flags : Arrive(c, f, fl)
    \/ PassShort(c) \/ ReadClock(c)
    \/ Get(c) \/ Refresh(c) \/ Close(c) \/ Expire(c) \/ Syn(c) \/ Track(c)

Next ==
    \/ \E c \in Cpu : TcpGate(c)
    \/ \E a \in Addr, ports \in PortList : Open(a, ports)
    \/ \E p \in Port : Protect(p) \/ Unprotect(p)
    \/ \E ports \in ProtectedSet : Restart(ports)
    \/ Tick

Spec == Init /\ [][Next]_vars

-----------------------------------------------------------------------------
\* Types.
TypeOK ==
    /\ mono \in Nat /\ boot \in Nat
    /\ allow \in [Addr -> Grant]
    /\ protected \in SUBSET Port
    /\ established \in [Flow -> Nat \cup {Absent}]
    /\ run \in [Cpu -> Run \cup {Idling}]
    /\ licence \in [Flow -> Nat \cup {Absent}] /\ lastPass \in [Flow -> Nat \cup {Absent}]
    /\ granted \in [Addr -> [Port -> Nat]]

\* A flow is in the table only if a pure SYN of it came while the daemon's
\* grant to its source, for its port, was alive: nothing but a knock opens a
\* cloaked port, on however many CPUs the program runs.
CloakHolds ==
    \A f \in Flow : established[f] # Absent =>
        licence[f] # Absent /\ licence[f] < granted[f.src][f.dport]

\* A packet is let through as part of a tracked flow only if one of the flow
\* was let through less than FLOW_IDLE_NS before it.
PassNeedsRecentPass ==
    \A c \in Cpu : (run[c] # Idling /\ run[c].step \in {"refresh", "close"}) =>
        /\ lastPass[run[c].flow] # Absent
        /\ run[c].now - lastPass[run[c].flow] < FlowIdle

\* A tracked flow is taken for idle only if it was: the module comment's
\* "tracked, non-idle flow -> PASS".
ExpireOnlyIdle ==
    \A c \in Cpu : (run[c] # Idling /\ run[c].step = "expire") =>
        lastPass[run[c].flow] + FlowIdle <= run[c].now
=============================================================================
