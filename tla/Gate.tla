-------------------------------- MODULE Gate --------------------------------
(***************************************************************************)
(* The whole gate: the daemon, as PolicyGate says it behaves, and the XDP  *)
(* program of FlowGate on its CPUs, over one allow-list, one clock and one *)
(* PROTECTED map.  The daemon's steps are conjunctions of its own part and *)
(* of what they do to the program's maps.                                  *)
(***************************************************************************)
EXTENDS FlowGate

CONSTANTS
    Packet, Gen, Authorizes(_, _), Ahead, Behind, MaxStall,     \* as in PolicyGate
    PortsIn         \* generation -> its protected_ports

ASSUME GateAssumption ==
    /\ PortsIn \in [Gen -> ProtectedSet]
    /\ \A p \in Packet : p.ports \in PortList
    /\ MaxStall \in Nat /\ Ahead \in Nat /\ Behind \in Nat

VARIABLES
    opened, clientsGen, tokensGen, until,   \* as in PolicyGate
    known,          \* known_ports, with what the loops over the two differences did so far
    trail           \* history: address -> packets granted to it by this process

Daemon == INSTANCE PolicyGate

daemonVars == <<opened, clientsGen, tokensGen, until, known, trail>>
gateVars   == <<vars, daemonVars>>

\* admit grants a packet: BpfGateWriter::open.
GrantTo(p, a, g) ==
    /\ Daemon!GrantTo(p, a, g)
    /\ Open(a, p.ports)
    /\ trail' = [trail EXCEPT ![a] = @ \cup {p}]
    /\ UNCHANGED known

\* watch_bundle: trust.set, trust.set_tokens, then port by port the new ones of
\* new_ports and those it no longer has.
SetClients(g) ==
    /\ known = PortsIn[tokensGen]
    /\ Daemon!SetClients(g)
    /\ UNCHANGED <<protected, established, run, boot, historyVars, known, trail>>

SetTokens ==
    /\ Daemon!SetTokens
    /\ UNCHANGED <<protected, established, run, boot, historyVars, known, trail>>

InsertPort(p) ==
    /\ clientsGen = tokensGen /\ p \in PortsIn[tokensGen] \ known
    /\ Protect(p)
    /\ known' = known \cup {p}
    /\ UNCHANGED <<opened, clientsGen, tokensGen, until, trail>>

RemovePort(p) ==
    /\ clientsGen = tokensGen /\ PortsIn[tokensGen] \subseteq known
    /\ p \in known \ PortsIn[tokensGen]
    /\ Unprotect(p)
    /\ known' = known \ {p}
    /\ UNCHANGED <<opened, clientsGen, tokensGen, until, trail>>

\* The daemon is started again with the bundle that is on disk.
Reboot(g) ==
    /\ Daemon!Restart(g)
    /\ Restart(PortsIn[g])
    /\ known' = PortsIn[g]
    /\ trail' = [a \in Addr |-> {}]

ClockTick ==
    /\ Tick
    /\ UNCHANGED daemonVars

Packets ==
    /\ \E c \in Cpu : TcpGate(c)
    /\ UNCHANGED daemonVars

GateInit ==
    /\ Init /\ Daemon!Init
    /\ protected = PortsIn[tokensGen] /\ known = protected
    /\ trail = [a \in Addr |-> {}]

GateNext ==
    \/ Packets
    \/ \E p \in Packet, a \in Addr, g \in Gen : GrantTo(p, a, g)
    \/ \E g \in Gen : SetClients(g) \/ Reboot(g)
    \/ \E p \in Port : InsertPort(p) \/ RemovePort(p)
    \/ SetTokens \/ ClockTick

GateSpec == GateInit /\ [][GateNext]_gateVars

-----------------------------------------------------------------------------
\* Types.
GateTypeOK ==
    /\ TypeOK
    /\ known \in SUBSET Port
    /\ opened \subseteq Packet /\ trail \in [Addr -> SUBSET Packet]
    /\ clientsGen \in Gen /\ tokensGen \in Gen /\ until \in [Gen -> Int]

\* A connection to a cloaked port goes back to a knock from its source, for its
\* port, that one bundle authorised, and its SYN came while that bundle was in
\* force or less than a pinhole and one judgement after it was superseded: a
\* revoked client opens no new connection once that time is over, whatever the
\* CPUs, the watcher and a restart do in between.
RevokedOpensNoFlow ==
    \A f \in Flow : established[f] # Absent =>
        \E p \in trail[f.src], g \in Gen :
            /\ f.dport \in PortsOf(p.ports)
            /\ Authorizes(g, p)
            /\ \/ g \in {clientsGen, tokensGen}
               \/ licence[f] < until[g] + MaxStall + Pinhole
=============================================================================
