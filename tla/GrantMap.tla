------------------------------ MODULE GrantMap ------------------------------
(***************************************************************************)
(* The allow-list shared by the daemon and the XDP program: the BPF hash   *)
(* map ALLOW from a source address to a grant, and CLOCK_MONOTONIC, the    *)
(* clock both sides read (spa-ebpf-common, BpfGateWriter, source_allowed). *)
(* The map is a plain hash of fixed capacity: an insert under a new key    *)
(* fails when it is full, and nothing ever removes an entry.               *)
(***************************************************************************)
EXTENDS Integers, Sequences, FiniteSets

CONSTANTS
    Addr,           \* 16-byte source addresses, the keys of ALLOW
    Port,           \* TCP ports
    AllowCap,       \* max_entries of ALLOW (1024)
    MaxPorts,       \* spa_common::MAX_PORTS, checked when a knock is decoded
    MaxGrantPorts,  \* spa_ebpf_common::MAX_GRANT_PORTS, slots of a grant
    Pinhole         \* PINHOLE_NANOS, in clock ticks

ASSUME GrantAssumption ==
    /\ AllowCap \in Nat \ {0}
    /\ MaxPorts \in Nat \ {0}
    /\ MaxGrantPorts \in Nat
    /\ Pinhole \in Nat \ {0}

VARIABLES
    allow,          \* ALLOW: address -> grant
    mono            \* CLOCK_MONOTONIC = bpf_ktime_get_ns

Grant == [expiry : Nat, ports : SUBSET Port]

\* The value of allow[a] when the map has no entry for a.  A real grant
\* expires after the instant it was written, so its expiry is positive.
NoGrant == [expiry |-> 0, ports |-> {}]

\* The elements of a sequence of ports.
PortsOf(ports) == {ports[i] : i \in 1..Len(ports)}

\* Mutant: the expiry is the time to live before now, not after it.
GrantForBackdated(ports, now) ==
    [expiry |-> now - Pinhole,
     ports  |-> {ports[i] : i \in {j \in 1..Len(ports) : j <= MaxGrantPorts}}]

\* BpfGateWriter::open, building the value: take(MAX_GRANT_PORTS) of the
\* requested ports, expiring ttl after now.
GrantFor(ports, now) ==
    [expiry |-> now + Pinhole,
     ports  |-> {ports[i] : i \in {j \in 1..Len(ports) : j <= MaxGrantPorts}}]

\* Mutant: the new grant also keeps the ports of the one it replaces.
AllowInsertMerging(m, a, g) ==
    [m EXCEPT ![a] = [expiry |-> g.expiry, ports |-> g.ports \cup m[a].ports]]

\* bpf_map_update_elem with flags 0 on a hash map: overwrite the entry of a
\* known key, add one for a new key unless the map is full (the error is
\* dropped by "let _ =").
AllowInsert(m, a, g) ==
    IF m[a] # NoGrant \/ Cardinality({b \in Addr : m[b] # NoGrant}) < AllowCap
    THEN [m EXCEPT ![a] = g]
    ELSE m

\* Grant::allows_port
AllowsPort(g, p) == p \in g.ports

\* Mutant: the port is not compared with the grant's.
SourceAllowedAnyPort(a, p, now) == now < allow[a].expiry

\* source_allowed: what tcp_gate asks of ALLOW for a SYN.
SourceAllowed(a, p, now) == now < allow[a].expiry /\ AllowsPort(allow[a], p)
=============================================================================
