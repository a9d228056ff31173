------------------------------- MODULE Floor --------------------------------
(***************************************************************************)
(* Whether a new connection gets through to a host that runs spa-gated:    *)
(* the XDP program, attached only while the daemon lives, and behind it    *)
(* the nftables floor, which outlives the daemon (main's start sequence,   *)
(* BpfGateWriter::open, watch_bundle, nft).  The floor is on               *)
(* (nftables_floor = true, the default).  A tick is a second, the unit of  *)
(* the floor's timeouts.                                                   *)
(***************************************************************************)
EXTENDS GrantMap

CONSTANTS
    PortList,       \* port lists of the knocks
    Policy,         \* the sets of protected ports bundles come with
    ProtectedCap,   \* max_entries of PROTECTED (64)
    NftMayFail,     \* nft may fail when a reload or a grant calls it
    MaxNft,         \* bound on the time the nft a grant starts takes
    MaxTime,        \* bound on the clock
    MaxReloads,     \* bound on bundles published
    MaxBoots        \* bound on the number of times the daemon is started

\* A knock that asks for no port is not decoded, so none is ever granted.
ASSUME FloorAssumption ==
    /\ PortList \subseteq Seq(Port) \ {<<>>} /\ Policy \subseteq SUBSET Port
    /\ ProtectedCap \in Nat \ {0} /\ NftMayFail \in BOOLEAN
    /\ MaxNft \in Nat /\ MaxTime \in Nat /\ MaxReloads \in Nat /\ MaxBoots \in Nat

VARIABLES
    pc,             \* how far main is, or "down"
    policy,         \* the protected ports of the newest bundle on disk
    watch,          \* what watch_bundle does: "idle" or "apply"
    next,           \* new_ports, the ports of the bundle it is applying
    known,          \* known_ports, with what the loops over the two differences did so far
    xdp,            \* the program is attached
    protected,      \* PROTECTED
    chain,          \* the floor's chain is installed
    floorPorts,     \* the floor's set "ports"
    floorAllow,     \* allow4 and allow6: address -> expiry
    pending,        \* the grant whose nft is still running, or NoKnock
    reloads, boot,  \* bundles published, starts of the daemon
    granted,        \* history: address, port -> latest expiry a knock paid for
    refused,        \* history: known ports that PROTECTED had no room for
    floored         \* history: the daemon was once ready

fwVars    == <<chain, floorPorts, floorAllow>>
grantVars == <<allow, pending, granted>>
watchVars == <<watch, next, known, protected, refused>>
diskVars  == <<policy, reloads>>
vars == <<mono, pc, xdp, boot, floored, fwVars, grantVars, watchVars, diskVars>>

NoKnock == [src |-> "none"]

-----------------------------------------------------------------------------
(***************************************************************************)
(* main                                                                    *)
(***************************************************************************)
\* Config, bundle and socket: anything missing or invalid ends the process.
\* systemd has killed what its predecessor left running before it starts.
Load ==
    /\ pc = "down" /\ boot < MaxBoots
    /\ boot' = boot + 1
    /\ \/ pc' = "attach" /\ known' = policy
       \/ UNCHANGED <<pc, known>>
    /\ pending' = NoKnock
    /\ UNCHANGED <<allow, mono, diskVars, watch, next, protected, refused, xdp, fwVars,
                   granted, floored>>

\* prog.attach: the program runs with empty maps from here on.
Attach ==
    /\ pc = "attach"
    /\ xdp' = TRUE
    /\ protected' = {} /\ allow' = [a \in Addr |-> NoGrant]
    /\ pc' = "program"
    /\ UNCHANGED <<mono, diskVars, watch, next, known, refused, fwVars, pending, boot, granted, floored>>

Full == Cardinality(protected) >= ProtectedCap

\* PROTECTED.insert of a port of the bundle that was loaded; with no room for it
\* the error ends the process (Die).
Program(p) ==
    /\ pc = "program" /\ p \in known \ protected /\ ~Full
    /\ protected' = protected \cup {p}
    /\ UNCHANGED <<mono, pc, xdp, boot, floored, fwVars, grantVars, diskVars,
                   watch, next, known, refused>>

\* nft::install_floor, one nft transaction: "flush table" empties the chain and
\* leaves the sets as they are, so the ports are added to those of before.  The
\* watcher's thread and the knock loop start.
InstallFloor ==
    /\ pc = "program" /\ known \subseteq protected
    /\ chain' = TRUE
    /\ floorPorts' = floorPorts \cup known
    /\ pc' = "ready"
    /\ floored' = TRUE
    /\ UNCHANGED <<mono, xdp, boot, grantVars, diskVars, watchVars, floorAllow>>

\* The process ends, by a signal or an error of any step: the program detaches,
\* and its maps and the process's memory go; the floor stays, and the nft of the
\* last grant may live on.
Die ==
    /\ pc # "down"
    /\ pc' = "down"
    /\ xdp' = FALSE
    /\ protected' = {} /\ allow' = [a \in Addr |-> NoGrant]
    /\ watch' = "idle" /\ next' = {} /\ known' = {} /\ refused' = {}
    /\ pending' \in {pending, NoKnock}
    /\ UNCHANGED <<mono, diskVars, fwVars, boot, granted, floored>>

-----------------------------------------------------------------------------
(***************************************************************************)
(* The knock loop                                                          *)
(***************************************************************************)
\* BpfGateWriter::open for an admitted knock: the grant goes into ALLOW ...
Open(a, ps) ==
    /\ pc = "ready" /\ pending = NoKnock
    /\ allow' = AllowInsert(allow, a, GrantFor(ps, mono))
    /\ granted' = [granted EXCEPT ![a] =
          [p \in Port |-> IF p \in PortsOf(ps) THEN mono + Pinhole ELSE @[p]]]
    /\ pending' = [src |-> a, at |-> mono]
    /\ UNCHANGED <<mono, pc, xdp, boot, floored, fwVars, watchVars, diskVars>>

\* Mutant: the floor's element never times out.
MirrorForever ==
    /\ pending # NoKnock
    /\ floorAllow' = [floorAllow EXCEPT ![pending.src] = MaxTime + MaxNft + Pinhole + 1]
    /\ pending' = NoKnock
    /\ UNCHANGED <<mono, pc, xdp, boot, floored, allow, granted, watchVars, diskVars,
                   chain, floorPorts>>

\* ... and nft::allow mirrors the source, not its ports, for as long again from
\* when nft gets to it.  Its status is not looked at.  An element that is there
\* already keeps its timeout or gets the new one, depending on the kernel.
Mirror ==
    /\ pending # NoKnock
    /\ \/ floorAllow' = [floorAllow EXCEPT ![pending.src] = mono + Pinhole]
       \/ /\ NftMayFail \/ mono < floorAllow[pending.src]
          /\ UNCHANGED floorAllow
    /\ pending' = NoKnock
    /\ UNCHANGED <<mono, pc, xdp, boot, floored, allow, granted, watchVars, diskVars,
                   chain, floorPorts>>

-----------------------------------------------------------------------------
(***************************************************************************)
(* watch_bundle, in a thread of its own                                    *)
(***************************************************************************)
\* A new bundle lands on disk.
Publish(ps) ==
    /\ reloads < MaxReloads /\ ps # policy
    /\ policy' = ps /\ reloads' = reloads + 1
    /\ UNCHANGED <<mono, pc, xdp, boot, floored, fwVars, grantVars, watchVars>>

\* It is verified and newer (BundleWatch), and to be applied.
Reload ==
    /\ pc = "ready" /\ watch = "idle" /\ policy # known
    /\ next' = policy
    /\ watch' = "apply"
    /\ UNCHANGED <<mono, pc, xdp, boot, floored, fwVars, grantVars, diskVars,
                   known, protected, refused>>

\* PROTECTED.insert of a port the bundle adds; the error of a full map is dropped.
InsertPort(p) ==
    /\ pc = "ready" /\ watch = "apply"
    /\ p \in next \ known
    /\ \/ ~Full /\ protected' = protected \cup {p} /\ refused' = refused \ {p}
       \/ Full /\ UNCHANGED protected /\ refused' = refused \cup {p}
    /\ known' = known \cup {p}
    /\ UNCHANGED <<mono, pc, xdp, boot, floored, fwVars, grantVars, diskVars, watch, next>>

\* PROTECTED.remove of a port it no longer has, once every new one went in.
RemovePort(p) ==
    /\ pc = "ready" /\ watch = "apply"
    /\ next \subseteq known /\ p \in known \ next
    /\ protected' = protected \ {p}
    /\ known' = known \ {p} /\ refused' = refused \ {p}
    /\ UNCHANGED <<mono, pc, xdp, boot, floored, fwVars, grantVars, diskVars, watch, next>>

\* nft::set_ports replaces the set in one transaction; an error of nft is dropped.
SetPorts ==
    /\ pc = "ready" /\ watch = "apply" /\ known = next
    /\ \/ floorPorts' = next
       \/ NftMayFail /\ UNCHANGED floorPorts
    /\ watch' = "idle" /\ next' = {}
    /\ UNCHANGED <<mono, pc, xdp, boot, floored, grantVars, diskVars, known, protected,
                   refused, chain, floorAllow>>

Tick ==
    /\ mono < MaxTime
    /\ pending # NoKnock => mono < pending.at + MaxNft
    /\ mono' = mono + 1
    /\ UNCHANGED <<pc, xdp, boot, floored, fwVars, grantVars, watchVars, diskVars>>

-----------------------------------------------------------------------------
Init ==
    /\ mono = 0 /\ allow = [a \in Addr |-> NoGrant]
    /\ pc = "down" /\ policy \in Policy
    /\ watch = "idle" /\ next = {} /\ known = {} /\ refused = {}
    /\ xdp = FALSE /\ protected = {}
    /\ chain = FALSE /\ floorPorts = {} /\ floorAllow = [a \in Addr |-> 0]
    /\ pending = NoKnock /\ reloads = 0 /\ boot = 0
    /\ granted = [a \in Addr |-> [p \in Port |-> 0]] /\ floored = FALSE

Next ==
    \/ Load \/ Attach \/ InstallFloor \/ Die
    \/ \E a \in Addr, ps \in PortList : Open(a, ps)
    \/ Mirror
    \/ \E ps \in Policy : Publish(ps)
    \/ \E p \in Port : Program(p) \/ InsertPort(p) \/ RemovePort(p)
    \/ Reload \/ SetPorts \/ Tick

Spec == Init /\ [][Next]_vars

-----------------------------------------------------------------------------
\* A SYN from a to port p passes the XDP program, if there is one.
XdpPasses(a, p) == xdp /\ p \in protected => SourceAllowed(a, p, mono)

\* The floor's chain accepts it.
FloorAccepts(a, p) == chain /\ p \in floorPorts => mono < floorAllow[a]

\* A new connection of a to port p gets through.
Reachable(a, p) == XdpPasses(a, p) /\ FloorAccepts(a, p)

-----------------------------------------------------------------------------
\* Types.
TypeOK ==
    /\ mono \in Nat /\ allow \in [Addr -> Grant]
    /\ pc \in {"down", "attach", "program", "ready"} /\ watch \in {"idle", "apply"}
    /\ policy \in SUBSET Port /\ next \in SUBSET Port /\ known \in SUBSET Port
    /\ xdp \in BOOLEAN /\ protected \in SUBSET Port /\ refused \in SUBSET Port
    /\ chain \in BOOLEAN /\ floorPorts \in SUBSET Port /\ floorAllow \in [Addr -> Nat]
    /\ pending \in [src : Addr, at : Nat] \cup {NoKnock}
    /\ reloads \in Nat /\ boot \in Nat
    /\ granted \in [Addr -> [Port -> Nat]] /\ floored \in BOOLEAN

\* Once the floor was installed, a port it covers is closed to every source
\* whose last grant, for whatever port, ended longer ago than nft took over it,
\* through crashes, failed starts, restarts and reloads: losing the XDP program
\* exposes nothing to strangers.
ClosedToStrangers ==
    \A a \in Addr, p \in floorPorts :
        (floored /\ Reachable(a, p)) => \E q \in Port : mono < granted[a][q] + MaxNft

\* While the daemon is up, a port of its bundle that PROTECTED had room for is
\* open only to a source whose knock paid for that very port, and no longer than
\* it paid for, also in the middle of a reload and when nft is slow or fails: what
\* the coarser floor lets in the program still stops.
OpenOnlyAsGranted ==
    \A a \in Addr, p \in Port :
        (pc = "ready" /\ p \in known \ refused /\ Reachable(a, p)) => mono < granted[a][p]
=============================================================================
