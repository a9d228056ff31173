----------------------------- MODULE Gatekeeper -----------------------------
(***************************************************************************)
(* The decision core of spa-gated with its real adapters: the knock loop   *)
(* (Gatekeeper::admit over SystemClock, SharedTrust, MemReplay and         *)
(* BpfGateWriter), the bundle watcher swapping the trust store under it,   *)
(* and a restart of the daemon.  Every lock acquisition is a step of its   *)
(* own, so a reload may fall between any two of the knock loop's steps.    *)
(*                                                                         *)
(* Time is CLOCK_MONOTONIC in ticks, Second of them to the second.  The    *)
(* wall clock runs ahead of it by offset, which NTP or the operator may    *)
(* step within 0..MaxDrift.                                                *)
(***************************************************************************)
EXTENDS GrantMap

CONSTANTS
    Packet,         \* the sealed knocks that exist on the network
    Nonce, Id, Key, \* nonces, thumbprints or token ids, verification keys
    GateId,         \* gate ids and gate keys a packet may be made for
    ThisGate,       \* this gate's id and keypair
    LastGen,        \* generations of the signed bundle: 0..LastGen
    Bundle,         \* generation -> its clients and tokens
    SkewSeconds,    \* cfg.skew_seconds
    Second,         \* ticks in a second
    MaxDrift,       \* bound on the steps of the wall clock
    MaxStall,       \* bound on the time one call of admit takes
    MaxTime,        \* bound on the clock
    MaxBoots,       \* bound on the number of times the daemon is started
    None            \* Option::None

VARIABLES
    clients, tokens,    \* SharedTrust: Id -> entry or None
    seen,               \* MemReplay.seen: Nonce -> instant or Absent
    offset,             \* wall clock minus monotonic clock
    pc,                 \* where the knock loop is
    knock,              \* the packet being judged, its source, when, under which bundle
    policy,             \* ClientPolicy returned by lookup, or None
    decision,           \* the last Decision
    wpc, loading,       \* where the watcher is, and the generation it applies
    applied,            \* applied_gen
    disk,               \* generation of the verified bundle at bundle_path
    boot                \* which start of the daemon this is

\* History variables; no guard reads them.
VARIABLES
    admits,     \* Packet -> times this process admitted it
    uses,       \* Id -> knocks this token paid for since the last set_tokens
    spent,      \* Id -> knocks this token ever paid for
    promise,    \* address -> until when an Opened, given room, promises a grant
    grantor,    \* address -> the packet its present grant comes from, or None
    until       \* generation -> when it stopped being in force

trustVars   == <<clients, tokens>>
threadVars  == <<pc, knock, policy, decision>>
watchVars   == <<wpc, loading, applied, disk, boot>>
historyVars == <<admits, uses, spent, promise, grantor, until>>
clockVars   == <<mono, offset>>
vars == <<trustVars, seen, allow, threadVars, watchVars, clockVars, historyVars>>

Gen    == 0..LastGen
Entry  == [key : Key, ports : SUBSET Port]
Absent == -1
Rejects == {"Undecryptable", "WrongGate", "Expired", "UnknownClient",
            "BadSignature", "PortNotAllowed", "Replay"}

Skew   == SkewSeconds * Second              \* skew_nanos
Window == (SkewSeconds * 2 + 1) * Second    \* MemReplay::new(skew_seconds * 2 + 1)
Never  == -(MaxStall + Pinhole)             \* until[g] of a generation not yet superseded

\* A sealed knock: the gate key it is sealed to and what it says once opened.
\* What the signature slot holds is kept as the method and the key it was made with.
Authorization ==
    [sealed_to : GateId, gate_id : GateId, ts : Nat, nonce : Nonce, id : Id,
     ports : Seq(Port), proof : {"Signature", "Psk"} \X Key]

\* The extra second of the replay window is all there is to absorb a step of
\* the wall clock and the time between the skew check and the replay check.
ASSUME GatekeeperAssumption ==
    /\ SkewSeconds \in Nat /\ Second \in Nat \ {0}
    /\ MaxDrift \in Nat /\ MaxStall \in Nat /\ MaxDrift + MaxStall < Second
    /\ MaxTime \in Nat /\ MaxBoots \in Nat /\ LastGen \in Nat
    /\ Packet \subseteq Authorization
    /\ ThisGate \in GateId
    /\ Bundle \in [Gen -> [clients : [Id -> Entry \cup {None}],
                           tokens  : [Id -> Entry \cup {None}]]]

\* A client's id is the thumbprint of its key and a token's id is drawn at
\* random: no bundle uses one id as both.
ASSUME DistinctIds ==
    \A g, h \in Gen, i \in Id :
        Bundle[g].clients[i] = None \/ Bundle[h].tokens[i] = None

Policy == [key : Key, ports : SUBSET Port,
           auth : {"Signature", "Psk"}, single_use : BOOLEAN]
Knock  == [pkt : Packet, src : Addr, at : Nat, gen : Gen]

-----------------------------------------------------------------------------
Wall == mono + offset                       \* SystemClock::now_unix_nanos

AbsDiff(a, b) == IF a < b THEN b - a ELSE a - b

\* Authorization::decode: a port list that is empty or too long is refused.
Decodes(p) == Len(p.ports) \in 1..MaxPorts

\* GateKeypair::open: only a packet sealed to this gate's key decrypts.
Opens(p) == p.sealed_to = ThisGate /\ Decodes(p)

\* Mutant: the skew check accepts anything not older than skew, whatever its
\* distance into the future.
PrecheckOneSided(p) ==
    CASE ~Opens(p)                 -> "Undecryptable"
      [] p.gate_id # ThisGate      -> "WrongGate"
      [] Wall - p.ts > Skew        -> "Expired"
      [] OTHER                     -> "Pending"

\* Mutant: the skew check subtracts saturating, so nothing is ever too old.
PrecheckAnyAge(p) ==
    CASE ~Opens(p)                 -> "Undecryptable"
      [] p.gate_id # ThisGate      -> "WrongGate"
      [] p.ts - Wall > Skew        -> "Expired"
      [] OTHER                     -> "Pending"

\* admit up to the trust lookup: open, gate id, skew, in this order.
Precheck(p) ==
    IF ~Opens(p) THEN "Undecryptable"
    ELSE IF p.gate_id # ThisGate THEN "WrongGate"
    ELSE IF AbsDiff(Wall, p.ts) > Skew THEN "Expired"
    ELSE "Pending"

\* crypto.verify / verify_mac under the policy's key, by the policy's method.
Authentic(p, pol) == p.proof = <<pol.auth, pol.key>>

\* ports_permitted
PortsPermitted(requested, allowed) == PortsOf(requested) \subseteq allowed

\* Mutant: an entry is forgotten a tick too early, as with a window of
\* skew_seconds * 2.
PrunedShort(m) ==
    [n \in Nonce |-> IF m[n] # Absent /\ mono - m[n] < 2 * Skew THEN m[n] ELSE Absent]

\* Mutant: the cache keeps the instant an entry's window began.
PrunedRebased(m) ==
    [n \in Nonce |-> IF m[n] # Absent /\ mono - m[n] < Window THEN m[n] - Window ELSE Absent]

\* MemReplay::admit, seen.retain(now - t < window).
Pruned(m) ==
    [n \in Nonce |-> IF m[n] # Absent /\ mono - m[n] < Window THEN m[n] ELSE Absent]

-----------------------------------------------------------------------------
Reject(why) ==
    /\ pc' = "recv" /\ knock' = None /\ policy' = None
    /\ decision' = why

\* sock.recv_from returns a packet and admit runs up to the lookup.
Receive(p, src) ==
    /\ pc = "recv"
    /\ IF Precheck(p) = "Pending"
       THEN /\ pc' = "clients"
            /\ knock' = [pkt |-> p, src |-> src, at |-> mono, gen |-> applied]
            /\ decision' = "Pending"
            /\ UNCHANGED policy
       ELSE Reject(Precheck(p))
    /\ UNCHANGED <<trustVars, seen, allow, watchVars, clockVars, historyVars>>

\* SharedTrust::lookup under the clients lock.
LookupClients ==
    /\ pc = "clients"
    /\ LET e == clients[knock.pkt.id]
       IN  IF e # None
           THEN /\ policy' = [key |-> e.key, ports |-> e.ports,
                              auth |-> "Signature", single_use |-> FALSE]
                /\ pc' = "admit"
           ELSE /\ policy' = policy
                /\ pc' = "tokens"
    /\ UNCHANGED <<trustVars, seen, allow, knock, decision,
                   watchVars, clockVars, historyVars>>

\* SharedTrust::lookup under the tokens lock; None is Reject::UnknownClient.
LookupTokens ==
    /\ pc = "tokens"
    /\ LET e == tokens[knock.pkt.id]
       IN  IF e # None
           THEN /\ policy' = [key |-> e.key, ports |-> e.ports,
                              auth |-> "Psk", single_use |-> TRUE]
                /\ pc' = "admit"
                /\ UNCHANGED <<knock, decision>>
           ELSE Reject("UnknownClient")
    /\ UNCHANGED <<trustVars, seen, allow, watchVars, clockVars, historyVars>>

\* Mutant: the nonce is recorded before the authenticator and ports are checked.
AdmitNonceFirst ==
    /\ pc = "admit"
    /\ LET p == knock.pkt
           fresh == Pruned(seen)[p.nonce] = Absent
           ok == Authentic(p, policy) /\ PortsPermitted(p.ports, policy.ports)
       IN  /\ seen' = IF fresh THEN [Pruned(seen) EXCEPT ![p.nonce] = mono] ELSE Pruned(seen)
           /\ IF fresh /\ ok
              THEN /\ pc' = IF policy.single_use THEN "consume" ELSE "open"
                   /\ admits' = [admits EXCEPT ![p] = @ + 1]
                   /\ UNCHANGED <<knock, policy, decision>>
              ELSE Reject("Replay") /\ UNCHANGED admits
    /\ UNCHANGED <<trustVars, allow, watchVars, clockVars,
                   uses, spent, promise, grantor, until>>

\* Mutant: the requested ports are not compared with the policy's.
AdmitAnyPort ==
    /\ pc = "admit"
    /\ LET p == knock.pkt
           fresh == Pruned(seen)[p.nonce] = Absent
       IN  IF Authentic(p, policy) /\ fresh
           THEN /\ seen' = [Pruned(seen) EXCEPT ![p.nonce] = mono]
                /\ pc' = IF policy.single_use THEN "consume" ELSE "open"
                /\ admits' = [admits EXCEPT ![p] = @ + 1]
                /\ UNCHANGED <<knock, policy, decision>>
           ELSE Reject("BadSignature") /\ UNCHANGED <<seen, admits>>
    /\ UNCHANGED <<trustVars, allow, watchVars, clockVars,
                   uses, spent, promise, grantor, until>>

\* The rest of admit's checks: authenticator, ports, then replay.admit, which
\* prunes the cache and records the nonce only of a knock that passed the others.
Admit ==
    /\ pc = "admit"
    /\ LET p == knock.pkt
           ok == Authentic(p, policy) /\ PortsPermitted(p.ports, policy.ports)
           fresh == Pruned(seen)[p.nonce] = Absent
       IN  \/ /\ ~Authentic(p, policy)
              /\ Reject("BadSignature")
              /\ UNCHANGED <<seen, admits>>
           \/ /\ Authentic(p, policy) /\ ~PortsPermitted(p.ports, policy.ports)
              /\ Reject("PortNotAllowed")
              /\ UNCHANGED <<seen, admits>>
           \/ /\ ok /\ ~fresh
              /\ Reject("Replay")
              /\ seen' = Pruned(seen)
              /\ UNCHANGED admits
           \/ /\ ok /\ fresh
              /\ seen' = [Pruned(seen) EXCEPT ![p.nonce] = mono]
              /\ pc' = IF policy.single_use THEN "consume" ELSE "open"
              /\ admits' = [admits EXCEPT ![p] = @ + 1]
              /\ UNCHANGED <<knock, policy, decision>>
    /\ UNCHANGED <<trustVars, allow, watchVars, clockVars,
                   uses, spent, promise, grantor, until>>

\* Mutant: the token stays in the store.
ConsumeNothing ==
    /\ pc = "consume"
    /\ uses'  = [uses EXCEPT ![knock.pkt.id] = @ + 1]
    /\ spent' = [spent EXCEPT ![knock.pkt.id] = @ + 1]
    /\ pc' = "open"
    /\ UNCHANGED <<trustVars, seen, allow, knock, policy, decision,
                   watchVars, clockVars, admits, promise, grantor, until>>

\* SharedTrust::consume: remove the token id, whichever bundle it is from.
Consume ==
    /\ pc = "consume"
    /\ tokens' = [tokens EXCEPT ![knock.pkt.id] = None]
    /\ uses'   = [uses EXCEPT ![knock.pkt.id] = @ + 1]
    /\ spent'  = [spent EXCEPT ![knock.pkt.id] = @ + 1]
    /\ pc' = "open"
    /\ UNCHANGED <<clients, seen, allow, knock, policy, decision,
                   watchVars, clockVars, admits, promise, grantor, until>>

\* Some slot of ALLOW is not taken by another source's live grant.
RoomFor(src) == Cardinality({a \in Addr \ {src} : mono < allow[a].expiry}) < AllowCap

\* BpfGateWriter::open and Decision::Opened.
OpenGate ==
    /\ pc = "open"
    /\ LET q == knock.pkt
           grant == GrantFor(q.ports, mono)
       IN  /\ allow' = AllowInsert(allow, knock.src, grant)
           /\ promise' = IF RoomFor(knock.src)
                         THEN [promise EXCEPT ![knock.src] = grant.expiry] ELSE promise
           /\ grantor' = IF allow'[knock.src] = grant
                         THEN [grantor EXCEPT ![knock.src] = q] ELSE grantor
    /\ pc' = "recv" /\ knock' = None /\ policy' = None
    /\ decision' = "Opened"
    /\ UNCHANGED <<trustVars, seen, watchVars, clockVars,
                   admits, uses, spent, until>>

-----------------------------------------------------------------------------
\* The operator (or the fetch thread) puts the next signed bundle on disk.
Publish ==
    /\ disk < LastGen
    /\ disk' = disk + 1
    /\ UNCHANGED <<trustVars, seen, allow, threadVars, wpc, loading, applied, boot,
                   clockVars, historyVars>>

\* Mutant: the client map is cleared and refilled under two acquisitions of
\* its lock.
ReloadClientsUnlocked ==
    /\ wpc = "poll" /\ disk > applied
    /\ IF clients = [i \in Id |-> None]
       THEN clients' = Bundle[disk].clients /\ wpc' = "tokens" /\ loading' = disk
       ELSE clients' = [i \in Id |-> None] /\ UNCHANGED <<wpc, loading>>
    /\ UNCHANGED <<tokens, seen, allow, threadVars, applied, disk, boot,
                   clockVars, historyVars>>

\* watch_bundle: a verified bundle of a newer generation, then trust.set.
ReloadClients ==
    /\ wpc = "poll" /\ disk > applied
    /\ clients' = Bundle[disk].clients
    /\ wpc' = "tokens" /\ loading' = disk
    /\ UNCHANGED <<tokens, seen, allow, threadVars, applied, disk, boot,
                   clockVars, historyVars>>

\* watch_bundle: trust.set_tokens, and applied_gen = b.generation.
ReloadTokens ==
    /\ wpc = "tokens"
    /\ tokens' = Bundle[loading].tokens
    /\ applied' = loading
    /\ wpc' = "poll"
    /\ uses' = [i \in Id |-> 0]
    /\ until' = [until EXCEPT ![applied] = mono]
    /\ UNCHANGED <<clients, seen, allow, threadVars, loading, disk, boot, clockVars,
                   admits, spent, promise, grantor>>

\* The daemon stops anywhere and is started again: the replay cache and the
\* unpinned ALLOW map start empty, the trust store from the bundle on disk.
Restart ==
    /\ boot < MaxBoots
    /\ boot' = boot + 1
    /\ clients' = Bundle[disk].clients /\ tokens' = Bundle[disk].tokens
    /\ seen' = [n \in Nonce |-> Absent]
    /\ allow' = [a \in Addr |-> NoGrant]
    /\ pc' = "recv" /\ knock' = None /\ policy' = None /\ decision' = "Pending"
    /\ wpc' = "poll" /\ loading' = disk /\ applied' = disk
    /\ admits' = [p \in Packet |-> 0]
    /\ uses' = [i \in Id |-> 0]
    /\ promise' = [a \in Addr |-> 0]
    /\ grantor' = [a \in Addr |-> None]
    /\ until' = [g \in Gen |-> Never]
    /\ UNCHANGED <<disk, clockVars, spent>>

\* The clocks advance; no call of admit outlasts MaxStall.
Tick ==
    /\ mono < MaxTime
    /\ pc # "recv" => mono < knock.at + MaxStall
    /\ mono' = mono + 1
    /\ UNCHANGED <<trustVars, seen, allow, threadVars, watchVars, offset, historyVars>>

\* NTP or the operator steps the wall clock.
ClockStep(o) ==
    /\ offset' = o
    /\ UNCHANGED <<trustVars, seen, allow, threadVars, watchVars, mono, historyVars>>

-----------------------------------------------------------------------------
Init ==
    /\ mono = 0 /\ offset \in 0..MaxDrift
    /\ disk = 0 /\ applied = 0 /\ loading = 0 /\ wpc = "poll" /\ boot = 1
    /\ clients = Bundle[0].clients /\ tokens = Bundle[0].tokens
    /\ seen = [n \in Nonce |-> Absent]
    /\ allow = [a \in Addr |-> NoGrant]
    /\ pc = "recv" /\ knock = None /\ policy = None /\ decision = "Pending"
    /\ admits = [p \in Packet |-> 0]
    /\ uses = [i \in Id |-> 0] /\ spent = [i \in Id |-> 0]
    /\ promise = [a \in Addr |-> 0]
    /\ grantor = [a \in Addr |-> None]
    /\ until = [g \in Gen |-> Never]

KnockLoop ==
    \/ \E p \in Packet, src \in Addr : Receive(p, src)
    \/ LookupClients \/ LookupTokens \/ Admit \/ Consume \/ OpenGate

Watcher == ReloadClients \/ ReloadTokens

Environment ==
    \/ Publish \/ Restart \/ Tick
    \/ \E o \in 0..MaxDrift : ClockStep(o)

Next == KnockLoop \/ Watcher \/ Environment

Spec == Init /\ [][Next]_vars

-----------------------------------------------------------------------------
\* Types.
TypeOK ==
    /\ mono \in Nat /\ offset \in 0..MaxDrift
    /\ clients \in [Id -> Entry \cup {None}] /\ tokens \in [Id -> Entry \cup {None}]
    /\ seen \in [Nonce -> Nat \cup {Absent}]
    /\ allow \in [Addr -> Grant]
    /\ pc \in {"recv", "clients", "tokens", "admit", "consume", "open"}
    /\ knock \in Knock \cup {None} /\ (pc # "recv" => knock \in Knock)
    /\ policy \in Policy \cup {None}
    /\ (pc \in {"admit", "consume", "open"} => policy \in Policy)
    /\ decision \in Rejects \cup {"Pending", "Opened"}
    /\ wpc \in {"poll", "tokens"} /\ loading \in Gen /\ applied \in Gen /\ disk \in Gen
    /\ boot \in Nat
    /\ admits \in [Packet -> Nat]
    /\ uses \in [Id -> Nat] /\ spent \in [Id -> Nat]
    /\ promise \in [Addr -> Nat]
    /\ grantor \in [Addr -> Packet \cup {None}]
    /\ until \in [Gen -> Int]

-----------------------------------------------------------------------------
(***************************************************************************)
(* Replay                                                                  *)
(***************************************************************************)
\* One process admits a sealed knock at most once, however often it is sent,
\* from whatever source, and however the wall clock is stepped within MaxDrift:
\* the replay window outlasts the skew window (MemReplay::admit against the skew check).
NoReplay == \A p \in Packet : admits[p] <= 1

\* Why: an admitted knock is either still in the cache, recorded late enough
\* to outlast its timestamp, or too old for the skew check to let it past.
Remembered(p) ==
    /\ seen[p.nonce] # Absent
    /\ p.ts <= seen[p.nonce] + MaxDrift + Skew

RememberedOrStale ==
    \A p \in Packet : admits[p] >= 1 =>
        Remembered(p) \/ p.ts + Skew + MaxStall < mono

\* A nonce is in the cache only if a fully valid knock carried it: a forged or
\* over-reaching knock cannot use up a client's nonce (admit's order of checks).
NonceOnlySpentByAdmitted ==
    \A n \in Nonce : seen[n] # Absent => \E p \in Packet : p.nonce = n /\ admits[p] >= 1

-----------------------------------------------------------------------------
(***************************************************************************)
(* Reload and revocation                                                   *)
(***************************************************************************)
\* Generation g lets packet p open all the ports it asks for.
AuthorizedBy(g, p) ==
    \/ LET e == Bundle[g].clients[p.id]
       IN  e # None /\ p.proof = <<"Signature", e.key>> /\ PortsPermitted(p.ports, e.ports)
    \/ LET e == Bundle[g].tokens[p.id]
       IN  e # None /\ p.proof = <<"Psk", e.key>> /\ PortsPermitted(p.ports, e.ports)

\* The newest generation the trust store holds any part of.
Newest == IF wpc = "tokens" THEN loading ELSE applied

\* A knock past its checks is authorised, key and ports together, by one
\* generation in force since it was received: a reload between the locks of
\* lookup never mixes two bundles or revives an old one.
RevocationEffective ==
    pc \in {"consume", "open"} =>
        \E g \in knock.gen..Newest : AuthorizedBy(g, knock.pkt)

\* A reachable port goes back to one packet that asked for it from a bundle
\* that is in force or was superseded less than a pinhole (and the length of
\* one call of admit) ago: revoking a client closes its pinholes in time.
RevocationReaches ==
    \A a \in Addr, p \in Port : SourceAllowed(a, p, mono) =>
        /\ grantor[a] \in Packet
        /\ p \in PortsOf(grantor[a].ports)
        /\ \E g \in Gen :
              /\ AuthorizedBy(g, grantor[a])
              /\ g \in {applied, Newest} \/ mono < until[g] + MaxStall + Pinhole

\* A reload never turns away a credential that every bundle since the knock
\* was received lists, unless it is a token that was used up.
KnownNeverRefused ==
    [][(pc \in {"clients", "tokens"} /\ decision' = "UnknownClient") =>
          \/ uses[knock.pkt.id] > 0
          \/ \E g \in knock.gen..Newest :
                /\ Bundle[g].clients[knock.pkt.id] = None
                /\ Bundle[g].tokens[knock.pkt.id] = None]_vars

-----------------------------------------------------------------------------
(***************************************************************************)
(* Enrollment tokens                                                       *)
(***************************************************************************)
\* Between two loads of the token list a token pays for one knock, even when
\* the list is swapped between its lookup and its consume.
TokenOncePerLoad == \A i \in Id : uses[i] <= 1

\* What README and DESIGN say of a token: it authenticates exactly one knock.
TokenSingleUse == \A i \in Id : spent[i] <= 1

-----------------------------------------------------------------------------
(***************************************************************************)
(* The pinhole, seen from the client                                       *)
(***************************************************************************)
\* A source that Opened was decided for holds a live grant, unless ALLOW was
\* full of other live grants: expired ones make room.
OpenedMeansReachable ==
    \A a \in Addr : mono < promise[a] => mono < allow[a].expiry

-----------------------------------------------------------------------------
(***************************************************************************)
(* What all of it amounts to                                               *)
(***************************************************************************)
\* A packet counts as granted once its grant is written.
Granted ==
    {p \in Packet : admits[p] >= 1 /\ ~(pc \in {"consume", "open"} /\ knock.pkt = p)}

Promise == INSTANCE PolicyGate WITH
    Authorizes <- AuthorizedBy, Ahead <- Skew + MaxDrift, Behind <- Skew + MaxStall,
    opened <- Granted, clientsGen <- Newest, tokensGen <- applied

\* The knock loop and the watcher, step by step under their locks and on two
\* clocks, implement PolicyGate: every grant is one step of a packet new to
\* this process, stamped within the skew (and a step of the clock or a stall)
\* of the present even after a restart lost the replay cache, and authorised
\* in full by one bundle in force within a stall.
ImplementsPolicyGate == Promise!Spec
=============================================================================
