-------------------------- MODULE PolicyGateProofs --------------------------
(***************************************************************************)
(* The daemon while bundles are reloaded, proved for every set of packets, *)
(* every sequence of bundles and every interleaving of the knock loop and  *)
(* the watcher: an admitted knock is authorised by one generation in force *)
(* since it was received, a reachable port by one in force within the last *)
(* pinhole, a token pays for one knock per load of the token list, the two *)
(* threads implement PolicyGate, and a reload never refuses a credential   *)
(* that stayed listed.                                                     *)
(***************************************************************************)
EXTENDS GatekeeperProofs

\* Generation g is in force, or was at time t or later.
InForceSince(g, t) == g \in {applied, Newest} \/ t <= until[g]

\* The policy in hand is generation g's entry for this id.
PolicyFrom(g, id) ==
    \/ LET e == Bundle[g].clients[id]
       IN  e # None /\ policy.auth = "Signature" /\ policy.key = e.key /\ policy.ports = e.ports
    \/ LET e == Bundle[g].tokens[id]
       IN  e # None /\ policy.auth = "Psk" /\ policy.key = e.key /\ policy.ports = e.ports

\* The store holds the newest clients, and the applied tokens less those used.
StoreInv ==
    /\ clients = Bundle[Newest].clients
    /\ \A i \in Id : tokens[i] \in {Bundle[applied].tokens[i], None}
    /\ applied <= disk
    /\ wpc = "tokens" => applied < loading /\ loading <= disk

\* The policy in hand comes whole from one generation not older than the knock.
BasisInv ==
    /\ pc # "recv" => knock.gen <= applied
    /\ pc \in {"admit", "consume", "open"} =>
          \E g \in knock.gen..Newest :
              InForceSince(g, knock.at) /\ PolicyFrom(g, knock.pkt.id)
    /\ pc \in {"consume", "open"} =>
          Authentic(knock.pkt, policy) /\ PortsPermitted(knock.pkt.ports, policy.ports)

\* A grant is owed to a packet that asked for its ports under a generation in
\* force, or superseded less than a stall and a pinhole before it expires.
GrantInv ==
    \A a \in Addr : allow[a] # NoGrant =>
        /\ grantor[a] \in Packet
        /\ allow[a].ports \subseteq PortsOf(grantor[a].ports)
        /\ allow[a].expiry <= mono + Pinhole
        /\ \E g \in Gen :
              /\ AuthorizedBy(g, grantor[a])
              /\ g \in {applied, Newest} \/ allow[a].expiry <= until[g] + MaxStall + Pinhole

TrustInv == StoreInv /\ BasisInv

-----------------------------------------------------------------------------
\* Newest is a generation, not older than the applied one.
LEMMA NewestFact ==
    ASSUME TypeOK, StoreInv PROVE Newest \in Gen /\ applied <= Newest /\ Newest <= disk
BY DEF TypeOK, StoreInv, Newest, Gen

\* A knock past its checks is authorised by the generation its policy is from.
LEMMA PolicyAuthorizes ==
    ASSUME NEW g, NEW p, PolicyFrom(g, p.id), Authentic(p, policy),
           PortsPermitted(p.ports, policy.ports)
    PROVE  AuthorizedBy(g, p)
BY DEF PolicyFrom, Authentic, AuthorizedBy

\* The trust store starts from the first bundle.
LEMMA TrustInit == Init => TrustInv /\ GrantInv
<1> SUFFICES ASSUME Init PROVE TrustInv /\ GrantInv OBVIOUS
<1>1. StoreInv BY DEF Init, StoreInv, Newest
<1>2. BasisInv BY DEF Init, BasisInv
<1>3. GrantInv BY DEF Init, GrantInv
<1> QED BY <1>1, <1>2, <1>3 DEF TrustInv

\* The store follows the bundles through every step.
LEMMA StoreStep == TypeOK /\ StoreInv /\ [Next]_vars => StoreInv'
<1> SUFFICES ASSUME TypeOK, StoreInv, [Next]_vars PROVE StoreInv' OBVIOUS
<1> USE DEF trustVars, threadVars, watchVars, clockVars, historyVars
<1>1. CASE UNCHANGED <<clients, tokens, wpc, loading, applied, disk>>
      BY <1>1 DEF StoreInv, Newest
<1>2. CASE Consume
      BY <1>2 DEF Consume, StoreInv, Newest, TypeOK
<1>3. CASE Publish
      BY <1>3 DEF Publish, StoreInv, Newest, TypeOK, Gen
<1>4. CASE ReloadClients
      BY <1>4 DEF ReloadClients, StoreInv, Newest, TypeOK, Gen
<1>5. CASE ReloadTokens
      BY <1>5 DEF ReloadTokens, StoreInv, Newest, TypeOK, Gen
<1>6. CASE Restart
      BY <1>6 DEF Restart, StoreInv, Newest, TypeOK, Gen
<1>7. ASSUME NEW p \in Packet, NEW src \in Addr, Receive(p, src) PROVE StoreInv'
      BY <1>7, <1>1 DEF Receive
<1>8. ASSUME NEW o \in 0..MaxDrift, ClockStep(o) PROVE StoreInv' BY <1>8, <1>1 DEF ClockStep
<1>9. CASE LookupClients \/ LookupTokens \/ Admit \/ OpenGate \/ Tick
      BY <1>9, <1>1 DEF LookupClients, LookupTokens, Admit, OpenGate, Tick
<1>10. CASE UNCHANGED vars BY <1>10, <1>1 DEF vars
<1> QED BY <1>2, <1>3, <1>4, <1>5, <1>6, <1>7, <1>8, <1>9, <1>10
        DEF Next, KnockLoop, Watcher, Environment

\* A generation in force at t stays so, or is superseded at t or later.
LEMMA ForceStep ==
    ASSUME TypeOK, StoreInv, NEW g \in Gen, NEW t \in Int, t <= mono, InForceSince(g, t),
           \/ UNCHANGED <<wpc, loading, applied, until>>
           \/ ReloadClients
           \/ ReloadTokens
    PROVE  InForceSince(g, t)'
<1>1. CASE UNCHANGED <<wpc, loading, applied, until>>
      BY <1>1 DEF InForceSince, Newest
<1>2. CASE ReloadClients
      BY <1>2 DEF ReloadClients, InForceSince, Newest, historyVars
<1>3. CASE ReloadTokens
      BY <1>3 DEF ReloadTokens, InForceSince, Newest, TypeOK
<1> QED BY <1>1, <1>2, <1>3

\* The policy in hand keeps its basis through every step.
LEMMA BasisStep ==
    TypeOK /\ ReplayInv /\ TrustInv /\ TypeOK' /\ StoreInv' /\ [Next]_vars => BasisInv'
<1> SUFFICES ASSUME TypeOK, ReplayInv, TrustInv, TypeOK', StoreInv', [Next]_vars
             PROVE  BasisInv'
    OBVIOUS
<1> USE DEF trustVars, threadVars, watchVars, clockVars, historyVars
<1>inv. StoreInv /\ BasisInv BY DEF TrustInv
<1>keep. ASSUME UNCHANGED <<wpc, loading, applied, until, knock, policy>>,
                pc' \in {"admit", "consume", "open"} => pc \in {"admit", "consume", "open"},
                pc' \in {"consume", "open"} => pc \in {"consume", "open"},
                pc' # "recv" => pc # "recv"
         PROVE  BasisInv'
         BY <1>keep, <1>inv DEF BasisInv, InForceSince, PolicyFrom, Newest
<1>idle. ASSUME pc' = "recv" PROVE BasisInv' BY <1>idle DEF BasisInv
<1>flight. pc # "recv" => knock \in Knock /\ knock.at \in Nat /\ knock.gen \in Gen /\ knock.at <= mono
           BY DEF TypeOK, Knock, ReplayInv, InFlight
<1>1. ASSUME NEW p \in Packet, NEW src \in Addr, Receive(p, src) PROVE BasisInv'
  <2>1. CASE Precheck(p) = "Pending"
    <3>1. pc' = "clients" /\ knock'.gen = applied /\ applied' = applied
          BY <1>1, <2>1 DEF Receive
    <3> QED BY <3>1 DEF BasisInv, TypeOK, Gen
  <2>2. CASE Precheck(p) # "Pending" BY <1>1, <2>2, <1>idle DEF Receive, Reject
  <2> QED BY <2>1, <2>2
<1>2. CASE LookupClients
  <2>1. knock.pkt.id \in Id BY <1>2, PacketType DEF LookupClients, TypeOK, Knock
  <2>2. CASE clients[knock.pkt.id] # None
    <3>1. PolicyFrom(Newest, knock.pkt.id)'
      <4> DEFINE e == Bundle[Newest].clients[knock.pkt.id]
      <4>1. clients[knock.pkt.id] = e BY <1>inv DEF StoreInv
      <4>2. policy' = [key |-> e.key, ports |-> e.ports,
                       auth |-> "Signature", single_use |-> FALSE]
            BY <1>2, <2>2, <4>1 DEF LookupClients
      <4>3. Newest' = Newest /\ knock' = knock BY <1>2 DEF LookupClients, Newest
      <4>4. e # None /\ policy'.auth = "Signature" /\ policy'.key = e.key
            /\ policy'.ports = e.ports
            BY <2>2, <4>1, <4>2
      <4> QED BY <4>3, <4>4 DEF PolicyFrom
    <3>2. /\ knock' = knock /\ pc' = "admit" /\ Newest' = Newest /\ applied' = applied
          /\ knock.gen <= applied
          BY <1>2, <2>2, <1>inv DEF LookupClients, Newest, BasisInv
    <3>3. Newest \in knock.gen..Newest
      <4>1. Newest \in Gen /\ applied <= Newest BY <1>inv, NewestFact
      <4>2. knock.gen \in Gen BY <1>2, <1>flight DEF LookupClients
      <4>3. applied \in Gen BY DEF TypeOK
      <4> QED BY <3>2, <4>1, <4>2, <4>3 DEF Gen
    <3>4. InForceSince(Newest, knock.at)' BY <3>2 DEF InForceSince
    <3> QED BY <3>1, <3>2, <3>3, <3>4 DEF BasisInv
  <2>3. CASE clients[knock.pkt.id] = None
        BY <1>2, <2>3, <1>keep DEF LookupClients
  <2> QED BY <2>2, <2>3
<1>3. CASE LookupTokens
  <2>1. knock.pkt.id \in Id BY <1>3, PacketType DEF LookupTokens, TypeOK, Knock
  <2>2. CASE tokens[knock.pkt.id] # None
    <3>0. tokens[knock.pkt.id] = Bundle[applied].tokens[knock.pkt.id]
          BY <2>1, <2>2, <1>inv DEF StoreInv
    <3>1. PolicyFrom(applied, knock.pkt.id)'
          BY <1>3, <2>2, <3>0 DEF LookupTokens, PolicyFrom
    <3>2. /\ knock' = knock /\ pc' = "admit" /\ Newest' = Newest /\ applied' = applied
          /\ knock.gen <= applied
          BY <1>3, <2>2, <1>inv DEF LookupTokens, Newest, BasisInv
    <3>3. applied \in knock.gen..Newest
      <4>1. Newest \in Gen /\ applied <= Newest BY <1>inv, NewestFact
      <4>2. knock.gen \in Gen BY <1>3, <1>flight DEF LookupTokens
      <4>3. applied \in Gen BY DEF TypeOK
      <4> QED BY <3>2, <4>1, <4>2, <4>3 DEF Gen
    <3>4. InForceSince(applied, knock.at)' BY <3>2 DEF InForceSince
    <3> QED BY <3>1, <3>2, <3>3, <3>4 DEF BasisInv
  <2>3. CASE tokens[knock.pkt.id] = None
        BY <1>3, <2>3, <1>idle DEF LookupTokens, Reject
  <2> QED BY <2>2, <2>3
<1>4. CASE Admit
  <2>1. CASE pc' = "recv" BY <2>1, <1>idle
  <2>2. CASE pc' # "recv"
    <3>1. /\ pc = "admit" /\ UNCHANGED <<wpc, loading, applied, until, knock, policy>>
          /\ Authentic(knock.pkt, policy) /\ PortsPermitted(knock.pkt.ports, policy.ports)
          BY <1>4, <2>2 DEF Admit, Reject
    <3>2. \E g \in knock.gen..Newest :
             InForceSince(g, knock.at) /\ PolicyFrom(g, knock.pkt.id)
          BY <3>1, <1>inv DEF BasisInv
    <3> QED BY <3>1, <3>2, <1>inv
            DEF BasisInv, InForceSince, PolicyFrom, Newest, Authentic, PortsPermitted
  <2> QED BY <2>1, <2>2
<1>5. CASE Consume BY <1>5, <1>keep DEF Consume
<1>6. CASE OpenGate BY <1>6, <1>idle DEF OpenGate
<1>7. CASE ReloadClients \/ ReloadTokens
  <2>1. UNCHANGED <<pc, knock, policy, mono>> BY <1>7 DEF ReloadClients, ReloadTokens
  <2>2. applied <= applied' /\ Newest <= Newest'
    <3>1. /\ applied \in Int /\ loading \in Int /\ disk \in Int
          /\ wpc = "tokens" => applied < loading
          BY <1>inv, GatekeeperAssumption DEF StoreInv, TypeOK, Gen
    <3>2. CASE ReloadClients BY <3>1, <3>2 DEF ReloadClients, Newest
    <3>3. CASE ReloadTokens BY <3>1, <3>3 DEF ReloadTokens, Newest
    <3> QED BY <1>7, <3>2, <3>3
  <2>3. pc # "recv" => knock.gen <= applied'
        BY <2>2, <1>inv, <1>flight DEF BasisInv, TypeOK, Gen
  <2>4. ASSUME pc \in {"admit", "consume", "open"}
        PROVE  \E g \in knock.gen..Newest' :
                  InForceSince(g, knock.at)' /\ PolicyFrom(g, knock.pkt.id)'
    <3>1. PICK g \in knock.gen..Newest :
             InForceSince(g, knock.at) /\ PolicyFrom(g, knock.pkt.id)
          BY <2>4, <1>inv DEF BasisInv
    <3>0. Newest \in Gen /\ Newest' \in Gen BY DEF TypeOK, Newest
    <3>g. knock.gen \in Gen BY <2>4, <1>flight
    <3>2. g \in Gen /\ g \in knock.gen..Newest'
          BY <2>2, <3>0, <3>1, <3>g, GatekeeperAssumption DEF Gen
    <3>3. InForceSince(g, knock.at)'
      <4>1. knock.at \in Int /\ knock.at <= mono BY <2>4, <1>flight
      <4>2. InForceSince(g, knock.at) BY <3>1
      <4>3. ASSUME NEW t \in Int, t <= mono, InForceSince(g, t) PROVE InForceSince(g, t)'
        <5>1. g \in Gen BY <3>2
        <5> QED BY <1>7, <1>inv, <4>3, <5>1, ForceStep
      <4> QED BY <4>1, <4>2, <4>3, <2>1 DEF InForceSince
    <3>4. PolicyFrom(g, knock.pkt.id)' BY <2>1, <3>1 DEF PolicyFrom
    <3> QED BY <3>2, <3>3, <3>4
  <2> QED BY <2>1, <2>3, <2>4, <1>inv DEF BasisInv, Authentic, PortsPermitted
<1>8. CASE Publish BY <1>8, <1>keep DEF Publish
<1>9. CASE Restart BY <1>9, <1>idle DEF Restart
<1>10. CASE Tick BY <1>10, <1>keep DEF Tick
<1>11. ASSUME NEW o \in 0..MaxDrift, ClockStep(o) PROVE BasisInv'
       BY <1>11, <1>keep DEF ClockStep
<1>12. CASE UNCHANGED vars BY <1>12, <1>keep DEF vars
<1> QED BY <1>1, <1>2, <1>3, <1>4, <1>5, <1>6, <1>7, <1>8, <1>9, <1>10, <1>11, <1>12
        DEF Next, KnockLoop, Watcher, Environment

\* A knock past its checks is authorised, key and ports together, by one
\* bundle in force since it was received, wherever a reload falls.
THEOREM RevocationSafe == Spec => []RevocationEffective
<1>1. Init => TypeOK /\ ReplayInv /\ TrustInv BY TypeInit, ReplayInit, TrustInit
<1>2. (TypeOK /\ ReplayInv /\ TrustInv) /\ [Next]_vars => (TypeOK /\ ReplayInv /\ TrustInv)'
      BY TypeStep, ReplayStep, StoreStep, BasisStep DEF TrustInv
<1>3. TypeOK /\ ReplayInv /\ TrustInv => RevocationEffective
      BY PolicyAuthorizes DEF TrustInv, BasisInv, RevocationEffective
<1> QED BY <1>1, <1>2, <1>3, PTL DEF Spec

-----------------------------------------------------------------------------
\* One address's share of GrantInv.
Owed(a) ==
    allow[a] # NoGrant =>
        /\ grantor[a] \in Packet
        /\ allow[a].ports \subseteq PortsOf(grantor[a].ports)
        /\ allow[a].expiry <= mono + Pinhole
        /\ \E g \in Gen :
              /\ AuthorizedBy(g, grantor[a])
              /\ g \in {applied, Newest} \/ allow[a].expiry <= until[g] + MaxStall + Pinhole

\* Grants stay owed to an authorised packet through every step.
LEMMA GrantStep ==
    TypeOK /\ ReplayInv /\ TrustInv /\ GrantInv /\ [Next]_vars => GrantInv'
<1> SUFFICES ASSUME TypeOK, ReplayInv, TrustInv, GrantInv, [Next]_vars,
                    NEW a \in Addr
             PROVE  Owed(a)'
    BY DEF GrantInv, Owed
<1> USE DEF trustVars, threadVars, watchVars, clockVars, historyVars
<1>inv. StoreInv /\ BasisInv /\ Owed(a) BY DEF TrustInv, GrantInv, Owed
<1>const. Pinhole \in Nat /\ MaxStall \in Nat /\ mono \in Nat /\ allow[a].expiry \in Nat
          BY GrantAssumption, GatekeeperAssumption DEF TypeOK, Grant
<1>keep. ASSUME allow'[a] = allow[a], grantor'[a] = grantor[a], mono <= mono', mono' \in Nat,
                UNCHANGED <<applied, wpc, loading, until>>
         PROVE  Owed(a)'
         BY <1>keep, <1>inv, <1>const DEF Owed, Newest
<1>1. ASSUME NEW p \in Packet, NEW src \in Addr, Receive(p, src) PROVE Owed(a)'
      BY <1>1, <1>keep, <1>const DEF Receive
<1>2. CASE LookupClients BY <1>2, <1>keep, <1>const DEF LookupClients
<1>3. CASE LookupTokens BY <1>3, <1>keep, <1>const DEF LookupTokens
<1>4. CASE Admit BY <1>4, <1>keep, <1>const DEF Admit
<1>5. CASE Consume BY <1>5, <1>keep, <1>const DEF Consume
<1>6. CASE OpenGate
  <2> DEFINE q == knock.pkt
             grant == GrantFor(q.ports, mono)
  <2>1. /\ knock \in Knock /\ q \in Packet /\ knock.src \in Addr /\ q.ports \in Seq(Port)
        /\ knock.at \in Nat /\ knock.gen \in Gen
        BY <1>6, PacketType DEF OpenGate, TypeOK, Knock
  <2>2. /\ grant \in Grant /\ grant.expiry = mono + Pinhole
        /\ grant.ports \subseteq PortsOf(q.ports)
        BY <2>1, <1>const, GrantForType
  <2>3. /\ allow' = AllowInsert(allow, knock.src, grant)
        /\ UNCHANGED <<mono, applied, wpc, loading, until>>
        /\ grantor' = IF allow'[knock.src] = grant
                      THEN [grantor EXCEPT ![knock.src] = q] ELSE grantor
        BY <1>6 DEF OpenGate
  <2>4. /\ \A b \in Addr : allow'[b] = allow[b] \/ b = knock.src
        /\ allow'[knock.src] \in {allow[knock.src], grant}
        BY <2>1, <2>2, <2>3, AllowInsertType DEF TypeOK
  <2>5. CASE a # knock.src \/ allow'[a] # grant
    <3>1. allow'[a] = allow[a] BY <2>4, <2>5
    <3>2. grantor'[a] = grantor[a] BY <2>1, <2>3, <2>5 DEF TypeOK
    <3> QED BY <3>1, <3>2, <2>3, <1>keep, <1>const
  <2>6. CASE a = knock.src /\ allow'[a] = grant
    <3>1. grantor'[a] = q BY <2>1, <2>3, <2>6 DEF TypeOK
    <3>2. PICK g \in knock.gen..Newest : InForceSince(g, knock.at) /\ PolicyFrom(g, q.id)
          BY <1>6, <1>inv DEF BasisInv, OpenGate
    <3>3. AuthorizedBy(g, q)
          BY <1>6, <1>inv, <3>2, PolicyAuthorizes DEF BasisInv, OpenGate
    <3>4. g \in Gen
      <4>1. Newest \in Gen BY DEF TypeOK, Newest
      <4> QED BY <4>1, <2>1, <3>2, GatekeeperAssumption DEF Gen
    <3>5. mono <= knock.at + MaxStall BY <1>6 DEF ReplayInv, InFlight, OpenGate
    <3>6. until[g] \in Int BY <3>4 DEF TypeOK
    <3>7. g \in {applied, Newest} \/ grant.expiry <= until[g] + MaxStall + Pinhole
          BY <3>2, <3>5, <3>6, <2>1, <2>2, <1>const DEF InForceSince
    <3>8. AuthorizedBy(g, grantor[a])'
          BY <3>1, <3>3 DEF AuthorizedBy, PortsPermitted, PortsOf
    <3>9. Newest' = Newest BY <2>3 DEF Newest
    <3>10. (g \in {applied, Newest} \/ allow[a].expiry <= until[g] + MaxStall + Pinhole)'
          BY <2>3, <2>6, <3>7, <3>9
    <3>11. (allow[a].ports \subseteq PortsOf(grantor[a].ports))'
          BY <2>2, <2>6, <3>1 DEF PortsOf
    <3>12. (allow[a].expiry <= mono + Pinhole)' BY <2>2, <2>3, <2>6, <1>const
    <3> QED BY <2>1, <3>1, <3>4, <3>8, <3>10, <3>11, <3>12 DEF Owed
  <2> QED BY <2>5, <2>6
<1>7. CASE ReloadClients
  <2>1. /\ UNCHANGED <<allow, grantor, mono, applied, until>>
        /\ wpc = "poll"
        BY <1>7 DEF ReloadClients
  <2> QED BY <2>1, <1>inv DEF Owed, Newest
<1>8. CASE ReloadTokens
  <2>1. /\ UNCHANGED <<allow, grantor, mono>> /\ wpc = "tokens" /\ wpc' = "poll"
        /\ applied' = loading /\ until' = [until EXCEPT ![applied] = mono]
        BY <1>8 DEF ReloadTokens
  <2> SUFFICES ASSUME allow[a] # NoGrant PROVE Owed(a)' BY <2>1 DEF Owed
  <2>2. PICK g \in Gen :
           /\ AuthorizedBy(g, grantor[a])
           /\ g \in {applied, Newest} \/ allow[a].expiry <= until[g] + MaxStall + Pinhole
        BY <1>inv DEF Owed
  <2>3. allow[a].expiry <= mono + Pinhole BY <1>inv DEF Owed
  <2>4. g \in {applied', Newest'} \/ allow[a].expiry <= until'[g] + MaxStall + Pinhole
    <3>1. CASE g = Newest BY <3>1, <2>1 DEF Newest
    <3>2. CASE g = applied
      <4>1. until'[g] = mono BY <3>2, <2>1 DEF TypeOK
      <4> QED BY <4>1, <2>3, <1>const
    <3>3. CASE g \notin {applied, Newest}
      <4>1. until'[g] = until[g] BY <3>3, <2>1 DEF TypeOK
      <4> QED BY <4>1, <3>3, <2>2
    <3> QED BY <3>1, <3>2, <3>3
  <2> QED BY <2>1, <2>2, <2>4, <1>inv DEF Owed
<1>9. CASE Publish BY <1>9, <1>keep, <1>const DEF Publish
<1>10. CASE Restart BY <1>10 DEF Restart, Owed
<1>11. CASE Tick BY <1>11, <1>keep, <1>const DEF Tick
<1>12. ASSUME NEW o \in 0..MaxDrift, ClockStep(o) PROVE Owed(a)'
       BY <1>12, <1>keep, <1>const DEF ClockStep
<1>13. CASE UNCHANGED vars BY <1>13, <1>keep, <1>const DEF vars
<1> QED BY <1>1, <1>2, <1>3, <1>4, <1>5, <1>6, <1>7, <1>8, <1>9, <1>10, <1>11, <1>12, <1>13
        DEF Next, KnockLoop, Watcher, Environment

\* A live grant is owed to a bundle in force within the last pinhole and stall.
LEMMA GrantReaches == TypeOK /\ GrantInv => RevocationReaches
<1> SUFFICES ASSUME TypeOK, GrantInv, NEW a \in Addr, NEW p \in Port, SourceAllowed(a, p, mono)
             PROVE  /\ grantor[a] \in Packet
                    /\ p \in PortsOf(grantor[a].ports)
                    /\ \E g \in Gen :
                          /\ AuthorizedBy(g, grantor[a])
                          /\ g \in {applied, Newest} \/ mono < until[g] + MaxStall + Pinhole
    BY DEF RevocationReaches
<1>1. mono < allow[a].expiry /\ p \in allow[a].ports BY DEF SourceAllowed, AllowsPort
<1>2. mono \in Nat /\ allow[a].expiry \in Nat BY DEF TypeOK, Grant
<1>3. allow[a] # NoGrant BY <1>1, <1>2 DEF NoGrant
<1>4. PICK g \in Gen :
         /\ AuthorizedBy(g, grantor[a])
         /\ g \in {applied, Newest} \/ allow[a].expiry <= until[g] + MaxStall + Pinhole
      BY <1>3 DEF GrantInv
<1>5. g \in {applied, Newest} \/ mono < until[g] + MaxStall + Pinhole
      BY <1>1, <1>2, <1>4, GrantAssumption, GatekeeperAssumption DEF TypeOK
<1> QED BY <1>1, <1>3, <1>4, <1>5 DEF GrantInv

\* Revoking a client closes its pinholes within a pinhole and one call of
\* admit, whatever reloads and knocks are interleaved.
THEOREM RevocationCloses == Spec => []RevocationReaches
<1>1. Init => TypeOK /\ ReplayInv /\ TrustInv /\ GrantInv
      BY TypeInit, ReplayInit, TrustInit
<1>2. (TypeOK /\ ReplayInv /\ TrustInv /\ GrantInv) /\ [Next]_vars =>
          (TypeOK /\ ReplayInv /\ TrustInv /\ GrantInv)'
      BY TypeStep, ReplayStep, StoreStep, BasisStep, GrantStep DEF TrustInv
<1>3. TypeOK /\ ReplayInv /\ TrustInv /\ GrantInv => RevocationReaches BY GrantReaches
<1> QED BY <1>1, <1>2, <1>3, PTL DEF Spec

-----------------------------------------------------------------------------
(***************************************************************************)
(* Tokens                                                                  *)
(***************************************************************************)
\* A used token is gone until the next load, and the one in hand is unused.
TokenInv ==
    /\ \A i \in Id : uses[i] <= 1 /\ (uses[i] # 0 => tokens[i] = None)
    /\ pc \in {"admit", "consume"} /\ policy.auth = "Psk" => uses[knock.pkt.id] = 0
    /\ pc \in {"admit", "consume"} /\ policy.auth # "Psk" => ~policy.single_use
    /\ pc = "consume" => policy.single_use

\* Every step keeps TokenInv.
LEMMA TokenStep == TypeOK /\ TokenInv /\ [Next]_vars => TokenInv'
<1> SUFFICES ASSUME TypeOK, TokenInv, [Next]_vars PROVE TokenInv' OBVIOUS
<1> USE DEF trustVars, threadVars, watchVars, clockVars, historyVars
<1>keep. ASSUME UNCHANGED <<uses, tokens, policy, knock>>,
                pc' = pc \/ pc' \notin {"admit", "consume"}
         PROVE  TokenInv'
         BY <1>keep DEF TokenInv
<1>idle. ASSUME UNCHANGED <<uses, tokens>>, pc' \notin {"admit", "consume"} PROVE TokenInv'
         BY <1>idle DEF TokenInv
<1>1. ASSUME NEW p \in Packet, NEW src \in Addr, Receive(p, src) PROVE TokenInv'
      BY <1>1, <1>idle DEF Receive, Reject
<1>2. CASE LookupClients
  <2>1. CASE clients[knock.pkt.id] = None BY <1>2, <2>1, <1>idle DEF LookupClients
  <2>2. CASE clients[knock.pkt.id] # None
    <3>1. /\ policy'.auth = "Signature" /\ ~policy'.single_use /\ pc' = "admit"
          /\ UNCHANGED <<uses, tokens>>
          BY <1>2, <2>2 DEF LookupClients
    <3> QED BY <3>1 DEF TokenInv
  <2> QED BY <2>1, <2>2
<1>3. CASE LookupTokens
  <2>1. CASE tokens[knock.pkt.id] = None BY <1>3, <2>1, <1>idle DEF LookupTokens, Reject
  <2>2. CASE tokens[knock.pkt.id] # None
    <3>1. /\ policy'.auth = "Psk" /\ pc' = "admit"
          /\ UNCHANGED <<uses, tokens, knock>>
          BY <1>3, <2>2 DEF LookupTokens
    <3>2. knock.pkt.id \in Id BY <1>3, PacketType DEF LookupTokens, TypeOK, Knock
    <3>3. uses[knock.pkt.id] = 0 BY <2>2, <3>2 DEF TokenInv
    <3> QED BY <3>1, <3>3 DEF TokenInv
  <2> QED BY <2>1, <2>2
<1>4. CASE Admit
  <2>1. CASE pc' = "recv" BY <1>4, <2>1, <1>idle DEF Admit
  <2>2. CASE pc' # "recv"
    <3>1. /\ pc = "admit" /\ UNCHANGED <<uses, tokens, policy, knock>>
          /\ pc' = IF policy.single_use THEN "consume" ELSE "open"
          BY <1>4, <2>2 DEF Admit, Reject
    <3> QED BY <3>1 DEF TokenInv
  <2> QED BY <2>1, <2>2
<1>5. CASE Consume
  <2>1. knock.pkt.id \in Id BY <1>5, PacketType DEF Consume, TypeOK, Knock
  <2>2. uses[knock.pkt.id] = 0 BY <1>5 DEF Consume, TokenInv
  <2>3. /\ uses' = [uses EXCEPT ![knock.pkt.id] = @ + 1]
        /\ tokens' = [tokens EXCEPT ![knock.pkt.id] = None]
        /\ pc' = "open"
        BY <1>5 DEF Consume
  <2>4. \A i \in Id : uses'[i] <= 1 /\ (uses'[i] # 0 => tokens'[i] = None)
        BY <2>1, <2>2, <2>3 DEF TokenInv, TypeOK
  <2> QED BY <2>3, <2>4 DEF TokenInv
<1>6. CASE OpenGate BY <1>6, <1>idle DEF OpenGate
<1>7. CASE ReloadClients BY <1>7, <1>keep DEF ReloadClients
<1>8. CASE ReloadTokens
  <2>1. UNCHANGED <<pc, policy, knock>> /\ uses' = [i \in Id |-> 0] BY <1>8 DEF ReloadTokens
  <2>2. pc # "recv" => knock.pkt.id \in Id BY PacketType DEF TypeOK, Knock
  <2> QED BY <2>1, <2>2 DEF TokenInv
<1>9. CASE Publish BY <1>9, <1>keep DEF Publish
<1>10. CASE Restart BY <1>10 DEF Restart, TokenInv
<1>11. CASE Tick BY <1>11, <1>keep DEF Tick
<1>12. ASSUME NEW o \in 0..MaxDrift, ClockStep(o) PROVE TokenInv'
       BY <1>12, <1>keep DEF ClockStep
<1>13. CASE UNCHANGED vars BY <1>13, <1>keep DEF vars
<1> QED BY <1>1, <1>2, <1>3, <1>4, <1>5, <1>6, <1>7, <1>8, <1>9, <1>10, <1>11, <1>12, <1>13
        DEF Next, KnockLoop, Watcher, Environment

\* Between two loads of the token list, a token pays for at most one knock.
THEOREM TokenSafe == Spec => []TokenOncePerLoad
<1>1. Init => TypeOK /\ TokenInv
  <2>1. Init => TokenInv BY DEF Init, TokenInv
  <2> QED BY <2>1, TypeInit
<1>2. (TypeOK /\ TokenInv) /\ [Next]_vars => (TypeOK /\ TokenInv)' BY TypeStep, TokenStep
<1>3. TypeOK /\ TokenInv => TokenOncePerLoad BY DEF TokenInv, TokenOncePerLoad
<1> QED BY <1>1, <1>2, <1>3, PTL DEF Spec

-----------------------------------------------------------------------------
(***************************************************************************)
(* Refinement.  A grant is one step, OpenGate's, because a packet counts   *)
(* as granted only then; what the steps before it established is ReplayInv *)
(* and TrustInv, plus that the packet in hand is the one just admitted.    *)
(***************************************************************************)
\* A knock past replay.admit is counted as admitted.
AdmittedInv == pc \in {"consume", "open"} => admits[knock.pkt] >= 1

GateInv == TypeOK /\ ReplayInv /\ TrustInv /\ AdmittedInv

\* Every step keeps AdmittedInv.
LEMMA AdmittedStep == TypeOK /\ AdmittedInv /\ [Next]_vars => AdmittedInv'
<1> SUFFICES ASSUME TypeOK, AdmittedInv, [Next]_vars PROVE AdmittedInv' OBVIOUS
<1> USE DEF trustVars, threadVars, watchVars, clockVars, historyVars
<1>keep. ASSUME UNCHANGED <<knock, admits>>,
                pc' \in {"consume", "open"} => pc \in {"consume", "open"}
         PROVE  AdmittedInv'
         BY <1>keep DEF AdmittedInv
<1>1. CASE Admit
  <2>1. knock.pkt \in Packet BY <1>1 DEF Admit, TypeOK, Knock
  <2>2. CASE pc' = "recv" BY <2>2 DEF AdmittedInv
  <2>3. CASE pc' # "recv"
        BY <1>1, <2>1, <2>3 DEF Admit, Reject, AdmittedInv, TypeOK
  <2> QED BY <2>2, <2>3
<1>2. ASSUME NEW p \in Packet, NEW src \in Addr, Receive(p, src) PROVE AdmittedInv'
      BY <1>2 DEF Receive, Reject, AdmittedInv
<1>3. CASE LookupClients \/ LookupTokens \/ OpenGate \/ Restart
      BY <1>3 DEF LookupClients, LookupTokens, OpenGate, Restart, Reject, AdmittedInv
<1>4. CASE Consume BY <1>4, <1>keep DEF Consume
<1>5. CASE Watcher \/ Publish \/ Tick \/ \E o \in 0..MaxDrift : ClockStep(o)
      BY <1>5, <1>keep DEF Watcher, ReloadClients, ReloadTokens, Publish, Tick, ClockStep
<1>6. CASE UNCHANGED vars BY <1>6, <1>keep DEF vars
<1> QED BY <1>1, <1>2, <1>3, <1>4, <1>5, <1>6 DEF Next, KnockLoop, Environment

\* GateInv is an invariant of the daemon.
LEMMA GateInvariant == Spec => []GateInv
<1>1. Init => GateInv
  <2>1. Init => AdmittedInv BY DEF Init, AdmittedInv
  <2> QED BY <2>1, TypeInit, ReplayInit, TrustInit DEF GateInv
<1>2. GateInv /\ [Next]_vars => GateInv'
      BY TypeStep, ReplayStep, StoreStep, BasisStep, AdmittedStep DEF GateInv, TrustInv
<1> QED BY <1>1, <1>2, PTL DEF Spec

\* PolicyGate updates the same map with the same operators.
LEMMA SameCardinality == ASSUME NEW S PROVE Promise!Cardinality(S) = Cardinality(S)
BY DEF Promise!Cardinality, Cardinality


\* So its grants and its map update are those of GrantMap.
LEMMA SameInsert ==
    ASSUME NEW m, NEW a, NEW g, NEW ports, NEW now
    PROVE  /\ Promise!NoGrant = NoGrant
           /\ Promise!GrantFor(ports, now) = GrantFor(ports, now)
           /\ Promise!AllowInsert(m, a, g) = AllowInsert(m, a, g)
<1>1. Promise!NoGrant = NoGrant BY DEF Promise!NoGrant, NoGrant
<1>2. Promise!GrantFor(ports, now) = GrantFor(ports, now)
      BY DEF Promise!GrantFor, GrantFor
<1>3. Promise!AllowInsert(m, a, g) = AllowInsert(m, a, g)
      BY <1>1, SameCardinality DEF Promise!AllowInsert, AllowInsert
<1> QED BY <1>1, <1>2, <1>3

\* Writing the grant of the packet in hand is one GrantTo: the packet is new,
\* stamped within the skew, and one bundle in force authorises it in full.
LEMMA OpenIsGrant ==
    ASSUME GateInv, OpenGate
    PROVE  \E p \in Packet, a \in Addr, g \in Gen : Promise!GrantTo(p, a, g)
<1> USE DEF trustVars, threadVars, watchVars, clockVars, historyVars
<1> DEFINE q == knock.pkt
<1>inv. TypeOK /\ ReplayInv /\ StoreInv /\ BasisInv /\ AdmittedInv
        BY DEF GateInv, TrustInv
<1>1. /\ knock \in Knock /\ q \in Packet /\ knock.src \in Addr /\ q.ts \in Nat
      /\ knock.at \in Nat /\ knock.gen \in Gen /\ mono \in Nat /\ pc = "open"
      BY <1>inv, PacketType DEF OpenGate, TypeOK, Knock
<1>2. PICK g \in knock.gen..Newest : InForceSince(g, knock.at) /\ PolicyFrom(g, q.id)
      BY <1>1, <1>inv DEF BasisInv
<1>3. AuthorizedBy(g, q) BY <1>1, <1>2, <1>inv, PolicyAuthorizes DEF BasisInv
<1>4. g \in Gen
  <2>1. Newest \in Gen BY <1>inv DEF TypeOK, Newest
  <2> QED BY <2>1, <1>1, <1>2, GatekeeperAssumption DEF Gen
<1>5. /\ q.ts <= knock.at + MaxDrift + Skew /\ knock.at <= q.ts + Skew
      /\ knock.at <= mono /\ mono <= knock.at + MaxStall
      BY <1>1, <1>inv DEF ReplayInv, InFlight
<1>6. Promise!InForce(g)
  <2>1. until[g] \in Int BY <1>4, <1>inv DEF TypeOK
  <2> QED BY <2>1, <1>1, <1>2, <1>5, GatekeeperAssumption DEF Promise!InForce, InForceSince
<1>7. q.ts \in mono - (Skew + MaxStall)..mono + (Skew + MaxDrift)
      BY <1>1, <1>5, Budget
<1>8. q \notin Granted /\ Granted' = Granted \cup {q}
  <2>1. admits' = admits /\ pc' = "recv" BY DEF OpenGate
  <2>2. admits[q] >= 1 BY <1>1, <1>inv DEF AdmittedInv
  <2> QED BY <1>1, <2>1, <2>2 DEF Granted
<1>9. UNCHANGED <<mono, Newest, applied, until>> BY DEF OpenGate, Newest
<1>10. allow' = AllowInsert(allow, knock.src, GrantFor(q.ports, mono)) BY DEF OpenGate
<1>11. Promise!GrantTo(q, knock.src, g)
       BY <1>3, <1>6, <1>7, <1>8, <1>9, <1>10, SameInsert
       DEF Promise!GrantTo, Promise!policyVars
<1> QED BY <1>1, <1>4, <1>11

\* Every step of the daemon is a step of PolicyGate or leaves it as it was.
LEMMA StepIsPromised ==
    GateInv /\ GateInv' /\ [Next]_vars => [Promise!Next]_Promise!gateVars
<1> SUFFICES ASSUME GateInv, GateInv', [Next]_vars
             PROVE  Promise!Next \/ UNCHANGED Promise!gateVars
    OBVIOUS
<1> USE DEF trustVars, threadVars, watchVars, clockVars, historyVars
<1>inv. TypeOK /\ StoreInv /\ ReplayInv BY DEF GateInv, TrustInv
<1>stutter. ASSUME UNCHANGED <<allow, mono, wpc, loading, applied, until>>, Granted' = Granted
            PROVE  UNCHANGED Promise!gateVars
            BY <1>stutter DEF Promise!gateVars, Promise!policyVars, Newest
<1>same. ASSUME UNCHANGED admits,
                \/ UNCHANGED <<pc, knock>>
                \/ {pc, pc'} \cap {"consume", "open"} = {}
         PROVE  Granted' = Granted
         BY <1>same DEF Granted
<1>1. ASSUME NEW p \in Packet, NEW src \in Addr, Receive(p, src)
      PROVE  UNCHANGED Promise!gateVars
  <2>1. pc = "recv" /\ pc' \in {"clients", "recv"} /\ admits' = admits
        BY <1>1 DEF Receive, Reject
  <2>2. Granted' = Granted BY <2>1, <1>same
  <2> QED BY <1>1, <2>2, <1>stutter DEF Receive
<1>2. CASE LookupClients \/ LookupTokens
  <2>1. {pc, pc'} \cap {"consume", "open"} = {} /\ admits' = admits
        BY <1>2 DEF LookupClients, LookupTokens, Reject
  <2>2. Granted' = Granted BY <2>1, <1>same
  <2> QED BY <1>2, <2>2, <1>stutter DEF LookupClients, LookupTokens
<1>3. CASE Admit
  <2> DEFINE q == knock.pkt
  <2>1. q \in Packet /\ pc = "admit" BY <1>3, <1>inv DEF Admit, TypeOK, Knock
  <2>2. CASE admits' = admits
    <3>1. {pc, pc'} \cap {"consume", "open"} = {}
      <4>1. \A n \in Nat : n + 1 # n OBVIOUS
      <4>2. admits' # [admits EXCEPT ![q] = @ + 1] BY <2>1, <2>2, <4>1, <1>inv DEF TypeOK
      <4> QED BY <1>3, <4>2 DEF Admit, Reject
    <3>2. Granted' = Granted BY <2>2, <3>1, <1>same
    <3> QED BY <1>3, <3>2, <1>stutter DEF Admit
  <2>3. CASE admits' # admits
    <3>1. /\ admits' = [admits EXCEPT ![q] = @ + 1] /\ knock' = knock
          /\ pc' \in {"consume", "open"}
          BY <1>3, <2>3 DEF Admit
    <3>2. admits'[q] <= 1 BY <2>1 DEF GateInv, ReplayInv, NoReplay
    <3>3. admits[q] = 0 BY <2>1, <3>1, <3>2, <1>inv DEF TypeOK
    <3>4. Granted' = Granted BY <2>1, <3>1, <3>3, <1>inv DEF Granted, TypeOK
    <3> QED BY <1>3, <3>4, <1>stutter DEF Admit
  <2> QED BY <2>2, <2>3
<1>4. CASE Consume
  <2>1. Granted' = Granted BY <1>4 DEF Consume, Granted
  <2> QED BY <1>4, <2>1, <1>stutter DEF Consume
<1>5. CASE OpenGate BY <1>5, OpenIsGrant DEF Promise!Next
<1>6. CASE ReloadClients
  <2>1. Granted' = Granted BY <1>6, <1>same DEF ReloadClients
  <2>2. disk \in Gen /\ Newest = applied /\ disk > applied /\ Newest' = disk
        BY <1>6, <1>inv DEF ReloadClients, Newest, TypeOK
  <2>3. UNCHANGED <<allow, mono, applied, until>> BY <1>6 DEF ReloadClients
  <2>4. Promise!SetClients(disk) BY <2>1, <2>2, <2>3 DEF Promise!SetClients
  <2> QED BY <2>2, <2>4 DEF Promise!Next
<1>7. CASE ReloadTokens
  <2>1. Granted' = Granted BY <1>7, <1>same DEF ReloadTokens
  <2>2. /\ Newest = loading /\ Newest' = loading /\ applied' = loading
        /\ until' = [until EXCEPT ![applied] = mono]
        /\ UNCHANGED <<allow, mono>>
        BY <1>7 DEF ReloadTokens, Newest
  <2>3. applied # loading
        BY <1>7, <1>inv, GatekeeperAssumption DEF ReloadTokens, StoreInv, TypeOK, Gen
  <2>4. Promise!SetTokens BY <2>1, <2>2, <2>3 DEF Promise!SetTokens
  <2> QED BY <2>4 DEF Promise!Next
<1>8. CASE Restart
  <2>1. Granted' = {} BY <1>8 DEF Restart, Granted
  <2>2. disk \in Gen /\ Newest' = disk /\ applied' = disk /\ mono' = mono
        BY <1>8, <1>inv DEF Restart, Newest, TypeOK
  <2>3. allow' = [a \in Addr |-> NoGrant] /\ until' = [g \in Gen |-> Never]
        BY <1>8 DEF Restart
  <2>4. Promise!Restart(disk)
        BY <2>1, <2>2, <2>3 DEF Promise!Restart, Promise!NoGrant, NoGrant, Promise!Never, Never
  <2> QED BY <2>2, <2>4 DEF Promise!Next
<1>9. CASE Tick
  <2>1. Granted' = Granted BY <1>9, <1>same DEF Tick
  <2>2. UNCHANGED <<allow, Newest, applied, until>> /\ mono' = mono + 1
        BY <1>9 DEF Tick, Newest
  <2>3. Promise!Tick BY <2>1, <2>2 DEF Promise!Tick, Promise!policyVars
  <2> QED BY <2>3 DEF Promise!Next
<1>10. CASE Publish \/ \E o \in 0..MaxDrift : ClockStep(o)
  <2>1. Granted' = Granted BY <1>10, <1>same DEF Publish, ClockStep
  <2> QED BY <1>10, <2>1, <1>stutter DEF Publish, ClockStep
<1>11. CASE UNCHANGED vars
  <2>1. Granted' = Granted BY <1>11, <1>same DEF vars
  <2> QED BY <1>11, <2>1, <1>stutter DEF vars
<1> QED BY <1>1, <1>2, <1>3, <1>4, <1>5, <1>6, <1>7, <1>8, <1>9, <1>10, <1>11
        DEF Next, KnockLoop, Watcher, Environment

\* The daemon, lock by lock and on two clocks, writes a grant only as
\* PolicyGate does: in one step, for a packet this process has not granted,
\* stamped within the skew of the present, and authorised in full by one
\* bundle in force within a stall.
THEOREM DaemonKeepsPromise == Spec => ImplementsPolicyGate
<1>1. Init => Promise!Init
  <2> SUFFICES ASSUME Init PROVE Promise!Init OBVIOUS
  <2>1. Granted = {} BY DEF Init, Granted
  <2>2. Newest = 0 /\ applied = 0 /\ 0 \in Gen
        BY GatekeeperAssumption DEF Init, Newest, Gen
  <2> QED BY <2>1, <2>2 DEF Init, Promise!Init, Promise!NoGrant, NoGrant, Promise!Never, Never
<1>2. GateInv /\ GateInv' /\ [Next]_vars => [Promise!Next]_Promise!gateVars
      BY StepIsPromised
<1> QED BY <1>1, <1>2, GateInvariant, PTL DEF Spec, ImplementsPolicyGate, Promise!Spec

-----------------------------------------------------------------------------
(***************************************************************************)
(* A reload refuses nobody it lists.  lookup reads the clients and then    *)
(* the tokens, and a swap may fall between: the two misses are then of     *)
(* different bundles, and one bundle missing both has to be found.  It is  *)
(* there because no id is a client in one bundle and a token in another.   *)
(***************************************************************************)
\* A miss among the clients was a miss in one generation not older than the
\* knock, and a token missing from the store was used or is not listed.
MissInv ==
    /\ pc # "recv" => decision = "Pending"
    /\ pc = "tokens" =>
          \E g \in knock.gen..Newest : Bundle[g].clients[knock.pkt.id] = None
    /\ \A i \in Id : uses[i] = 0 => tokens[i] = Bundle[applied].tokens[i]

\* Every step keeps MissInv.
LEMMA MissStep ==
    GateInv /\ GateInv' /\ MissInv /\ [Next]_vars => MissInv'
<1> SUFFICES ASSUME GateInv, GateInv', MissInv, [Next]_vars PROVE MissInv' OBVIOUS
<1> USE DEF trustVars, threadVars, watchVars, clockVars, historyVars
<1>inv. TypeOK /\ StoreInv /\ BasisInv BY DEF GateInv, TrustInv
<1>list. ASSUME UNCHANGED <<uses, tokens, applied>>
         PROVE  \A i \in Id : uses'[i] = 0 => tokens'[i] = Bundle[applied'].tokens[i]
         BY <1>list DEF MissInv
<1>keep. ASSUME UNCHANGED <<uses, tokens, applied, wpc, loading, pc, knock, decision>>
         PROVE  MissInv'
         BY <1>keep DEF MissInv, Newest
<1>idle. ASSUME UNCHANGED <<uses, tokens, applied>>,
                pc' # "recv" => decision' = "Pending", pc' # "tokens"
         PROVE  MissInv'
         BY <1>idle, <1>list DEF MissInv
<1>1. ASSUME NEW p \in Packet, NEW src \in Addr, Receive(p, src) PROVE MissInv'
  <2>1. pc' \in {"recv", "clients"} /\ (pc' # "recv" => decision' = "Pending")
        BY <1>1 DEF Receive, Reject
  <2> QED BY <1>1, <2>1, <1>idle DEF Receive
<1>2. CASE LookupClients
  <2>1. decision' = "Pending" BY <1>2 DEF LookupClients, MissInv
  <2>2. CASE clients[knock.pkt.id] # None
        BY <1>2, <2>1, <2>2, <1>idle DEF LookupClients
  <2>3. CASE clients[knock.pkt.id] = None
    <3>1. /\ UNCHANGED <<uses, tokens, applied, wpc, loading, knock>> /\ pc' = "tokens"
          BY <1>2, <2>3 DEF LookupClients
    <3>2. Bundle[Newest].clients[knock.pkt.id] = None BY <2>3, <1>inv DEF StoreInv
    <3>3. Newest \in knock.gen..Newest
      <4>1. Newest \in Gen /\ applied <= Newest BY <1>inv, NewestFact
      <4>2. knock.gen \in Gen /\ applied \in Gen /\ knock.gen <= applied
            BY <1>2, <1>inv DEF LookupClients, TypeOK, Knock, BasisInv
      <4> QED BY <4>1, <4>2, GatekeeperAssumption DEF Gen
    <3>4. \E g \in knock'.gen..Newest' : Bundle[g].clients[knock'.pkt.id] = None
          BY <3>1, <3>2, <3>3 DEF Newest
    <3> QED BY <2>1, <3>1, <3>4, <1>list DEF MissInv
  <2> QED BY <2>2, <2>3
<1>3. CASE LookupTokens
  <2>1. pc' # "tokens" /\ (pc' # "recv" => decision' = "Pending")
        BY <1>3 DEF LookupTokens, Reject, MissInv
  <2> QED BY <1>3, <2>1, <1>idle DEF LookupTokens
<1>4. CASE Admit
  <2>1. pc' # "tokens" /\ (pc' # "recv" => decision' = "Pending")
        BY <1>4 DEF Admit, Reject, MissInv
  <2> QED BY <1>4, <2>1, <1>idle DEF Admit
<1>5. CASE Consume
  <2>1. knock.pkt.id \in Id BY <1>5, <1>inv, PacketType DEF Consume, TypeOK, Knock
  <2>2. /\ uses' = [uses EXCEPT ![knock.pkt.id] = @ + 1] /\ applied' = applied
        /\ tokens' = [tokens EXCEPT ![knock.pkt.id] = None]
        /\ pc' = "open" /\ decision' = "Pending"
        BY <1>5 DEF Consume, MissInv
  <2>3. \A i \in Id : uses'[i] = 0 => i # knock.pkt.id BY <2>1, <2>2, <1>inv DEF TypeOK
  <2>4. \A i \in Id : uses'[i] = 0 => tokens'[i] = Bundle[applied'].tokens[i]
        BY <2>2, <2>3, <1>inv DEF MissInv, TypeOK
  <2> QED BY <2>2, <2>4 DEF MissInv
<1>6. CASE OpenGate BY <1>6, <1>idle DEF OpenGate
<1>7. CASE ReloadClients \/ ReloadTokens
  <2>1. UNCHANGED <<pc, knock, decision>> BY <1>7 DEF ReloadClients, ReloadTokens
  <2>2. \A i \in Id : uses'[i] = 0 => tokens'[i] = Bundle[applied'].tokens[i]
        BY <1>7, <1>list DEF ReloadClients, ReloadTokens
  <2>3. Newest \in Int /\ Newest' \in Int /\ Newest <= Newest'
    <3>1. /\ applied \in Int /\ loading \in Int /\ disk \in Int
          /\ wpc = "tokens" => applied < loading
          BY <1>inv, GatekeeperAssumption DEF StoreInv, TypeOK, Gen
    <3>2. CASE ReloadClients BY <3>1, <3>2 DEF ReloadClients, Newest
    <3>3. CASE ReloadTokens BY <3>1, <3>3 DEF ReloadTokens, Newest
    <3> QED BY <1>7, <3>2, <3>3
  <2>4. ASSUME pc = "tokens"
        PROVE  \E g \in knock.gen..Newest' : Bundle[g].clients[knock.pkt.id] = None
    <3>1. PICK g \in knock.gen..Newest : Bundle[g].clients[knock.pkt.id] = None
          BY <2>4 DEF MissInv
    <3>2. knock.gen \in Int BY <2>4, <1>inv, GatekeeperAssumption DEF TypeOK, Knock, Gen
    <3>3. g \in knock.gen..Newest' BY <3>1, <3>2, <2>3
    <3> QED BY <3>1, <3>3
  <2> QED BY <2>1, <2>2, <2>4 DEF MissInv
<1>8. CASE Restart BY <1>8 DEF Restart, MissInv
<1>9. CASE Publish \/ Tick \/ \E o \in 0..MaxDrift : ClockStep(o)
      BY <1>9, <1>keep DEF Publish, Tick, ClockStep
<1>10. CASE UNCHANGED vars BY <1>10, <1>keep DEF vars
<1> QED BY <1>1, <1>2, <1>3, <1>4, <1>5, <1>6, <1>7, <1>8, <1>9, <1>10
        DEF Next, KnockLoop, Watcher, Environment

\* UnknownClient is decided only by the token lookup, and then some bundle in
\* force since the knock arrived lists the id nowhere, or the token was used.
LEMMA RefusalStep ==
    ASSUME GateInv, MissInv, [Next]_vars,
           pc \in {"clients", "tokens"}, decision' = "UnknownClient"
    PROVE  \/ uses[knock.pkt.id] > 0
           \/ \E g \in knock.gen..Newest :
                 /\ Bundle[g].clients[knock.pkt.id] = None
                 /\ Bundle[g].tokens[knock.pkt.id] = None
<1> USE DEF trustVars, threadVars, watchVars, clockVars, historyVars
<1> DEFINE i == knock.pkt.id
<1>inv. TypeOK /\ StoreInv /\ BasisInv BY DEF GateInv, TrustInv
<1>1. i \in Id /\ knock.gen \in Gen /\ applied \in Gen /\ uses[i] \in Nat
      BY <1>inv, PacketType DEF TypeOK, Knock
<1>2. decision = "Pending" BY DEF MissInv
<1>3. pc = "tokens" /\ tokens[i] = None
  <2>1. decision' # decision BY <1>2
  <2>2. LookupTokens \/ Restart
        BY <2>1 DEF Next, KnockLoop, Watcher, Environment, Receive, LookupClients, Admit,
           Consume, OpenGate, ReloadClients, ReloadTokens, Publish, Tick, ClockStep, vars
  <2>3. ~Restart BY DEF Restart
  <2> QED BY <2>1, <2>2, <2>3 DEF LookupTokens
<1>4. SUFFICES ASSUME uses[i] = 0
               PROVE  \E g \in knock.gen..Newest :
                         Bundle[g].clients[i] = None /\ Bundle[g].tokens[i] = None
      BY <1>1
<1>5. Bundle[applied].tokens[i] = None BY <1>1, <1>3, <1>4 DEF MissInv
<1>6. Newest \in Gen /\ applied \in knock.gen..Newest
  <2>1. Newest \in Gen /\ applied <= Newest BY <1>inv, NewestFact
  <2>2. knock.gen <= applied BY <1>inv DEF BasisInv
  <2> QED BY <2>1, <2>2, <1>1, GatekeeperAssumption DEF Gen
<1>7. CASE Bundle[applied].clients[i] = None BY <1>5, <1>6, <1>7
<1>8. CASE Bundle[applied].clients[i] # None
  <2>1. PICK g \in knock.gen..Newest : Bundle[g].clients[i] = None
        BY <1>3 DEF MissInv
  <2>2. g \in Gen BY <2>1, <1>1, <1>6, GatekeeperAssumption DEF Gen
  <2>3. Bundle[g].tokens[i] = None BY <1>1, <1>8, <2>2, DistinctIds
  <2> QED BY <2>1, <2>3
<1> QED BY <1>7, <1>8

\* A credential that every bundle since the knock was received lists is never
\* answered UnknownClient, unless it is a token already used up: no reload
\* opens a gap in SharedTrust between its two locks.
THEOREM ReloadRefusesNobody == Spec => KnownNeverRefused
<1>1. Init => MissInv BY DEF Init, MissInv
<1>2. GateInv /\ GateInv' /\ MissInv /\ [Next]_vars => MissInv' BY MissStep
<1>3. GateInv /\ MissInv /\ [Next]_vars =>
        [(pc \in {"clients", "tokens"} /\ decision' = "UnknownClient") =>
          \/ uses[knock.pkt.id] > 0
          \/ \E g \in knock.gen..Newest :
                /\ Bundle[g].clients[knock.pkt.id] = None
                /\ Bundle[g].tokens[knock.pkt.id] = None]_vars
      BY RefusalStep
<1> QED BY <1>1, <1>2, <1>3, GateInvariant, PTL DEF Spec, KnownNeverRefused
=============================================================================
