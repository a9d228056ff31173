-------------------------- MODULE GatekeeperProofs --------------------------
(***************************************************************************)
(* Theorems about Gatekeeper, for every set of packets, addresses and      *)
(* bundles and every skew, pinhole and capacity the assumptions allow.     *)
(***************************************************************************)
EXTENDS Gatekeeper, TLAPS

-----------------------------------------------------------------------------
(***************************************************************************)
(* Facts about the operators                                               *)
(***************************************************************************)
\* The ports of a packet are ports.
LEMMA PortsOfType == ASSUME NEW s \in Seq(Port) PROVE PortsOf(s) \subseteq Port
BY DEF PortsOf

\* BpfGateWriter::open builds a grant of ports the packet asked for.
LEMMA GrantForType ==
    ASSUME NEW s \in Seq(Port), NEW now \in Nat
    PROVE  /\ GrantFor(s, now) \in Grant
           /\ GrantFor(s, now).expiry = now + Pinhole
           /\ GrantFor(s, now).ports \subseteq PortsOf(s)
           /\ GrantFor(s, now) # NoGrant
BY GrantAssumption DEF GrantFor, Grant, PortsOf, NoGrant

\* The map update touches one key and leaves a map of grants.
LEMMA AllowInsertType ==
    ASSUME NEW m \in [Addr -> Grant], NEW a \in Addr, NEW g \in Grant
    PROVE  /\ AllowInsert(m, a, g) \in [Addr -> Grant]
           /\ \A b \in Addr : AllowInsert(m, a, g)[b] = m[b] \/ b = a
           /\ AllowInsert(m, a, g)[a] \in {m[a], g}
BY DEF AllowInsert

\* The replay window is twice the skew and one second.
LEMMA WindowFact == Skew \in Nat /\ Window = 2 * Skew + Second
<1>1. SkewSeconds \in Nat /\ Second \in Nat BY GatekeeperAssumption
<1>2. \A x, y \in Nat : x * y \in Nat OBVIOUS
<1>3. \A x, y \in Nat : (x * 2 + 1) * y = 2 * (x * y) + y OBVIOUS
<1> QED BY <1>1, <1>2, <1>3 DEF Skew, Window

\* The extra second exceeds the clock steps and the stall together.
LEMMA Budget ==
    /\ MaxDrift \in Nat /\ MaxStall \in Nat /\ Second \in Nat /\ Skew \in Nat
    /\ Window \in Nat /\ 2 * Skew + MaxDrift + MaxStall < Window
BY GatekeeperAssumption, WindowFact

\* Pruning only forgets.
LEMMA PrunedType ==
    ASSUME NEW m \in [Nonce -> Nat \cup {Absent}]
    PROVE  /\ Pruned(m) \in [Nonce -> Nat \cup {Absent}]
           /\ \A n \in Nonce : Pruned(m)[n] # Absent =>
                 m[n] # Absent /\ Pruned(m)[n] = m[n]
           /\ \A n \in Nonce : m[n] # Absent /\ Pruned(m)[n] = Absent =>
                 ~(mono - m[n] < Window)
BY DEF Pruned

\* A packet's fields have their types.
LEMMA PacketType ==
    ASSUME NEW p \in Packet
    PROVE  /\ p.ts \in Nat /\ p.nonce \in Nonce /\ p.id \in Id
           /\ p.ports \in Seq(Port) /\ PortsOf(p.ports) \subseteq Port
BY GatekeeperAssumption, PortsOfType DEF Authorization

\* lookup builds a ClientPolicy.
LEMMA PolicyType ==
    ASSUME NEW k \in Key, NEW ps \in SUBSET Port,
           NEW how \in {"Signature", "Psk"}, NEW once \in BOOLEAN
    PROVE  [key |-> k, ports |-> ps, auth |-> how, single_use |-> once] \in Policy
BY Zenon DEF Policy

\* What the check before the lookup establishes.
LEMMA PrecheckType ==
    ASSUME NEW p \in Packet
    PROVE  Precheck(p) \in Rejects \cup {"Pending"}
BY DEF Precheck, Rejects

-----------------------------------------------------------------------------
(***************************************************************************)
(* Type correctness                                                        *)
(***************************************************************************)
\* Init makes every variable well typed.
LEMMA TypeInit == Init => TypeOK
<1> SUFFICES ASSUME Init PROVE TypeOK OBVIOUS
<1>1. NoGrant \in Grant BY DEF NoGrant, Grant
<1>2. 0 \in Gen BY GatekeeperAssumption DEF Gen
<1>3. Never \in Int BY GatekeeperAssumption, GrantAssumption DEF Never
<1>4. Bundle[0].clients \in [Id -> Entry \cup {None}] /\ Bundle[0].tokens \in [Id -> Entry \cup {None}]
      BY <1>2, GatekeeperAssumption
<1> QED BY <1>1, <1>2, <1>3, <1>4 DEF Init, TypeOK

\* Every step keeps every variable well typed.
LEMMA TypeStep == TypeOK /\ [Next]_vars => TypeOK'
<1> SUFFICES ASSUME TypeOK, [Next]_vars PROVE TypeOK' OBVIOUS
<1> USE DEF trustVars, threadVars, watchVars, clockVars, historyVars
<1>bundle. \A g \in Gen : /\ Bundle[g].clients \in [Id -> Entry \cup {None}]
                          /\ Bundle[g].tokens \in [Id -> Entry \cup {None}]
      BY GatekeeperAssumption
<1>1. ASSUME NEW p \in Packet, NEW src \in Addr, Receive(p, src) PROVE TypeOK'
  <2>1. CASE Precheck(p) = "Pending"
        BY <1>1, <2>1 DEF Receive, TypeOK, Knock
  <2>2. CASE Precheck(p) # "Pending"
        BY <1>1, <2>2, PrecheckType DEF Receive, Reject, TypeOK
  <2> QED BY <2>1, <2>2
<1>2. CASE LookupClients
  <2>1. knock \in Knock /\ knock.pkt.id \in Id
        BY <1>2, PacketType DEF LookupClients, TypeOK, Knock
  <2>2. CASE clients[knock.pkt.id] # None
    <3>1. clients[knock.pkt.id] \in Entry BY <2>1, <2>2 DEF TypeOK
    <3> DEFINE e == clients[knock.pkt.id]
    <3>k. e.key \in Key /\ e.ports \in SUBSET Port BY <3>1 DEF Entry
    <3>p. policy' = [key |-> e.key, ports |-> e.ports, auth |-> "Signature", single_use |-> FALSE]
          BY <1>2, <2>2 DEF LookupClients
    <3>2. policy' \in Policy BY <3>k, <3>p, PolicyType
    <3> QED BY <1>2, <2>1, <2>2, <3>2 DEF LookupClients, TypeOK
  <2>3. CASE clients[knock.pkt.id] = None
        BY <1>2, <2>1, <2>3 DEF LookupClients, TypeOK
  <2> QED BY <2>2, <2>3
<1>3. CASE LookupTokens
  <2>1. knock \in Knock /\ knock.pkt.id \in Id
        BY <1>3, PacketType DEF LookupTokens, TypeOK, Knock
  <2>2. CASE tokens[knock.pkt.id] # None
    <3>1. tokens[knock.pkt.id] \in Entry BY <2>1, <2>2 DEF TypeOK
    <3> DEFINE e == tokens[knock.pkt.id]
    <3>k. e.key \in Key /\ e.ports \in SUBSET Port BY <3>1 DEF Entry
    <3>p. policy' = [key |-> e.key, ports |-> e.ports, auth |-> "Psk", single_use |-> TRUE]
          BY <1>3, <2>2 DEF LookupTokens
    <3>2. policy' \in Policy BY <3>k, <3>p, PolicyType
    <3> QED BY <1>3, <2>1, <2>2, <3>2 DEF LookupTokens, TypeOK
  <2>3. CASE tokens[knock.pkt.id] = None
        BY <1>3, <2>1, <2>3 DEF LookupTokens, Reject, Rejects, TypeOK
  <2> QED BY <2>2, <2>3
<1>4. CASE Admit
  <2>1. knock \in Knock /\ knock.pkt \in Packet /\ knock.pkt.nonce \in Nonce /\ policy \in Policy
        BY <1>4, PacketType DEF Admit, TypeOK, Knock
  <2>2. seen' \in [Nonce -> Nat \cup {Absent}] /\ admits' \in [Packet -> Nat]
        BY <1>4, <2>1, PrunedType DEF Admit, TypeOK
  <2>3. /\ pc' \in {"recv", "consume", "open"}
        /\ decision' \in Rejects \cup {"Pending", "Opened"}
        /\ knock' \in Knock \cup {None} /\ (pc' # "recv" => knock' \in Knock)
        /\ policy' \in Policy \cup {None} /\ (pc' # "recv" => policy' \in Policy)
        BY <1>4, <2>1 DEF Admit, Reject, Rejects, TypeOK
  <2> QED BY <1>4, <2>2, <2>3 DEF Admit, TypeOK
<1>5. CASE Consume
  <2>1. knock \in Knock /\ knock.pkt.id \in Id
        BY <1>5, PacketType DEF Consume, TypeOK, Knock
  <2> QED BY <1>5, <2>1 DEF Consume, TypeOK
<1>6. CASE OpenGate
  <2>1. knock \in Knock /\ knock.pkt \in Packet /\ knock.src \in Addr
        BY <1>6 DEF OpenGate, TypeOK, Knock
  <2> DEFINE g == GrantFor(knock.pkt.ports, mono)
  <2>2. g \in Grant /\ g.expiry \in Nat
        BY <2>1, PacketType, GrantForType DEF TypeOK, Grant
  <2>3. allow' \in [Addr -> Grant]
        BY <1>6, <2>1, <2>2, AllowInsertType DEF OpenGate, TypeOK
  <2>4. promise' \in [Addr -> Nat]
        BY <1>6, <2>1, <2>2 DEF OpenGate, TypeOK
  <2>5. grantor' \in [Addr -> Packet \cup {None}]
        BY <1>6, <2>1 DEF OpenGate, TypeOK
  <2> QED BY <1>6, <2>3, <2>4, <2>5 DEF OpenGate, TypeOK
<1>7. CASE ReloadClients
      BY <1>7, <1>bundle DEF ReloadClients, TypeOK
<1>8. CASE ReloadTokens
      BY <1>8, <1>bundle DEF ReloadTokens, TypeOK
<1>9. CASE Publish
      BY <1>9, GatekeeperAssumption DEF Publish, TypeOK, Gen
<1>10. CASE Restart
  <2>1. NoGrant \in Grant BY DEF NoGrant, Grant
  <2>2. Never \in Int BY GatekeeperAssumption, GrantAssumption DEF Never
  <2> QED BY <1>10, <2>1, <2>2, <1>bundle DEF Restart, TypeOK
<1>11. CASE Tick BY <1>11 DEF Tick, TypeOK
<1>12. ASSUME NEW o \in 0..MaxDrift, ClockStep(o) PROVE TypeOK'
       BY <1>12 DEF ClockStep, TypeOK
<1>13. CASE UNCHANGED vars BY <1>13 DEF vars, TypeOK
<1> QED BY <1>1, <1>2, <1>3, <1>4, <1>5, <1>6, <1>7, <1>8, <1>9, <1>10, <1>11, <1>12, <1>13
        DEF Next, KnockLoop, Watcher, Environment

\* Type correctness of the knock loop, the watcher and their shared state.
THEOREM TypeCorrect == Spec => []TypeOK
BY TypeInit, TypeStep, PTL DEF Spec

-----------------------------------------------------------------------------
(***************************************************************************)
(* No replay.  NoReplay is not inductive: that a packet was admitted says  *)
(* nothing of the cache.  RememberedOrStale says what it leaves behind,    *)
(* and InFlight what the skew check established for the packet in hand.    *)
(***************************************************************************)
\* The packet being judged passed the skew check at knock.at, at most
\* MaxStall ago.
InFlight ==
    pc # "recv" =>
        /\ knock.pkt.ts <= knock.at + MaxDrift + Skew
        /\ knock.at <= knock.pkt.ts + Skew
        /\ knock.at <= mono /\ mono <= knock.at + MaxStall

SeenInPast == \A n \in Nonce : seen[n] <= mono

ReplayInv == InFlight /\ SeenInPast /\ RememberedOrStale /\ NoReplay

\* What passing the skew check says of the monotonic clock.
LEMMA SkewCheck ==
    ASSUME TypeOK, NEW p \in Packet, Precheck(p) = "Pending"
    PROVE  p.ts <= mono + MaxDrift + Skew /\ mono <= p.ts + Skew
<1>1. AbsDiff(Wall, p.ts) <= Skew
  <2>1. AbsDiff(Wall, p.ts) \in Int BY PacketType DEF AbsDiff, Wall, TypeOK
  <2> QED BY <2>1, WindowFact DEF Precheck
<1> QED BY <1>1, PacketType, WindowFact, GatekeeperAssumption DEF AbsDiff, Wall, TypeOK

\* An admitted packet that the pruned cache no longer holds is stale.
LEMMA ForgottenIsStale ==
    ASSUME TypeOK, ReplayInv, NEW p \in Packet, admits[p] >= 1,
           Pruned(seen)[p.nonce] = Absent
    PROVE  p.ts + Skew + MaxStall < mono
<1>1. CASE ~Remembered(p) BY <1>1 DEF ReplayInv, RememberedOrStale
<1>2. CASE Remembered(p)
  <2>1. p.nonce \in Nonce /\ p.ts \in Nat BY PacketType
  <2>2. seen[p.nonce] \in Nat BY <1>2, <2>1 DEF TypeOK, Remembered
  <2>3. ~(mono - seen[p.nonce] < Window)
        BY <1>2, <2>1, PrunedType DEF TypeOK, Remembered
  <2>4. p.ts <= seen[p.nonce] + MaxDrift + Skew BY <1>2 DEF Remembered
  <2>5. mono \in Nat BY DEF TypeOK
  <2> QED BY <2>1, <2>2, <2>3, <2>4, <2>5, Budget
<1> QED BY <1>1, <1>2

\* Pruning the cache keeps every admitted packet remembered or stale.
LEMMA PruneKeeps ==
    ASSUME TypeOK, ReplayInv, NEW p \in Packet, admits[p] >= 1
    PROVE  \/ /\ Pruned(seen)[p.nonce] # Absent
              /\ p.ts <= Pruned(seen)[p.nonce] + MaxDrift + Skew
           \/ p.ts + Skew + MaxStall < mono
<1>1. CASE Pruned(seen)[p.nonce] = Absent BY <1>1, ForgottenIsStale
<1>2. CASE Pruned(seen)[p.nonce] # Absent
  <2>1. p.nonce \in Nonce BY PacketType
  <2>2. Pruned(seen)[p.nonce] = seen[p.nonce]
        BY <1>2, <2>1, PrunedType DEF TypeOK
  <2> QED BY <1>2, <2>2 DEF ReplayInv, RememberedOrStale, Remembered
<1> QED BY <1>1, <1>2

\* Pruning records nothing from the future.
LEMMA PrunedInPast ==
    ASSUME TypeOK, ReplayInv PROVE \A n \in Nonce : Pruned(seen)[n] <= mono
<1> SUFFICES ASSUME NEW n \in Nonce PROVE Pruned(seen)[n] <= mono OBVIOUS
<1>1. Pruned(seen)[n] = Absent \/ Pruned(seen)[n] = seen[n]
      BY PrunedType DEF TypeOK
<1>2. seen[n] <= mono /\ Absent <= mono
      BY DEF ReplayInv, SeenInPast, TypeOK, Absent
<1> QED BY <1>1, <1>2

\* The initial cache is empty and nothing was admitted.
LEMMA ReplayInit == Init => ReplayInv
<1> SUFFICES ASSUME Init PROVE ReplayInv OBVIOUS
<1>1. InFlight BY DEF Init, InFlight
<1>2. SeenInPast BY DEF Init, SeenInPast, Absent
<1>3. RememberedOrStale /\ NoReplay BY DEF Init, RememberedOrStale, NoReplay
<1> QED BY <1>1, <1>2, <1>3 DEF ReplayInv

\* Every step keeps ReplayInv.
LEMMA ReplayStep == TypeOK /\ ReplayInv /\ [Next]_vars => ReplayInv'
<1> SUFFICES ASSUME TypeOK, ReplayInv, [Next]_vars PROVE ReplayInv' OBVIOUS
<1> USE DEF trustVars, threadVars, watchVars, clockVars, historyVars
<1>same. ASSUME UNCHANGED <<mono, seen, admits>> PROVE (SeenInPast /\ RememberedOrStale /\ NoReplay)'
  <2>1. SeenInPast' BY <1>same DEF ReplayInv, SeenInPast
  <2>2. RememberedOrStale' BY <1>same DEF ReplayInv, RememberedOrStale, Remembered
  <2>3. NoReplay' BY <1>same DEF ReplayInv, NoReplay
  <2> QED BY <2>1, <2>2, <2>3
<1>flight. ASSUME UNCHANGED <<mono, knock>>, pc # "recv" PROVE InFlight'
           BY <1>flight DEF ReplayInv, InFlight
<1>1. ASSUME NEW p \in Packet, NEW src \in Addr, Receive(p, src) PROVE ReplayInv'
  <2>1. UNCHANGED <<mono, seen, admits>> BY <1>1 DEF Receive
  <2>2. InFlight'
    <3>1. CASE Precheck(p) = "Pending"
      <4>1. knock'.pkt = p /\ knock'.at = mono /\ mono' = mono
            BY <1>1, <3>1 DEF Receive
      <4>2. p.ts <= mono + MaxDrift + Skew /\ mono <= p.ts + Skew BY <3>1, SkewCheck
      <4> QED BY <4>1, <4>2, GatekeeperAssumption DEF InFlight, TypeOK
    <3>2. CASE Precheck(p) # "Pending" BY <1>1, <3>2 DEF Receive, Reject, InFlight
    <3> QED BY <3>1, <3>2
  <2> QED BY <2>1, <2>2, <1>same DEF ReplayInv
<1>2. CASE LookupClients
  <2>1. UNCHANGED <<mono, seen, admits, knock>> /\ pc # "recv" BY <1>2 DEF LookupClients
  <2> QED BY <2>1, <1>same, <1>flight DEF ReplayInv
<1>3. CASE LookupTokens
  <2>1. UNCHANGED <<mono, seen, admits>> /\ pc # "recv" BY <1>3 DEF LookupTokens
  <2>2. pc' = "recv" \/ knock' = knock BY <1>3 DEF LookupTokens, Reject
  <2>3. InFlight' BY <2>1, <2>2, <1>flight DEF InFlight
  <2> QED BY <2>1, <2>3, <1>same DEF ReplayInv
<1>4. CASE Admit
  <2> DEFINE q == knock.pkt
             fresh == Pruned(seen)[q.nonce] = Absent
  <2>1. /\ pc = "admit" /\ knock \in Knock /\ q \in Packet /\ q.nonce \in Nonce
        /\ q.ts \in Nat /\ knock.at \in Nat /\ mono \in Nat /\ mono' = mono
        BY <1>4, PacketType DEF Admit, TypeOK, Knock
  <2>2. InFlight'
    <3>1. pc' = "recv" \/ knock' = knock BY <1>4 DEF Admit, Reject
    <3> QED BY <2>1, <3>1, <1>flight DEF InFlight
  <2>3. CASE UNCHANGED <<seen, admits>> BY <2>1, <2>2, <2>3, <1>same DEF ReplayInv
  <2>4. CASE seen' = Pruned(seen) /\ admits' = admits
    <3>1. SeenInPast'
          BY <2>1, <2>4, PrunedInPast DEF SeenInPast
    <3>2. RememberedOrStale'
          BY <2>1, <2>4, PruneKeeps DEF RememberedOrStale, Remembered
    <3>3. NoReplay' BY <2>4 DEF ReplayInv, NoReplay
    <3> QED BY <2>2, <3>1, <3>2, <3>3 DEF ReplayInv
  <2>5. CASE /\ fresh
             /\ seen' = [Pruned(seen) EXCEPT ![q.nonce] = mono]
             /\ admits' = [admits EXCEPT ![q] = @ + 1]
    <3>1. admits[q] = 0
      <4>1. SUFFICES ASSUME admits[q] >= 1 PROVE FALSE BY <2>1 DEF TypeOK
      <4>2. q.ts + Skew + MaxStall < mono BY <2>1, <2>5, <4>1, ForgottenIsStale
      <4>3. knock.at <= q.ts + Skew /\ mono <= knock.at + MaxStall
            BY <2>1 DEF ReplayInv, InFlight
      <4> QED BY <2>1, <4>2, <4>3, WindowFact, GatekeeperAssumption
    <3>2. q.ts <= mono + MaxDrift + Skew
          BY <2>1, WindowFact, GatekeeperAssumption DEF ReplayInv, InFlight
    <3>3. /\ seen'[q.nonce] = mono
          /\ \A n \in Nonce : n # q.nonce => seen'[n] = Pruned(seen)[n]
          BY <2>1, <2>5, PrunedType DEF TypeOK
    <3>4. SeenInPast'
      <4> SUFFICES ASSUME NEW n \in Nonce PROVE seen'[n] <= mono
          BY <2>1 DEF SeenInPast
      <4>1. CASE n = q.nonce BY <4>1, <3>3, <2>1
      <4>2. CASE n # q.nonce
            BY <4>2, <3>3, <2>1, PrunedInPast
      <4> QED BY <4>1, <4>2
    <3>5. RememberedOrStale'
      <4> SUFFICES ASSUME NEW p \in Packet, admits'[p] >= 1
                   PROVE  Remembered(p)' \/ p.ts + Skew + MaxStall < mono'
          BY DEF RememberedOrStale
      <4>1. p.nonce \in Nonce /\ p.ts \in Nat BY PacketType
      <4>2. CASE p = q
            BY <4>2, <2>1, <3>2, <3>3 DEF Remembered, Absent
      <4>3. CASE p # q
        <5>1. admits[p] >= 1 BY <4>3, <2>1, <2>5 DEF TypeOK
        <5>2. CASE p.nonce # q.nonce
              BY <5>1, <5>2, <4>1, <3>3, <2>1, PruneKeeps DEF Remembered
        <5>3. CASE p.nonce = q.nonce
              BY <5>1, <5>3, <2>1, <2>5, ForgottenIsStale
        <5> QED BY <5>2, <5>3
      <4> QED BY <4>2, <4>3
    <3>6. NoReplay'
          BY <2>1, <2>5, <3>1 DEF ReplayInv, NoReplay, TypeOK
    <3> QED BY <2>2, <3>4, <3>5, <3>6 DEF ReplayInv
  <2> QED BY <1>4, <2>3, <2>4, <2>5 DEF Admit
<1>5. CASE Consume
  <2>1. UNCHANGED <<mono, seen, admits, knock>> /\ pc # "recv" BY <1>5 DEF Consume
  <2> QED BY <2>1, <1>same, <1>flight DEF ReplayInv
<1>6. CASE OpenGate
  <2>1. UNCHANGED <<mono, seen, admits>> /\ pc' = "recv" BY <1>6 DEF OpenGate
  <2>2. InFlight' BY <2>1 DEF InFlight
  <2> QED BY <2>1, <2>2, <1>same DEF ReplayInv
<1>7. CASE ReloadClients \/ ReloadTokens \/ Publish \/ \E o \in 0..MaxDrift : ClockStep(o)
  <2>1. UNCHANGED <<mono, seen, admits, knock, pc>>
        BY <1>7 DEF ReloadClients, ReloadTokens, Publish, ClockStep
  <2>2. InFlight' BY <2>1 DEF ReplayInv, InFlight
  <2> QED BY <2>1, <2>2, <1>same DEF ReplayInv
<1>8. CASE Restart
  <2>1. InFlight' BY <1>8 DEF Restart, InFlight
  <2>2. SeenInPast' BY <1>8 DEF Restart, SeenInPast, Absent, TypeOK
  <2>3. RememberedOrStale' /\ NoReplay' BY <1>8 DEF Restart, RememberedOrStale, NoReplay
  <2> QED BY <2>1, <2>2, <2>3 DEF ReplayInv
<1>9. CASE Tick
  <2>1. UNCHANGED <<seen, admits, knock, pc>> /\ mono' = mono + 1 /\ mono \in Nat
        BY <1>9 DEF Tick, TypeOK
  <2>2. InFlight'
    <3> SUFFICES ASSUME pc # "recv" PROVE
          /\ knock.pkt.ts <= knock.at + MaxDrift + Skew
          /\ knock.at <= knock.pkt.ts + Skew
          /\ knock.at <= mono + 1 /\ mono + 1 <= knock.at + MaxStall
        BY <2>1 DEF InFlight
    <3>1. knock.at \in Nat BY DEF TypeOK, Knock
    <3> QED BY <1>9, <2>1, <3>1, GatekeeperAssumption DEF ReplayInv, InFlight, Tick
  <2>3. SeenInPast' BY <2>1 DEF ReplayInv, SeenInPast, TypeOK, Absent
  <2>4. RememberedOrStale'
        BY <2>1, PacketType, WindowFact, GatekeeperAssumption
        DEF ReplayInv, RememberedOrStale, Remembered
  <2>5. NoReplay' BY <2>1 DEF ReplayInv, NoReplay
  <2> QED BY <2>2, <2>3, <2>4, <2>5 DEF ReplayInv
<1>10. CASE UNCHANGED vars
  <2>1. UNCHANGED <<mono, seen, admits, knock, pc>> BY <1>10 DEF vars
  <2>2. InFlight' BY <2>1 DEF ReplayInv, InFlight
  <2> QED BY <2>1, <2>2, <1>same DEF ReplayInv
<1> QED BY <1>1, <1>2, <1>3, <1>4, <1>5, <1>6, <1>7, <1>8, <1>9, <1>10
        DEF Next, KnockLoop, Watcher, Environment

\* One process never admits the same sealed knock twice, for every skew, as
\* long as steps of the wall clock and one call of admit together stay under
\* the second that MemReplay's window adds to twice the skew.
THEOREM ReplaySafe == Spec => []NoReplay
<1>1. Init => TypeOK /\ ReplayInv BY TypeInit, ReplayInit
<1>2. (TypeOK /\ ReplayInv) /\ [Next]_vars => (TypeOK /\ ReplayInv)' BY TypeStep, ReplayStep
<1>3. TypeOK /\ ReplayInv => NoReplay BY DEF ReplayInv
<1> QED BY <1>1, <1>2, <1>3, PTL DEF Spec

\* The invariant behind it: an admitted knock is remembered or stale.
THEOREM ReplayMemory == Spec => []RememberedOrStale
<1>1. Init => TypeOK /\ ReplayInv BY TypeInit, ReplayInit
<1>2. (TypeOK /\ ReplayInv) /\ [Next]_vars => (TypeOK /\ ReplayInv)' BY TypeStep, ReplayStep
<1>3. TypeOK /\ ReplayInv => RememberedOrStale BY DEF ReplayInv
<1> QED BY <1>1, <1>2, <1>3, PTL DEF Spec
-----------------------------------------------------------------------------
(***************************************************************************)
(* The cache holds admitted nonces only                                    *)
(***************************************************************************)
\* Every step keeps a cached nonce an admitted one: replay.admit records a
\* nonce in the step that admits its knock, and pruning only forgets.
LEMMA NonceStep ==
    TypeOK /\ NonceOnlySpentByAdmitted /\ [Next]_vars => NonceOnlySpentByAdmitted'
<1> SUFFICES ASSUME TypeOK, NonceOnlySpentByAdmitted, [Next]_vars
             PROVE  NonceOnlySpentByAdmitted'
    OBVIOUS
<1> USE DEF trustVars, threadVars, watchVars, clockVars, historyVars
<1>same. ASSUME UNCHANGED <<seen, admits>> PROVE NonceOnlySpentByAdmitted'
         BY <1>same DEF NonceOnlySpentByAdmitted
<1>1. CASE Admit
  <2> DEFINE q == knock.pkt
  <2>1. q \in Packet /\ q.nonce \in Nonce
        BY <1>1, PacketType DEF Admit, TypeOK, Knock
  <2>2. CASE UNCHANGED <<seen, admits>> BY <2>2, <1>same
  <2>3. CASE seen' = Pruned(seen) /\ admits' = admits
        BY <2>3, PrunedType DEF NonceOnlySpentByAdmitted, TypeOK
  <2>4. CASE /\ seen' = [Pruned(seen) EXCEPT ![q.nonce] = mono]
             /\ admits' = [admits EXCEPT ![q] = @ + 1]
    <3> SUFFICES ASSUME NEW n \in Nonce, seen'[n] # Absent
                 PROVE  \E p \in Packet : p.nonce = n /\ admits'[p] >= 1
        BY DEF NonceOnlySpentByAdmitted
    <3>1. CASE n = q.nonce
          BY <2>1, <2>4, <3>1 DEF TypeOK
    <3>2. CASE n # q.nonce
      <4>1. seen'[n] = Pruned(seen)[n] BY <2>4, <3>2, PrunedType DEF TypeOK
      <4>2. PICK p \in Packet : p.nonce = n /\ admits[p] >= 1
            BY <4>1, PrunedType DEF NonceOnlySpentByAdmitted, TypeOK
      <4>3. admits'[p] >= 1 BY <2>1, <2>4, <4>2 DEF TypeOK
      <4> QED BY <4>2, <4>3
    <3> QED BY <3>1, <3>2
  <2> QED BY <1>1, <2>2, <2>3, <2>4 DEF Admit
<1>2. CASE Restart BY <1>2 DEF Restart, NonceOnlySpentByAdmitted
<1>3. ASSUME NEW p \in Packet, NEW src \in Addr, Receive(p, src)
      PROVE  NonceOnlySpentByAdmitted'
      BY <1>3, <1>same DEF Receive
<1>4. CASE LookupClients \/ LookupTokens \/ Consume \/ OpenGate
      BY <1>4, <1>same DEF LookupClients, LookupTokens, Consume, OpenGate
<1>5. CASE Watcher \/ Publish \/ Tick \/ \E o \in 0..MaxDrift : ClockStep(o)
      BY <1>5, <1>same DEF Watcher, ReloadClients, ReloadTokens, Publish, Tick, ClockStep
<1>6. CASE UNCHANGED vars BY <1>6, <1>same DEF vars
<1> QED BY <1>1, <1>2, <1>3, <1>4, <1>5, <1>6 DEF Next, KnockLoop, Environment

\* A forged or over-reaching knock never uses up a nonce: what the replay
\* cache holds was carried by a knock that passed every check.
THEOREM NonceSafe == Spec => []NonceOnlySpentByAdmitted
<1>1. Init => TypeOK /\ NonceOnlySpentByAdmitted
  <2>1. Init => NonceOnlySpentByAdmitted BY DEF Init, NonceOnlySpentByAdmitted
  <2> QED BY <2>1, TypeInit
<1>2. (TypeOK /\ NonceOnlySpentByAdmitted) /\ [Next]_vars
          => (TypeOK /\ NonceOnlySpentByAdmitted)'
      BY TypeStep, NonceStep
<1> QED BY <1>1, <1>2, PTL DEF Spec
=============================================================================
