---------------------------- MODULE FloorProofs -----------------------------
(***************************************************************************)
(* The two layers in front of a cloaked port, for every set of addresses,  *)
(* ports and bundles: what stays closed while the daemon starts, reloads,  *)
(* fails to call nft and dies.                                             *)
(***************************************************************************)
EXTENDS Floor, TLAPS

-----------------------------------------------------------------------------
(***************************************************************************)
(* Facts about the operators                                               *)
(***************************************************************************)
\* BpfGateWriter::open builds a grant of ports the packet asked for.
LEMMA GrantForFacts ==
    ASSUME NEW s \in Seq(Port), NEW now \in Nat
    PROVE  /\ GrantFor(s, now) \in Grant
           /\ GrantFor(s, now).expiry = now + Pinhole
           /\ GrantFor(s, now).ports \subseteq PortsOf(s)
BY GrantAssumption DEF GrantFor, Grant, PortsOf

\* The map update touches one key and leaves a map of grants.
LEMMA AllowInsertFacts ==
    ASSUME NEW m \in [Addr -> Grant], NEW a \in Addr, NEW g \in Grant
    PROVE  /\ AllowInsert(m, a, g) \in [Addr -> Grant]
           /\ \A b \in Addr : AllowInsert(m, a, g)[b] = m[b] \/ b = a
           /\ AllowInsert(m, a, g)[a] \in {m[a], g}
BY DEF AllowInsert

\* A knock asks for one port at least.
LEMMA AsksForPort ==
    ASSUME NEW ps \in PortList
    PROVE  ps \in Seq(Port) /\ \E q \in Port : q \in PortsOf(ps)
<1>1. ps \in Seq(Port) /\ ps # <<>> BY FloorAssumption
<1>2. Len(ps) \in Nat /\ Len(ps) # 0 BY <1>1
<1>3. 1 \in 1..Len(ps) BY <1>2
<1>4. ps[1] \in Port BY <1>1, <1>3
<1> QED BY <1>1, <1>3, <1>4 DEF PortsOf

\* What Open records as promised.
LEMMA OpenFacts ==
    ASSUME TypeOK, NEW a \in Addr, NEW ps \in PortList, Open(a, ps)
    PROVE  /\ granted' \in [Addr -> [Port -> Nat]]
           /\ \A b \in Addr, p \in Port : granted'[b][p] =
                 IF b = a /\ p \in PortsOf(ps) THEN mono + Pinhole ELSE granted[b][p]
           /\ allow' \in [Addr -> Grant]
           /\ \A b \in Addr : allow'[b] = allow[b] \/ b = a
           /\ allow'[a] \in {allow[a], GrantFor(ps, mono)}
<1>1. ps \in Seq(Port) /\ mono \in Nat /\ mono + Pinhole \in Nat
      BY AsksForPort, GrantAssumption DEF TypeOK
<1>2. GrantFor(ps, mono) \in Grant BY <1>1, GrantForFacts
<1>3. /\ granted' = [granted EXCEPT ![a] =
            [p \in Port |-> IF p \in PortsOf(ps) THEN mono + Pinhole ELSE @[p]]]
      /\ allow' = AllowInsert(allow, a, GrantFor(ps, mono))
      BY DEF Open
<1>4. /\ granted' \in [Addr -> [Port -> Nat]]
      /\ \A b \in Addr, p \in Port : granted'[b][p] =
            IF b = a /\ p \in PortsOf(ps) THEN mono + Pinhole ELSE granted[b][p]
      BY <1>1, <1>3 DEF TypeOK
<1>5. allow \in [Addr -> Grant] BY DEF TypeOK
<1>6. /\ AllowInsert(allow, a, GrantFor(ps, mono)) \in [Addr -> Grant]
      /\ \A b \in Addr : AllowInsert(allow, a, GrantFor(ps, mono))[b] = allow[b] \/ b = a
      /\ AllowInsert(allow, a, GrantFor(ps, mono))[a] \in {allow[a], GrantFor(ps, mono)}
      BY <1>2, <1>5, AllowInsertFacts
<1> QED BY <1>3, <1>4, <1>6

-----------------------------------------------------------------------------
(***************************************************************************)
(* Type correctness                                                        *)
(***************************************************************************)
\* Every step keeps every variable well typed.
LEMMA TypeStep == TypeOK /\ [Next]_vars => TypeOK'
<1> SUFFICES ASSUME TypeOK, [Next]_vars PROVE TypeOK' OBVIOUS
<1> USE DEF fwVars, grantVars, watchVars, diskVars
<1>none. NoGrant \in Grant BY DEF NoGrant, Grant
<1>1. CASE Load BY <1>1 DEF Load, TypeOK
<1>2. CASE Attach BY <1>2, <1>none DEF Attach, TypeOK
<1>3. ASSUME NEW p \in Port, Program(p) PROVE TypeOK' BY <1>3 DEF Program, TypeOK
<1>4. CASE InstallFloor BY <1>4 DEF InstallFloor, TypeOK
<1>5. CASE Die BY <1>5, <1>none DEF Die, TypeOK
<1>6. ASSUME NEW a \in Addr, NEW ps \in PortList, Open(a, ps) PROVE TypeOK'
  <2>1. granted' \in [Addr -> [Port -> Nat]] /\ allow' \in [Addr -> Grant]
        BY <1>6, OpenFacts
  <2>2. pending' \in [src : Addr, at : Nat] BY <1>6 DEF Open, TypeOK
  <2> QED BY <1>6, <2>1, <2>2 DEF Open, TypeOK
<1>7. CASE Mirror
  <2>1. mono + Pinhole \in Nat BY GrantAssumption DEF TypeOK
  <2>2. floorAllow' \in [Addr -> Nat] BY <1>7, <2>1 DEF Mirror, TypeOK
  <2> QED BY <1>7, <2>2 DEF Mirror, TypeOK
<1>8. ASSUME NEW ps \in Policy, Publish(ps) PROVE TypeOK'
      BY <1>8, FloorAssumption DEF Publish, TypeOK
<1>9. CASE Reload BY <1>9 DEF Reload, TypeOK
<1>10. ASSUME NEW p \in Port, InsertPort(p) PROVE TypeOK' BY <1>10 DEF InsertPort, TypeOK
<1>11. ASSUME NEW p \in Port, RemovePort(p) PROVE TypeOK' BY <1>11 DEF RemovePort, TypeOK
<1>12. CASE SetPorts BY <1>12 DEF SetPorts, TypeOK
<1>13. CASE Tick BY <1>13 DEF Tick, TypeOK
<1>14. CASE UNCHANGED vars BY <1>14 DEF vars, TypeOK
<1> QED BY <1>1, <1>2, <1>3, <1>4, <1>5, <1>6, <1>7, <1>8, <1>9, <1>10, <1>11, <1>12, <1>13,
           <1>14 DEF Next

\* Nothing is loaded, attached or installed to begin with.
LEMMA TypeInit == Init => TypeOK
<1> SUFFICES ASSUME Init PROVE TypeOK OBVIOUS
<1>1. NoGrant \in Grant BY DEF NoGrant, Grant
<1>2. policy \in SUBSET Port BY FloorAssumption DEF Init
<1>3. allow \in [Addr -> Grant] BY <1>1 DEF Init
<1>4. granted \in [Addr -> [Port -> Nat]] BY DEF Init
<1> QED BY <1>2, <1>3, <1>4 DEF Init, TypeOK

\* TypeOK is an invariant of the host.
THEOREM TypeCorrect == Spec => []TypeOK
BY TypeInit, TypeStep, PTL DEF Spec

-----------------------------------------------------------------------------
(***************************************************************************)
(* What is closed                                                          *)
(***************************************************************************)
\* What ALLOW holds was paid for by a knock, and ends when the knock said.
AllowPaid ==
    \A a \in Addr, p \in Port :
        /\ granted[a][p] <= mono + Pinhole
        /\ p \in allow[a].ports => allow[a].expiry <= granted[a][p]

\* So was what the floor lets in, for some port: the second line of defence
\* forgets which, and adds the time nft took.  A grant on its way to the floor is
\* that old at most.
FloorPaid ==
    /\ \A a \in Addr : floorAllow[a] # 0 =>
          \E q \in Port : floorAllow[a] <= granted[a][q] + MaxNft
    /\ pending # NoKnock =>
          /\ mono <= pending.at + MaxNft
          /\ \E q \in Port : pending.at + Pinhole <= granted[pending.src][q]

\* How far the start is says which of the two layers stand; the floor stays.
Guarded ==
    /\ pc \in {"program", "ready"} => xdp
    /\ pc = "ready" => known \ refused \subseteq protected
    /\ floored => chain

FloorInv == AllowPaid /\ FloorPaid /\ Guarded

\* Nothing was granted to begin with.
LEMMA FloorInit == Init => FloorInv
<1> SUFFICES ASSUME Init PROVE FloorInv OBVIOUS
<1>1. AllowPaid BY GrantAssumption DEF Init, AllowPaid, NoGrant
<1>2. FloorPaid BY DEF Init, FloorPaid
<1>3. Guarded BY DEF Init, Guarded
<1> QED BY <1>1, <1>2, <1>3 DEF FloorInv

\* Every step keeps FloorInv.
LEMMA FloorStep == TypeOK /\ FloorInv /\ [Next]_vars => FloorInv'
<1> SUFFICES ASSUME TypeOK, FloorInv, [Next]_vars PROVE FloorInv' OBVIOUS
<1> USE DEF fwVars, grantVars, watchVars, diskVars
<1>inv. AllowPaid /\ FloorPaid /\ Guarded BY DEF FloorInv
<1>const. mono \in Nat /\ Pinhole \in Nat \ {0} /\ MaxNft \in Nat
          BY GrantAssumption, FloorAssumption DEF TypeOK
<1>allow. ASSUME UNCHANGED <<mono, granted>>,
                 \A a \in Addr : allow'[a] \in {allow[a], NoGrant}
          PROVE  AllowPaid'
  <2> SUFFICES ASSUME NEW a \in Addr, NEW p \in Port
               PROVE  /\ granted[a][p] <= mono + Pinhole
                      /\ p \in allow'[a].ports => allow'[a].expiry <= granted[a][p]
      BY <1>allow DEF AllowPaid
  <2>1. CASE allow'[a] = allow[a] BY <2>1, <1>inv DEF AllowPaid
  <2>2. CASE allow'[a] = NoGrant BY <2>2, <1>inv DEF AllowPaid, NoGrant
  <2> QED BY <1>allow, <2>1, <2>2
<1>paid. ASSUME UNCHANGED <<mono, granted, floorAllow>>, pending' \in {pending, NoKnock}
         PROVE  FloorPaid'
  BY <1>paid, <1>inv DEF FloorPaid
<1>same. ASSUME UNCHANGED <<mono, granted, allow, floorAllow, pending>>
         PROVE  AllowPaid' /\ FloorPaid'
  BY <1>same, <1>inv DEF AllowPaid, FloorPaid
<1>1. CASE Load
  <2>1. AllowPaid' BY <1>1, <1>allow DEF Load
  <2>2. FloorPaid' BY <1>1, <1>paid DEF Load
  <2>3. Guarded' BY <1>1, <1>inv DEF Load, Guarded
  <2> QED BY <2>1, <2>2, <2>3 DEF FloorInv
<1>2. CASE Attach
  <2>1. AllowPaid' BY <1>2, <1>allow DEF Attach
  <2>2. FloorPaid' BY <1>2, <1>paid DEF Attach
  <2>3. Guarded' BY <1>2, <1>inv DEF Attach, Guarded
  <2> QED BY <2>1, <2>2, <2>3 DEF FloorInv
<1>3. ASSUME NEW p \in Port, Program(p) PROVE FloorInv'
  <2>1. Guarded' BY <1>3, <1>inv DEF Program, Guarded
  <2> QED BY <1>3, <2>1, <1>same DEF Program, FloorInv
<1>4. CASE InstallFloor
  <2>1. Guarded' BY <1>4, <1>inv DEF InstallFloor, Guarded
  <2> QED BY <1>4, <2>1, <1>same DEF InstallFloor, FloorInv
<1>5. CASE Die
  <2>1. AllowPaid' BY <1>5, <1>allow DEF Die
  <2>2. FloorPaid' BY <1>5, <1>paid DEF Die
  <2>3. Guarded' BY <1>5, <1>inv DEF Die, Guarded
  <2> QED BY <2>1, <2>2, <2>3 DEF FloorInv
<1>6. ASSUME NEW a \in Addr, NEW ps \in PortList, Open(a, ps) PROVE FloorInv'
  <2> DEFINE grant == GrantFor(ps, mono)
  <2>1. /\ \A b \in Addr, p \in Port : granted'[b][p] =
              IF b = a /\ p \in PortsOf(ps) THEN mono + Pinhole ELSE granted[b][p]
        /\ \A b \in Addr : allow'[b] = allow[b] \/ b = a
        /\ allow'[a] \in {allow[a], grant}
        BY <1>6, OpenFacts
  <2>2. grant.expiry = mono + Pinhole /\ grant.ports \subseteq PortsOf(ps)
        BY <1>const, AsksForPort, GrantForFacts
  <2> HIDE DEF grant
  <2>3. /\ UNCHANGED <<mono, floorAllow, pc, xdp, known, refused, protected, floored, chain>>
        /\ pending'.src = a /\ pending'.at = mono
        BY <1>6 DEF Open
  <2>4. \A b \in Addr, p \in Port :
           /\ granted[b][p] \in Nat /\ allow[b].expiry \in Nat
           /\ granted[b][p] <= mono + Pinhole
           /\ p \in allow[b].ports => allow[b].expiry <= granted[b][p]
        BY <1>inv DEF AllowPaid, TypeOK, Grant
  <2>5. \A b \in Addr, p \in Port : granted[b][p] <= granted'[b][p] /\ granted'[b][p] \in Nat
        BY <1>const, <2>1, <2>4
  <2>6. AllowPaid'
    <3> SUFFICES ASSUME NEW b \in Addr, NEW p \in Port
                 PROVE  /\ granted'[b][p] <= mono + Pinhole
                        /\ p \in allow'[b].ports => allow'[b].expiry <= granted'[b][p]
        BY <2>3 DEF AllowPaid
    <3>1. granted'[b][p] <= mono + Pinhole BY <1>const, <2>1, <2>4
    <3>2. CASE allow'[b] = allow[b] BY <1>const, <2>4, <2>5, <3>1, <3>2
    <3>3. CASE b = a /\ allow'[b] = grant
      <4>1. p \in grant.ports => granted'[b][p] = mono + Pinhole BY <2>1, <2>2, <3>3
      <4> QED BY <1>const, <2>2, <3>1, <3>3, <4>1
    <3> QED BY <2>1, <3>2, <3>3
  <2>7. FloorPaid'
    <3>1. ASSUME NEW b \in Addr, floorAllow'[b] # 0
          PROVE  \E q \in Port : floorAllow'[b] <= granted'[b][q] + MaxNft
      <4>1. floorAllow[b] # 0 /\ floorAllow[b] \in Nat BY <2>3, <3>1 DEF TypeOK
      <4>2. PICK q \in Port : floorAllow[b] <= granted[b][q] + MaxNft
            BY <4>1, <1>inv DEF FloorPaid
      <4>3. floorAllow'[b] <= granted'[b][q] + MaxNft
            BY <1>const, <2>3, <2>4, <2>5, <4>1, <4>2
      <4> QED BY <4>3
    <3>2. \E q \in Port : pending'.at + Pinhole <= granted'[pending'.src][q]
      <4>1. PICK q \in Port : q \in PortsOf(ps) BY AsksForPort
      <4>2. granted'[a][q] = mono + Pinhole BY <2>1, <4>1
      <4>3. pending'.at + Pinhole <= granted'[pending'.src][q] BY <1>const, <2>3, <4>2
      <4> QED BY <4>3
    <3>3. mono' <= pending'.at + MaxNft BY <1>const, <2>3
    <3> QED BY <3>1, <3>2, <3>3 DEF FloorPaid
  <2>8. Guarded' BY <2>3, <1>inv DEF Guarded
  <2> QED BY <2>6, <2>7, <2>8 DEF FloorInv
<1>7. CASE Mirror
  <2>1. /\ UNCHANGED <<allow, mono, granted, pc, xdp, known, refused, protected, floored, chain>>
        /\ pending' = NoKnock /\ pending # NoKnock
        /\ \/ floorAllow' = [floorAllow EXCEPT ![pending.src] = mono + Pinhole]
           \/ UNCHANGED floorAllow
        BY <1>7 DEF Mirror
  <2>2. AllowPaid' BY <2>1, <1>inv DEF AllowPaid
  <2>3. FloorPaid'
    <3>1. CASE UNCHANGED floorAllow BY <2>1, <3>1, <1>paid
    <3>2. CASE floorAllow' = [floorAllow EXCEPT ![pending.src] = mono + Pinhole]
      <4> SUFFICES ASSUME NEW b \in Addr, floorAllow'[b] # 0
                   PROVE  \E q \in Port : floorAllow'[b] <= granted[b][q] + MaxNft
          BY <2>1 DEF FloorPaid
      <4>1. CASE b = pending.src
        <5>1. PICK q \in Port : pending.at + Pinhole <= granted[b][q]
              BY <2>1, <4>1, <1>inv DEF FloorPaid
        <5>2. mono <= pending.at + MaxNft BY <2>1, <1>inv DEF FloorPaid
        <5>3. floorAllow'[b] = mono + Pinhole BY <3>2, <4>1 DEF TypeOK
        <5>4. pending.at \in Nat /\ granted[b][q] \in Nat BY <2>1 DEF TypeOK
        <5>5. floorAllow'[b] <= granted[b][q] + MaxNft
              BY <5>1, <5>2, <5>3, <5>4, <1>const
        <5> QED BY <5>5
      <4>2. CASE b # pending.src
        <5>1. floorAllow'[b] = floorAllow[b] BY <3>2, <4>2 DEF TypeOK
        <5> QED BY <5>1, <1>inv DEF FloorPaid
      <4> QED BY <4>1, <4>2
    <3> QED BY <2>1, <3>1, <3>2
  <2>4. Guarded' BY <2>1, <1>inv DEF Guarded
  <2> QED BY <2>2, <2>3, <2>4 DEF FloorInv
<1>8. ASSUME NEW ps \in Policy, Publish(ps) PROVE FloorInv'
  <2>1. Guarded' BY <1>8, <1>inv DEF Publish, Guarded
  <2> QED BY <1>8, <2>1, <1>same DEF Publish, FloorInv
<1>9. CASE Reload
  <2>1. Guarded' BY <1>9, <1>inv DEF Reload, Guarded
  <2> QED BY <1>9, <2>1, <1>same DEF Reload, FloorInv
<1>10. ASSUME NEW p \in Port, InsertPort(p) PROVE FloorInv'
  <2>1. Guarded' BY <1>10, <1>inv DEF InsertPort, Guarded
  <2> QED BY <1>10, <2>1, <1>same DEF InsertPort, FloorInv
<1>11. ASSUME NEW p \in Port, RemovePort(p) PROVE FloorInv'
  <2>1. Guarded' BY <1>11, <1>inv DEF RemovePort, Guarded
  <2> QED BY <1>11, <2>1, <1>same DEF RemovePort, FloorInv
<1>12. CASE SetPorts
  <2>1. Guarded' BY <1>12, <1>inv DEF SetPorts, Guarded
  <2> QED BY <1>12, <2>1, <1>same DEF SetPorts, FloorInv
<1>13. CASE Tick
  <2>1. /\ mono' = mono + 1 /\ (pending # NoKnock => mono < pending.at + MaxNft)
        /\ UNCHANGED <<allow, granted, floorAllow, pending, pc, xdp, known, refused, protected,
                       floored, chain>>
        BY <1>13 DEF Tick
  <2>2. AllowPaid'
    <3>1. \A a \in Addr, p \in Port : granted[a][p] \in Nat BY DEF TypeOK
    <3> QED BY <2>1, <3>1, <1>const, <1>inv DEF AllowPaid
  <2>3. FloorPaid'
    <3>1. pending # NoKnock => pending.at \in Nat BY DEF TypeOK
    <3>2. pending # NoKnock => mono' <= pending.at + MaxNft BY <2>1, <3>1, <1>const
    <3> QED BY <2>1, <3>2, <1>inv DEF FloorPaid
  <2>4. Guarded' BY <2>1, <1>inv DEF Guarded
  <2> QED BY <2>2, <2>3, <2>4 DEF FloorInv
<1>14. CASE UNCHANGED vars
  <2>1. Guarded' BY <1>14, <1>inv DEF vars, Guarded
  <2> QED BY <1>14, <2>1, <1>same DEF vars, FloorInv
<1> QED BY <1>1, <1>2, <1>3, <1>4, <1>5, <1>6, <1>7, <1>8, <1>9, <1>10, <1>11, <1>12, <1>13,
           <1>14 DEF Next

\* FloorInv is an invariant of the host.
LEMMA FloorInvariant == Spec => [](TypeOK /\ FloorInv)
<1>1. Init => TypeOK /\ FloorInv BY TypeInit, FloorInit
<1>2. (TypeOK /\ FloorInv) /\ [Next]_vars => (TypeOK /\ FloorInv)' BY TypeStep, FloorStep
<1> QED BY <1>1, <1>2, PTL DEF Spec

\* Losing the XDP program exposes nothing to strangers: once the floor was
\* installed, a port it covers is closed to a source whose last grant ended longer
\* ago than nft took over it, through every crash, failed start, restart and reload.
THEOREM FloorHolds == Spec => []ClosedToStrangers
<1>1. TypeOK /\ FloorInv => ClosedToStrangers
  <2> SUFFICES ASSUME TypeOK, FloorInv, NEW a \in Addr, NEW p \in floorPorts,
                      floored, Reachable(a, p)
               PROVE  \E q \in Port : mono < granted[a][q] + MaxNft
      BY DEF ClosedToStrangers
  <2>1. mono < floorAllow[a] BY DEF FloorInv, Guarded, Reachable, FloorAccepts
  <2>2. mono \in Nat /\ floorAllow[a] \in Nat /\ MaxNft \in Nat BY FloorAssumption DEF TypeOK
  <2>3. PICK q \in Port : floorAllow[a] <= granted[a][q] + MaxNft
        BY <2>1, <2>2 DEF FloorInv, FloorPaid
  <2>4. granted[a][q] \in Nat BY DEF TypeOK
  <2>5. mono < granted[a][q] + MaxNft BY <2>1, <2>2, <2>3, <2>4
  <2> QED BY <2>5
<1> QED BY <1>1, FloorInvariant, PTL

\* While the daemon is up, a port of its bundle that PROTECTED had room for is
\* open only to a source whose knock paid for that very port, in the middle of a
\* reload and when nft is slow or fails too: the program stops what the coarser
\* floor would let in.
THEOREM ProgramStopsTheRest == Spec => []OpenOnlyAsGranted
<1>1. TypeOK /\ FloorInv => OpenOnlyAsGranted
  <2> SUFFICES ASSUME TypeOK, FloorInv, NEW a \in Addr, NEW p \in Port,
                      pc = "ready", p \in known \ refused, Reachable(a, p)
               PROVE  mono < granted[a][p]
      BY DEF OpenOnlyAsGranted
  <2>1. mono < allow[a].expiry /\ p \in allow[a].ports
        BY DEF FloorInv, Guarded, Reachable, XdpPasses, SourceAllowed, AllowsPort
  <2>2. allow[a].expiry <= granted[a][p] BY <2>1 DEF FloorInv, AllowPaid
  <2>3. mono \in Nat /\ allow[a].expiry \in Nat /\ granted[a][p] \in Nat BY DEF TypeOK, Grant
  <2> QED BY <2>1, <2>2, <2>3
<1> QED BY <1>1, FloorInvariant, PTL
=============================================================================
