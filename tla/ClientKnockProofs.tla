------------------------- MODULE ClientKnockProofs --------------------------
(***************************************************************************)
(* The client against a gate over a lossy network, for every set of port   *)
(* lists, every grace, skew, drift, stall and pinhole, and every size of   *)
(* ALLOW: how long a late knock may keep a port open, and what is open     *)
(* after one that was admitted.                                            *)
(***************************************************************************)
EXTENDS ClientKnock, FiniteSetTheorems, TLAPS

-----------------------------------------------------------------------------
(***************************************************************************)
(* Facts about the operators                                               *)
(***************************************************************************)
\* A grant has every port its knock asked for.
LEMMA GrantForFacts ==
    ASSUME NEW ps \in PortList, NEW now \in Nat
    PROVE  /\ GrantFor(ps, now) \in Grant
           /\ GrantFor(ps, now).expiry = now + Pinhole
           /\ GrantFor(ps, now).ports = PortsOf(ps)
           /\ GrantFor(ps, now) # NoGrant
<1>1. ps \in Seq(Port) /\ Len(ps) \in 1..MaxPorts /\ MaxPorts <= MaxGrantPorts
      BY ClientAssumption
<1>2. MaxPorts \in Nat /\ MaxGrantPorts \in Nat /\ now + Pinhole \in Nat BY GrantAssumption
<1>3. {j \in 1..Len(ps) : j <= MaxGrantPorts} = 1..Len(ps) BY <1>1, <1>2
<1>4. GrantFor(ps, now) = [expiry |-> now + Pinhole, ports |-> PortsOf(ps)]
      BY <1>3 DEF GrantFor, PortsOf
<1>5. PortsOf(ps) \in SUBSET Port BY <1>1 DEF PortsOf
<1>6. now + Pinhole # 0 BY GrantAssumption
<1>7. GrantFor(ps, now) # NoGrant BY <1>4, <1>6 DEF NoGrant
<1> QED BY <1>2, <1>4, <1>5, <1>7 DEF Grant

\* ALLOW has no room for a source it does not know.
NoRoom == ~(Cardinality({b \in Addr : allow[b] # NoGrant}) < AllowCap)

\* The map update writes one entry, or nothing when there is no room for it.
LEMMA AllowInsertFacts ==
    ASSUME allow \in [Addr -> Grant], NEW a \in Addr, NEW g \in Grant,
           allow' = AllowInsert(allow, a, g)
    PROVE  /\ allow' \in [Addr -> Grant]
           /\ \A b \in Addr : b # a => allow'[b] = allow[b]
           /\ \/ allow'[a] = g
              \/ allow' = allow /\ allow[a] = NoGrant /\ NoRoom
           /\ allow[a] = NoGrant /\ NoRoom => allow' = allow
BY DEF AllowInsert, NoRoom

\* The sealed knock has a number of its own.
LEMMA SealFacts ==
    ASSUME TypeOK, IsFiniteSet(net), NEW ps \in PortList
    PROVE  /\ Seal(ps) \in KnockRequest
           /\ Cardinality(net) \in Nat
           /\ Seal(ps).nonce = Cardinality(net) + 1
           /\ Seal(ps).ts = mono
           /\ IsFiniteSet(net \cup {Seal(ps)})
<1>1. Cardinality(net) \in Nat BY FS_CardinalityType
<1>2. mono \in Nat BY ClientAssumption DEF TypeOK
<1>3. IsFiniteSet(net \cup {Seal(ps)}) BY FS_AddElement
<1> QED BY <1>1, <1>2, <1>3 DEF Seal, KnockRequest

-----------------------------------------------------------------------------
(***************************************************************************)
(* Type correctness                                                        *)
(***************************************************************************)
\* Every step keeps every variable well typed and the network finite.
LEMMA TypeStep ==
    ASSUME TypeOK, IsFiniteSet(net), [Next]_vars
    PROVE  TypeOK' /\ IsFiniteSet(net')
<1> USE DEF clientVars, gateVars
<1>nat. /\ mono \in Nat /\ Grace \in Nat /\ ConfirmWindow \in Nat /\ MaxTime \in Nat
        /\ MaxCalls \in Nat
        BY ClientAssumption DEF TypeOK
<1>send. ASSUME NEW ps \in PortList, Send(ps)
         PROVE  net' \subseteq KnockRequest /\ IsFiniteSet(net')
  <2>1. Seal(ps) \in KnockRequest /\ IsFiniteSet(net \cup {Seal(ps)}) BY SealFacts
  <2> QED BY <1>send, <2>1 DEF Send, TypeOK
<1>begin. ASSUME NEW ps \in PortList, NEW time, Begin(ps, time)
          PROVE  /\ calls' \in 0..MaxCalls /\ ports' \in PortList
                 /\ UNCHANGED <<gateVars, mono>>
          BY <1>begin, <1>nat DEF Begin, TypeOK
<1>1. ASSUME NEW ps \in PortList, Knock(ps) PROVE TypeOK' /\ IsFiniteSet(net')
  <2>1. Begin(ps, 0) BY <1>1 DEF Knock
  <2>2. net' \subseteq KnockRequest /\ IsFiniteSet(net') BY <1>1, <1>send DEF Knock, TypeOK
  <2>3. /\ pc' = "idle" /\ result' \in {"Sent", "Io"}
        /\ left' = 0 /\ wake' = 0 /\ deadline' = 0
        BY <1>1 DEF Knock, Return
  <2>4. /\ calls' \in 0..MaxCalls /\ ports' \in PortList
        /\ UNCHANGED <<gateVars, mono>>
        BY <2>1, <1>begin
  <2> QED BY <2>1, <2>2, <2>3, <2>4 DEF TypeOK
<1>2. ASSUME NEW ps \in PortList, KnockDescriptor(ps) PROVE TypeOK' /\ IsFiniteSet(net')
  <2>1. Begin(ps, ConfirmTime) /\ Send(ps) /\ UNCHANGED left /\ result' = "None"
        BY <1>2 DEF KnockDescriptor
  <2>2. net' \subseteq KnockRequest /\ IsFiniteSet(net') BY <2>1, <1>send
  <2>3. pc' = "probe" /\ wake' \in Nat /\ deadline' \in Nat
        BY <1>2, <1>nat DEF KnockDescriptor
  <2>4. /\ calls' \in 0..MaxCalls /\ ports' \in PortList
        /\ UNCHANGED <<gateVars, mono>>
        BY <2>1, <1>begin
  <2> QED BY <2>1, <2>2, <2>3, <2>4 DEF TypeOK
<1>3. ASSUME NEW ps \in PortList, NEW n \in Attempts, WithOpen(ps, n)
      PROVE  TypeOK' /\ IsFiniteSet(net')
  <2>0. n \in Nat BY ClientAssumption
  <2>1. Begin(ps, WithOpenTime(n)) /\ Send(ps) /\ UNCHANGED deadline /\ result' = "None"
        BY <1>3 DEF WithOpen
  <2>2. net' \subseteq KnockRequest /\ IsFiniteSet(net') BY <2>1, <1>send
  <2>3. pc' = "grace" /\ wake' \in Nat /\ left' \in Nat
        BY <1>3, <1>nat, <2>0 DEF WithOpen, Max1
  <2>4. /\ calls' \in 0..MaxCalls /\ ports' \in PortList
        /\ UNCHANGED <<gateVars, mono>>
        BY <2>1, <1>begin
  <2> QED BY <2>1, <2>2, <2>3, <2>4 DEF TypeOK
<1>4. CASE Connect BY <1>4, <1>nat DEF Connect, TypeOK
<1>5. CASE ConnectOk BY <1>5 DEF ConnectOk, Return, TypeOK
<1>6. CASE ConnectErr
  <2>1. ports \in PortList BY DEF TypeOK
  <2>2. net' \subseteq KnockRequest /\ IsFiniteSet(net')
        BY <1>6, <2>1, <1>send DEF ConnectErr, TypeOK
  <2>3. left' \in Nat /\ wake' \in Nat /\ deadline' \in Nat
        BY <1>6, <1>nat DEF ConnectErr, Return, TypeOK
  <2>4. /\ pc' \in {"idle", "grace"}
        /\ result' \in {result, "Io", "Unreachable"}
        /\ UNCHANGED <<gateVars, mono, ports, calls>>
        BY <1>6 DEF ConnectErr, Return
  <2> QED BY <2>2, <2>3, <2>4 DEF TypeOK
<1>7. CASE ProbePasses BY <1>7, <1>nat DEF ProbePasses, TypeOK
<1>8. CASE ProbeTimeout
  <2>1. wake' \in Nat BY <1>8, <1>nat DEF ProbeTimeout, Return, TypeOK
  <2> QED BY <1>8, <2>1 DEF ProbeTimeout, Return, TypeOK
<1>9. CASE Confirmed BY <1>9 DEF Confirmed, Return, TypeOK
<1>10. ASSUME NEW k \in net, Receive(k) PROVE TypeOK' /\ IsFiniteSet(net')
      BY <1>10, <1>nat DEF Receive, TypeOK
<1>11. CASE Grants
  <2>1. hand \in KnockRequest BY <1>11 DEF Grants, TypeOK
  <2>2. hand.nonce \in Nat /\ hand.ports \in PortList BY <2>1 DEF KnockRequest
  <2>3. GrantFor(hand.ports, mono) \in Grant BY <2>2, <1>nat, GrantForFacts
  <2>4. allow' \in [Addr -> Grant]
        BY <1>11, <2>3, ClientAssumption, AllowInsertFacts DEF Grants, TypeOK
  <2>5. seen' \subseteq Nat /\ last' \in KnockRequest BY <1>11, <2>1, <2>2 DEF Grants, TypeOK
  <2>6. UNCHANGED <<mono, clientVars, net>> /\ hand' = NoKnock /\ checked' = 0
        BY <1>11 DEF Grants
  <2> QED BY <2>4, <2>5, <2>6 DEF TypeOK
<1>12. ASSUME NEW a \in Addr, NEW ps \in PortList, GrantsOther(a, ps)
       PROVE  TypeOK' /\ IsFiniteSet(net')
  <2>1. GrantFor(ps, mono) \in Grant BY <1>nat, GrantForFacts
  <2>2. allow' \in [Addr -> Grant] BY <1>12, <2>1, AllowInsertFacts DEF GrantsOther, TypeOK
  <2> QED BY <1>12, <2>2 DEF GrantsOther, TypeOK
<1>13. CASE Tick
  <2>1. mono' \in 0..MaxTime BY <1>13, <1>nat DEF Tick, TypeOK
  <2> QED BY <1>13, <2>1 DEF Tick, TypeOK
<1>14. CASE UNCHANGED vars BY <1>14 DEF vars, TypeOK
<1> QED BY <1>1, <1>2, <1>3, <1>4, <1>5, <1>6, <1>7, <1>8, <1>9, <1>10, <1>11, <1>12, <1>13,
           <1>14 DEF Next, Client

\* Nothing was sent and nothing is open to begin with.
LEMMA TypeInit == Init => TypeOK /\ IsFiniteSet(net)
<1> SUFFICES ASSUME Init PROVE TypeOK /\ IsFiniteSet(net) OBVIOUS
<1>1. NoGrant \in Grant BY DEF NoGrant, Grant
<1>2. allow \in [Addr -> Grant] BY <1>1 DEF Init
<1>3. mono \in 0..MaxTime /\ calls \in 0..MaxCalls BY ClientAssumption DEF Init
<1>4. IsFiniteSet(net) BY FS_EmptySet DEF Init
<1> QED BY <1>2, <1>3, <1>4 DEF Init, TypeOK

\* TypeOK is an invariant of the client and its gate.
THEOREM TypeCorrect == Spec => []TypeOK
<1>1. TypeOK /\ IsFiniteSet(net) /\ [Next]_vars => TypeOK' /\ IsFiniteSet(net)' BY TypeStep
<1> QED BY <1>1, TypeInit, PTL DEF Spec

-----------------------------------------------------------------------------
(***************************************************************************)
(* How long a knock keeps a port open                                      *)
(***************************************************************************)
\* Knocks are numbered as they were sent, and the gate has seen no number that
\* was not sent.
Numbered ==
    /\ IsFiniteSet(net)
    /\ \A k \in net : k.nonce \in 1..Cardinality(net) /\ k.ts <= mono
    /\ seen \subseteq 1..Cardinality(net)

\* The knock the gate works on was fresh when it checked, not long ago.
InHand ==
    hand # NoKnock =>
        /\ hand \in net
        /\ mono <= checked + MaxStall
        /\ checked + Drift <= hand.ts + Skew

\* A client ALLOW knows has the grant of the knock admitted last, which outlasts
\* every admitted one by the pinhole at least, counted from when it was sent.
\* A client ALLOW does not know although it was admitted was turned away, and
\* the map is as full as it was then.
Admitted ==
    /\ allow[Self] # NoGrant =>
          /\ allow[Self].ports = PortsOf(last.ports)
          /\ \A k \in net : k.nonce \in seen => k.ts + Pinhole <= allow[Self].expiry
    /\ allow[Self] = NoGrant /\ seen # {} => NoRoom

\* Whatever is open, some knock was sent for recently enough.
Stamped ==
    allow[Self].expiry # 0 =>
        \E k \in net : allow[Self].expiry <= k.ts + Skew - Drift + MaxStall + Pinhole

ClientInv == TypeOK /\ Numbered /\ InHand /\ Admitted /\ Stamped

\* ClientInv holds to begin with.
LEMMA ClientInit == Init => ClientInv
<1> SUFFICES ASSUME Init PROVE ClientInv OBVIOUS
<1>1. allow[Self] = NoGrant BY ClientAssumption DEF Init
<1>2. Numbered BY FS_EmptySet DEF Init, Numbered
<1>3. InHand BY DEF Init, InHand
<1>4. Admitted BY <1>1 DEF Init, Admitted
<1>5. Stamped BY <1>1 DEF Stamped, NoGrant
<1> QED BY <1>2, <1>3, <1>4, <1>5, TypeInit DEF ClientInv

\* A send adds a knock with the next number and disturbs nothing.
LEMMA SendStep ==
    ASSUME ClientInv, NEW ps \in PortList, Send(ps), UNCHANGED <<gateVars, mono>>
    PROVE  Numbered' /\ InHand' /\ Admitted' /\ Stamped'
<1> USE DEF gateVars
<1> DEFINE new == Seal(ps)
<1>1. TypeOK /\ Numbered /\ InHand /\ Admitted /\ Stamped BY DEF ClientInv
<1>2. IsFiniteSet(net) BY <1>1 DEF Numbered
<1>3. /\ new \in KnockRequest /\ Cardinality(net) \in Nat
      /\ new.nonce = Cardinality(net) + 1 /\ new.ts = mono
      BY <1>1, <1>2, SealFacts
<1>4. net' = net \cup {new} BY DEF Send
<1>5. mono \in Nat BY <1>1, ClientAssumption DEF TypeOK
<1> HIDE DEF new
<1>6. \A k \in net : k.nonce \in Nat /\ k.nonce <= Cardinality(net)
      BY <1>1, <1>3 DEF Numbered
<1>7. new \notin net BY <1>3, <1>6
<1>8. IsFiniteSet(net') /\ Cardinality(net') = Cardinality(net) + 1
      BY <1>2, <1>4, <1>7, FS_AddElement
<1>9. Numbered'
  <2>1. \A k \in net' : k.nonce \in 1..Cardinality(net') /\ k.ts <= mono'
        BY <1>1, <1>3, <1>4, <1>5, <1>8 DEF Numbered
  <2>2. seen' \subseteq 1..Cardinality(net') BY <1>1, <1>3, <1>8 DEF Numbered
  <2> QED BY <1>8, <2>1, <2>2 DEF Numbered
<1>10. Admitted'
  <2>1. new.nonce \notin seen BY <1>1, <1>3 DEF Numbered
  <2> QED BY <1>1, <1>4, <2>1 DEF Admitted, NoRoom
<1>11. Stamped' BY <1>1, <1>4 DEF Stamped
<1>12. InHand' BY <1>1, <1>4 DEF InHand
<1> QED BY <1>9, <1>10, <1>11, <1>12

\* The gate grants the knock in its hand, or ALLOW has no room for the client.
LEMMA GrantsStep ==
    ASSUME ClientInv, Grants
    PROVE  Numbered' /\ InHand' /\ Admitted' /\ Stamped'
<1> USE DEF clientVars
<1> DEFINE grant == GrantFor(hand.ports, mono)
<1>1. TypeOK /\ Numbered /\ InHand /\ Admitted /\ Stamped BY DEF ClientInv
<1>2. /\ UNCHANGED <<mono, net>> /\ last' = hand /\ seen' = seen \cup {hand.nonce}
      /\ hand # NoKnock /\ hand' = NoKnock /\ allow' = AllowInsert(allow, Self, grant)
      BY DEF Grants
<1>3. hand \in net /\ hand \in KnockRequest BY <1>1, <1>2 DEF InHand, TypeOK
<1>4. hand.nonce \in Nat /\ hand.ts \in Nat /\ hand.ports \in PortList BY <1>3 DEF KnockRequest
<1>5. /\ mono \in Nat /\ checked \in Nat /\ Pinhole \in Nat \ {0} /\ Drift \in Int
      /\ Skew \in Nat /\ MaxStall \in Nat /\ Self \in Addr
      BY <1>1, ClientAssumption, GrantAssumption DEF TypeOK
<1>6. /\ grant \in Grant /\ grant.expiry = mono + Pinhole
      /\ grant.ports = PortsOf(hand.ports) /\ grant # NoGrant
      BY <1>4, <1>5, GrantForFacts
<1> HIDE DEF grant
<1>7. \/ allow'[Self] = grant
      \/ allow' = allow /\ allow[Self] = NoGrant /\ NoRoom
      BY <1>1, <1>2, <1>5, <1>6, AllowInsertFacts DEF TypeOK
<1>8. Numbered' BY <1>1, <1>2, <1>3 DEF Numbered
<1>9. InHand' BY <1>2 DEF InHand
<1>10. CASE allow' = allow /\ allow[Self] = NoGrant /\ NoRoom
  <2>1. NoRoom' BY <1>10 DEF NoRoom
  <2>2. Admitted' BY <1>10, <2>1 DEF Admitted
  <2>3. Stamped' BY <1>10 DEF Stamped, NoGrant
  <2> QED BY <1>8, <1>9, <2>2, <2>3
<1>11. CASE allow'[Self] = grant
  <2>1. \A k \in net : k.ts \in Nat /\ k.ts <= mono BY <1>1 DEF TypeOK, KnockRequest, Numbered
  <2>2. \A k \in net : k.ts + Pinhole <= mono + Pinhole BY <2>1, <1>5
  <2>3. Admitted' BY <1>2, <1>6, <1>11, <2>2 DEF Admitted
  <2>4. mono <= checked + MaxStall /\ checked + Drift <= hand.ts + Skew
        BY <1>1, <1>2 DEF InHand
  <2>5. mono + Pinhole <= hand.ts + Skew - Drift + MaxStall + Pinhole BY <1>4, <1>5, <2>4
  <2>6. Stamped' BY <1>2, <1>3, <1>6, <1>11, <2>5 DEF Stamped
  <2> QED BY <1>8, <1>9, <2>3, <2>6
<1> QED BY <1>7, <1>10, <1>11

\* Another source's grant takes room, or finds none; the client's entry stays.
LEMMA GrantsOtherStep ==
    ASSUME ClientInv, NEW a \in Addr, NEW ps \in PortList, GrantsOther(a, ps)
    PROVE  Numbered' /\ InHand' /\ Admitted' /\ Stamped'
<1> USE DEF clientVars
<1>1. TypeOK /\ Numbered /\ InHand /\ Admitted /\ Stamped BY DEF ClientInv
<1>2. /\ UNCHANGED <<hand, checked, seen, last, mono, net>>
      /\ a # Self /\ allow[a] = NoGrant
      /\ allow' = AllowInsert(allow, a, GrantFor(ps, mono))
      BY DEF GrantsOther
<1>3. mono \in Nat /\ Self \in Addr BY <1>1, ClientAssumption DEF TypeOK
<1>4. GrantFor(ps, mono) \in Grant BY <1>3, GrantForFacts
<1>5. allow'[Self] = allow[Self] /\ (NoRoom => allow' = allow)
      BY <1>1, <1>2, <1>3, <1>4, AllowInsertFacts DEF TypeOK
<1>6. NoRoom => NoRoom' BY <1>5 DEF NoRoom
<1>7. Admitted' BY <1>1, <1>2, <1>5, <1>6 DEF Admitted
<1>8. Numbered' /\ InHand' /\ Stamped' BY <1>1, <1>2, <1>5 DEF Numbered, InHand, Stamped
<1> QED BY <1>7, <1>8

\* Every step keeps ClientInv.
LEMMA ClientStep == ClientInv /\ [Next]_vars => ClientInv'
<1> SUFFICES ASSUME ClientInv, [Next]_vars PROVE ClientInv' OBVIOUS
<1> USE DEF gateVars, clientVars
<1>inv. TypeOK /\ Numbered /\ InHand /\ Admitted /\ Stamped BY DEF ClientInv
<1>const. /\ mono \in Nat /\ checked \in Nat /\ MaxStall \in Nat /\ Skew \in Nat /\ Drift \in Int
          BY <1>inv, ClientAssumption DEF TypeOK
<1>type. TypeOK'
  <2>1. IsFiniteSet(net) BY <1>inv DEF Numbered
  <2> QED BY <1>inv, <2>1, TypeStep
<1>same. ASSUME UNCHANGED <<gateVars, mono, net>> PROVE ClientInv'
  <2>1. Numbered' /\ InHand' /\ Admitted' /\ Stamped'
        BY <1>same, <1>inv DEF Numbered, InHand, Admitted, Stamped, NoRoom
  <2> QED BY <1>type, <2>1 DEF ClientInv
<1>send. ASSUME NEW ps \in PortList, Send(ps), UNCHANGED <<gateVars, mono>> PROVE ClientInv'
  BY <1>send, <1>type, SendStep DEF ClientInv
<1>1. ASSUME NEW ps \in PortList, Knock(ps) PROVE ClientInv'
      BY <1>1, <1>same, <1>send DEF Knock, Begin
<1>2. ASSUME NEW ps \in PortList, KnockDescriptor(ps) PROVE ClientInv'
      BY <1>2, <1>send DEF KnockDescriptor, Begin
<1>3. ASSUME NEW ps \in PortList, NEW n \in Attempts, WithOpen(ps, n) PROVE ClientInv'
      BY <1>3, <1>send DEF WithOpen, Begin
<1>4. CASE Connect BY <1>4, <1>same DEF Connect
<1>5. CASE ConnectOk BY <1>5, <1>same DEF ConnectOk
<1>6. CASE ConnectErr
  <2>1. ports \in PortList BY <1>inv DEF TypeOK
  <2> QED BY <1>6, <2>1, <1>same, <1>send DEF ConnectErr
<1>7. CASE ProbePasses BY <1>7, <1>same DEF ProbePasses
<1>8. CASE ProbeTimeout BY <1>8, <1>same DEF ProbeTimeout
<1>9. CASE Confirmed BY <1>9, <1>same DEF Confirmed
<1>10. ASSUME NEW k \in net, Receive(k) PROVE ClientInv'
  <2>1. /\ UNCHANGED <<allow, seen, last, mono, net>> /\ hand' = k /\ checked' = mono
        /\ AbsDiff(mono + Drift, k.ts) <= Skew
        BY <1>10 DEF Receive
  <2>2. k.ts \in Nat BY <1>inv DEF TypeOK, KnockRequest
  <2>3. mono + Drift <= k.ts + Skew BY <2>1, <2>2, <1>const DEF AbsDiff
  <2>4. mono <= mono + MaxStall BY <1>const
  <2>5. InHand' BY <2>1, <2>3, <2>4 DEF InHand
  <2>6. Numbered' /\ Admitted' /\ Stamped'
        BY <2>1, <1>inv DEF Numbered, Admitted, Stamped, NoRoom
  <2> QED BY <1>type, <2>5, <2>6 DEF ClientInv
<1>11. CASE Grants BY <1>11, <1>type, GrantsStep DEF ClientInv
<1>12. ASSUME NEW a \in Addr, NEW ps \in PortList, GrantsOther(a, ps) PROVE ClientInv'
      BY <1>12, <1>type, GrantsOtherStep DEF ClientInv
<1>13. CASE Tick
  <2>1. /\ mono' = mono + 1 /\ UNCHANGED <<gateVars, clientVars, net>>
        /\ hand # NoKnock => mono < checked + MaxStall
        BY <1>13 DEF Tick
  <2>2. Numbered'
    <3>1. \A k \in net : k.ts \in Nat BY <1>inv DEF TypeOK, KnockRequest
    <3> QED BY <2>1, <3>1, <1>const, <1>inv DEF Numbered
  <2>3. hand # NoKnock => mono' <= checked + MaxStall BY <2>1, <1>const
  <2>4. InHand' BY <2>1, <2>3, <1>inv DEF InHand
  <2>5. Admitted' /\ Stamped' BY <2>1, <1>inv DEF Admitted, Stamped, NoRoom
  <2> QED BY <1>type, <2>2, <2>4, <2>5 DEF ClientInv
<1>14. CASE UNCHANGED vars BY <1>14, <1>same DEF vars
<1> QED BY <1>1, <1>2, <1>3, <1>4, <1>5, <1>6, <1>7, <1>8, <1>9, <1>10, <1>11, <1>12, <1>13,
           <1>14 DEF Next, Client

\* ClientInv is an invariant of the client and its gate.
LEMMA ClientInvariant == Spec => []ClientInv
BY ClientInit, ClientStep, PTL DEF Spec

\* A client that gave up leaves no opening behind: however late, often and out
\* of order its knocks arrive, the port closes no later than a skew, one
\* judgement and a pinhole after it last sent one, whatever the two clocks
\* differ by.
THEOREM NothingLeftOpen == Spec => []ExposureBounded
<1>1. ClientInv => ExposureBounded
  <2> SUFFICES ASSUME ClientInv, mono < allow[Self].expiry
               PROVE  \E k \in net :
                         allow[Self].expiry <= k.ts + Skew - Drift + MaxStall + Pinhole
      BY DEF ExposureBounded
  <2>1. mono \in Nat /\ allow[Self].expiry # 0 BY ClientAssumption DEF ClientInv, TypeOK
  <2> QED BY <2>1 DEF ClientInv, Stamped
<1> QED BY <1>1, ClientInvariant, PTL

\* An attempt whose knock was admitted less than a pinhole after it was sent finds
\* what it knocked for open, on a client ALLOW has room for, except for ports a
\* late knock of an earlier call took away: older knocks that come in after it
\* never shorten the grant, and ALLOW never refuses a client it knows.
THEOREM OpenInTime == Spec => []KnockedThenOpen
<1>1. ClientInv => KnockedThenOpen
  <2> SUFFICES ASSUME ClientInv, KnockCounts,
                      NEW p \in PortsOf(ports) \cap PortsOf(last.ports)
               PROVE  SourceAllowed(Self, p, mono)
      BY DEF KnockedThenOpen
  <2>1. PICK k \in net : k.nonce \in seen /\ mono < k.ts + Pinhole
        BY DEF KnockCounts, Newest
  <2>2. /\ allow[Self] # NoGrant /\ allow[Self].ports = PortsOf(last.ports)
        /\ k.ts + Pinhole <= allow[Self].expiry
        BY <2>1 DEF KnockCounts, ClientInv, Admitted
  <2>3. mono \in Nat /\ k.ts \in Nat /\ allow[Self].expiry \in Nat /\ Pinhole \in Nat
        BY ClientAssumption, GrantAssumption DEF ClientInv, TypeOK, KnockRequest, Grant
  <2>4. mono < allow[Self].expiry BY <2>1, <2>2, <2>3
  <2> QED BY <2>2, <2>4 DEF SourceAllowed, AllowsPort
<1> QED BY <1>1, ClientInvariant, PTL
=============================================================================
