----------------------------- MODULE PolicyGate -----------------------------
(***************************************************************************)
(* What the daemon promises the XDP program, and an operator: a grant is   *)
(* written in one step, for a packet this process has not granted before,  *)
(* stamped close to the present, and authorised in full by one bundle that *)
(* is in force or was until a moment ago.  Locks, clocks, caches and the   *)
(* order of the checks are Gatekeeper's, which implements this.            *)
(***************************************************************************)
EXTENDS GrantMap

CONSTANTS
    Packet,             \* what clients and token holders have sealed
    Gen,                \* generations of the bundle
    Authorizes(_, _),   \* generation, packet: it lets the packet open its ports
    Ahead, Behind,      \* how far from the clock a granted packet's stamp may be
    MaxStall            \* how long a judgement may take

VARIABLES
    opened,                 \* packets this process wrote a grant for
    clientsGen, tokensGen,  \* the generations the trust store is from
    until                   \* generation -> when it stopped being in force

policyVars == <<clientsGen, tokensGen, until>>
gateVars   == <<allow, mono, opened, policyVars>>

Never == -(MaxStall + Pinhole)

\* A knock received while g was in force may be granted now.
InForce(g) == g \in {clientsGen, tokensGen} \/ mono <= until[g] + MaxStall

GrantTo(p, a, g) ==
    /\ p \notin opened /\ opened' = opened \cup {p}
    /\ Authorizes(g, p) /\ InForce(g)
    /\ p.ts \in mono - Behind..mono + Ahead
    /\ allow' = AllowInsert(allow, a, GrantFor(p.ports, mono))
    /\ UNCHANGED <<mono, policyVars>>

\* A newer bundle replaces the clients, then the tokens.
SetClients(g) ==
    /\ clientsGen = tokensGen /\ g > clientsGen
    /\ clientsGen' = g
    /\ UNCHANGED <<allow, mono, opened, tokensGen, until>>

SetTokens ==
    /\ tokensGen # clientsGen
    /\ tokensGen' = clientsGen
    /\ until' = [until EXCEPT ![tokensGen] = mono]
    /\ UNCHANGED <<allow, mono, opened, clientsGen>>

\* A restart forgets every grant and every packet.
Restart(g) ==
    /\ clientsGen' = g /\ tokensGen' = g
    /\ allow' = [a \in Addr |-> NoGrant]
    /\ opened' = {}
    /\ until' = [h \in Gen |-> Never]
    /\ UNCHANGED mono

Tick ==
    /\ mono' = mono + 1
    /\ UNCHANGED <<allow, opened, policyVars>>

Init ==
    /\ mono = 0 /\ allow = [a \in Addr |-> NoGrant]
    /\ opened = {} /\ until = [h \in Gen |-> Never]
    /\ clientsGen \in Gen /\ tokensGen = clientsGen

Next ==
    \/ Tick \/ SetTokens
    \/ \E g \in Gen : SetClients(g) \/ Restart(g)
    \/ \E p \in Packet, a \in Addr, g \in Gen : GrantTo(p, a, g)

Spec == Init /\ [][Next]_gateVars
=============================================================================
