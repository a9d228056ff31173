---------------------------- MODULE MCGatekeeper ----------------------------
(***************************************************************************)
(* Instances of Gatekeeper for TLC.  The Loop definitions give the knock   *)
(* loop a client, a token, two bundles, a restart and a clock that outlasts *)
(* the replay window; Token and Full are the small worlds of single        *)
(* findings.                                                               *)
(***************************************************************************)
EXTENDS Gatekeeper

CONSTANTS a1, a2, n1, n2, n3, c1, t1, k1, k2, gate, other

Sealed(ts, n, id, ports, how, key) ==
    [sealed_to |-> gate, gate_id |-> gate, ts |-> ts, nonce |-> n, id |-> id,
     ports |-> ports, proof |-> <<how, key>>]

Lists(cs, ts) ==
    [clients |-> [i \in {c1, t1} |-> IF i = c1 THEN cs ELSE None],
     tokens  |-> [i \in {c1, t1} |-> IF i = t1 THEN ts ELSE None]]
CanUse(k, ports) == [key |-> k, ports |-> ports]

\* Loop: an honest client, whose knock is too far ahead of a slow clock at
\* first and may be replayed until the skew ends it; one forged with its nonce
\* and one for another gate; and two knocks with one token, the later of which
\* comes when the others have left the replay cache.
LoopPacket ==
    {Sealed(4, n1, c1, <<22>>, "Signature", k1),
     Sealed(4, n1, c1, <<22>>, "Psk", k1),
     [Sealed(4, n1, c1, <<22>>, "Signature", k1) EXCEPT !.gate_id = other],
     Sealed(0, n2, t1, <<80>>, "Psk", k2),
     Sealed(6, n3, t1, <<80>>, "Psk", k2)}

\* The reload takes the client's port away and gives it another; the token is
\* issued again under its id.
LoopBundle ==
    [g \in 0..1 |-> Lists(CanUse(k1, IF g = 0 THEN {22} ELSE {80}), CanUse(k2, {80}))]

\* States that differ only in what no step and no property of the loop reads:
\* the last decision, and the histories kept for Token and Full.
LoopView == <<trustVars, seen, allow, pc, knock, policy, watchVars, clockVars,
              admits, uses, grantor, until>>

\* Token: two knocks with one token, still listed in the second bundle.
TokenPacket ==
    {Sealed(1, n1, t1, <<22>>, "Psk", k2), Sealed(1, n2, t1, <<22>>, "Psk", k2)}
TokenBundle == [g \in 0..1 |-> Lists(None, CanUse(k2, {22}))]

\* Full: two credentials, each for one port, knocking from two addresses.
FullPacket ==
    {Sealed(1, n1, c1, <<22>>, "Signature", k1), Sealed(1, n2, t1, <<80>>, "Psk", k2)}
FullBundle == [g \in 0..0 |-> Lists(CanUse(k1, {22}), CanUse(k2, {80}))]
=============================================================================
