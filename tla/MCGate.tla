------------------------------- MODULE MCGate -------------------------------
(***************************************************************************)
(* An instance of Gate for TLC: a client that may open port 22 under the   *)
(* first bundle and port 80 under the second, which cloaks more ports than *)
(* PROTECTED has room for until the old one is removed.                    *)
(***************************************************************************)
EXTENDS Gate, TLC

CONSTANTS a1, cpu1, cpu2

CpuSymmetry == Permutations({cpu1, cpu2})

MCFlow  == {[src |-> a1, dport |-> 22, id |-> 1], [src |-> a1, dport |-> 80, id |-> 2]}
MCFlags == {{"SYN"}, {"FIN", "ACK"}}
MCPacket == {[ts |-> 0, ports |-> <<22>>], [ts |-> 1, ports |-> <<80>>]}
MCPortList == {<<22>>, <<80>>}
MCAuthorizes(g, p) == p.ports = (IF g = 0 THEN <<22>> ELSE <<80>>)
MCProtectedSet == {{22, 443}, {22, 80, 8080}}
MCPortsIn == [g \in 0..1 |-> IF g = 0 THEN {22, 443} ELSE {22, 80, 8080}]
=============================================================================
