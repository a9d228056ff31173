----------------------------- MODULE MCFlowGate -----------------------------
(***************************************************************************)
(* An instance of FlowGate for TLC: one flow that two CPUs work on.        *)
(***************************************************************************)
EXTENDS FlowGate

CONSTANT a1

OneFlow == {[src |-> a1, dport |-> 22, id |-> 1]}
MCFlags == {{"SYN"}, {"ACK"}, {"FIN", "ACK"}}
OnePortList == {<<22>>}
OneProtectedSet == {{22}}
=============================================================================
