--------------------------- MODULE MCRateLimiter ----------------------------
(***************************************************************************)
(* Instances of RateLimiter for TLC: the sizes are one below, at and above *)
(* the bounds of the filter; the interface steers a source to one CPU, or  *)
(* hands every packet to any CPU.                                          *)
(***************************************************************************)
EXTENDS RateLimiter

MCSize    == {KnockMin - 1, KnockMin, KnockMax, KnockMax + 1}
Steered   == [a \in Addr |-> {a}]
Unsteered == [a \in Addr |-> Cpu]
=============================================================================
