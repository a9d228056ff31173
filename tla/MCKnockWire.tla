----------------------------- MODULE MCKnockWire ----------------------------
(***************************************************************************)
(* An instance of KnockWire for TLC, with fields of a byte or two, and the *)
(* sizes of the real layout checked against the real filter.               *)
(***************************************************************************)
EXTENDS KnockWire, TLC

MCEphLen == (1 :> 2) @@ (2 :> 1)
MCGate == {[public |-> "fips-key", suite |-> 1], [public |-> "modern-key", suite |-> 2]}
MCClientKey == {[key |-> "ecdsa", suite |-> 1, thumbprint |-> <<1>>],
                [key |-> "ed25519", suite |-> 2, thumbprint |-> <<1>>]}
MCToken == {[key |-> "secret", token_id |-> <<0>>]}
MCRequest ==
    {[nonce |-> <<1>>, timestamp |-> 1, gate_id |-> <<1>>, ports |-> p] :
        p \in {<<>>, <<4>>, <<4, 1>>, <<1, 1, 1>>}}

\* Plaintexts of every length up to one more than the longest that decodes:
\* any number of ports, the rest as in the requests or not.
MCForeignPlain ==
    {SubSeq(<<v, 1, 1, 1, id, count>> \o tail, 1, n) :
        v \in {0, 1}, id \in {0, 1}, count \in 0..3, tail \in [1..6 -> {0, 1}], n \in 0..12}

\* The layout of spa-common and spa-crypto under KNOCK_MIN and KNOCK_MAX.
Real == INSTANCE WireFormat WITH
    Base <- 256, Version <- 1, NonceLen <- 16, TimeLen <- 8, GateIdLen <- 16,
    ThumbprintLen <- 32, PortLen <- 2, SigLen <- 64, MaxPorts <- 8, TagLen <- 16,
    EphLen <- (1 :> 65) @@ (2 :> 32), MinKnock <- 180, MaxKnock <- 260

ASSUME RealKnocksPassTheFilter ==
    \A s \in {1, 2}, n \in 1..8 : Real!SizeOk(Real!KnockLen(s, n))
=============================================================================
