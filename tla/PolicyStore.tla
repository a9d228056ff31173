----------------------------- MODULE PolicyStore ----------------------------
(***************************************************************************)
(* What the trust store of spa-gated promises, whatever lands on disk: a   *)
(* start loads clients and tokens of one bundle that verifies under the    *)
(* anchor, or of the configuration file; while the daemon is up the anchor *)
(* stands, and a policy from a bundle is replaced only by a bundle of a    *)
(* newer generation that verifies under it, the clients first and then the *)
(* tokens of the same bundle.                                              *)
(***************************************************************************)
EXTENDS Integers

CONSTANTS
    Bundle,                 \* signed bundles: records of a generation and a key
    Inline,                 \* the policy of the configuration file
    Anchor                  \* what may be held as the anchor: a key, or none

VARIABLES
    up,                     \* the daemon judges knocks
    anchor,                 \* the key bundles are verified under
    clients, tokens         \* where the policy of its two maps is from

storeVars == <<up, anchor, clients, tokens>>

\* The anchor is configured, or learnt from the control plane, before the start.
SetAnchor(k) ==
    /\ ~up
    /\ anchor' = k
    /\ UNCHANGED <<up, clients, tokens>>

Load(b) ==
    /\ ~up
    /\ b = Inline \/ b.key = anchor
    /\ up' = TRUE
    /\ clients' = b /\ tokens' = b
    /\ UNCHANGED anchor

SetClients(b) ==
    /\ up /\ clients = tokens /\ clients # Inline
    /\ b.key = anchor /\ b.gen > clients.gen
    /\ clients' = b
    /\ UNCHANGED <<up, anchor, tokens>>

SetTokens ==
    /\ up /\ tokens # clients
    /\ tokens' = clients
    /\ UNCHANGED <<up, anchor, clients>>

Stop ==
    /\ up /\ up' = FALSE
    /\ UNCHANGED <<anchor, clients, tokens>>

Init ==
    /\ up = FALSE /\ anchor \in Anchor
    /\ clients \in Bundle \cup {Inline} /\ tokens = clients

Next ==
    \/ \E k \in Anchor : SetAnchor(k)
    \/ \E b \in Bundle \cup {Inline} : Load(b)
    \/ \E b \in Bundle : SetClients(b)
    \/ SetTokens \/ Stop

Spec == Init /\ [][Next]_storeVars
=============================================================================
