----------------------------- MODULE KnockWire ------------------------------
(***************************************************************************)
(* One datagram at a time from a sender to a gate (spa-crypto): a client   *)
(* signs and seals a request, or a token holder authenticates one with its *)
(* secret, or some other program that knows the gate's public key seals a  *)
(* plaintext of its own; the network cuts, pads or garbles it; the size    *)
(* filter and GateKeypair::open take it or refuse it.                      *)
(*                                                                         *)
(* The primitives are ideal: a shared secret is the pair of keys it comes  *)
(* from, an AEAD box opens under the key and header it was made with while *)
(* its contents are those the tag was computed over, and an authenticator  *)
(* verifies if it was made for that message with that key.                 *)
(***************************************************************************)
EXTENDS WireFormat, FiniteSets

CONSTANTS
    Gate,           \* GateKeypair: [public, suite]
    ClientKey,      \* ClientKey: [key, suite, thumbprint]
    Token,          \* [key, token_id], the secrets of PSK knocks
    Request,        \* KnockRequest: [nonce, timestamp, gate_id, ports]
    ForeignPlain,   \* plaintexts other programs seal
    MaxKnocks,      \* bound on the datagrams sent
    None

ASSUME WireAssumption ==
    /\ Base \in Nat \ {0, 1} /\ Version \in Byte /\ MaxPorts \in Byte
    /\ Suite \subseteq Byte
    /\ {NonceLen, TimeLen, GateIdLen, ThumbprintLen, PortLen, SigLen, TagLen} \subseteq Nat
    /\ EphLen \in [Suite -> Nat]
    /\ \A g \in Gate : g.suite \in Suite /\ g = [public |-> g.public, suite |-> g.suite]
    /\ \A c \in ClientKey : c.thumbprint \in Bytes(ThumbprintLen)
    /\ \A t \in Token : t.token_id \in Bytes(ThumbprintLen)
    /\ Request \subseteq [nonce : Bytes(NonceLen), timestamp : Unsigned(TimeLen),
                         gate_id : Bytes(GateIdLen), ports : Seq(Unsigned(PortLen))]
    /\ ForeignPlain \subseteq Seq(Byte)
    /\ MaxKnocks \in Nat
    /\ \A s \in Suite, n \in 1..MaxPorts : SizeOk(KnockLen(s, n))

VARIABLES
    signed,         \* the authenticators made so far
    net,            \* the datagram in flight, or None
    sent,           \* history: net as it was sealed, for which gate, by whom
    outcome,        \* what came of it at the gate, or None
    knocks          \* datagrams sent so far

vars == <<signed, net, sent, outcome, knocks>>

NoEph == 0          \* an ephemeral key that is none

\* derive: the AEAD key of a suite, a shared secret and the ephemeral key.
Derive(suite, public, eph) == <<suite, <<public, eph>>, eph>>

AeadSeal(key, header, plain) ==
    [key |-> key, aad |-> header, plain |-> plain, tagged |-> plain]

\* aead_open: same key, same header, and contents the tag vouches for.
AeadOpens(box, key, header) ==
    /\ box.key = key
    /\ box.aad = header
    /\ box.plain = box.tagged

-----------------------------------------------------------------------------
(***************************************************************************)
(* The senders                                                             *)
(***************************************************************************)
\* KnockRequest::authorization, with the signature slot still to be filled.
AuthorizationOf(req, id, sig) ==
    [nonce |-> req.nonce, timestamp |-> req.timestamp, gate_id |-> req.gate_id,
     thumbprint |-> id, ports |-> req.ports, signature |-> sig]

\* seal_envelope: a fresh ephemeral key, the header as associated data.
SealEnvelope(g, suite, plain, by) ==
    LET header == [version |-> Version, suite |-> suite, eph |-> knocks + 1]
        box    == AeadSeal(Derive(suite, g.public, knocks + 1), header, plain)
    IN  /\ net' = [len |-> HeaderLen(suite) + Len(plain) + TagLen,
                   header |-> header, box |-> box]
        /\ sent' = [datagram |-> net', gate |-> g, by |-> by]

\* Fill the slot with an authenticator over the signing bytes (a signature may
\* come out differently each time) and seal the encoding.
Authenticate(how, key, id, g, suite, req) ==
    \E sig \in Bytes(SigLen) :
        LET a == AuthorizationOf(req, id, sig) IN
        /\ Encodable(a)
        /\ signed' = signed \cup
              {[how |-> how, key |-> key, message |-> SigningBytes(a), sig |-> sig, auth |-> a]}
        /\ SealEnvelope(g, suite, Encode(a), <<how, key, a>>)

Send ==
    /\ knocks < MaxKnocks
    /\ knocks' = knocks + 1
    /\ UNCHANGED outcome

\* ClientKey::seal; key agreement fails if the gate's key is of another suite.
Seal(c, g, req) ==
    /\ Send
    /\ c.suite = g.suite
    /\ Authenticate("Signature", c.key, c.thumbprint, g, c.suite, req)

\* seal_psk, under the suite of the gate's descriptor.
SealPsk(t, g, req) ==
    /\ Send
    /\ Authenticate("Psk", t.key, t.token_id, g, g.suite, req)

\* Another implementation seals whatever it likes.
SealForeign(g, plain) ==
    /\ Send
    /\ SealEnvelope(g, g.suite, plain, None)
    /\ UNCHANGED signed

-----------------------------------------------------------------------------
(***************************************************************************)
(* The network.  Both AEADs are stream ciphers: a shorter, longer or       *)
(* garbled ciphertext still decrypts to something, under a tag that does   *)
(* not fit it.                                                             *)
(***************************************************************************)
InFlight == net # None /\ outcome = None

\* Damage is done once, and to this library's knocks: the AEAD does not look
\* at who sealed what.
Intact == InFlight /\ net = sent.datagram /\ sent.by # None

Cut(n) ==
    /\ Intact /\ n < net.len
    /\ LET left == n - HeaderLen(net.header.suite) - TagLen
       IN  net' = [net EXCEPT !.len = n,
                              !.box.plain = SubSeq(@, 1, IF left < 0 THEN 0 ELSE left)]
    /\ UNCHANGED <<signed, sent, outcome, knocks>>

Pad(b) ==
    /\ Intact
    /\ net' = [net EXCEPT !.len = @ + 1, !.box.plain = Append(@, b)]
    /\ UNCHANGED <<signed, sent, outcome, knocks>>

GarbleHeader ==
    /\ Intact
    /\ \/ \E v \in Byte \ {net.header.version} : net' = [net EXCEPT !.header.version = v]
       \/ \E s \in Suite \ {net.header.suite} : net' = [net EXCEPT !.header.suite = s]
       \/ net' = [net EXCEPT !.header.eph = NoEph]
    /\ UNCHANGED <<signed, sent, outcome, knocks>>

GarbleBody(i, b) ==
    /\ Intact
    /\ i \in 1..Len(net.box.plain) /\ b # net.box.plain[i]
    /\ net' = [net EXCEPT !.box.plain[i] = b]
    /\ UNCHANGED <<signed, sent, outcome, knocks>>

-----------------------------------------------------------------------------
(***************************************************************************)
(* The gate                                                                *)
(***************************************************************************)
\* GateKeypair::open: every check that fails is the same OpenError.
Opens(g, d) ==
    /\ d.len >= HeaderLen(g.suite) + TagLen
    /\ d.header.version = Version /\ d.header.suite = g.suite
    /\ AeadOpens(d.box, Derive(g.suite, g.public, d.header.eph), d.header)
    /\ Decode(d.box.plain).err = "none"

\* The size filter, then Opened { auth, signing_bytes } or OpenError.
Judge(g, d) ==
    IF ~SizeOk(d.len) THEN [at |-> g, verdict |-> "Dropped"]
    ELSE IF ~Opens(g, d) THEN [at |-> g, verdict |-> "OpenError"]
    ELSE [at |-> g, verdict |-> "Opened", auth |-> Decode(d.box.plain).auth,
          signing_bytes |-> Take(d.box.plain, 0, Len(d.box.plain) - SigLen)]

Deliver(g) ==
    /\ InFlight
    /\ outcome' = Judge(g, net)
    /\ UNCHANGED <<signed, net, sent, knocks>>

\* The knock loop goes back to recv_from.
Receive ==
    /\ outcome # None
    /\ net' = None /\ sent' = None /\ outcome' = None
    /\ UNCHANGED <<signed, knocks>>

\* verify_signature, verify_mac: key made sig for exactly this message.
Verifies(how, key, message, sig) ==
    \E s \in signed : s.how = how /\ s.key = key /\ s.message = message /\ s.sig = sig

-----------------------------------------------------------------------------
Init ==
    /\ signed = {} /\ net = None /\ sent = None /\ outcome = None /\ knocks = 0

Senders ==
    net = None /\ \E g \in Gate :
        \/ \E c \in ClientKey, req \in Request : Seal(c, g, req)
        \/ \E t \in Token, req \in Request : SealPsk(t, g, req)
        \/ \E plain \in ForeignPlain : SealForeign(g, plain)

Network ==
    \/ \E n \in 0..MaxKnock : Cut(n)
    \/ \E b \in Byte : Pad(b)
    \/ GarbleHeader
    \/ \E i \in 1..PlainLen(MaxPorts), b \in Byte : GarbleBody(i, b)

Next == Senders \/ Network \/ Receive \/ \E g \in Gate : Deliver(g)

Spec == Init /\ [][Next]_vars

-----------------------------------------------------------------------------
\* Types.
TypeOK ==
    /\ knocks \in 0..MaxKnocks
    /\ \A s \in signed : s.how \in {"Signature", "Psk"} /\ s.sig \in Bytes(SigLen)
    /\ net # None =>
          /\ net.len \in Nat /\ net.header.suite \in Suite
          /\ \A i \in DOMAIN net.box.plain : net.box.plain[i] \in Byte
    /\ outcome # None =>
          /\ outcome.at \in Gate
          /\ outcome.verdict \in {"Dropped", "OpenError", "Opened"}

Opened == outcome # None /\ outcome.verdict = "Opened"

\* A knock this library sealed and the network left alone gets through the size
\* filter and opens, at the gate it was sealed to, as the request it was made
\* from, with an authenticator that verifies under its sender's key: seal and
\* open agree on layout, sizes and signed bytes for either suite and method.
HonestKnockOpens ==
    (outcome # None /\ net = sent.datagram /\ outcome.at = sent.gate /\ sent.by # None) =>
        /\ Opened
        /\ outcome.auth = sent.by[3]
        /\ Verifies(sent.by[1], sent.by[2], outcome.signing_bytes, outcome.auth.signature)

\* Whatever plaintext is sealed, it decodes only if it is the one encoding of
\* what it decodes to, so the signing bytes open slices off the plaintext are
\* those of the authorization admit judges (open, decode, signing_bytes).
DecodesCanonically ==
    Opened =>
        /\ Encode(outcome.auth) = net.box.plain
        /\ outcome.signing_bytes = SigningBytes(outcome.auth)

\* An authorization that verifies under somebody's key is, field by field, one
\* that its owner authenticated: no encoding of one request can be taken for
\* another's.
VerifiedAsSigned ==
    Opened =>
        \A s \in signed :
            Verifies(s.how, s.key, outcome.signing_bytes, outcome.auth.signature) =>
                \E r \in signed : r.how = s.how /\ r.key = s.key /\ r.auth = outcome.auth
=============================================================================
