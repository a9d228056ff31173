----------------------------- MODULE WireFormat -----------------------------
(***************************************************************************)
(* The byte layout of a knock (spa-common): the authorization inside it,   *)
(* encoded, decoded with every read checked against the end of the buffer, *)
(* and the sizes the sealed envelope around it has.  A byte is a number    *)
(* below Base and the fields' lengths are parameters, so that TLC can run  *)
(* through every short buffer.                                             *)
(***************************************************************************)
EXTENDS Integers, Sequences

CONSTANTS
    Base,           \* values of a byte (256)
    Version,        \* VERSION
    NonceLen, TimeLen, GateIdLen, ThumbprintLen, PortLen, SigLen,
    MaxPorts,       \* MAX_PORTS
    EphLen,         \* suite -> eph_pub_len
    TagLen,         \* AEAD_TAG_LEN
    MinKnock, MaxKnock      \* the sizes udp_gate lets through

Byte    == 0..Base - 1
Bytes(n) == [1..n -> Byte]
Suite   == DOMAIN EphLen

\* Mutant: from_le_bytes.
NumberLittle(s) ==
    LET value[i \in 0..Len(s)] == IF i = 0 THEN 0 ELSE value[i - 1] + s[i] * Base^(i - 1)
    IN  value[Len(s)]

\* What the first i bytes of s are worth, for every i.
Values(s) ==
    LET value[i \in 0..Len(s)] == IF i = 0 THEN 0 ELSE value[i - 1] * Base + s[i]
    IN  value

\* from_be_bytes, and the numbers of w bytes (u16, u64).
Number(s) == Values(s)[Len(s)]
Unsigned(w) == {Number(s) : s \in Bytes(w)}

\* n without its last k bytes, for every k up to w.
Shifts(n, w) ==
    LET shift[k \in 0..w] == IF k = 0 THEN n ELSE shift[k - 1] \div Base
    IN  shift

\* Mutant: the high digits are not cut off the low bytes.
BigEndianUncut(n, w) == [i \in 1..w |-> Shifts(n, w)[w - i]]

\* to_be_bytes, for a number of w bytes.
BigEndian(n, w) == [i \in 1..w |-> Shifts(n, w)[w - i] % Base]

Authorization ==
    [nonce : Bytes(NonceLen), timestamp : Unsigned(TimeLen), gate_id : Bytes(GateIdLen),
     thumbprint : Bytes(ThumbprintLen), ports : Seq(Unsigned(PortLen)),
     signature : Bytes(SigLen)]

\* The bytes before port_count, and the length of a plaintext with n ports.
FixedLen == 1 + NonceLen + TimeLen + GateIdLen + ThumbprintLen
PlainLen(n) == FixedLen + 1 + PortLen * n + SigLen

\* version(1) | suite(1) | eph_pub, and the whole datagram with n ports.
HeaderLen(suite) == 2 + EphLen[suite]
KnockLen(suite, n) == HeaderLen(suite) + PlainLen(n) + TagLen

\* signing_bytes and encode refuse an authorization with no or too many ports.
Encodable(a) == Len(a.ports) \in 1..MaxPorts

\* The ports, PortLen bytes each.
PortBytes(ports) ==
    [i \in 1..PortLen * Len(ports) |->
        BigEndian(ports[((i - 1) \div PortLen) + 1], PortLen)[((i - 1) % PortLen) + 1]]

\* Mutant: the number of ports is written as one, whatever it is.
SigningBytesUncounted(a) ==
    <<Version>> \o a.nonce \o BigEndian(a.timestamp, TimeLen) \o a.gate_id
      \o a.thumbprint \o <<1>> \o PortBytes(a.ports)

SigningBytes(a) ==
    <<Version>> \o a.nonce \o BigEndian(a.timestamp, TimeLen) \o a.gate_id
      \o a.thumbprint \o <<Len(a.ports)>> \o PortBytes(a.ports)

Encode(a) == SigningBytes(a) \o a.signature

\* Reader::take: the n bytes after pos.
Take(buf, pos, n) == SubSeq(buf, pos + 1, pos + n)

\* The authorization at the start of a buffer that is long enough for it.
Fields(buf, count) ==
    LET nonceEnd == 1 + NonceLen
        timeEnd  == nonceEnd + TimeLen
        gateEnd  == timeEnd + GateIdLen
        portsEnd == FixedLen + 1 + PortLen * count
    IN  [nonce      |-> Take(buf, 1, NonceLen),
         timestamp  |-> Number(Take(buf, nonceEnd, TimeLen)),
         gate_id    |-> Take(buf, timeEnd, GateIdLen),
         thumbprint |-> Take(buf, gateEnd, ThumbprintLen),
         ports      |-> [i \in 1..count |->
                            Number(Take(buf, FixedLen + 1 + PortLen * (i - 1), PortLen))],
         signature  |-> Take(buf, portsEnd, SigLen)]

\* Mutant: bytes after a complete authorization are ignored.
DecodeLax(buf) ==
    LET Err(e) == [err |-> e]
        count  == buf[FixedLen + 1]
    IN  IF Len(buf) < 1 THEN Err("TooShort")
        ELSE IF buf[1] # Version THEN Err("BadVersion")
        ELSE IF Len(buf) < FixedLen + 1 THEN Err("TooShort")
        ELSE IF count \notin 1..MaxPorts THEN Err("BadPortCount")
        ELSE IF Len(buf) < PlainLen(count) THEN Err("TooShort")
        ELSE [err |-> "none", auth |-> Fields(buf, count)]

\* Authorization::decode: the first check that fails names the error.
Decode(buf) ==
    LET Err(e) == [err |-> e]
        count  == buf[FixedLen + 1]
    IN  IF Len(buf) < 1 THEN Err("TooShort")
        ELSE IF buf[1] # Version THEN Err("BadVersion")
        ELSE IF Len(buf) < FixedLen + 1 THEN Err("TooShort")
        ELSE IF count \notin 1..MaxPorts THEN Err("BadPortCount")
        ELSE IF Len(buf) < PlainLen(count) THEN Err("TooShort")
        ELSE IF Len(buf) > PlainLen(count) THEN Err("TrailingBytes")
        ELSE [err |-> "none", auth |-> Fields(buf, count)]

\* udp_gate's size filter on the UDP payload.
SizeOk(len) == len \in MinKnock..MaxKnock
=============================================================================
