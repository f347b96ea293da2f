------------------------------ MODULE EcJpake ------------------------------
(***************************************************************************)
(* The EC J-PAKE exchange (meshcop-dtls/src/ecjpake) in a group of prime   *)
(* order Q: the point k times the generator is the number k, addition is   *)
(* modulo Q and 0 is the identity.  A point and its opposite have the same *)
(* X coordinate.  Challenge, the hash behind a proof, is any function; the *)
(* hash that makes the session key is injective and left out.              *)
(***************************************************************************)
EXTENDS Bytes

CONSTANTS Q, Challenge(_, _, _, _)

Generator == 1
Identity == 0
ScalarLen == 3      \* the 32 bytes of a P-256 scalar

ClientId == "client"
ServerId == "server"
PeerId(id) == IF id = ClientId THEN ServerId ELSE ClientId

Add(p, q) == (p + q) % Q
Times(p, n) == (p * n) % Q

\* scalar_from_secret: a secret that reduces to zero becomes one.
ScalarFromSecret(secret) == IF secret % Q = 0 THEN 1 ELSE secret % Q

Party(id, secret, x1, x2) ==
    [id |-> id, secret |-> ScalarFromSecret(secret), x1 |-> x1, x2 |-> x2]

-----------------------------------------------------------------------------
(* Schnorr proofs: of knowing `private` with public = base * private.      *)

GenerateProof(base, private, public, id, nonce) ==
    LET v == Times(base, nonce)
    IN  [v |-> v, r |-> (nonce - private * Challenge(base, v, public, id)) % Q, id |-> id]

Verifies(proof, base, public, id) ==
    /\ proof.id = id
    /\ public # Identity
    /\ proof.v # Identity
    /\ Add(Times(base, proof.r), Times(public, Challenge(base, proof.v, public, id))) = proof.v

-----------------------------------------------------------------------------
(* The two rounds.                                                         *)

RoundOne(p, nonce) ==
    LET g1 == Times(Generator, p.x1)
        g2 == Times(Generator, p.x2)
    IN  [g1 |-> g1, g2 |-> g2, id |-> p.id,
         proof1 |-> GenerateProof(Generator, p.x1, g1, p.id, nonce),
         proof2 |-> GenerateProof(Generator, p.x2, g2, p.id, nonce)]

VerifiedRoundOne(one) ==
    /\ one.g1 # Identity /\ one.g2 # Identity
    /\ Verifies(one.proof1, Generator, one.g1, one.id)
    /\ Verifies(one.proof2, Generator, one.g2, one.id)

\* second_round_base: for p's own round two, or for its peer's.
SecondRoundBase(p, own, peer, sender) ==
    IF sender = p.id
    THEN Add(Add(own.g1, peer.g1), peer.g2)
    ELSE Add(Add(own.g1, own.g2), peer.g1)

RoundTwo(p, own, peer, nonce) ==
    LET base == SecondRoundBase(p, own, peer, p.id)
        exponent == Times(p.x2, p.secret)
        point == Times(base, exponent)
    IN  IF ~VerifiedRoundOne(peer) \/ base = Identity THEN Err
        ELSE [point |-> point, proof |-> GenerateProof(base, exponent, point, p.id, nonce)]

\* derive_session_key: the hash of the X coordinate of the shared point.
SessionKey(shared) == Min({shared, Q - shared})

Shared(p, peer, two) ==
    Times(Add(two.point, Q - Times(peer.g2, Times(p.x2, p.secret))), p.x2)

Finish(p, own, peer, two) ==
    LET base == SecondRoundBase(p, own, peer, PeerId(p.id))
    IN  IF ~VerifiedRoundOne(peer) \/ two.point = Identity
            \/ ~Verifies(two.proof, base, two.point, peer.id)
            \/ Shared(p, peer, two) = Identity
        THEN Err
        ELSE SessionKey(Shared(p, peer, two))

-----------------------------------------------------------------------------
(* The TLS encodings: every field behind its length, scalars without their  *)
(* leading zeros.  A point is its SEC1 tag and the number it stands for, or *)
(* its X coordinate when it comes compressed.                              *)

PointBytes(p) == <<4, p>>
ScalarBytes(n) == Append(Fill(ScalarLen - 1, 0), n)
ScalarOf(b) == FoldLeft(LAMBDA n, byte : n * 256 + byte, 0, b)

\* Mutant of TrimScalar: the scalar zero loses its last byte as well.
TrimScalarAll(b) ==
    LET i == SelectInSeq(b, LAMBDA x : x # 0)
    IN  IF i = 0 THEN <<>> ELSE Drop(b, i - 1)

TrimScalar(b) ==
    LET i == SelectInSeq(b, LAMBDA x : x # 0)
    IN  IF i = 0 THEN <<Last(b)>> ELSE Drop(b, i - 1)

Opaque(b) == <<Len(b)>> \o b

EncodeKp(point, proof) ==
    LET r == TrimScalar(ScalarBytes(proof.r))
    IN  IF point = Identity \/ proof.v = Identity \/ r = <<>> THEN Err
        ELSE Opaque(PointBytes(point)) \o Opaque(PointBytes(proof.v)) \o Opaque(r)

\* encode_tls_kkpp.
EncodeRoundOne(one) ==
    LET kp1 == EncodeKp(one.g1, one.proof1)
        kp2 == EncodeKp(one.g2, one.proof2)
    IN  IF kp1 = Err \/ kp2 = Err THEN Err ELSE kp1 \o kp2

CurveParams == <<3, 0, 23>>

\* encode_tls_key_exchange: only the server's names the curve.
EncodeRoundTwo(two, withCurve) ==
    LET kp == EncodeKp(two.point, two.proof)
    IN  IF kp = Err THEN Err ELSE (IF withCurve THEN CurveParams ELSE <<>>) \o kp

\* A field behind its length, which must not be zero, and what follows it.
ReadOpaque(bytes) ==
    IF bytes = <<>> THEN Err
    ELSE IF bytes[1] = 0 \/ Len(bytes) < 1 + bytes[1] THEN Err
    ELSE [field |-> SubSeq(bytes, 2, 1 + bytes[1]), rest |-> Drop(bytes, 1 + bytes[1])]

\* point_from_bytes: the whole point, or its X coordinate and which of the two
\* points with that coordinate it is.
PointOf(field) ==
    IF Len(field) # 2 THEN Err
    ELSE CASE field[1] = 4 /\ field[2] \in 1..(Q - 1) -> field[2]
           [] field[1] = 2 /\ field[2] \in 1..(Q \div 2) -> field[2]
           [] field[1] = 3 /\ field[2] \in 1..(Q \div 2) -> Q - field[2]
           [] OTHER -> Err

ReadPoint(bytes) ==
    LET o == ReadOpaque(bytes)
    IN  IF o = Err THEN Err
        ELSE IF PointOf(o.field) = Err THEN Err
        ELSE [point |-> PointOf(o.field), rest |-> o.rest]

\* A point and the proof of its exponent, claimed by `id`.
ReadKp(bytes, id) ==
    LET point == ReadPoint(bytes)
        v == ReadPoint(point.rest)
        r == ReadOpaque(v.rest)
    IN  IF point = Err THEN Err
        ELSE IF v = Err THEN Err
        ELSE IF r = Err THEN Err
        ELSE IF Len(r.field) > ScalarLen THEN Err
        ELSE IF ScalarOf(r.field) >= Q THEN Err
        ELSE [point |-> point.point, rest |-> r.rest,
              proof |-> [v |-> v.point, r |-> ScalarOf(r.field), id |-> id]]

\* decode_tls_kkpp: two of them and nothing else, their proofs verified.
DecodeRoundOne(bytes, id) ==
    LET kp1 == ReadKp(bytes, id)
        kp2 == ReadKp(kp1.rest, id)
        one == [g1 |-> kp1.point, g2 |-> kp2.point, id |-> id,
                proof1 |-> kp1.proof, proof2 |-> kp2.proof]
    IN  IF kp1 = Err THEN Err
        ELSE IF kp2 = Err THEN Err
        ELSE IF kp2.rest # <<>> \/ ~VerifiedRoundOne(one) THEN Err ELSE one

DecodeRoundTwo(bytes, id, withCurve) ==
    LET kp == ReadKp(IF withCurve THEN Drop(bytes, Len(CurveParams)) ELSE bytes, id)
    IN  IF withCurve /\ ~IsPrefix(CurveParams, bytes) THEN Err
        ELSE IF kp = Err THEN Err
        ELSE IF kp.rest # <<>> THEN Err ELSE [point |-> kp.point, proof |-> kp.proof]
=============================================================================
