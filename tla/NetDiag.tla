------------------------------ MODULE NetDiag ------------------------------
(***************************************************************************)
(* The network-diagnostic decoders (meshcop/src/meshcop/diag/decode.rs).   *)
(* A 32-bit counter or identifier is its four bytes, an address its        *)
(* sixteen.  The second half writes the same values the way a Thread node  *)
(* does; the decoders are checked against it.                              *)
(***************************************************************************)
EXTENDS Tlv

ExtMac == 0
Mac == 1
Mode == 2
Timeout == 3
Connectivity == 4
Route64 == 5
LeaderData == 6
NetworkData == 7
Ipv6Addresses == 8
MacCounters == 9
Battery == 14
Voltage == 15
ChildTable == 16
ChannelPages == 17
TypeList == 18
Eui64 == 23
ChildIpv6 == 30

DiagTypes == {ExtMac, Mac, Mode, Timeout, Connectivity, Route64, LeaderData, NetworkData,
              Ipv6Addresses, MacCounters, Battery, Voltage, ChildTable, ChannelPages,
              TypeList, Eui64, ChildIpv6}

DecodeMode(v) ==
    IF Len(v) # 1 THEN Err
    ELSE [rxOn |-> Flag(v[1], 3), mtd |-> ~Flag(v[1], 1), fullData |-> Flag(v[1], 0)]

\* Seven bytes, and three more when the node has buffers for sleepy children.
DecodeConnectivity(v) ==
    IF Len(v) < 7 THEN Err
    ELSE [priority |-> CASE v[1] \div 64 = 1 -> 1
                         [] v[1] \div 64 = 0 -> 0
                         [] v[1] \div 64 = 3 -> -1
                         [] OTHER -> -2,
          counts |-> SubSeq(v, 2, 7),
          buffer |-> IF Len(v) >= 10 THEN ReadU16(SubSeq(v, 8, 9)) ELSE None,
          datagrams |-> IF Len(v) >= 10 THEN v[10] ELSE None]

RouterIdMaskLen == 8

\* The router IDs of the mask, most significant bit first, in ascending order.
MaskIds(mask) ==
    SetToSortSeq({id \in 0..(RouterIdMaskLen * 8 - 1) : Flag(mask[id \div 8 + 1], 7 - (id % 8))},
                 LAMBDA i, j : i < j)

\* One route byte for every router of the mask, no more and no fewer.
DecodeRoute64(v) ==
    LET ids == MaskIds(SubSeq(v, 2, 1 + RouterIdMaskLen))
        routes == Drop(v, 1 + RouterIdMaskLen)
    IN  IF Len(v) < RouterIdMaskLen + 1 THEN Err
        ELSE IF Len(routes) # Len(ids) THEN Err
        ELSE [sequence |-> v[1],
              routes |-> [i \in DOMAIN ids |->
                  [id |-> ids[i], out |-> Bits(routes[i], 6, 2), in |-> Bits(routes[i], 4, 2),
                   cost |-> Bits(routes[i], 0, 4)]]]

DecodeLeaderData(v) ==
    IF Len(v) # 8 THEN Err
    ELSE [partition |-> Take(v, 4), weighting |-> v[5], versions |-> SubSeq(v, 6, 7),
          router |-> v[8]]

DecodeAddresses(v) == Chunks(16, v)
DecodeMacCounters(v) == IF Len(v) # 36 THEN Err ELSE Chunks(4, v)

\* The ninth bit of a child ID is the lowest of the entry's first byte.
DecodeChild(c) ==
    [timeout |-> c[1] \div 8, in |-> Bits(c[1], 1, 2),
     child |-> Bits(c[1], 0, 1) * 256 + c[2], mode |-> DecodeMode(<<c[3]>>)]

DecodeChildTable(v) == Each(DecodeChild, Chunks(3, v))

DecodeChildIpv6(v) ==
    IF Len(v) < 2 THEN Err
    ELSE IF DecodeAddresses(Drop(v, 2)) = Err THEN Err
    ELSE [rloc |-> ReadU16(Take(v, 2)), child |-> ReadU16(Take(v, 2)) % 512,
          addresses |-> DecodeAddresses(Drop(v, 2))]

\* NetworkDataTlvIter: the type in the upper seven bits, one length byte.
RECURSIVE SubTlvs(_)
SubTlvs(bytes) ==
    IF bytes = <<>> THEN <<>>
    ELSE IF Len(bytes) < 2 THEN Err
    ELSE IF Len(bytes) < 2 + bytes[2] THEN Err
    ELSE LET others == SubTlvs(Drop(bytes, 2 + bytes[2]))
         IN  IF others = Err THEN Err
             ELSE <<Tlv(bytes[1] \div 2, SubSeq(bytes, 3, 2 + bytes[2]))>> \o others

DecodeHasRoute(v) ==
    Each(LAMBDA c : [rloc |-> ReadU16(Take(c, 2)), preference |-> Bits(c[3], 6, 2),
                     nat64 |-> Flag(c[3], 5)],
         Chunks(3, v))

\* The ten flags of a border router, from the highest bit down.
DecodeBorderRouter(v) ==
    Each(LAMBDA c : [rloc |-> ReadU16(Take(c, 2)), preference |-> Bits(c[3], 6, 2),
                     flags |-> [i \in 1..6 |-> Flag(c[3], 6 - i)],
                     ndDns |-> Flag(c[4], 7), dp |-> Flag(c[4], 6)],
         Chunks(4, v))

DecodeContext(v) ==
    IF Len(v) # 2 THEN Err
    ELSE [compress |-> Flag(v[1], 4), id |-> Bits(v[1], 0, 4), length |-> v[2]]

HasRouteType == 0
PrefixType == 1
BorderRouterType == 2
ContextType == 3

\* The values of one sub-TLV type, each decoded; Err when one of them fails.
OfType(subs, ty, decode(_)) ==
    LET chosen == SelectSeq(subs, LAMBDA e : e.ty = ty)
    IN  Each(LAMBDA e : decode(e.value), chosen)

DecodePrefix(v) ==
    LET prefixLen == (v[2] + 7) \div 8
        subs == SubTlvs(Drop(v, 2 + prefixLen))
        routes == OfType(subs, HasRouteType, DecodeHasRoute)
        routers == OfType(subs, BorderRouterType, DecodeBorderRouter)
        contexts == OfType(subs, ContextType, DecodeContext)
    IN  IF Len(v) < 2 THEN Err
        ELSE IF Len(v) < 2 + prefixLen THEN Err
        ELSE IF subs = Err THEN Err
        ELSE IF routes = Err \/ routers = Err \/ contexts = Err THEN Err
        ELSE [domain |-> v[1], bits |-> v[2], prefix |-> SubSeq(v, 3, 2 + prefixLen),
              routes |-> FlattenSeq(routes), routers |-> FlattenSeq(routers),
              context |-> IF contexts = <<>> THEN None ELSE Last(contexts)]

DecodeNetworkData(v) ==
    IF SubTlvs(v) = Err THEN Err ELSE OfType(SubTlvs(v), PrefixType, DecodePrefix)

\* The value of one diagnostic TLV.
DecodeDiagTlv(ty, v) ==
    CASE ty \in {ExtMac, ChannelPages, TypeList} -> v
      [] ty \in {Mac, Voltage} -> ReadU16(v)
      [] ty = Mode -> DecodeMode(v)
      [] ty = Timeout -> ReadArray(4, v)
      [] ty = Connectivity -> DecodeConnectivity(v)
      [] ty = Route64 -> DecodeRoute64(v)
      [] ty = LeaderData -> DecodeLeaderData(v)
      [] ty = NetworkData -> DecodeNetworkData(v)
      [] ty = Ipv6Addresses -> DecodeAddresses(v)
      [] ty = MacCounters -> DecodeMacCounters(v)
      [] ty = Battery -> ReadArray(1, v)
      [] ty = ChildTable -> DecodeChildTable(v)
      [] ty = Eui64 -> ReadArray(8, v)
      [] ty = ChildIpv6 -> DecodeChildIpv6(v)

(***************************************************************************)
(* NetDiagData::decode.  One bad TLV of a known type fails the answer,     *)
(* other types are skipped; of several of a type the last one counts,      *)
(* except that the addresses of children are collected.                    *)
(***************************************************************************)
DecodeNetDiag(payload) ==
    LET tlvs == ParseTlvs(payload)
        values(ty) == OfType(tlvs, ty, LAMBDA v : DecodeDiagTlv(ty, v))
    IN  IF tlvs = Err THEN Err
        ELSE IF \E ty \in DiagTypes : values(ty) = Err THEN Err
        ELSE [ty \in DiagTypes |->
                IF values(ty) = <<>> THEN None
                ELSE IF ty = ChildIpv6 THEN values(ty) ELSE Last(values(ty))]

-----------------------------------------------------------------------------
(* What a node sends: the values above, written as the Thread specification *)
(* lays them out and the repository's fixtures do.                          *)

IfSet(flag, i) == IF flag THEN 2^i ELSE 0

ModeByte(m) == IfSet(m.rxOn, 3) + IfSet(~m.mtd, 1) + IfSet(m.fullData, 0)

IdMask(ids) ==
    [b \in 1..RouterIdMaskLen |-> MapThenSumSet(LAMBDA id : 2^(7 - (id % 8)),
                                                {id \in ids : id \div 8 + 1 = b})]

EncodeRoute64(r) ==
    <<r.sequence>> \o IdMask({r.routes[i].id : i \in DOMAIN r.routes})
    \o [i \in DOMAIN r.routes |-> r.routes[i].out * 64 + r.routes[i].in * 16 + r.routes[i].cost]

EncodeChildTable(children) ==
    FlattenSeq([i \in DOMAIN children |->
        LET c == children[i]
        IN  <<c.timeout * 8 + c.in * 2 + c.child \div 256, c.child % 256, ModeByte(c.mode)>>])

EncodeConnectivity(c) ==
    <<CASE c.priority = 1 -> 64 [] c.priority = 0 -> 0 [] c.priority = -1 -> 192>>
    \o c.counts \o (IF c.buffer = None THEN <<>> ELSE Be16(c.buffer) \o <<c.datagrams>>)

SubTlv(ty, stable, value) == <<ty * 2 + IfSet(stable, 0), Len(value)>> \o value

EncodePrefix(p) ==
    SubTlv(PrefixType, TRUE,
        <<p.domain, p.bits>> \o p.prefix
        \o SubTlv(HasRouteType, FALSE, FlattenSeq([i \in DOMAIN p.routes |->
               LET r == p.routes[i]
               IN  Be16(r.rloc) \o <<r.preference * 64 + IfSet(r.nat64, 5)>>]))
        \o SubTlv(BorderRouterType, TRUE, FlattenSeq([i \in DOMAIN p.routers |->
               LET r == p.routers[i]
               IN  Be16(r.rloc) \o
                   <<r.preference * 64 + MapThenSumSet(LAMBDA f : IfSet(r.flags[f], 6 - f), 1..6),
                     IfSet(r.ndDns, 7) + IfSet(r.dp, 6)>>]))
        \o (IF p.context = None THEN <<>>
            ELSE SubTlv(ContextType, TRUE, <<IfSet(p.context.compress, 4) + p.context.id,
                                             p.context.length>>)))
=============================================================================
