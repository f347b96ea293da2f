------------------------------ MODULE Dataset ------------------------------
(***************************************************************************)
(* Operational datasets (meshcop/src/dataset.rs): a TLV set edited by      *)
(* type, and the typed values read from it and written into it.            *)
(***************************************************************************)
EXTENDS Tlv

TlvChannel == 0
TlvPskc == 4
TlvSecurityPolicy == 12
TlvActiveTimestamp == 14
TlvPendingTimestamp == 51
TlvChannelMask == 53

RemoveAll(dataset, ty) == SelectSeq(dataset, LAMBDA e : e.ty # ty)

\* Dataset::set_raw: the new value goes to the end, whatever was there before.
SetRaw(dataset, ty, value) == Append(RemoveAll(dataset, ty), Tlv(ty, value))

Raw(dataset, ty) == LastValue(dataset, ty)

ParseChannel(value) ==
    IF Len(value) # 3 THEN Err
    ELSE [page |-> value[1], channel |-> ReadU16(Drop(value, 1))]

ChannelValue(c) == <<c.page>> \o Be16(c.channel)

(***************************************************************************)
(* A timestamp is 48 bits of seconds, 15 of ticks and the authoritative    *)
(* bit.  Its parts come from a u64 (eight bytes here, TLC's integers being *)
(* shorter) and a u16, and what does not fit is dropped.                   *)
(***************************************************************************)
Timestamp(seconds, ticks, authoritative) ==
    Drop(seconds, 2) \o Be16((ticks % 2^15) * 2 + (IF authoritative THEN 1 ELSE 0))

ParseTimestamp(value) == ReadArray(8, value)
TimestampSeconds(raw) == <<0, 0>> \o Take(raw, 6)
TimestampTicks(raw) == ReadU16(Drop(raw, 6)) \div 2
TimestampAuthoritative(raw) == Flag(raw[8], 0)

ParseSecurityPolicy(value) ==
    IF Len(value) # 4 THEN Err
    ELSE [rotation |-> ReadU16(Take(value, 2)), flags |-> ReadU16(Drop(value, 2))]

SecurityPolicyValue(p) == Be16(p.rotation) \o Be16(p.flags)

(***************************************************************************)
(* The protocol version threshold is in bits 13-15 of the flags, unless    *)
(* the legacy-routers flag (bit 2) says version 1 or 2, V1Or2 here.        *)
(***************************************************************************)
V1Or2 == 2
LegacyRouters == 2

VersionThreshold(flags) ==
    IF Flag(flags, LegacyRouters) THEN V1Or2 ELSE 3 + Bits(flags, 13, 3)

WithoutLegacy(flags) ==
    IF Flag(flags, LegacyRouters) THEN flags - 2^LegacyRouters ELSE flags

SetVersionThreshold(flags, version) ==
    IF version = V1Or2
    THEN WithoutLegacy(flags) + 2^LegacyRouters
    ELSE (WithoutLegacy(flags) % 2^13) + (version - 3) * 2^13

\* ChannelMaskEntry::encode_all and parse_all: page, length, mask.
EncodeChannelMask(entries) ==
    IF \E i \in DOMAIN entries : Len(entries[i].mask) > 255 THEN Err
    ELSE FlattenSeq([i \in DOMAIN entries |->
            <<entries[i].page, Len(entries[i].mask)>> \o entries[i].mask])

RECURSIVE ParseChannelMask(_)
ParseChannelMask(value) ==
    IF value = <<>> THEN <<>>
    ELSE IF Len(value) < 2 THEN Err
    ELSE IF Len(value) < 2 + value[2] THEN Err
    ELSE LET others == ParseChannelMask(Drop(value, 2 + value[2]))
         IN  IF others = Err THEN Err
             ELSE <<[page |-> value[1], mask |-> SubSeq(value, 3, 2 + value[2])]>> \o others

\* What each typed getter reads a value as.
ParseValue(ty, value) ==
    CASE ty = TlvChannel -> ParseChannel(value)
      [] ty \in {TlvActiveTimestamp, TlvPendingTimestamp} -> ParseTimestamp(value)
      [] ty = TlvSecurityPolicy -> ParseSecurityPolicy(value)
      [] ty = TlvChannelMask -> ParseChannelMask(value)
      [] ty = TlvPskc -> value

\* A typed getter: nothing for a missing TLV, otherwise its value parsed.
Get(dataset, ty) ==
    IF Raw(dataset, ty) = None THEN None ELSE ParseValue(ty, Raw(dataset, ty))
=============================================================================
