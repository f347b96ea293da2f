-------------------------------- MODULE Tlv --------------------------------
(***************************************************************************)
(* The TLV codec (meshcop/src/tlv.rs): one type byte, then a length of one *)
(* byte up to 254, or the marker 255 and two bytes, then the value.  A     *)
(* TlvSet is the sequence of its entries in wire order, unknown types and  *)
(* duplicates kept.                                                        *)
(***************************************************************************)
EXTENDS Bytes

MaxStandardTlvLength == 254
ExtendedTlvMarker == 255
MaxExtendedTlvLength == 65535

Tlv(ty, value) == [ty |-> ty, value |-> value]

\* Mutant of EncodeHeader: 255 bytes still take the one-byte length, which
\* the reader takes for the marker.
EncodeHeaderOffByOne(ty, length) ==
    IF length <= MaxStandardTlvLength + 1
    THEN <<ty, length>>
    ELSE <<ty, ExtendedTlvMarker>> \o Be16(length)

EncodeHeader(ty, length) ==
    CASE length <= MaxStandardTlvLength -> <<ty, length>>
      [] length \in (MaxStandardTlvLength + 1)..MaxExtendedTlvLength ->
            <<ty, ExtendedTlvMarker>> \o Be16(length)
      [] OTHER -> Err

EncodeTlv(entry) ==
    LET header == EncodeHeader(entry.ty, Len(entry.value))
    IN  IF header = Err THEN Err ELSE header \o entry.value

\* TlvSet::encode: one entry that does not fit fails the set.
EncodeTlvs(entries) ==
    LET encoded == Each(EncodeTlv, entries)
    IN  IF encoded = Err THEN Err ELSE FlattenSeq(encoded)

\* The size of the first entry's header and the length that it announces.
HeaderOf(bytes) ==
    CASE Len(bytes) < 2 -> Err
      [] Len(bytes) >= 2 /\ bytes[2] # ExtendedTlvMarker ->
            [size |-> 2, length |-> bytes[2]]
      [] Len(bytes) \in {2, 3} /\ bytes[2] = ExtendedTlvMarker -> Err
      [] OTHER -> [size |-> 4, length |-> ReadU16(SubSeq(bytes, 3, 4))]

\* Mutant of ParseOne: a value that was cut short is taken as it is.
ParseOneLenient(bytes) ==
    LET h == HeaderOf(bytes)
        end == Min({Len(bytes), h.size + h.length})
    IN  IF h = Err THEN Err
        ELSE [entry |-> Tlv(bytes[1], SubSeq(bytes, h.size + 1, end)),
              rest |-> Drop(bytes, end)]

ParseOne(bytes) ==
    LET h == HeaderOf(bytes)
        end == h.size + h.length
    IN  IF h = Err THEN Err
        ELSE IF Len(bytes) < end THEN Err
        ELSE [entry |-> Tlv(bytes[1], SubSeq(bytes, h.size + 1, end)),
              rest |-> Drop(bytes, end)]

\* TlvSet::parse: entries until nothing is left; one bad entry fails the set.
RECURSIVE ParseTlvs(_)
ParseTlvs(bytes) ==
    IF bytes = <<>> THEN <<>>
    ELSE LET first == ParseOne(bytes)
             others == ParseTlvs(first.rest)
         IN  IF first = Err THEN Err
             ELSE IF others = Err THEN Err
             ELSE <<first.entry>> \o others

\* TlvSet::last_value: of several entries of a type the last one counts.
LastValue(entries, ty) ==
    LET i == SelectLastInSeq(entries, LAMBDA e : e.ty = ty)
    IN  IF i = 0 THEN None ELSE entries[i].value
=============================================================================
