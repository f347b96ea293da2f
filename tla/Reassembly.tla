----------------------------- MODULE Reassembly -----------------------------
(***************************************************************************)
(* Handshake messages and their fragments on the wire                      *)
(* (meshcop-dtls/src/handshake.rs): a twelve-byte header and a piece of    *)
(* the body, and HandshakeReassembler, which puts the pieces of one        *)
(* message together in whatever order and overlap they come.               *)
(***************************************************************************)
EXTENDS Bytes

HeaderLen == 12
MaxU24 == 2^24 - 1
MaxHandshakeMessageLen == 64 * 1024

HandshakeMessage(ty, seq, payload) == [ty |-> ty, seq |-> seq, payload |-> payload]

Fragment(message, offset, piece) ==
    [ty |-> message.ty, seq |-> message.seq, length |-> Len(message.payload),
     offset |-> offset, piece |-> piece]

\* HandshakeMessage::fragment; an empty body still makes one fragment.
Fragments(message, max) ==
    LET count == (Len(message.payload) + max - 1) \div max
        piece(i) == SubSeq(message.payload, (i - 1) * max + 1,
                           Min({i * max, Len(message.payload)}))
    IN  IF count = 0 THEN <<Fragment(message, 0, <<>>)>>
        ELSE [i \in 1..count |-> Fragment(message, (i - 1) * max, piece(i))]

\* HandshakeHeader::validate.
ValidHeader(h) ==
    /\ {h.length, h.offset, h.size} \subseteq 0..MaxU24
    /\ h.offset + h.size <= h.length

EncodeFragment(f) ==
    IF ValidHeader([length |-> f.length, offset |-> f.offset, size |-> Len(f.piece)])
    THEN <<f.ty>> \o Be24(f.length) \o Be16(f.seq) \o Be24(f.offset) \o Be24(Len(f.piece))
         \o f.piece
    ELSE Err

\* HandshakeType::try_from.
HandshakeTypes == (0..3) \cup (11..16) \cup {20}

ParseFragment(bytes) ==
    LET h == [length |-> ReadU24(SubSeq(bytes, 2, 4)), offset |-> ReadU24(SubSeq(bytes, 7, 9)),
              size |-> ReadU24(SubSeq(bytes, 10, 12))]
    IN  IF Len(bytes) < HeaderLen THEN Err
        ELSE IF bytes[1] \notin HandshakeTypes THEN Err
        ELSE IF ~ValidHeader(h) \/ Len(bytes) < HeaderLen + h.size THEN Err
        ELSE [ty |-> bytes[1], seq |-> ReadU16(SubSeq(bytes, 5, 6)), length |-> h.length,
              offset |-> h.offset, piece |-> SubSeq(bytes, HeaderLen + 1, HeaderLen + h.size)]

-----------------------------------------------------------------------------
Empty == [ty |-> None, seq |-> None, bytes |-> <<>>, filled |-> {}]

\* initialize_or_validate: the first fragment says which message this is.
Prepared(r, f) ==
    CASE r.ty = None /\ f.length <= MaxHandshakeMessageLen ->
            [ty |-> f.ty, seq |-> f.seq, bytes |-> Fill(f.length, 0), filled |-> {}]
      [] r.ty # None /\ f.ty = r.ty /\ f.seq = r.seq /\ f.length = Len(r.bytes) -> r
      [] OTHER -> Err

\* The positions of a fragment's bytes in the message.
Span(f) == (f.offset + 1)..(f.offset + Len(f.piece))

\* The first byte that differs from what is there already, or one too many.
Conflict(r, f) ==
    Min({f.offset + Len(f.piece) + 1}
        \cup {i \in Span(f) \cap r.filled : r.bytes[i] # f.piece[i - f.offset]})

\* Mutant of Written: the whole body counts as there once its end is.
WrittenToEnd(r, f) ==
    [r EXCEPT !.bytes = [i \in DOMAIN @ |-> IF i \in Span(f) THEN f.piece[i - f.offset] ELSE @[i]],
              !.filled = @ \cup (1..(f.offset + Len(f.piece)))]

\* Bytes are written one by one, up to the first that conflicts.
Written(r, f) ==
    LET now == {i \in Span(f) : i < Conflict(r, f)}
    IN  [r EXCEPT !.bytes = [i \in DOMAIN @ |-> IF i \in now THEN f.piece[i - f.offset] ELSE @[i]],
                  !.filled = @ \cup now]

\* push: the reassembler afterwards, and what the caller gets.
Push(r, f) ==
    LET ready == Prepared(r, f)
        after == Written(ready, f)
        whole == HandshakeMessage(after.ty, after.seq, after.bytes)
    IN  IF ready = Err THEN [reassembler |-> r, result |-> Err]
        ELSE IF f.offset + Len(f.piece) > Len(ready.bytes)
        THEN [reassembler |-> ready, result |-> Err]
        ELSE [reassembler |-> after,
              result |-> IF Conflict(ready, f) \in Span(f) THEN Err
                         ELSE IF after.filled = DOMAIN after.bytes THEN whole ELSE None]
=============================================================================
