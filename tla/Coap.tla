-------------------------------- MODULE Coap --------------------------------
(***************************************************************************)
(* The CoAP codec (meshcop/src/meshcop/coap.rs): header, token, options as *)
(* differences of their numbers, and the payload behind a marker.  A URI   *)
(* path is the sequence of its segments.                                   *)
(***************************************************************************)
EXTENDS Bytes

Confirmable == 0
NonConfirmable == 1
Acknowledgement == 2

CodeEmpty == 0
CodePost == 2
CodeChanged == 68

UriPathOption == 11
PayloadMarker == 255

Option(number, value) == [number |-> number, value |-> value]

CoapMessage(ty, code, id, token, options, payload) ==
    [ty |-> ty, code |-> code, id |-> id, token |-> token,
     options |-> options, payload |-> payload]

EmptyAck(id) == CoapMessage(Acknowledgement, CodeEmpty, id, <<>>, <<>>, <<>>)

EmptyChangedResponse(request) ==
    CoapMessage(Acknowledgement, CodeChanged, request.id, request.token, <<>>, <<>>)

\* set_uri_path: the segments replace the Uri-Path options; none may be empty.
WithUriPath(options, path) ==
    IF <<>> \in ToSet(path) THEN Err
    ELSE SelectSeq(options, LAMBDA o : o.number # UriPathOption)
         \o [i \in DOMAIN path |-> Option(UriPathOption, path[i])]

PostRequest(ty, id, token, path, payload) ==
    LET options == WithUriPath(<<>>, path)
    IN  IF options = Err THEN Err ELSE CoapMessage(ty, CodePost, id, token, options, payload)

\* uri_path: the segments of the Uri-Path options, or None without any.
UriPath(message) ==
    LET segments == SelectSeq(message.options, LAMBDA o : o.number = UriPathOption)
    IN  IF segments = <<>> THEN None ELSE [i \in DOMAIN segments |-> segments[i].value]

\* A number as its nibble and the bytes that follow the option's first one.
EncodeNibble(n) ==
    CASE n <= 12 -> [nibble |-> n, extra |-> <<>>]
      [] n \in 13..268 -> [nibble |-> 13, extra |-> <<n - 13>>]
      [] OTHER -> [nibble |-> 14, extra |-> Be16(n - 269)]

EncodeOptionHeader(delta, length) ==
    LET d == EncodeNibble(delta)
        l == EncodeNibble(length)
    IN  <<d.nibble * 16 + l.nibble>> \o d.extra \o l.extra

\* The options by number, those of one number in the order they were added.
Sorted(options) ==
    FoldLeft(LAMBDA done, o : SelectSeq(done, LAMBDA p : p.number <= o.number) \o <<o>>
                              \o SelectSeq(done, LAMBDA p : p.number > o.number),
             <<>>, options)

EncodeOptions(options) ==
    LET inOrder == Sorted(options)
        before(i) == IF i = 1 THEN 0 ELSE inOrder[i - 1].number
        one(i) == EncodeOptionHeader(inOrder[i].number - before(i), Len(inOrder[i].value))
                  \o inOrder[i].value
    IN  FlattenSeq([i \in DOMAIN inOrder |-> one(i)])

Encode(m) ==
    IF Len(m.token) > 8 \/ \E i \in DOMAIN m.options : Len(m.options[i].value) > 65535
    THEN Err
    ELSE <<64 + m.ty * 16 + Len(m.token), m.code>> \o Be16(m.id) \o m.token
         \o EncodeOptions(m.options)
         \o (IF m.payload = <<>> THEN <<>> ELSE <<PayloadMarker>> \o m.payload)

\* The number a nibble stands for and how many of the bytes it used.
DecodeNibble(nibble, bytes) ==
    CASE nibble <= 12 -> [value |-> nibble, used |-> 0]
      [] nibble = 13 /\ Len(bytes) >= 1 -> [value |-> bytes[1] + 13, used |-> 1]
      [] nibble = 14 /\ Len(bytes) >= 2 /\ ReadU16(Take(bytes, 2)) + 269 < 2^16 ->
            [value |-> ReadU16(Take(bytes, 2)) + 269, used |-> 2]
      [] OTHER -> Err

\* One option after the number `last`, and what follows it.
DecodeOption(rest, last) ==
    LET delta == DecodeNibble(rest[1] \div 16, Drop(rest, 1))
        afterDelta == Drop(rest, 1 + delta.used)
        length == DecodeNibble(rest[1] % 16, afterDelta)
        value == Drop(afterDelta, length.used)
    IN  IF delta = Err THEN Err
        ELSE IF length = Err THEN Err
        ELSE IF Len(value) < length.value \/ last + delta.value >= 2^16 THEN Err
        ELSE [option |-> Option(last + delta.value, Take(value, length.value)),
              rest |-> Drop(value, length.value)]

RECURSIVE DecodeOptions(_, _)
DecodeOptions(rest, last) ==
    CASE rest = <<>> -> [options |-> <<>>, payload |-> <<>>]
      [] rest # <<>> /\ rest[1] = PayloadMarker ->
            [options |-> <<>>, payload |-> Drop(rest, 1)]
      [] OTHER ->
            LET one == DecodeOption(rest, last)
                more == DecodeOptions(one.rest, one.option.number)
            IN  IF one = Err THEN Err
                ELSE IF more = Err THEN Err
                ELSE [more EXCEPT !.options = <<one.option>> \o @]

Decode(bytes) ==
    LET tokenLength == bytes[1] % 16
        body == DecodeOptions(Drop(bytes, 4 + tokenLength), 0)
    IN  IF Len(bytes) < 4 THEN Err
        ELSE IF bytes[1] \div 64 # 1 \/ tokenLength > 8 \/ Len(bytes) < 4 + tokenLength
        THEN Err
        ELSE IF body = Err THEN Err
        ELSE CoapMessage(Bits(bytes[1], 4, 2), bytes[2], ReadU16(SubSeq(bytes, 3, 4)),
                         SubSeq(bytes, 5, 4 + tokenLength), body.options, body.payload)
=============================================================================
