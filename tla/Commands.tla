------------------------------ MODULE Commands ------------------------------
(***************************************************************************)
(* The MeshCoP requests the commissioner builds and the responses and      *)
(* notifications it parses (meshcop/src/meshcop: builders.rs, parsers.rs,  *)
(* flags.rs, constants.rs).  The builders take the header h, the message   *)
(* ID and token of the exchange.  A 32-bit value is its four bytes.        *)
(***************************************************************************)
EXTENDS Dataset, Coap, NetDiag

TlvPanId == 1
TlvNetworkName == 3
TlvCommissionerId == 10
TlvSessionId == 11
TlvGet == 13
TlvState == 16
TlvDtlsEncapsulation == 17
TlvJoinerUdpPort == 18
TlvJoinerIid == 19
TlvJoinerRouterLocator == 20
TlvJoinerRouterKek == 21
TlvUdpEncapsulation == 48
TlvIpv6Address == 49
TlvCount == 54
TlvPeriod == 55
TlvScanDuration == 56
TlvEnergyList == 57
TlvSecureDissemination == 58
TlvThreadTimeout == 11
TlvThreadIpv6Addresses == 14
TlvThreadSessionId == 15
TlvDiagTypeList == 18

MmPort == 61631

\* The URI paths, with the ASCII codes of their two segments.
Uri(dir, a, b) == <<<<dir>>, <<a, b>>>>
Petitioning == Uri(99, 99, 112)
KeepAlive == Uri(99, 99, 97)
ActiveGet == Uri(99, 97, 103)
PendingGet == Uri(99, 112, 103)
CommissionerGet == Uri(99, 99, 103)
ActiveSet == Uri(99, 97, 115)
SecPendingSet == Uri(99, 115, 112)
AnnounceBegin == Uri(99, 97, 98)
PanIdQuery == Uri(99, 112, 113)
PanIdConflict == Uri(99, 112, 99)
EdScan == Uri(99, 101, 115)
EdReport == Uri(99, 101, 114)
Reenroll == Uri(99, 114, 101)
NetMigrate == Uri(99, 110, 109)
DatasetChanged == Uri(99, 100, 99)
RelayTx == Uri(99, 116, 120)
RelayRx == Uri(99, 114, 120)
UdpTx == Uri(99, 117, 116)
UdpRx == Uri(99, 117, 114)
DiagGet == Uri(100, 100, 103)
DiagAnswer == Uri(100, 100, 97)
Mlr == Uri(110, 109, 114)

Accept == 1
Pending == 0
Reject == 255

\* append_u16 and its siblings, and the one call every builder ends with.
U16Tlv(ty, n) == Tlv(ty, Be16(n))

Post(h, confirmable, path, entries) ==
    LET payload == EncodeTlvs(entries)
    IN  IF payload = Err THEN Err
        ELSE PostRequest(IF confirmable THEN Confirmable ELSE NonConfirmable,
                         h.id, h.token, path, payload)

PetitionRequest(h, id) == Post(h, TRUE, Petitioning, <<Tlv(TlvCommissionerId, id)>>)

KeepAliveRequest(h, session, keepAlive) ==
    Post(h, TRUE, KeepAlive,
         <<Tlv(TlvState, <<IF keepAlive THEN Accept ELSE Reject>>),
           U16Tlv(TlvSessionId, session)>>)

DatasetGetRequest(h, path, types) ==
    Post(h, TRUE, path, IF types = <<>> THEN <<>> ELSE <<Tlv(TlvGet, types)>>)

DatasetSetRequest(h, path, session, dataset) ==
    Post(h, TRUE, path, <<U16Tlv(TlvSessionId, session)>> \o dataset)

SecurePendingSetRequest(h, session, timer, uri, dataset) ==
    LET timestamp == Get(dataset, TlvPendingTimestamp)
        dissemination == (IF timestamp = None THEN <<>> ELSE timestamp) \o timer \o uri
    IN  IF timestamp = Err THEN Err
        ELSE Post(h, TRUE, SecPendingSet,
                  <<U16Tlv(TlvSessionId, session),
                    Tlv(TlvSecureDissemination, dissemination)>> \o dataset)

\* channel_mask_value: one entry of page 0; an empty mask is refused.
MaskTlv(mask) ==
    IF mask = Fill(4, 0) THEN Err
    ELSE Tlv(TlvChannelMask, EncodeChannelMask(<<[page |-> 0, mask |-> mask]>>))

\* The requests that name channels: the mask comes after the session ID.
ChannelRequest(h, confirmable, path, session, mask, entries) ==
    IF MaskTlv(mask) = Err THEN Err
    ELSE Post(h, confirmable, path,
              <<U16Tlv(TlvSessionId, session), MaskTlv(mask)>> \o entries)

AnnounceBeginRequest(h, session, mask, count, period, confirmable) ==
    ChannelRequest(h, confirmable, AnnounceBegin, session, mask,
                   <<Tlv(TlvCount, <<count>>), U16Tlv(TlvPeriod, period)>>)

PanIdQueryRequest(h, session, mask, panId, confirmable) ==
    ChannelRequest(h, confirmable, PanIdQuery, session, mask, <<U16Tlv(TlvPanId, panId)>>)

EnergyScanRequest(h, session, mask, count, period, duration, confirmable) ==
    ChannelRequest(h, confirmable, EdScan, session, mask,
                   <<Tlv(TlvCount, <<count>>), U16Tlv(TlvPeriod, period),
                     U16Tlv(TlvScanDuration, duration)>>)

SessionCommandRequest(h, path, session, confirmable) ==
    Post(h, confirmable, path, <<U16Tlv(TlvSessionId, session)>>)

MigrateRequest(h, session, network, confirmable) ==
    Post(h, confirmable, NetMigrate,
         <<U16Tlv(TlvSessionId, session), Tlv(TlvNetworkName, network)>>)

\* flag_types: the TLV types of the flags that are set, in the table's order.
FlagTypes(flags, table) ==
    LET chosen == SelectSeq(table, LAMBDA row : row[1] \in flags)
    IN  [i \in DOMAIN chosen |-> chosen[i][2]]

NetworkDiagTlvTypes(flags) ==
    FlagTypes(flags, <<<<0, 0>>, <<1, 1>>, <<2, 2>>, <<3, 5>>, <<4, 6>>, <<5, 8>>, <<8, 9>>,
                       <<6, 16>>, <<7, 23>>, <<9, 30>>, <<10, 7>>, <<11, 3>>, <<12, 4>>,
                       <<13, 14>>, <<14, 15>>, <<15, 17>>, <<16, 18>>>>)

\* The dataset's TLVs, active ones first, and the commissioner dataset's.
DatasetTlvTypes(flags, pending) ==
    FlagTypes(flags, <<<<15, 14>>, <<14, 0>>, <<13, 53>>, <<12, 2>>, <<11, 7>>, <<10, 5>>,
                       <<9, 3>>, <<8, 1>>, <<7, 4>>, <<6, 12>>>>)
    \o (IF pending THEN FlagTypes(flags, <<<<5, 52>>, <<4, 51>>>>) ELSE <<>>)

CommissionerTlvTypes(flags) ==
    FlagTypes(flags, <<<<15, 9>>, <<14, 11>>, <<13, 8>>, <<12, 61>>, <<11, 62>>, <<10, 18>>,
                       <<9, 65>>, <<8, 66>>>>)

DiagnosticRequest(h, path, flags, confirmable) ==
    Post(h, confirmable, path, <<Tlv(TlvDiagTypeList, NetworkDiagTlvTypes(flags))>>)

\* Every address must be multicast, and there must be one.
MulticastListenerRequest(h, session, addresses, timeout) ==
    IF addresses = <<>> \/ \E i \in DOMAIN addresses : addresses[i][1] # 255 THEN Err
    ELSE Post(h, TRUE, Mlr,
              <<U16Tlv(TlvThreadSessionId, session), Tlv(TlvThreadTimeout, timeout),
                Tlv(TlvThreadIpv6Addresses, FlattenSeq(addresses))>>)

RelayTxRequest(h, iid, port, locator, payload, kek) ==
    IF Len(iid) # 8 THEN Err
    ELSE Post(h, FALSE, RelayTx,
              <<U16Tlv(TlvJoinerUdpPort, port), U16Tlv(TlvJoinerRouterLocator, locator),
                Tlv(TlvJoinerIid, iid), Tlv(TlvDtlsEncapsulation, payload)>>
              \o (IF kek = None THEN <<>> ELSE <<Tlv(TlvJoinerRouterKek, kek)>>))

UdpTxRequest(h, destination, port, inner) ==
    Post(h, FALSE, UdpTx,
         <<Tlv(TlvIpv6Address, destination),
           Tlv(TlvUdpEncapsulation, Be16(MmPort) \o Be16(port) \o inner)>>)

-----------------------------------------------------------------------------
(* What is read: a Result, so Err or a value, and None where the code       *)
(* returns Ok(None).                                                        *)

Required(tlvs, ty) == IF LastValue(tlvs, ty) = None THEN Err ELSE LastValue(tlvs, ty)

\* ReadU16 of a required TLV.
RequiredU16(tlvs, ty) == IF Required(tlvs, ty) = Err THEN Err ELSE ReadU16(Required(tlvs, ty))

ParseUdpRx(message) ==
    LET tlvs == ParseTlvs(message.payload)
        address == Required(tlvs, TlvIpv6Address)
        inner == Required(tlvs, TlvUdpEncapsulation)
    IN  IF UriPath(message) # UdpRx THEN None
        ELSE IF tlvs = Err THEN Err
        ELSE IF address = Err \/ inner = Err THEN Err
        ELSE IF Len(address) # 16 \/ Len(inner) < 4 THEN Err
        ELSE [kind |-> "UdpRx", source |-> address, sourcePort |-> ReadU16(Take(inner, 2)),
              destinationPort |-> ReadU16(SubSeq(inner, 3, 4)), payload |-> Drop(inner, 4)]

ParseState(payload) ==
    LET tlvs == ParseTlvs(payload)
        value == LastValue(tlvs, TlvState)
    IN  IF tlvs = Err THEN Err
        ELSE IF value = None THEN None
        ELSE IF Len(value) # 1 THEN Err
        ELSE IF value[1] \notin {Accept, Pending, Reject} THEN Err ELSE value[1]

ParseStateResponse(response, mandatory) ==
    LET state == ParseState(response.payload)
    IN  IF response.code # CodeChanged \/ (mandatory /\ state = None) THEN Err ELSE state

\* The commissioner IDs of this model are ASCII, hence always UTF-8.
ParsePetitionResponse(response) ==
    LET state == ParseStateResponse(response, TRUE)
        tlvs == ParseTlvs(response.payload)
        session == LastValue(tlvs, TlvSessionId)
    IN  IF state = Err THEN Err
        ELSE IF session # None /\ Len(session) # 2 THEN Err
        ELSE [kind |-> "Petition", state |-> state,
              session |-> IF session = None THEN None ELSE ReadU16(session),
              existing |-> LastValue(tlvs, TlvCommissionerId)]

\* channel_mask_from_value: the page-0 entries, OR-ed byte by byte.
OrByte(a, b) == MapThenSumSet(LAMBDA i : IfSet(Flag(a, i) \/ Flag(b, i), i), 0..7)

MaskFromValue(value) ==
    LET entries == ParseChannelMask(value)
        pageZero == SelectSeq(entries, LAMBDA e : e.page = 0)
    IN  IF entries = Err THEN Err
        ELSE IF pageZero = <<>> \/ \E i \in DOMAIN pageZero : Len(pageZero[i].mask) # 4 THEN Err
        ELSE FoldLeft(LAMBDA m, e : [i \in 1..4 |-> OrByte(m[i], e.mask[i])], Fill(4, 0), pageZero)

ParsePanIdConflict(tlvs) ==
    LET value == Required(tlvs, TlvChannelMask)
        mask == IF value = Err THEN Err ELSE MaskFromValue(value)
        panId == RequiredU16(tlvs, TlvPanId)
    IN  IF mask = Err \/ panId = Err THEN Err
        ELSE [kind |-> "PanIdConflict", mask |-> mask, panId |-> panId]

\* A report without a mask or without a list is a report of nothing.
ParseEnergyReport(tlvs) ==
    LET value == LastValue(tlvs, TlvChannelMask)
        mask == IF value = None THEN Fill(4, 0) ELSE MaskFromValue(value)
        list == LastValue(tlvs, TlvEnergyList)
    IN  IF mask = Err THEN Err
        ELSE [kind |-> "EnergyReport", mask |-> mask, list |-> IF list = None THEN <<>> ELSE list]

ParseRelayRx(tlvs) ==
    LET port == RequiredU16(tlvs, TlvJoinerUdpPort)
        locator == RequiredU16(tlvs, TlvJoinerRouterLocator)
        iid == Required(tlvs, TlvJoinerIid)
        payload == Required(tlvs, TlvDtlsEncapsulation)
    IN  IF port = Err \/ locator = Err \/ iid = Err \/ payload = Err THEN Err
        ELSE IF Len(iid) # 8 THEN Err
        ELSE [kind |-> "RelayRx", port |-> port, locator |-> locator, iid |-> iid,
              payload |-> payload]

\* Each arm of parse_notification that reads TLVs.
WithTlvs(message, parse(_)) ==
    LET tlvs == ParseTlvs(message.payload) IN IF tlvs = Err THEN Err ELSE parse(tlvs)

ParseNotification(message) ==
    LET path == UriPath(message)
        diag == DecodeNetDiag(message.payload)
    IN  CASE path = DatasetChanged -> [kind |-> "DatasetChanged"]
          [] path = PanIdConflict -> WithTlvs(message, ParsePanIdConflict)
          [] path = EdReport -> WithTlvs(message, ParseEnergyReport)
          [] path = DiagAnswer ->
                IF diag = Err THEN Err ELSE [kind |-> "DiagGetAnswer", data |-> diag]
          [] path = RelayRx -> WithTlvs(message, ParseRelayRx)
          [] OTHER -> None
=============================================================================
