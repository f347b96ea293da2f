------------------------------ MODULE MCCodecs ------------------------------
(***************************************************************************)
(* Values at the boundaries of every length and field: TLV values of 254,  *)
(* 255 and no bytes, option lengths of 12, 13, 268 and 269, router IDs and *)
(* child IDs across a byte, a message whose body is empty and two that     *)
(* differ only in their bodies.  The group has five elements.              *)
(***************************************************************************)
EXTENDS Codecs, TLC

MCValues ==
    (TlvChannel :> {[page |-> 0, channel |-> 11], [page |-> 2, channel |-> 256]})
    @@ (TlvActiveTimestamp :>
        {[seconds |-> <<0, 0, 0, 0, 0, 0, 0, 1>>, ticks |-> 0, authoritative |-> TRUE],
         [seconds |-> <<0, 0>> \o Fill(6, 255), ticks |-> 2^15 - 1, authoritative |-> FALSE]})
    @@ (TlvSecurityPolicy :>
        {[rotation |-> 672, version |-> 3, others |-> {0, 1, 12}]})
    @@ (TlvPskc :> {<<>>, Fill(254, 7), Fill(255, 255), Fill(256, 1)})
    @@ (TlvChannelMask :>
        {<<[page |-> 0, mask |-> <<0, 31, 255, 224>>], [page |-> 2, mask |-> <<>>]>>})

MCVersions == {V1Or2, 3, 10}

-----------------------------------------------------------------------------
H == [id |-> 65535, token |-> <<1, 255>>]
Session == 258
Mask == <<7, 255, 248, 0>>
Address == <<255, 3>> \o Fill(14, 1)
Pan == 64222

\* What the peers of the commissioner send: the same codec, other TLVs.
Sent(path, entries) == Post([id |-> 1, token |-> <<>>], FALSE, path, entries)
Reply(entries) == CoapMessage(Acknowledgement, CodeChanged, 7, <<9>>, <<>>, EncodeTlvs(entries))

SampleMode == [rxOn |-> TRUE, mtd |-> FALSE, fullData |-> TRUE]
SleepyMode == [rxOn |-> FALSE, mtd |-> TRUE, fullData |-> FALSE]

SampleRoutes ==
    [sequence |-> 9,
     routes |-> <<[id |-> 0, out |-> 3, in |-> 1, cost |-> 1],
                  [id |-> 8, out |-> 0, in |-> 2, cost |-> 15],
                  [id |-> 63, out |-> 1, in |-> 0, cost |-> 0]>>]

SampleChildren ==
    <<[timeout |-> 31, in |-> 3, child |-> 257, mode |-> SleepyMode],
      [timeout |-> 0, in |-> 1, child |-> 2, mode |-> SampleMode]>>

SampleConnectivity ==
    [priority |-> -1, counts |-> <<3, 2, 1, 5, 200, 4>>, buffer |-> 1280, datagrams |-> 1]

SamplePrefix ==
    [domain |-> 1, bits |-> 9, prefix |-> <<253, 128>>,
     routes |-> <<[rloc |-> 1024, preference |-> 3, nat64 |-> TRUE]>>,
     routers |-> <<[rloc |-> 2049, preference |-> 1,
                    flags |-> <<TRUE, TRUE, FALSE, FALSE, TRUE, TRUE>>, ndDns |-> TRUE,
                    dp |-> FALSE]>>,
     context |-> [compress |-> TRUE, id |-> 3, length |-> 64]]

\* The TLVs of an answer, and what each of them says.
Diag ==
    <<Tlv(ExtMac, Fill(8, 1)), Tlv(Mac, Be16(2049)), Tlv(Mode, <<ModeByte(SampleMode)>>),
      Tlv(Timeout, <<0, 0, 0, 240>>), Tlv(Connectivity, EncodeConnectivity(SampleConnectivity)),
      Tlv(Route64, EncodeRoute64(SampleRoutes)), Tlv(LeaderData, <<1, 2, 3, 4, 64, 5, 6, 63>>),
      Tlv(NetworkData, EncodePrefix(SamplePrefix)), Tlv(Ipv6Addresses, Fill(32, 5)),
      Tlv(200, <<1>>)>>

MoreDiag ==
    <<Tlv(MacCounters, Fill(36, 2)), Tlv(Battery, <<99>>), Tlv(Voltage, Be16(3300)),
      Tlv(ChildTable, EncodeChildTable(SampleChildren)), Tlv(ChannelPages, <<0, 2>>),
      Tlv(TypeList, <<0, 1, 5>>), Tlv(Eui64, Fill(8, 3)), Tlv(ChildIpv6, Be16(1537) \o Fill(16, 6)),
      Tlv(ChildIpv6, Be16(1538))>>

DiagReport(fields) ==
    [kind |-> "DiagGetAnswer",
     data |-> [ty \in DiagTypes |-> IF ty \in DOMAIN fields THEN fields[ty] ELSE None]]

DiagSays ==
    DiagReport((ExtMac :> Fill(8, 1)) @@ (Mac :> 2049) @@ (Mode :> SampleMode)
               @@ (Timeout :> <<0, 0, 0, 240>>) @@ (Connectivity :> SampleConnectivity)
               @@ (Route64 :> SampleRoutes) @@ (NetworkData :> <<SamplePrefix>>)
               @@ (LeaderData :> [partition |-> <<1, 2, 3, 4>>, weighting |-> 64,
                                  versions |-> <<5, 6>>, router |-> 63])
               @@ (Ipv6Addresses :> <<Fill(16, 5), Fill(16, 5)>>))

MoreDiagSays ==
    DiagReport((MacCounters :> Fill(9, Fill(4, 2))) @@ (Battery :> <<99>>) @@ (Voltage :> 3300)
               @@ (ChildTable :> SampleChildren) @@ (ChannelPages :> <<0, 2>>)
               @@ (TypeList :> <<0, 1, 5>>) @@ (Eui64 :> Fill(8, 3))
               @@ (ChildIpv6 :> <<[rloc |-> 1537, child |-> 1, addresses |-> <<Fill(16, 6)>>],
                                  [rloc |-> 1538, child |-> 2, addresses |-> <<>>]>>))

Requests ==
    {PetitionRequest(H, <<79, 84>>),
     KeepAliveRequest(H, Session, TRUE), KeepAliveRequest(H, Session, FALSE),
     DatasetGetRequest(H, ActiveGet, <<>>),
     DatasetGetRequest(H, ActiveGet, DatasetTlvTypes({15, 14, 4}, FALSE)),
     DatasetGetRequest(H, PendingGet, DatasetTlvTypes(4..15, TRUE)),
     DatasetGetRequest(H, CommissionerGet, CommissionerTlvTypes({15, 13})),
     DatasetSetRequest(H, ActiveSet, Session, SetRaw(<<>>, TlvPskc, Fill(255, 4))),
     SecurePendingSetRequest(H, Session, <<0, 0, 0, 60>>, <<99, 58>>,
                             SetRaw(<<>>, TlvPendingTimestamp, Fill(8, 1))),
     AnnounceBeginRequest(H, Session, Mask, 2, 1000, TRUE),
     PanIdQueryRequest(H, Session, Mask, Pan, FALSE),
     EnergyScanRequest(H, Session, Mask, 1, 32, 512, FALSE),
     SessionCommandRequest(H, Reenroll, Session, TRUE), MigrateRequest(H, Session, <<110>>, TRUE),
     DiagnosticRequest(H, DiagGet, {0, 3, 6, 8, 16}, TRUE),
     MulticastListenerRequest(H, Session, <<Address, Address>>, <<0, 0, 1, 44>>),
     RelayTxRequest(H, Fill(8, 2), 1000, 1024, <<22, 254, 253>>, Fill(16, 8)),
     RelayTxRequest(H, Fill(8, 2), 1000, 1024, <<22>>, None),
     UdpTxRequest(H, Address, MmPort, <<64, 1>>)}

\* Options out of order, repeated, and of every length class.
Options ==
    <<Option(300, Fill(13, 1)), Option(12, <<>>), Option(UriPathOption, <<99>>),
      Option(UriPathOption, Fill(12, 97)), Option(1, Fill(268, 2)), Option(60000, Fill(269, 3))>>

Says(coap, meaning) == [coap |-> coap, says |-> meaning]

Received ==
    {Says(Reply(<<Tlv(TlvState, <<Accept>>), U16Tlv(TlvSessionId, Session)>>),
          [kind |-> "Petition", state |-> Accept, session |-> Session, existing |-> None]),
     Says(Reply(<<Tlv(TlvState, <<Reject>>), Tlv(TlvCommissionerId, <<79, 84>>)>>),
          [kind |-> "Petition", state |-> Reject, session |-> None, existing |-> <<79, 84>>]),
     Says(EmptyChangedResponse(PetitionRequest(H, <<79>>)), Err),
     Says(Sent(DatasetChanged, <<>>), [kind |-> "DatasetChanged"]),
     Says(Sent(PanIdConflict, <<MaskTlv(Mask), U16Tlv(TlvPanId, Pan)>>),
          [kind |-> "PanIdConflict", mask |-> Mask, panId |-> Pan]),
     Says(Sent(EdReport,
               <<Tlv(TlvChannelMask,
                     EncodeChannelMask(<<[page |-> 0, mask |-> <<0, 0, 8, 1>>],
                                         [page |-> 0, mask |-> <<1, 0, 8, 2>>]>>)),
                 Tlv(TlvEnergyList, <<180, 200>>)>>),
          [kind |-> "EnergyReport", mask |-> <<1, 0, 8, 3>>, list |-> <<180, 200>>]),
     Says(Sent(RelayRx, <<U16Tlv(TlvJoinerUdpPort, 1000), U16Tlv(TlvJoinerRouterLocator, 1024),
                          Tlv(TlvJoinerIid, Fill(8, 2)),
                          Tlv(TlvDtlsEncapsulation, Fill(300, 22))>>),
          [kind |-> "RelayRx", port |-> 1000, locator |-> 1024, iid |-> Fill(8, 2),
           payload |-> Fill(300, 22)]),
     Says(Sent(UdpRx, <<Tlv(TlvIpv6Address, Address),
                        Tlv(TlvUdpEncapsulation, Be16(MmPort) \o Be16(49191) \o <<96, 69, 1>>)>>),
          [kind |-> "UdpRx", source |-> Address, sourcePort |-> MmPort,
           destinationPort |-> 49191, payload |-> <<96, 69, 1>>]),
     Says(Sent(DiagAnswer, Diag), DiagSays),
     Says(Sent(DiagAnswer, MoreDiag), MoreDiagSays)}

\* Messages that the parsers of the commissioner leave to others.
Unread ==
    Requests \cup {EmptyAck(3),
                   CoapMessage(Confirmable, CodePost, 256, Fill(8, 9), Options, <<255, 1, 255>>)}

MCMessages == Received \cup {Says(coap, None) : coap \in Unread}

-----------------------------------------------------------------------------
MCOriginals ==
    {HandshakeMessage(2, 1, <<5, 6, 7>>), HandshakeMessage(2, 1, <<5, 9, 7>>),
     HandshakeMessage(12, 2, <<1, 2>>), HandshakeMessage(14, 3, <<>>)}

MCPasswords == 0..4
MCNonces == {1, 3}
MCChallenge(base, v, public, id) ==
    (base + 2 * v + 3 * public + (IF id = ClientId THEN 1 ELSE 0)) % Q
=============================================================================
