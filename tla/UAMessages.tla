----------------------------- MODULE UAMessages -----------------------------
(***************************************************************************)
(* The layout of every message the adapter writes and reads, field by      *)
(* field: WriteX is what the encoder of X writes in order, ReadX what its  *)
(* decoder reads (internal/opcua/nodeid.go, browse.go, readwrite.go,       *)
(* session.go, endpoints.go, subscription.go, service.go, uacp.go, uasc.go)*)
(* Layouts of services start after the NodeId that names the service.      *)
(***************************************************************************)
EXTENDS UABinary

CONSTANTS
    Samples,           \* messages to try: <<array length, which form of each union>>
    MinimumBufferSize  \* a Hello announces buffers of at least this, scaled down

ASSUME MessagesAssumption == Samples \subseteq Nat \X Nat /\ MinimumBufferSize \in Nat

VARIABLE message       \* the message under test: its layouts and its value

-----------------------------------------------------------------------------
(* Headers and shared arrays *)

WriteRequestHeader == Struct(<<NodeID, DateTime, UInt32, UInt32, String, UInt32, ExtensionObject>>)
ReadRequestHeader  == Struct(<<NodeID, DateTime, UInt32, UInt32, String, UInt32, ExtensionObject>>)
WriteResponseHeader ==
    Struct(<<DateTime, UInt32, StatusCode, DiagnosticInfo, Nullable(String, 0), ExtensionObject>>)
ReadResponseHeader ==
    Struct(<<DateTime, UInt32, StatusCode, DiagnosticInfo, Array(String, 4), ExtensionObject>>)

writeStringArray == Nullable(String, 0)
readStringArray  == Array(String, 4)
writeUInt32Array == Array(UInt32, 0)
readUInt32Array  == Array(UInt32, 4)
Diagnostics(least) == Array(DiagnosticInfo, least)

\* Results and their diagnostics, behind a response header.
WriteStatusResponse ==
    Struct(<<WriteResponseHeader, Array(StatusCode, 0), Diagnostics(0)>>)
ReadStatusResponse ==
    Struct(<<ReadResponseHeader, Array(StatusCode, 4), Diagnostics(1)>>)

-----------------------------------------------------------------------------
(* Connection and secure channel *)

\* The fields of an enumeration hold what it defines; only a decoder checks.
BufferSize == Enum(MinimumBufferSize, DateTimeMax)
WriteHello == Struct(<<Enum(0, 0), BufferSize, BufferSize, UInt32, UInt32, String>>)
ReadHello  == Struct(<<Enum(0, 0), BufferSize, BufferSize, UInt32, UInt32, String>>)
WriteAcknowledge == Struct(<<UInt32, UInt32, UInt32, UInt32, UInt32>>)
ReadAcknowledge  == Struct(<<UInt32, UInt32, UInt32, UInt32, UInt32>>)
WriteAsymmetricHeader == Struct(<<OptionalString, OptionalBytes, Thumbprint(TRUE)>>)
ReadAsymmetricHeader  == Struct(<<String, ByteString, Thumbprint(FALSE)>>)
WriteSequenceHeader == Struct(<<UInt32, UInt32>>)
ReadSequenceHeader  == Struct(<<UInt32, UInt32>>)

WriteOpenSecureChannelRequest ==
    Struct(<<WriteRequestHeader, UInt32, Enum(0, 1), Enum(0, 3), ByteString, UInt32>>)
ReadOpenSecureChannelRequest ==
    Struct(<<ReadRequestHeader, UInt32, Enum(0, 1), Enum(0, 3), ByteString, UInt32>>)
WriteOpenSecureChannelResponse ==
    Struct(<<WriteResponseHeader, UInt32, UInt32, UInt32, DateTime, UInt32, OptionalBytes>>)
ReadOpenSecureChannelResponse ==
    Struct(<<ReadResponseHeader, UInt32, UInt32, UInt32, DateTime, UInt32, ByteString>>)
WriteCloseSecureChannelRequest == Struct(<<WriteRequestHeader>>)
ReadCloseSecureChannelRequest  == Struct(<<ReadRequestHeader>>)

-----------------------------------------------------------------------------
(* Discovery and session *)

WriteApplicationDescription ==
    Struct(<<String, String, WriteLocalizedText, Enum(0, 3), OptionalString, OptionalString,
             writeStringArray>>)
ReadApplicationDescription ==
    Struct(<<String, String, ReadLocalizedText, Enum(0, 3), String, String, readStringArray>>)
WriteUserTokenPolicy ==
    Struct(<<OptionalString, Enum(0, 3), OptionalString, OptionalString, OptionalString>>)
ReadUserTokenPolicy == Struct(<<String, Enum(0, 3), String, String, String>>)
WriteEndpointDescription ==
    Struct(<<String, WriteApplicationDescription, OptionalBytes, Enum(0, 3), String,
             Nullable(WriteUserTokenPolicy, 0), String, UInt(1)>>)
ReadEndpointDescription ==
    Struct(<<String, ReadApplicationDescription, ByteString, Enum(0, 3), String,
             Array(ReadUserTokenPolicy, 24), String, UInt(1)>>)
WriteGetEndpointsRequest ==
    Struct(<<WriteRequestHeader, String, writeStringArray, writeStringArray>>)
ReadGetEndpointsRequest ==
    Struct(<<ReadRequestHeader, String, readStringArray, readStringArray>>)
WriteGetEndpointsResponse ==
    Struct(<<WriteResponseHeader, Nullable(WriteEndpointDescription, 0)>>)
ReadGetEndpointsResponse ==
    Struct(<<ReadResponseHeader, Array(ReadEndpointDescription, 32)>>)

WriteSignatureData == Struct(<<OptionalString, OptionalBytes>>)
ReadSignatureData  == Struct(<<String, ByteString>>)
SoftwareCertificate == Struct(<<ByteString, ByteString>>)
readSoftwareCertificates == Array(SoftwareCertificate, 8)

WriteCreateSessionRequest ==
    Struct(<<WriteRequestHeader, WriteApplicationDescription, String, String, String,
             ByteString, OptionalBytes, Double, UInt32>>)
ReadCreateSessionRequest ==
    Struct(<<ReadRequestHeader, ReadApplicationDescription, String, String, String,
             ByteString, ByteString, Double, UInt32>>)
WriteCreateSessionResponse ==
    Struct(<<WriteResponseHeader, NodeID, NodeID, Double, ByteString, OptionalBytes,
             Array(WriteEndpointDescription, 0), Empty, WriteSignatureData, UInt32>>)
ReadCreateSessionResponse ==
    Struct(<<ReadResponseHeader, NodeID, NodeID, Double, ByteString, ByteString,
             Array(ReadEndpointDescription, 32), readSoftwareCertificates, ReadSignatureData,
             UInt32>>)
WriteActivateSessionRequest ==
    Struct(<<WriteRequestHeader, WriteSignatureData, Array(SoftwareCertificate, 0),
             writeStringArray, ExtensionObject, WriteSignatureData>>)
ReadActivateSessionRequest ==
    Struct(<<ReadRequestHeader, ReadSignatureData, readSoftwareCertificates,
             readStringArray, ExtensionObject, ReadSignatureData>>)
WriteActivateSessionResponse ==
    Struct(<<WriteResponseHeader, ByteString, Array(StatusCode, 0), Diagnostics(0)>>)
ReadActivateSessionResponse ==
    Struct(<<ReadResponseHeader, ByteString, Array(StatusCode, 4), Diagnostics(1)>>)
WriteCloseSessionRequest == Struct(<<WriteRequestHeader, Boolean>>)
ReadCloseSessionRequest  == Struct(<<ReadRequestHeader, Boolean>>)

-----------------------------------------------------------------------------
(* Browse *)

WriteViewDescription == Struct(<<NodeID, DateTime, UInt32>>)
ReadViewDescription  == Struct(<<NodeID, DateTime, UInt32>>)
WriteBrowseDescription == Struct(<<NodeID, Int32, NodeID, Boolean, UInt32, UInt32>>)
ReadBrowseDescription  == Struct(<<NodeID, Int32, NodeID, Boolean, UInt32, UInt32>>)
WriteReferenceDescription ==
    Struct(<<NodeID, Boolean, ExpandedNodeID, WriteQualifiedName, WriteLocalizedText, Int32,
             ExpandedNodeID>>)
ReadReferenceDescription ==
    Struct(<<NodeID, Boolean, ExpandedNodeID, ReadQualifiedName, ReadLocalizedText, Int32,
             ExpandedNodeID>>)
WriteBrowseResult == Struct(<<StatusCode, OptionalBytes, Array(WriteReferenceDescription, 0)>>)
ReadBrowseResult  == Struct(<<StatusCode, ByteString, Array(ReadReferenceDescription, 16)>>)
WriteBrowseRequest ==
    Struct(<<WriteRequestHeader, WriteViewDescription, UInt32, Array(WriteBrowseDescription, 0)>>)
ReadBrowseRequest ==
    Struct(<<ReadRequestHeader, ReadViewDescription, UInt32, Array(ReadBrowseDescription, 13)>>)
WriteBrowseResponse ==
    Struct(<<WriteResponseHeader, Array(WriteBrowseResult, 0), Diagnostics(0)>>)
ReadBrowseResponse ==
    Struct(<<ReadResponseHeader, Array(ReadBrowseResult, 9), Diagnostics(1)>>)
WriteBrowseNextRequest == Struct(<<WriteRequestHeader, Boolean, Array(ByteString, 0)>>)
ReadBrowseNextRequest  == Struct(<<ReadRequestHeader, Boolean, Array(ByteString, 4)>>)

-----------------------------------------------------------------------------
(* Read and Write *)

WriteReadValueID == Struct(<<NodeID, UInt32, OptionalString, WriteQualifiedName>>)
ReadReadValueID  == Struct(<<NodeID, UInt32, String, ReadQualifiedName>>)
WriteWriteValue == Struct(<<NodeID, UInt32, OptionalString, WriteDataValue>>)
ReadWriteValue  == Struct(<<NodeID, UInt32, String, ReadDataValue>>)
WriteReadRequest == Struct(<<WriteRequestHeader, Double, Int32, Array(WriteReadValueID, 0)>>)
ReadReadRequest  == Struct(<<ReadRequestHeader, Double, Int32, Array(ReadReadValueID, 12)>>)
WriteReadResponse == Struct(<<WriteResponseHeader, Array(WriteDataValue, 0), Diagnostics(0)>>)
ReadReadResponse  == Struct(<<ReadResponseHeader, Array(ReadDataValue, 1), Diagnostics(1)>>)
WriteWriteRequest == Struct(<<WriteRequestHeader, Array(WriteWriteValue, 0)>>)
ReadWriteRequest  == Struct(<<ReadRequestHeader, Array(ReadWriteValue, 10)>>)
WriteWriteResponse == WriteStatusResponse
ReadWriteResponse  == ReadStatusResponse

-----------------------------------------------------------------------------
(* Subscriptions *)

WriteCreateSubscriptionRequest ==
    Struct(<<WriteRequestHeader, Double, UInt32, UInt32, UInt32, Boolean, UInt(1)>>)
ReadCreateSubscriptionRequest ==
    Struct(<<ReadRequestHeader, Double, UInt32, UInt32, UInt32, Boolean, UInt(1)>>)
WriteCreateSubscriptionResponse ==
    Struct(<<WriteResponseHeader, UInt32, Double, UInt32, UInt32>>)
ReadCreateSubscriptionResponse ==
    Struct(<<ReadResponseHeader, UInt32, Double, UInt32, UInt32>>)
WriteDeleteSubscriptionsRequest == Struct(<<WriteRequestHeader, writeUInt32Array>>)
ReadDeleteSubscriptionsRequest  == Struct(<<ReadRequestHeader, readUInt32Array>>)
writeStatusCodeResults == WriteStatusResponse
readStatusCodeResults  == ReadStatusResponse
WriteMonitoringParameters == Struct(<<UInt32, Double, ExtensionObject, UInt32, Boolean>>)
ReadMonitoringParameters  == Struct(<<UInt32, Double, ExtensionObject, UInt32, Boolean>>)
WriteCreateMonitoredItemsRequest ==
    Struct(<<WriteRequestHeader, UInt32, Int32,
             Array(Struct(<<WriteReadValueID, Int32, WriteMonitoringParameters>>), 0)>>)
ReadCreateMonitoredItemsRequest ==
    Struct(<<ReadRequestHeader, UInt32, Int32,
             Array(Struct(<<ReadReadValueID, Int32, ReadMonitoringParameters>>), 30)>>)
WriteCreateMonitoredItemsResponse ==
    Struct(<<WriteResponseHeader,
             Array(Struct(<<StatusCode, UInt32, Double, UInt32, ExtensionObject>>), 0),
             Diagnostics(0)>>)
ReadCreateMonitoredItemsResponse ==
    Struct(<<ReadResponseHeader,
             Array(Struct(<<StatusCode, UInt32, Double, UInt32, ExtensionObject>>), 23),
             Diagnostics(1)>>)
WriteDeleteMonitoredItemsRequest == Struct(<<WriteRequestHeader, UInt32, writeUInt32Array>>)
ReadDeleteMonitoredItemsRequest  == Struct(<<ReadRequestHeader, UInt32, readUInt32Array>>)
WriteSetPublishingModeRequest == Struct(<<WriteRequestHeader, Boolean, writeUInt32Array>>)
ReadSetPublishingModeRequest  == Struct(<<ReadRequestHeader, Boolean, readUInt32Array>>)
WritePublishRequest == Struct(<<WriteRequestHeader, Array(Struct(<<UInt32, UInt32>>), 0)>>)
ReadPublishRequest  == Struct(<<ReadRequestHeader, Array(Struct(<<UInt32, UInt32>>), 8)>>)

\* No notification data, or one DataChangeNotification, whose diagnostics are
\* written empty and never read.
DataChangeNotification == Identifier(0, "numeric", 811)
WriteNotificationMessage ==
    Struct(<<UInt32, DateTime,
             Array(Inside(DataChangeNotification,
                          Array(Struct(<<UInt32, WriteDataValue>>), 0), PutUInt(0, 4)), 0)>>)
ReadNotificationMessage ==
    Struct(<<UInt32, DateTime,
             Array(Inside(DataChangeNotification,
                          Array(Struct(<<UInt32, ReadDataValue>>), 5), <<>>), 3)>>)
WritePublishResponse ==
    Struct(<<WriteResponseHeader, UInt32, writeUInt32Array, Boolean, WriteNotificationMessage,
             Array(StatusCode, 0), Diagnostics(0)>>)
ReadPublishResponse ==
    Struct(<<ReadResponseHeader, UInt32, readUInt32Array, Boolean, ReadNotificationMessage,
             Array(StatusCode, 4), Diagnostics(1)>>)
WriteRepublishRequest == Struct(<<WriteRequestHeader, UInt32, UInt32>>)
ReadRepublishRequest  == Struct(<<ReadRequestHeader, UInt32, UInt32>>)
WriteRepublishResponse == Struct(<<WriteResponseHeader, WriteNotificationMessage>>)
ReadRepublishResponse  == Struct(<<ReadResponseHeader, ReadNotificationMessage>>)

-----------------------------------------------------------------------------
(* Messages to try *)

Layouts == {
    <<WriteHello, ReadHello>>, <<WriteAcknowledge, ReadAcknowledge>>,
    <<WriteAsymmetricHeader, ReadAsymmetricHeader>>,
    <<WriteSequenceHeader, ReadSequenceHeader>>,
    <<WriteOpenSecureChannelRequest, ReadOpenSecureChannelRequest>>,
    <<WriteOpenSecureChannelResponse, ReadOpenSecureChannelResponse>>,
    <<WriteCloseSecureChannelRequest, ReadCloseSecureChannelRequest>>,
    <<WriteGetEndpointsRequest, ReadGetEndpointsRequest>>,
    <<WriteGetEndpointsResponse, ReadGetEndpointsResponse>>,
    <<WriteCreateSessionRequest, ReadCreateSessionRequest>>,
    <<WriteCreateSessionResponse, ReadCreateSessionResponse>>,
    <<WriteActivateSessionRequest, ReadActivateSessionRequest>>,
    <<WriteActivateSessionResponse, ReadActivateSessionResponse>>,
    <<WriteCloseSessionRequest, ReadCloseSessionRequest>>,
    <<WriteBrowseRequest, ReadBrowseRequest>>,
    <<WriteBrowseResponse, ReadBrowseResponse>>,
    <<WriteBrowseNextRequest, ReadBrowseNextRequest>>,
    <<WriteReadRequest, ReadReadRequest>>, <<WriteReadResponse, ReadReadResponse>>,
    <<WriteWriteRequest, ReadWriteRequest>>, <<WriteWriteResponse, ReadWriteResponse>>,
    <<WriteCreateSubscriptionRequest, ReadCreateSubscriptionRequest>>,
    <<WriteCreateSubscriptionResponse, ReadCreateSubscriptionResponse>>,
    <<WriteDeleteSubscriptionsRequest, ReadDeleteSubscriptionsRequest>>,
    <<writeStatusCodeResults, readStatusCodeResults>>,
    <<WriteCreateMonitoredItemsRequest, ReadCreateMonitoredItemsRequest>>,
    <<WriteCreateMonitoredItemsResponse, ReadCreateMonitoredItemsResponse>>,
    <<WriteDeleteMonitoredItemsRequest, ReadDeleteMonitoredItemsRequest>>,
    <<WriteSetPublishingModeRequest, ReadSetPublishingModeRequest>>,
    <<WritePublishRequest, ReadPublishRequest>>,
    <<WritePublishResponse, ReadPublishResponse>>,
    <<WriteRepublishRequest, ReadRepublishRequest>>,
    <<WriteRepublishResponse, ReadRepublishResponse>>}

\* Forms of the unions, the least ones first.
NodeIDs == <<
    Identifier(0, "numeric", 0), Identifier(3, "numeric", 515),
    Identifier(258, "numeric", 65537), Identifier(2, "string", <<65>>),
    Identifier(1, "guid", 7), Identifier(2, "opaque", <<>>)>>
ExpandedNodeIDs == <<
    Identifier(0, "numeric", 0), [Identifier(0, "numeric", 9) EXCEPT !.uri = <<<<66>>>>],
    [Identifier(3, "string", <<67>>) EXCEPT !.server = <<258>>],
    [Identifier(0, "opaque", <<68>>) EXCEPT !.uri = <<<<>>>>, !.server = <<0>>]>>
Extensions == <<
    [type |-> NodeIDs[1], encoding |-> 0, body |-> <<>>],
    [type |-> NodeIDs[2], encoding |-> 1, body |-> <<1, 2>>],
    [type |-> NodeIDs[4], encoding |-> 2, body |-> <<>>]>>
Scalar(type, v) == [type |-> type, array |-> FALSE, value |-> v, dims |-> <<>>]
Variants == <<
    Scalar(1, TRUE), Scalar(7, 258), Scalar(12, <<65>>), Scalar(13, 5), Scalar(17, NodeIDs[2]),
    Scalar(0, <<>>), Scalar(21, <<<<>>, <<<<66>>>>>>), Scalar(22, Extensions[2]),
    [type |-> 4, array |-> TRUE, value |-> <<1, 2>>, dims |-> <<>>],
    [type |-> 12, array |-> TRUE, value |-> <<<<65>>, <<>>>>, dims |-> <<1, 2>>],
    [type |-> 6, array |-> TRUE, value |-> <<>>, dims |-> <<>>]>>

PickOf(forms, p) == forms[(p % Len(forms)) + 1]

\* A value of a kind: pick p = 0 is the least one in every part.
RECURSIVE Example(_, _, _)
Example(k, size, p) ==
    CASE k.kind = "uint" -> IF p = 0 THEN 0 ELSE (p * 37 + 11) % (256 ^ (IF k.width > 2 THEN 2 ELSE 1))
      [] k.kind = "enum" -> IF p % 2 = 0 THEN k.lo ELSE k.hi
      [] k.kind = "bool" -> p % 2 = 1
      [] k.kind = "time" -> PickOf(<<0, 7, DateTimeUpper>>, p)
      [] k.kind = "pico" -> p % 10000
      [] k.kind = "text" -> PickOf(<<<<>>, <<65>>, <<66, 67>>>>, p)
      [] k.kind = "nodeid" -> PickOf(IF k.flags THEN ExpandedNodeIDs ELSE NodeIDs, p)
      [] k.kind = "extension" -> PickOf(Extensions, p)
      [] k.kind = "struct" ->
            [i \in DOMAIN k.fields |-> Example(k.fields[i], size, IF p = 0 THEN 0 ELSE p + i)]
      [] k.kind = "masked" ->
            [i \in DOMAIN k.fields |->
                IF (p + i) % 4 > 1 THEN <<>>
                ELSE IF k.fields[i].kind = "text" THEN <<<<69>>>>
                ELSE IF k.fields[i].kind = "uint" THEN <<Example(k.fields[i], size, p + 1)>>
                ELSE <<Example(k.fields[i], size, p + i)>>]
      [] k.kind = "diagnostic" ->
            IF p = 0 \/ k.depth = MaxDiagnosticRecursion
            THEN <<<<>>, <<>>, <<>>, <<>>, <<>>, <<>>, <<>>>>
            ELSE Example(Diagnostic(k.depth), size, p)
      [] k.kind = "array" ->
            IF size = 0 /\ k.null /\ p % 2 = 0 THEN NilArray
            ELSE Elements([i \in 1..size |-> Example(k.of, size, IF p = 0 THEN 0 ELSE p + i)])
      [] k.kind = "empty" -> Elements(<<>>)
      [] k.kind = "inside" -> Example(k.of, size, p)
      [] k.kind = "variant" -> PickOf(Variants, p)

\* What the other side is to find: as written, but for what is not worth
\* announcing and the elements of a Variant's array, which a decoder reads past.
RECURSIVE Heard(_, _)
Heard(k, v) ==
    CASE k.kind = "struct" -> [i \in DOMAIN k.fields |-> Heard(k.fields[i], v[i])]
      [] k.kind = "masked" ->
            [i \in DOMAIN k.fields |->
                IF Carries(k, v, i) THEN <<Heard(k.fields[i], v[i][1])>> ELSE <<>>]
      [] k.kind = "array" -> [v EXCEPT !.of = [i \in DOMAIN v.of |-> Heard(k.of, v.of[i])]]
      [] k.kind = "inside" -> Heard(k.of, v)
      [] k.kind = "variant" /\ v.array -> [v EXCEPT !.value = <<>>, !.dims = <<>>]
      [] OTHER -> v

MessagesInit ==
    \E l \in Layouts, s \in Samples :
        message = [write |-> l[1], read |-> l[2], value |-> Example(l[1], s[1], s[2])]

Written(b) == Len(b) <= MaxMessageBytes /\ -1 \notin ToSet(b)

-----------------------------------------------------------------------------
(* Properties *)

\* The bytes a structure is written as from its field i on.
From(fields, vs, i) ==
    Put(Struct(SubSeq(fields, i, Len(fields))), SubSeq(vs, i, Len(vs)))

\* The decoder asks for 24 bytes per UserTokenPolicy ("at least five length
\* prefixes and an enumeration": there are four), of which the least takes 20. An
\* endpoint of this message, in the array that is its field e, has more policies
\* than the bytes from the first of them to the end of the message allow.
PoliciesOverasked(e) ==
    LET endpoints == message.value[e].of
        After(i) == PutAll(WriteEndpointDescription, SubSeq(endpoints, i + 1, Len(endpoints)))
                        \o From(message.write.fields, message.value, e + 1)
        Rest(i) == From(WriteEndpointDescription.fields, endpoints[i], 6) \o After(i)
    IN  \E i \in DOMAIN endpoints :
            Len(Rest(i)) - 4 < 24 * Len(endpoints[i][6].of)

\* The two messages that list endpoints.
RefusedLists ==
    \/ message.read = ReadGetEndpointsResponse /\ PoliciesOverasked(2)
    \/ message.read = ReadCreateSessionResponse /\ PoliciesOverasked(7)

\* What the encoder of a message writes, its decoder accepts, in full, and
\* reads back as the same value, but for the lists of UserTokenPolicies that the
\* decoder takes to be longer than they are: those it refuses. Fields in another
\* order, a field of another width, an optional part announced by another bit, or
\* another array that is taken to need more bytes than it does would break it.
RoundTrip ==
    LET b   == Put(message.write, message.value)
        got == Get(message.read, b, 0)
    IN  Written(b) =>
            IF RefusedLists THEN ~got.ok
            ELSE /\ got.ok /\ got.at = Len(b)
                 /\ got.v = Heard(message.write, message.value)

\* A message cut short anywhere is refused, and never read as another one.
TruncationRefused ==
    LET b == Put(message.write, message.value)
    IN  Written(b) => \A n \in 0..(Len(b) - 1) : ~Get(message.read, SubSeq(b, 1, n), 0).ok

\* Decoding is the inverse of encoding and nothing else: a whole message reads
\* back as it was, a part of one does not read at all.
DecodingExact == RoundTrip /\ TruncationRefused
=============================================================================
