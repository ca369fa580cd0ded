------------------------------ MODULE UABinary ------------------------------
(***************************************************************************)
(* OPC UA binary encoding (internal/opcua/binary.go, nodeid.go, variant.go,*)
(* datetime.go): what the encoder writes for a value of each kind, and what*)
(* the decoder makes of any bytes.                                         *)
(*                                                                         *)
(* A message body is a sequence of bytes. A layout is a tree of kinds; the *)
(* value of a structure is the sequence of its fields' values. Put runs an *)
(* encoder's layout and Get a decoder's. Cell -1 stands for the encoder's  *)
(* sticky error.                                                           *)
(***************************************************************************)
EXTENDS Integers, Sequences, SequencesExt

CONSTANTS
    MaxMessageBytes, MaxStringBytes, MaxByteStringBytes, MaxArrayLength,
    MaxDiagnosticRecursion, ThumbprintBytes,
    DateTimeUpper      \* ticks at 9999-12-31 23:59:59, scaled down

ASSUME BinaryAssumption ==
    {MaxMessageBytes, MaxStringBytes, MaxByteStringBytes, MaxArrayLength,
     MaxDiagnosticRecursion, ThumbprintBytes, DateTimeUpper} \subseteq Nat \ {0}

Broken == <<-1>>
NilArray == [nil |-> TRUE, of |-> <<>>]
Elements(s) == [nil |-> FALSE, of |-> s]
DateTimeMax == 2147483647

-----------------------------------------------------------------------------
(* Kinds *)

UInt(w)          == [kind |-> "uint", width |-> w]
Boolean          == [kind |-> "bool", width |-> 1]
Enum(lo, hi)     == [kind |-> "enum", width |-> 4, lo |-> lo, hi |-> hi]
DateTime         == [kind |-> "time", width |-> 8]
Picoseconds      == [kind |-> "pico", width |-> 2]
String           == [kind |-> "text", max |-> MaxStringBytes, null |-> FALSE, exact |-> FALSE]
OptionalString   == [String EXCEPT !.null = TRUE]
ByteString       == [String EXCEPT !.max = MaxByteStringBytes]
OptionalBytes    == [ByteString EXCEPT !.null = TRUE]
\* Absent, or of one length.
Thumbprint(null) == [ByteString EXCEPT !.max = ThumbprintBytes, !.exact = TRUE, !.null = null]
NodeID           == [kind |-> "nodeid", flags |-> FALSE]
ExpandedNodeID   == [kind |-> "nodeid", flags |-> TRUE]
Variant          == [kind |-> "variant"]
ExtensionObject  == [kind |-> "extension"]
DiagnosticInfo   == [kind |-> "diagnostic", depth |-> 0]
Struct(fields)   == [kind |-> "struct", fields |-> fields]
\* Fields that a mask announces: a value is <<>> or <<v>> for each.
Masked(fields, bits) == [kind |-> "masked", fields |-> fields, bits |-> bits]
\* least is the size the decoder assumes of an element, in bytes.
Array(of, least)    == [kind |-> "array", of |-> of, least |-> least, null |-> FALSE]
Nullable(of, least) == [Array(of, least) EXCEPT !.null = TRUE]
\* An array that is always written empty.
Empty == [kind |-> "empty"]
\* An ExtensionObject of this type that holds a message of its own; the decoder
\* reads the body up to the tail.
Inside(type, of, tail) == [kind |-> "inside", type |-> type, of |-> of, tail |-> tail]

UInt32 == UInt(4)
Int32  == UInt(4)
Double == UInt(8)
StatusCode == UInt(4)
Guid   == Struct(<<UInt(4), UInt(2), UInt(2), UInt(8)>>)

WriteQualifiedName == Struct(<<UInt(2), String>>)
ReadQualifiedName  == Struct(<<UInt(2), String>>)
WriteLocalizedText == Masked(<<String, String>>, <<1, 2>>)
ReadLocalizedText  == Masked(<<String, String>>, <<1, 2>>)
WriteDataValue ==
    Masked(<<Variant, StatusCode, DateTime, Picoseconds, DateTime, Picoseconds>>,
           <<1, 2, 4, 16, 8, 32>>)

\* Mutation: the optional fields are read in the order of their bits.
ReadDataValueByBit ==
    Masked(<<Variant, StatusCode, DateTime, DateTime, Picoseconds, Picoseconds>>,
           <<1, 2, 4, 8, 16, 32>>)

ReadDataValue ==
    Masked(<<Variant, StatusCode, DateTime, Picoseconds, DateTime, Picoseconds>>,
           <<1, 2, 4, 16, 8, 32>>)

\* What a Variant of each built-in type carries; "none" is not encoded.
NoField == [kind |-> "none"]
Scalars(written) ==
    LET only(k) == IF written THEN NoField ELSE k
    IN  <<Boolean, UInt(1), UInt(1), UInt(2), UInt(2), UInt(4), UInt(4), UInt(8),
          UInt(8), UInt(4), UInt(8), String, DateTime, Guid, ByteString,
          only(String), NodeID, only(ExpandedNodeID), StatusCode,
          WriteQualifiedName, WriteLocalizedText, ExtensionObject,
          only(ReadDataValue), NoField, only(DiagnosticInfo)>>
ScalarsWritten == Scalars(TRUE)
ScalarsRead    == Scalars(FALSE)
writeVariantScalar(type) == ScalarsWritten[type]
skipBuiltIn(type) == IF type <= 25 THEN ScalarsRead[type] ELSE ByteString

-----------------------------------------------------------------------------
(* Primitives *)

PutUInt(v, w) == [i \in 1..w |-> IF v < 0 THEN 255
                                 ELSE IF i > 4 THEN 0 ELSE (v \div 256^(i-1)) % 256]

EncodeDateTime(t) ==
    IF t <= 0 THEN 0 ELSE IF t >= DateTimeUpper THEN DateTimeMax ELSE t
DecodeDateTime(ticks) ==
    IF ticks <= 0 THEN 0
    ELSE IF ticks = DateTimeMax \/ ticks > DateTimeUpper THEN DateTimeUpper
    ELSE ticks

Failure == [ok |-> FALSE, v |-> 0, at |-> 0]
Success(v, at) == [ok |-> TRUE, v |-> v, at |-> at]
\* A decoder reads one thing after another and gives up at the first that fails.
Then(r, Step(_, _)) == IF r.ok THEN Step(r.v, r.at) ELSE Failure
\* What may be absent is <<>> or <<v>>.
Maybe(there, r, at) ==
    IF ~there THEN Success(<<>>, at) ELSE Then(r, LAMBDA v, end : Success(<<v>>, end))

\* take: w bytes from an offset, as a number.
GetUInt(b, at, w) ==
    IF at + w > Len(b) THEN Failure
    ELSE Success(IF w >= 4 /\ b[at + 4] > 127 THEN -1
                 ELSE LET Byte(i) == IF i > w THEN 0 ELSE b[at + i] * 256^(i-1)
                      IN  Byte(1) + Byte(2) + Byte(3) + Byte(4), at + w)

\* readLength: -1 is null, any other negative length or one past the bound is
\* refused.
readLength(b, at, bound) ==
    Then(GetUInt(b, at, 4), LAMBDA n, end :
        IF n > bound \/ (n < 0 /\ SubSeq(b, at + 1, at + 4) # PutUInt(-1, 4))
        THEN Failure ELSE Success(n, end))

PutText(k, v) ==
    IF k.null /\ v = <<>> THEN PutUInt(-1, 4)
    ELSE IF Len(v) > k.max \/ (k.exact /\ Len(v) # k.max) THEN Broken
    ELSE PutUInt(Len(v), 4) \o v

GetText(k, b, at) ==
    Then(readLength(b, at, k.max), LAMBDA n, end :
        IF n = -1 THEN Success(<<>>, end)
        ELSE IF end + n > Len(b) \/ (k.exact /\ n \notin {0, k.max}) THEN Failure
        ELSE Success(SubSeq(b, end + 1, end + n), end + n))

\* The NodeId forms; a flag of ExpandedNodeId excludes the short ones. A value
\* is [ns, type, id, uri, server], the last two <<>> when absent.
writeNodeIDWithFlags(v, flags) ==
    LET plain == v.type = "numeric" /\ flags = 0
        short == plain /\ v.ns = 0 /\ v.id <= 255
        four  == plain /\ v.ns <= 255 /\ v.id <= 65535
        form  == IF short THEN 0 ELSE IF four THEN 1
                 ELSE flags + CASE v.type = "numeric" -> 2 [] v.type = "string" -> 3
                                [] v.type = "guid" -> 4 [] v.type = "opaque" -> 5
        ns    == IF short THEN <<>> ELSE PutUInt(v.ns, IF four THEN 1 ELSE 2)
    IN  <<form>> \o ns \o
            CASE v.type = "numeric" ->
                    PutUInt(v.id, IF short THEN 1 ELSE IF four THEN 2 ELSE 4)
              [] v.type = "string" -> PutText(String, v.id)
              [] v.type = "guid" -> PutUInt(v.id, 4) \o PutUInt(0, 12)
              [] v.type = "opaque" -> PutText(ByteString, v.id)

WriteExpandedNodeID(v) ==
    LET flags == (IF v.uri # <<>> THEN 128 ELSE 0) + (IF v.server # <<>> THEN 64 ELSE 0)
    IN  writeNodeIDWithFlags(IF v.uri # <<>> THEN [v EXCEPT !.ns = 0] ELSE v, flags)
            \o (IF v.uri # <<>> THEN PutText(String, v.uri[1]) ELSE <<>>)
            \o (IF v.server # <<>> THEN PutUInt(v.server[1], 4) ELSE <<>>)

Identifier(ns, type, id) ==
    [ns |-> ns, type |-> type, id |-> id, uri |-> <<>>, server |-> <<>>]

\* A Guid is sixteen bytes, of which the first four tell one from another.
ReadGuid(b, at) ==
    IF at + 16 > Len(b) THEN Failure
    ELSE Then(GetUInt(b, at, 4), LAMBDA v, end : Success(v, at + 16))

readNodeIDWithFlags(b, at) ==
    LET e == b[at + 1] % 64
        After(ns) == CASE e = 0 -> GetUInt(b, ns, 1)
                       [] e = 1 -> GetUInt(b, ns, 2)
                       [] e = 2 -> GetUInt(b, ns, 4)
                       [] e = 3 -> GetText(String, b, ns)
                       [] e = 4 -> ReadGuid(b, ns)
                       [] e = 5 -> GetText(ByteString, b, ns)
                       [] OTHER -> Failure
        type == IF e <= 2 THEN "numeric" ELSE <<"string", "guid", "opaque">>[e - 2]
    IN  Then(CASE e = 0 -> Success(0, at + 1)
               [] e = 1 -> GetUInt(b, at + 1, 1)
               [] OTHER -> GetUInt(b, at + 1, 2),
             LAMBDA ns, end : Then(After(end), LAMBDA id, stop :
                 Success(Identifier(ns, type, id), stop)))

\* ReadNodeID refuses the flags, ReadExpandedNodeID reads what they announce.
GetNodeID(k, b, at) ==
    LET flags == b[at + 1] \div 64
    IN  IF at >= Len(b) THEN Failure
        ELSE Then(readNodeIDWithFlags(b, at), LAMBDA n, end :
                 IF flags # 0 /\ ~k.flags THEN Failure
                 ELSE Then(Maybe(flags >= 2, GetText(String, b, end), end), LAMBDA uri, rest :
                      Then(Maybe(flags % 2 = 1, GetUInt(b, rest, 4), rest), LAMBDA server, stop :
                          Success([n EXCEPT !.uri = uri, !.server = server], stop))))

WriteExtensionObject(v) ==
    writeNodeIDWithFlags(v.type, 0) \o
        CASE v.encoding = 0 -> <<0>>
          [] v.encoding \in {1, 2} -> <<v.encoding>> \o PutText(ByteString, v.body)
          [] OTHER -> Broken

ReadExtensionObject(b, at) ==
    Then(GetNodeID(NodeID, b, at), LAMBDA type, end :
    Then(GetUInt(b, end, 1), LAMBDA code, rest :
    Then(CASE code = 0 -> Success(<<>>, rest)
           [] code \in {1, 2} -> GetText(ByteString, b, rest)
           [] OTHER -> Failure, LAMBDA body, stop :
        Success([type |-> type, encoding |-> code, body |-> body], stop))))

\* ArrayDimensions: at least one, each positive, and their product, which is
\* given up as soon as it passes the length, exactly the length.
RECURSIVE ReadsDimensions(_, _, _, _, _)
ReadsDimensions(b, at, count, product, length) ==
    IF count = 0 THEN (IF product = length THEN Success(<<>>, at) ELSE Failure)
    ELSE LET d == GetUInt(b, at, 4)
         IN  IF ~d.ok \/ d.v <= 0 \/ product * d.v > length THEN Failure
             ELSE ReadsDimensions(b, d.at, count - 1, product * d.v, length)

-----------------------------------------------------------------------------
(* Running a layout *)

\* What is worth announcing: not a null Variant, and picoseconds only of a
\* timestamp that is one.
Carries(k, v, i) ==
    /\ v[i] # <<>>
    /\ k.fields[i].kind = "variant" => (v[i][1].array \/ v[i][1].type # 0)
    /\ k.fields[i].kind = "pico" =>
          /\ v[i][1] # 0 /\ v[i - 1] # <<>>
          /\ EncodeDateTime(v[i - 1][1]) \notin {0, DateTimeMax}
Mask(k, v) == FoldFunction(+, 0, [i \in DOMAIN k.bits |-> IF Carries(k, v, i) THEN k.bits[i] ELSE 0])
Announced(mask, bit) == (mask \div bit) % 2 = 1

\* The layout of a DiagnosticInfo, whose last field is one more, a level down.
Diagnostic(depth) ==
    Masked(<<Int32, Int32, Int32, Int32, String, StatusCode,
             [kind |-> "diagnostic", depth |-> depth + 1]>>,
           <<1, 2, 8, 4, 16, 32, 64>>)

RECURSIVE Put(_, _)

PutAll(k, vs) == FlattenSeq([i \in DOMAIN vs |-> Put(k, vs[i])])

WriteArray(k, v) ==
    IF v.nil THEN PutUInt(IF k.null THEN -1 ELSE 0, 4)
    ELSE IF Len(v.of) > MaxArrayLength THEN Broken
    ELSE PutUInt(Len(v.of), 4) \o PutAll(k.of, v.of)

\* variantArrayLength knows arrays of these types only, up to String.
ArrayTypes == 1..12

\* A Variant's array is not held to the limit its reader has.
WriteVariant(v) ==
    LET shaped == Len(v.dims) > 1
    IN  IF v.array
        THEN IF v.type \notin ArrayTypes THEN Broken
             ELSE <<v.type + 128 + (IF shaped THEN 64 ELSE 0)>> \o PutUInt(Len(v.value), 4)
             \o PutAll(writeVariantScalar(v.type), v.value)
             \o (IF shaped THEN PutUInt(Len(v.dims), 4) \o PutAll(Int32, v.dims) ELSE <<>>)
        ELSE IF v.type = 0 THEN <<0>>
        ELSE IF v.type > 25 THEN Broken
        ELSE IF writeVariantScalar(v.type) = NoField THEN Broken
        ELSE <<v.type>> \o Put(writeVariantScalar(v.type), v.value)

WriteInside(k, v) ==
    LET body == Put(k.of, v) \o k.tail
    IN  IF Len(body) > MaxMessageBytes THEN Broken
        ELSE WriteExtensionObject([type |-> k.type, encoding |-> 1, body |-> body])

Put(k, v) ==
    CASE k.kind \in {"uint", "enum", "pico"} -> PutUInt(v, k.width)
      [] k.kind = "bool" -> <<IF v THEN 1 ELSE 0>>
      [] k.kind = "time" -> PutUInt(EncodeDateTime(v), 8)
      [] k.kind = "text" -> PutText(k, v)
      [] k.kind = "nodeid" ->
            IF k.flags THEN WriteExpandedNodeID(v) ELSE writeNodeIDWithFlags(v, 0)
      [] k.kind = "extension" -> WriteExtensionObject(v)
      [] k.kind = "struct" -> FlattenSeq([i \in DOMAIN k.fields |-> Put(k.fields[i], v[i])])
      [] k.kind = "masked" ->
            <<Mask(k, v)>>
            \o FlattenSeq([i \in DOMAIN k.fields |->
                              IF Carries(k, v, i) THEN Put(k.fields[i], v[i][1]) ELSE <<>>])
      [] k.kind = "diagnostic" ->
            IF k.depth > MaxDiagnosticRecursion THEN Broken ELSE Put(Diagnostic(k.depth), v)
      [] k.kind = "array" -> WriteArray(k, v)
      [] k.kind = "empty" -> PutUInt(0, 4)
      [] k.kind = "inside" -> WriteInside(k, v)
      [] k.kind = "variant" -> WriteVariant(v)

RECURSIVE Get(_, _, _), GetFields(_, _, _, _), GetMany(_, _, _, _, _)
GetFields(fields, b, at, vs) ==
    IF fields = <<>> THEN Success(vs, at)
    ELSE Then(IF Head(fields) = NoField THEN Success(<<>>, at) ELSE Get(Head(fields), b, at),
              LAMBDA v, end : GetFields(Tail(fields), b, end, Append(vs, v)))

GetMany(k, n, b, at, vs) ==
    IF n <= 0 THEN Success(vs, at)
    ELSE Then(Get(k, b, at), LAMBDA v, end : GetMany(k, n - 1, b, end, Append(vs, v)))

\* ReadArrayLength: within the limit, and no more elements than the bytes that
\* remain can hold.
ReadArrayLength(b, at, least) ==
    Then(readLength(b, at, MaxArrayLength), LAMBDA n, end :
        IF n * least <= Len(b) - end THEN Success(n, end) ELSE Failure)

\* The elements of an array are read past and dropped.
ReadVariant(b, at) ==
    LET mask   == b[at + 1]
        type   == mask % 64
        array  == mask > 127
        shaped == (mask \div 64) % 2 = 1
        Result(v, end) ==
            Success([type |-> type, array |-> array, value |-> v, dims |-> <<>>], end)
        Shape(n, end) ==
            Then(ReadArrayLength(b, end, 4), LAMBDA count, rest :
                IF count <= 0 THEN Failure
                ELSE ReadsDimensions(b, rest, count, 1, IF n < 0 THEN 0 ELSE n))
    IN  IF type = 0
        THEN Success([type |-> 0, array |-> FALSE, value |-> <<>>, dims |-> <<>>], at + 1)
        ELSE IF type > 31 \/ skipBuiltIn(type) = NoField THEN Failure
        ELSE IF array
        THEN Then(ReadArrayLength(b, at + 1, 1), LAMBDA n, start :
             Then(GetMany(skipBuiltIn(type), n, b, start, <<>>), LAMBDA items, end :
             Then(IF shaped THEN Shape(n, end) ELSE Success(<<>>, end), LAMBDA s, stop :
                 Result(<<>>, stop))))
        ELSE IF shaped THEN Failure
        ELSE Then(Get(skipBuiltIn(type), b, at + 1), Result)

ReadFixed(k, n) ==
    IF ~n.ok THEN Failure
    ELSE CASE k.kind = "uint" -> n
           [] k.kind = "enum" -> IF n.v \in k.lo..k.hi THEN n ELSE Failure
           [] k.kind = "bool" -> [n EXCEPT !.v = @ # 0]
           [] k.kind = "time" -> [n EXCEPT !.v = DecodeDateTime(@)]
           [] k.kind = "pico" -> [n EXCEPT !.v = IF @ > 9999 THEN 9999 ELSE @]

\* The fields the mask does not announce are not there to be read.
ReadMasked(k, b, at) ==
    LET there(i) == Announced(b[at + 1], k.bits[i])
    IN  Then(GetFields([i \in DOMAIN k.bits |-> IF there(i) THEN k.fields[i] ELSE NoField],
                       b, at + 1, <<>>),
             LAMBDA vs, end :
                 Success([i \in DOMAIN k.bits |-> IF there(i) THEN <<vs[i]>> ELSE <<>>], end))

ReadArray(k, b, at) ==
    Then(ReadArrayLength(b, at, k.least), LAMBDA n, start :
        IF n = -1 THEN Success(NilArray, start)
        ELSE Then(GetMany(k.of, n, b, start, <<>>), LAMBDA vs, end :
                 Success(Elements(vs), end)))

\* An object of another type is skipped, which loses what it held.
ReadInside(k, b, at) ==
    Then(ReadExtensionObject(b, at), LAMBDA o, end :
        IF o.type # k.type THEN Success(NilArray, end)
        ELSE Then(Get(k.of, o.body, 0), LAMBDA v, rest : Success(v, end)))

Get(k, b, at) ==
    CASE k.kind \in {"uint", "enum", "bool", "time", "pico"} ->
            ReadFixed(k, GetUInt(b, at, k.width))
      [] k.kind = "text" -> GetText(k, b, at)
      [] k.kind = "nodeid" -> GetNodeID(k, b, at)
      [] k.kind = "extension" -> ReadExtensionObject(b, at)
      [] k.kind = "struct" -> GetFields(k.fields, b, at, <<>>)
      [] k.kind = "masked" -> IF at < Len(b) THEN ReadMasked(k, b, at) ELSE Failure
      [] k.kind = "diagnostic" ->
            IF k.depth > MaxDiagnosticRecursion THEN Failure ELSE Get(Diagnostic(k.depth), b, at)
      [] k.kind = "array" -> ReadArray(k, b, at)
      [] k.kind = "inside" -> ReadInside(k, b, at)
      [] k.kind = "variant" -> IF at < Len(b) THEN ReadVariant(b, at) ELSE Failure
=============================================================================
