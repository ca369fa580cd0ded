------------------------------ MODULE DAValues ------------------------------
(***************************************************************************)
(* The values of the OPC DA source on their way through the adapter: the   *)
(* COM VARIANT and SAFEARRAY (internal/opcda/da_windows.go,                *)
(* write_windows.go, safearray_windows.go), the Go value the core carries  *)
(* (array.go, vartype.go, write_value.go), and what each frontend makes of *)
(* it and takes back: JSON (internal/frontend/dajson/value.go), protobuf   *)
(* (internal/frontend/grpc/server.go) and the OPC UA Variant               *)
(* (internal/opcua/readwrite.go, mapping.go).                              *)
(*                                                                         *)
(* A Go value is [go, v]: its Go type and what it holds. Widths are scaled *)
(* down by Halves; integers wrap the way they do at the real widths.       *)
(***************************************************************************)
EXTENDS Integers, Sequences, FiniteSets, SequencesExt, UnaryHandlers

CONSTANTS
    Halves,            \* half the number of values of 1, 2, 4 and 8 byte integers
    Texts,             \* string values
    MaxArrayElements,  \* limits.MaxArrayElements
    MaxDimensions,
    Lengths,           \* lengths of dimensions to try
    Lowers             \* lower bounds to try

Widths == {1, 2, 4, 8}
Modulus(width) == 2 * Halves[width]

\* The limit on elements fits a length, and a product of lengths that is kept
\* within the limit cannot pass what 64 bits hold when one more is multiplied in.
ASSUME ValuesAssumption ==
    /\ Halves \in [Widths -> Nat \ {0, 1}]
    /\ Modulus(4) * Modulus(4) <= Modulus(8)
    /\ MaxDimensions \in Nat \ {0}
    /\ MaxArrayElements \in 1 .. (Modulus(4) - 1)
    /\ Lengths \subseteq 0 .. (Modulus(4) - 1)
    /\ Lowers \subseteq -Halves[4] .. (Halves[4] - 1)

Refused == [go |-> "refused", v |-> 0]

-----------------------------------------------------------------------------
(* VARTYPEs, and the Go type each is decoded into.                         *)

Signed == [I1 |-> 1, I2 |-> 2, I4 |-> 4, I8 |-> 8, INT |-> 4, ERROR |-> 4]
Unsigned == [UI1 |-> 1, UI2 |-> 2, UI4 |-> 4, UI8 |-> 8, UINT |-> 4]
Floats == [R4 |-> "float32", R8 |-> "float64"]
FloatValues == {"0.5", "NaN", "+Infinity", "-Infinity"}

Carried == DOMAIN Signed \cup DOMAIN Unsigned \cup DOMAIN Floats
           \cup {"EMPTY", "NULL", "BOOL", "BSTR"}
VarTypes == Carried \cup {"CY", "DATE", "VARIANT", "DECIMAL"}

SignedGo == <<"int8", "int16", "-", "int32", "-", "-", "-", "int64">>
UnsignedGo == <<"uint8", "uint16", "-", "uint32", "-", "-", "-", "uint64">>

GoType(vt) ==
    CASE vt \in DOMAIN Signed -> SignedGo[Signed[vt]]
      [] vt \in DOMAIN Unsigned -> UnsignedGo[Unsigned[vt]]
      [] vt \in DOMAIN Floats -> Floats[vt]
      [] vt = "BOOL" -> "bool" [] vt = "BSTR" -> "string"
      [] vt \in {"EMPTY", "NULL"} -> "nil" [] OTHER -> "none"

\* DecodesAs: VARTYPEs that are the same value in the same storage.
DecodesAs(vt) == CASE vt \in {"INT", "ERROR"} -> "I4" [] vt = "UINT" -> "UI4"
                   [] OTHER -> vt

\* What fits the integers of a width.
IntRange(signed, width) ==
    IF signed THEN -Halves[width] .. (Halves[width] - 1) ELSE 0 .. (Modulus(width) - 1)

Holds(vt) ==
    CASE vt \in DOMAIN Signed -> IntRange(TRUE, Signed[vt])
      [] vt \in DOMAIN Unsigned -> IntRange(FALSE, Unsigned[vt])
      [] vt \in DOMAIN Floats -> FloatValues
      [] vt = "BOOL" -> {TRUE, FALSE} [] vt = "BSTR" -> Texts [] OTHER -> {0}

GoValues(vt) == {[go |-> GoType(vt), v |-> x] : x \in Holds(vt)}

\* validateScalarValue: the Go type the VARTYPE produces, and no other.
ValidScalar(vt, value) == vt \in Carried /\ value.go = GoType(vt)

\* encodeWriteVariant and decodeVariant: little-endian storage, two's
\* complement, and VARIANT_TRUE as all ones.
ToVariant(vt, value) ==
    IF ~ValidScalar(vt, value) THEN [vt |-> vt, raw |-> -1]
    ELSE IF vt \in DOMAIN Signed THEN [vt |-> vt, raw |-> value.v % Modulus(Signed[vt])]
    ELSE IF vt = "BOOL" THEN [vt |-> vt, raw |-> IF value.v THEN Modulus(2) - 1 ELSE 0]
    ELSE [vt |-> vt, raw |-> value.v]

FromVariant(variant) ==
    LET vt == variant.vt
    IN  CASE vt \notin Carried -> Refused
          [] vt \in DOMAIN Signed ->
                [go |-> GoType(vt),
                 v |-> IF variant.raw >= Halves[Signed[vt]]
                       THEN variant.raw - Modulus(Signed[vt]) ELSE variant.raw]
          [] vt = "BOOL" -> [go |-> "bool", v |-> variant.raw # 0]
          [] OTHER -> [go |-> GoType(vt), v |-> variant.raw]

-----------------------------------------------------------------------------
(* JSON: 64-bit integers are decimal strings, and the floats JSON has no   *)
(* number for are named, under an encoding of their own.                   *)

NoJSON == [encoding |-> "refused", json |-> "none", v |-> 0]

JSONForm(vt) ==
    CASE vt \in {"EMPTY", "NULL"} -> "null"
      [] vt \in {"I8", "UI8", "BSTR"} -> "string"
      [] vt = "BOOL" -> "bool"
      [] OTHER -> "number"

EncodeJSON(vt, value) ==
    IF ~ValidScalar(vt, value) THEN NoJSON
    ELSE IF vt \in DOMAIN Floats /\ value.v # "0.5"
    THEN [encoding |-> "float-special", json |-> "string", v |-> value.v]
    ELSE [encoding |-> "json", json |-> JSONForm(vt), v |-> value.v]

DecodeJSON(vt, j) ==
    IF /\ vt \in Carried
       /\ \/ /\ j.encoding = "float-special" /\ vt \in DOMAIN Floats
             /\ j.json = "string" /\ j.v \in FloatValues \ {"0.5"}
          \/ j.encoding = "json" /\ j.json = JSONForm(vt) /\ j.v \in Holds(vt)
    THEN [go |-> GoType(vt), v |-> j.v] ELSE Refused

\* An element of an array carries no encoding: a string where a float is
\* expected names a special one.
DecodeJSONElement(vt, j) ==
    DecodeJSON(vt, [j EXCEPT !.encoding =
        IF vt \in DOMAIN Floats /\ j.json = "string" THEN "float-special" ELSE "json"])

(* Protobuf: one field per VARTYPE, the narrow ones 32 bits wide.          *)

EncodeProto(vt, value) ==
    IF ValidScalar(vt, value)
    THEN [field |-> IF vt = "NULL" THEN "EMPTY" ELSE vt, v |-> value.v]
    ELSE [field |-> "none", v |-> 0]

\* Mutation: the range is not checked.
DecodeProtoAny(vt, p) ==
    IF vt \in Carried /\ p.field = (IF vt = "NULL" THEN "EMPTY" ELSE vt)
    THEN [go |-> GoType(vt), v |-> p.v] ELSE Refused

DecodeProto(vt, p) ==
    IF /\ vt \in Carried /\ p.field = (IF vt = "NULL" THEN "EMPTY" ELSE vt)
       /\ vt \in DOMAIN Signed \cup DOMAIN Unsigned => p.v \in Holds(vt)
    THEN [go |-> GoType(vt), v |-> p.v] ELSE Refused

(* OPC UA: the Go value alone decides the built-in type, and a Write comes *)
(* back with the VARTYPE the built-in type, or the node's, stands for.     *)

EncodeUA(value) == [type |-> value.go, v |-> value.v]

\* varTypeForVariant: the one VARTYPE of a built-in type; none for Null.
VarTypeForUA(type) ==
    CASE type = "int8" -> "I1" [] type = "uint8" -> "UI1" [] type = "int16" -> "I2"
      [] type = "uint16" -> "UI2" [] type = "int32" -> "I4" [] type = "uint32" -> "UI4"
      [] type = "int64" -> "I8" [] type = "uint64" -> "UI8" [] type = "float32" -> "R4"
      [] type = "float64" -> "R8" [] type = "bool" -> "BOOL" [] type = "string" -> "BSTR"
      [] OTHER -> "none"

\* DataTypeFor and varTypeForDataTypeNode: what a node of a known type writes.
\* VT_DATE is declared a Double, though no value of it is ever carried.
VarTypeForNode(vt) ==
    CASE DecodesAs(vt) = "DATE" -> "R8"
      [] DecodesAs(vt) \in Carried \ {"EMPTY", "NULL"} -> DecodesAs(vt)
      [] OTHER -> "none"

\* writeItemForNode, then the strict check of writeValues against the type the
\* source keeps the item in.
WriteUA(canonical, known, variant) ==
    LET vt == IF known /\ VarTypeForNode(canonical) # "none"
              THEN VarTypeForNode(canonical) ELSE VarTypeForUA(variant.type)
    IN  IF vt # "none" /\ GoType(vt) = variant.type /\ vt = canonical
        THEN [go |-> variant.type, v |-> variant.v] ELSE Refused

-----------------------------------------------------------------------------
(* Arrays. A dimension is [lower, length]; the elements are flat, the last *)
(* dimension varying fastest.                                              *)

\* The loop of ElementCount and MatchesItsShape: the product so far in uint64,
\* given up on at an empty dimension and as soon as it passes the bound. 0
\* stands for the errors.
Counted(dims, maximum) ==
    LET n[k \in 0 .. Len(dims)] ==
            IF k = 0 THEN 1
            ELSE LET m == (n[k - 1] * dims[k].length) % Modulus(8)
                 IN  IF m > maximum THEN 0 ELSE m
    IN  n

ElementCount(dims, maximum) == Counted(dims, maximum)[Len(dims)]

\* MatchesItsShape: the dimensions describe exactly the elements carried.
MatchesItsShape(dims, carried) ==
    dims # <<>> /\ carried # 0 /\ ElementCount(dims, carried) = carried

\* Mutation: the product is compared only at the end.
ValidShapeWrapped(dims, carried) ==
    /\ dims # <<>> /\ Len(dims) <= MaxDimensions
    /\ FoldLeft(LAMBDA n, d : (n * d.length) % Modulus(8), 1, dims) = carried
    /\ carried \in 1..MaxArrayElements

\* Validate, but for the elements.
ValidShape(dims, carried) ==
    /\ dims # <<>> /\ Len(dims) <= MaxDimensions
    /\ ElementCount(dims, MaxArrayElements) # 0
    /\ MatchesItsShape(dims, carried)

(* Arrays on the wire. An array is [type, dims, elements].                 *)

NoArray == [type |-> "refused", dims |-> <<>>, elements |-> <<>>]

\* fillArrayValues: each element in the form encodeScalar gives it.
FillProtoArray(vt, elements) == [i \in DOMAIN elements |-> EncodeProto(vt, elements[i])]

EncodeProtoArray(array) ==
    LET filled == FillProtoArray(array.type, array.elements)
    IN  IF \E i \in DOMAIN filled : filled[i].field = "none" THEN NoArray
        ELSE [array EXCEPT !.elements = filled]

\* decodeArray: a type that is named must be the declared one, and the shape
\* and the elements describe each other; the limits are the core's business.
DecodeProtoArray(vt, p) ==
    LET elements == [i \in DOMAIN p.elements |-> DecodeProto(vt, p.elements[i])]
    IN  IF /\ p.type \in {"", vt} /\ (\A i \in DOMAIN elements : elements[i].go # "refused")
           /\ MatchesItsShape(p.dims, Len(elements))
        THEN [type |-> vt, dims |-> p.dims, elements |-> elements] ELSE NoArray

\* EncodeArray publishes the element type as an object.
EncodeJSONArray(array) ==
    LET filled == [i \in DOMAIN array.elements |-> EncodeJSON(array.type, array.elements[i])]
    IN  IF \E i \in DOMAIN filled : filled[i].encoding = "refused" THEN NoArray
        ELSE [type |-> "object", dims |-> array.dims, elements |-> filled]

\* decodeWriteArray takes it by name, or not at all.
DecodeJSONArray(vt, j) ==
    LET elements == [i \in DOMAIN j.elements |-> DecodeJSONElement(vt, j.elements[i])]
    IN  IF /\ j.type \in {"", vt} /\ (\A i \in DOMAIN elements : elements[i].go # "refused")
           /\ MatchesItsShape(j.dims, Len(elements))
        THEN [type |-> vt, dims |-> j.dims, elements |-> elements] ELSE NoArray

Wrapped32(n) == ((n + Halves[4]) % Modulus(4)) - Halves[4]

\* advanceArrayIndices: the next index vector, in int32 arithmetic. The carry
\* stops at the first position that has not run past its upper bound.
Advance(indices, dims) ==
    LET upper(p) == Wrapped32(Wrapped32(dims[p].lower + dims[p].length) - 1)
        next(p)  == Wrapped32(indices[p] + 1)
        stays    == {p \in DOMAIN dims : next(p) <= upper(p)}
        at == IF stays = {} THEN 0 ELSE CHOOSE p \in stays : \A q \in stays : q <= p
    IN  [p \in DOMAIN dims |-> CASE p < at -> indices[p]
                                 [] p = at -> next(p)
                                 [] OTHER -> dims[p].lower]

\* safeArrayDimensions refuses an empty dimension and one too long; a length
\* is computed in 64 bits from the two bounds.
ReadableDimension(lower, upper) ==
    upper >= lower /\ upper - lower + 1 <= MaxArrayElements

\* decodeSafeArray and encodeSafeArray: the vectors visited, in order.
Walk(dims) ==
    LET walk[k \in 0 .. MaxArrayElements] ==
            IF k = 0 THEN [p \in DOMAIN dims |-> dims[p].lower]
            ELSE Advance(walk[k - 1], dims)
    IN  [k \in 1..ElementCount(dims, MaxArrayElements) |-> walk[k - 1]]

\* variantForDAArray: a UA array has no lower bound to carry.
UAArrayStatus(dims) ==
    IF \E p \in DOMAIN dims : dims[p].lower # 0 THEN "Bad_NotSupported"
    ELSE IF dims = <<>> THEN "Bad_TypeMismatch" ELSE "Good"

-----------------------------------------------------------------------------
(* Quality: the status a DA quality becomes, by severity. Main and sub     *)
(* status are bits 2 to 7, the limit is bits 0 and 1.                      *)

LastKnown == 20    \* 0x14

\* The main and sub statuses StatusCodeForQuality names, by the severity of
\* the status it gives them; any other keeps the severity of its main status.
Named == [Good |-> {192, 216}, Uncertain |-> {64, 68, 80, 84, 88, LastKnown},
          Bad |-> {0, 4, 8, 12, 16, 24, 28, 32}]

MainSeverity(sub) ==
    CASE sub \div 64 = 3 -> "Good" [] sub \div 64 = 1 -> "Uncertain" [] OTHER -> "Bad"

SeverityForQuality(raw) ==
    LET sub == (raw % 256) - (raw % 4)
    IN  IF \E s \in DOMAIN Named : sub \in Named[s]
        THEN CHOOSE s \in DOMAIN Named : sub \in Named[s] ELSE MainSeverity(sub)

-----------------------------------------------------------------------------
(* Results. What the core can answer for one item of a Read: the HRESULT   *)
(* of registration or read, an error of the adapter's own, a value.        *)

\* resolveRegistrations, readDevice and writeValues produce these: not
\* registered for want of room, refused by the source, undecodable, read.
ReadOutcomes ==
    {[hresult |-> "absent", code |-> "code", value |-> "none"],
     [hresult |-> "failed", code |-> "", value |-> "none"],
     [hresult |-> "ok", code |-> "code", value |-> "none"],
     [hresult |-> "ok", code |-> "", value |-> "value"]}

\* encodeReadResult of the gRPC frontend; "internal" fails the whole response.
GRPCResult(r) ==
    IF r.value = "none"
    THEN IF r.code = "" /\ r.hresult # "failed" THEN "internal" ELSE "refused"
    ELSE IF r.code # "" \/ r.hresult # "ok" THEN "internal"
    ELSE "ok"

\* EncodeReadResult of the JSON frontends.
JSONResult(r) ==
    IF r.value = "none" \/ r.code # "" \/ r.hresult # "ok" THEN "refused" ELSE "ok"

\* dataValueForRead of the UA frontend.
UAResult(r) ==
    IF r.hresult = "failed" \/ r.code # "" \/ r.value = "none" THEN "refused" ELSE "ok"

-----------------------------------------------------------------------------
(* One conversion at a time: the sample is what arrives.                   *)

VARIABLE sample

Integral == DOMAIN Signed \cup DOMAIN Unsigned
Shapes == UNION {[1..n -> [lower : Lowers, length : Lengths]] : n \in 1..MaxDimensions}

ValuesInit ==
    \/ \E vt \in Carried : \E x \in GoValues(vt) :
          sample = [kind |-> "value", vt |-> vt, value |-> x]
    \/ \E vt \in Integral, n \in IntRange(TRUE, 8) \cup IntRange(FALSE, 8) :
          sample = [kind |-> "sent", vt |-> vt, n |-> n]
    \/ \E d \in Shapes : sample = [kind |-> "shape", dims |-> d]
    \/ \E r \in ReadOutcomes : sample = [kind |-> "result", result |-> r]
    \/ \E raw \in 0..255 : sample = [kind |-> "quality", raw |-> raw]
    \/ \E x \in Exchanges : sample = [kind |-> "exchange", exchange |-> x]

\* Conversions keep nothing: whatever was converted, anything may come next.
ValuesSpec == ValuesInit /\ [][ValuesInit']_sample

-----------------------------------------------------------------------------
(* Properties                                                              *)

\* A client that sends back what it read writes the value the source holds:
\* through JSON and through protobuf for every VARTYPE the core carries, and
\* through OPC UA for those that are their own storage class. An array goes back
\* as it came in protobuf; in JSON only once its element type is named or left
\* out, for it is read as an object; and never with a shape that is not its own.
\* An item kept as VT_INT, VT_UINT or VT_ERROR takes no UA Write at all, whether or not its type was learned first.
ReadBackWrites ==
    sample.kind = "value" =>
        LET vt == sample.vt
            value == sample.value
            array == [type |-> vt, dims |-> <<[lower |-> 2, length |-> 2]>>,
                      elements |-> <<value, value>>]
            short == [array EXCEPT !.elements = <<value>>]
            json == EncodeJSONArray(array)
        IN  /\ FromVariant(ToVariant(vt, value)) = value
            /\ DecodeJSON(vt, EncodeJSON(vt, value)) = value
            /\ DecodeJSONElement(vt, EncodeJSON(vt, value)) = value
            /\ DecodeProto(vt, EncodeProto(vt, value)) = value
            /\ DecodeProtoArray(vt, EncodeProtoArray(array)) = array
            /\ DecodeProtoArray(vt, EncodeProtoArray(short)) = NoArray
            /\ DecodeJSONArray(vt, json) = NoArray
            /\ \A type \in {"", vt} : DecodeJSONArray(vt, [json EXCEPT !.type = type]) = array
            /\ DecodeJSONArray(vt, [EncodeJSONArray(short) EXCEPT !.type = vt]) = NoArray
            /\ \A known \in BOOLEAN :
                  WriteUA(vt, known, EncodeUA(value)) =
                     IF DecodesAs(vt) = vt /\ vt \notin {"EMPTY", "NULL"} THEN value
                     ELSE Refused

\* Nothing is widened, narrowed or reinterpreted on the way in: whatever number
\* a client sends as JSON or protobuf for a VARTYPE, what is accepted is a value
\* that VARTYPE holds, and the core's own check agrees.
NothingCoerced ==
    sample.kind = "sent" =>
        LET Sane(value) == value = Refused
                \/ (value \in GoValues(sample.vt) /\ ValidScalar(sample.vt, value))
        IN  /\ \A json \in {"number", "string"} :
                  Sane(DecodeJSON(sample.vt, [encoding |-> "json", json |-> json,
                                              v |-> sample.n]))
            /\ \A field \in Integral :
                  Sane(DecodeProto(sample.vt, [field |-> field, v |-> sample.n]))

\* The elements the first k dimensions describe, in arithmetic without bounds.
Described(dims) ==
    LET n[k \in 0 .. Len(dims)] == IF k = 0 THEN 1 ELSE n[k - 1] * dims[k].length
    IN  n

\* A shape is accepted only if the true product of its lengths is the number
\* of elements and within the limit, though the product is computed in
\* arithmetic that wraps; and the walk of an accepted shape visits every index
\* vector once, in order, except where a dimension ends at the largest index
\* there is.
ShapesAreExact ==
    sample.kind = "shape" =>
        LET d == sample.dims
            product == Described(d)[Len(d)]
            upper(p) == d[p].lower + d[p].length - 1
            before(u, v) == \E p \in DOMAIN u :
                               u[p] < v[p] /\ \A q \in 1..(p - 1) : u[q] = v[q]
        IN  /\ \A carried \in 0..(MaxArrayElements + 1) :
                  ValidShape(d, carried) <=>
                      carried = product /\ carried \in 1..MaxArrayElements
            /\ (product \in 1..MaxArrayElements
                /\ \A p \in DOMAIN d : upper(p) < Halves[4] - 1) =>
                  LET w == Walk(d)
                  IN  /\ Cardinality(Range(w)) = product
                      /\ \A v \in Range(w) : \A p \in DOMAIN d : v[p] \in d[p].lower..upper(p)
                      /\ \A k \in 1..(Len(w) - 1) : before(w[k], w[k + 1])

\* No result of the core makes a frontend fail a whole response, and all the
\* frontends take the same results for values; and no quality but LAST_KNOWN
\* changes severity.
FrontendsAgree ==
    /\ sample.kind = "result" =>
          /\ GRPCResult(sample.result) # "internal"
          /\ GRPCResult(sample.result) = "ok" <=> JSONResult(sample.result) = "ok"
          /\ JSONResult(sample.result) = "ok" <=> UAResult(sample.result) = "ok"
    /\ sample.kind = "quality" =>
          sample.raw - (sample.raw % 4) = LastKnown \/
          SeverityForQuality(sample.raw) = MainSeverity(sample.raw)

\* A value survives the way through the core and each frontend, in both
\* directions: unchanged, never coerced, with one verdict everywhere, and as
\* the value of the item it was asked for (HandlersExact).
ValuesSurvive ==
    /\ ReadBackWrites /\ NothingCoerced /\ FrontendsAgree
    /\ sample.kind = "exchange" => HandlersExact(sample.exchange)
=============================================================================
