---------------------------- MODULE UnaryHandlers ----------------------------
(***************************************************************************)
(* The handlers of the requests that are answered once - Browse, Read,     *)
(* Write and the item properties - in the three frontends that speak OPC   *)
(* DA: internal/frontend/grpc/server.go, internal/frontend/http (browse.go,*)
(* read.go, write.go, properties.go) and internal/frontend/mcp/            *)
(* operations.go.                                                          *)
(*                                                                         *)
(* Every handler does the same in its own words: checks of the request, in *)
(* an order of its own, the one call of the runtime, checks that the       *)
(* answer is the answer to this request, and the encoding of each result.  *)
(* A handler is a function of a request and of the runtime's answer; the   *)
(* runtime is an interface here, so the answer is any the interface can    *)
(* carry. Decoding of bodies is JSONScan's, conversion of values           *)
(* DAValues'.                                                              *)
(***************************************************************************)
EXTENDS Naturals, Sequences

CONSTANTS
    MaxBatch,          \* limits MaxReadItems, MaxWriteItems, MaxItemProperties
    MaxBrowseDepth,
    MaxBrowseEntries

ASSUME HandlersAssumption ==
    MaxBatch \in Nat \ {0} /\ MaxBrowseDepth \in Nat /\ MaxBrowseEntries \in Nat

Invalid == "INVALID_REQUEST"
Limit == "REQUEST_LIMIT_EXCEEDED"
TooLong == "ITEM_ID_TOO_LONG"
Mismatch == "INTERNAL_RESULT_MISMATCH"

\* A check that finds fault names it; the first to do so decides.
Check(fault, code) == IF fault THEN code ELSE ""

First(codes) ==
    LET faults == {i \in DOMAIN codes : codes[i] # ""}
    IN  IF faults = {} THEN "" ELSE codes[CHOOSE i \in faults : \A j \in faults : i <= j]

\* The shape every handler has: refused before the call, failed by it, refused
\* for what it returned, or answered. Operands are only looked at when reached.
Handle(refusal, answer, flaw, results) ==
    IF refusal # "" THEN [called |-> FALSE, code |-> refusal, results |-> <<>>]
    ELSE IF answer.error # "" THEN [called |-> TRUE, code |-> answer.error, results |-> <<>>]
    ELSE IF flaw # "" THEN [called |-> TRUE, code |-> flaw, results |-> <<>>]
    ELSE [called |-> TRUE, code |-> "", results |-> results]

-----------------------------------------------------------------------------
(* Texts: ItemIDs, path segments and names. A text is [id, flaws].         *)

\* validateText
GRPCText(t) ==
    First(<<Check("empty" \in t.flaws, Invalid), Check("utf8" \in t.flaws, Invalid),
            Check("long" \in t.flaws, TooLong), Check("nul" \in t.flaws, Invalid)>>)

\* The loops of handleRead and handleWrite; the body was UTF-8.
HTTPItem(t) ==
    First(<<Check("empty" \in t.flaws, Invalid), Check("nul" \in t.flaws, Invalid),
            Check("long" \in t.flaws, TooLong)>>)

\* validPropertyItemID, and the loop of handleBrowse.
HTTPText(t) ==
    First(<<Check("empty" \in t.flaws, Invalid), Check("long" \in t.flaws, TooLong),
            Check("nul" \in t.flaws, Invalid)>>)

\* validText
MCPText(t) ==
    First(<<Check(t.flaws \cap {"empty", "utf8", "nul"} # {}, Invalid),
            Check("long" \in t.flaws, TooLong)>>)

Each(Op(_), seq) == [i \in DOMAIN seq |-> Op(seq[i])]

\* What a loop over a list finds.
FirstOf(Op(_), seq) == First(Each(Op, seq))

\* The input schema of a tool, checked before its handler: required members,
\* lists of one at least, texts that are not empty.
Schema(fits) == Check(~fits, Invalid)
NonEmpty(texts) == \A i \in DOMAIN texts : "empty" \notin texts[i].flaws

\* How gRPC and HTTP see a batch, and how an MCP handler does.
BatchSize(n) == First(<<Check(n = 0, Invalid), Check(n > MaxBatch, Limit)>>)
MCPBatchSize(n) == Check(n = 0 \/ n > MaxBatch, Limit)

\* The results are those of the request, one each and in its order.
Aligned(asked, results, Sound(_)) ==
    /\ Len(results) = Len(asked)
    /\ \A i \in DOMAIN asked : results[i].item = asked[i] /\ Sound(results[i])

-----------------------------------------------------------------------------
(* Browse. A request is a path and a filter, an answer the path and the    *)
(* entries: [name, kind, item], where an absent item is NoText.            *)

NoText == [id |-> "absent", flaws |-> {"absent"}]
Filters == {"all", "branch", "item"}
Kinds == {"branch", "item"}

TooMany(a) == Check(Len(a.entries) > MaxBrowseEntries, "BROWSE_RESULT_LIMIT_EXCEEDED")

\* An entry as every frontend shows it.
Entry(e) == [item |-> e.item.id, ok |-> TRUE, valued |-> e.item # NoText]

GRPCBrowse(q, a) ==
    LET sound(e) ==
            /\ e.name.flaws \cap {"empty", "utf8"} = {} /\ e.kind \in Kinds
            /\ e.kind = "item" => e.item # NoText
            /\ e.item # NoText => GRPCText(e.item) = ""
    IN  Handle(First(<<Check(Len(q.path) > MaxBrowseDepth, Limit),
                       FirstOf(GRPCText, q.path), Check(q.filter \notin Filters, Invalid)>>),
               a,
               First(<<TooMany(a), Check(a.path # q.path, Mismatch),
                       Check(\E i \in DOMAIN a.entries : ~sound(a.entries[i]), Mismatch)>>),
               Each(Entry, a.entries))

\* browseResultMatchesRequest asks of a branch's ItemID all but that it has no
\* NUL.
HTTPBrowseMatches(q, a) ==
    /\ a.path = q.path
    /\ \A i \in DOMAIN a.entries :
          LET e == a.entries[i]
          IN  /\ e.name.flaws \cap {"empty", "utf8"} = {} /\ e.kind \in Kinds
              /\ e.item # NoText => e.item.flaws \cap {"empty", "utf8", "long"} = {}
              /\ e.kind = "item" => e.item # NoText /\ "nul" \notin e.item.flaws

HTTPBrowse(q, a) ==
    Handle(First(<<Check(q.filter \notin Filters, Invalid),
                   Check(Len(q.path) > MaxBrowseDepth, Limit), FirstOf(HTTPText, q.path)>>),
           a,
           First(<<TooMany(a), Check(~HTTPBrowseMatches(q, a), Mismatch)>>),
           Each(Entry, a.entries))

\* The filter is left to the schema, and an entry's name is held to what an
\* ItemID is held to.
MCPBrowse(q, a) ==
    LET sound(e) ==
            /\ MCPText(e.name) = "" /\ e.kind \in Kinds
            /\ e.kind = "item" => e.item # NoText
            /\ e.item # NoText => MCPText(e.item) = ""
    IN  Handle(First(<<Schema(NonEmpty(q.path) /\ q.filter \in Filters),
                       Check(Len(q.path) > MaxBrowseDepth, Limit), FirstOf(MCPText, q.path)>>),
               a,
               First(<<TooMany(a), Check(a.path # q.path, Mismatch),
                       Check(\E i \in DOMAIN a.entries : ~sound(a.entries[i]), Mismatch)>>),
               Each(Entry, a.entries))

-----------------------------------------------------------------------------
(* Read. A result is [item, hresult, code, type, value]; a value, when     *)
(* there is one, repeats item, type and HRESULT, and may be one the        *)
(* frontends have no form for, or of a time beyond JSON's.                 *)

NoValue == [item |-> "", type |-> "", hresult |-> "", fits |-> FALSE, late |-> FALSE]

\* An absent HRESULT is a field left zero, which is S_OK.
Repeats(r) == r.value.item = r.item /\ r.type # "" /\ r.value.type = r.type
              /\ r.value.hresult = IF r.hresult = "absent" THEN "ok" ELSE r.hresult

Asked(q) == [i \in DOMAIN q.items |-> q.items[i].id]

\* encodeReadResult of gRPC, and readResultsMatchRequest of HTTP.
ReadSound(r) ==
    IF r.value = NoValue THEN r.code # "" \/ r.hresult = "failed"
    ELSE r.code = "" /\ r.hresult = "ok" /\ Repeats(r)

\* validReadResult does not ask whether a value comes with an error, and holds
\* the value's HRESULT to the result's only: both may have failed.
MCPReadSound(r) ==
    /\ r.hresult # "absent" \/ r.code # ""
    /\ IF r.value = NoValue THEN r.code # "" \/ r.hresult = "failed" ELSE Repeats(r)

GRPCReadResult(r) == [item |-> r.item, ok |-> r.value.fits, valued |-> r.value.fits]

\* EncodeReadResult: what comes with an error is not shown.
JSONReadResult(r) ==
    LET ok == r.value.fits /\ ~r.value.late /\ r.code = "" /\ r.hresult = "ok"
    IN  [item |-> r.item, ok |-> ok, valued |-> ok]

GRPCRead(q, a) ==
    Handle(First(<<BatchSize(Len(q.items)), FirstOf(GRPCText, q.items)>>), a,
           Check(~Aligned(Asked(q), a.results, ReadSound), Mismatch),
           Each(GRPCReadResult, a.results))

HTTPRead(q, a) ==
    Handle(First(<<BatchSize(Len(q.items)), FirstOf(HTTPItem, q.items)>>), a,
           Check(~Aligned(Asked(q), a.results, ReadSound), Mismatch),
           Each(JSONReadResult, a.results))

MCPRead(q, a) ==
    Handle(First(<<Schema(q.items # <<>> /\ NonEmpty(q.items)), MCPBatchSize(Len(q.items)),
                   FirstOf(MCPText, q.items)>>), a,
           Check(~Aligned(Asked(q), a.results, MCPReadSound), Mismatch),
           Each(JSONReadResult, a.results))

-----------------------------------------------------------------------------
(* Write. An item is [item, type, value]: type "" is a missing one, value  *)
(* "" a missing one, "misfit" one that is not of the type.                 *)

\* A refusal that is not the text's: where the type is read, and the value.
GRPCWriteItem(w) ==
    First(<<Check(w.type = "" \/ w.value = "", Invalid), GRPCText(w.item),
            Check(w.value = "misfit", "TYPE_MISMATCH")>>)
HTTPWriteItem(w) ==
    First(<<HTTPItem(w.item), Check(w.type = "", Invalid), Check(w.value = "", Invalid),
            Check(w.value = "misfit", "INVALID_VALUE")>>)
MCPWriteItem(w) ==
    First(<<MCPText(w.item), Check(w.type = "", Invalid),
            Check(w.value # "fits", "INVALID_VALUE")>>)

WrittenIDs(q) == [i \in DOMAIN q.items |-> q.items[i].item.id]

\* The same in all three: an HRESULT or an error code, and success only with
\* the one and without the other.
WriteSound(r) == r.hresult # "absent" \/ r.code # ""
WriteResult(r) == [item |-> r.item, ok |-> r.code = "" /\ r.hresult = "ok", valued |-> FALSE]

Disabled(q) == Check(~q.enabled, "WRITE_DISABLED")

GRPCWrite(q, a) ==
    Handle(First(<<Disabled(q), BatchSize(Len(q.items)), FirstOf(GRPCWriteItem, q.items)>>), a,
           Check(~Aligned(WrittenIDs(q), a.results, WriteSound), Mismatch),
           Each(WriteResult, a.results))

HTTPWrite(q, a) ==
    Handle(First(<<Disabled(q), BatchSize(Len(q.items)), FirstOf(HTTPWriteItem, q.items)>>), a,
           Check(~Aligned(WrittenIDs(q), a.results, WriteSound), Mismatch),
           Each(WriteResult, a.results))

MCPWrite(q, a) ==
    Handle(First(<<Schema(/\ q.items # <<>>
                          /\ \A i \in DOMAIN q.items : /\ q.items[i].type # ""
                                                      /\ q.items[i].value # ""
                                                      /\ "empty" \notin q.items[i].item.flaws),
                   Disabled(q), MCPBatchSize(Len(q.items)), FirstOf(MCPWriteItem, q.items)>>), a,
           Check(~Aligned(WrittenIDs(q), a.results, WriteSound), Mismatch),
           Each(WriteResult, a.results))

-----------------------------------------------------------------------------
(* Properties of an item. A result is [item, ok, value], item being the    *)
(* property's identifier and value "" for none, "misfit" for one without a *)
(* form.                                                                   *)

GRPCAvailable(q, a) == Handle(GRPCText(q.item), a, "", a.results)
HTTPAvailable(q, a) ==
    Handle(HTTPText(q.item), a, Check(Len(a.results) > MaxBatch, Limit), a.results)
MCPAvailable(q, a) ==
    Handle(First(<<Schema(NonEmpty(<<q.item>>)), MCPText(q.item)>>), a,
           Check(Len(a.results) > MaxBatch, Limit), a.results)

AnyResult(r) == TRUE

\* encodeItemPropertyResult and encodeItemPropertyHTTP: an answer without a
\* value is an answer, one without a form is not.
PropertyResult(r) ==
    [item |-> r.item, ok |-> r.ok /\ r.value # "misfit", valued |-> r.ok /\ r.value = "fits"]

GRPCProperties(q, a) ==
    Handle(First(<<GRPCText(q.item), BatchSize(Len(q.ids))>>), a,
           Check(~Aligned(q.ids, a.results, AnyResult), Mismatch),
           Each(PropertyResult, a.results))

HTTPProperties(q, a) ==
    Handle(First(<<HTTPText(q.item), BatchSize(Len(q.ids))>>), a,
           Check(~Aligned(q.ids, a.results, AnyResult), Mismatch),
           Each(PropertyResult, a.results))

MCPProperties(q, a) ==
    Handle(First(<<Schema(NonEmpty(<<q.item>>) /\ q.ids # <<>>), MCPText(q.item),
                   MCPBatchSize(Len(q.ids))>>), a,
           Check(~Aligned(q.ids, a.results, AnyResult), Mismatch),
           Each(PropertyResult, a.results))

-----------------------------------------------------------------------------
(* The same exchange in every frontend.                                    *)

Responses(op, q, a) ==
    CASE op = "browse" -> <<GRPCBrowse(q, a), HTTPBrowse(q, a), MCPBrowse(q, a)>>
      [] op = "read" -> <<GRPCRead(q, a), HTTPRead(q, a), MCPRead(q, a)>>
      [] op = "write" -> <<GRPCWrite(q, a), HTTPWrite(q, a), MCPWrite(q, a)>>
      [] op = "available" -> <<GRPCAvailable(q, a), HTTPAvailable(q, a), MCPAvailable(q, a)>>
      [] OTHER -> <<GRPCProperties(q, a), HTTPProperties(q, a), MCPProperties(q, a)>>

\* Exchanges to try: any texts in short requests, and any answers to them.
Text(id, flaws) == [id |-> id, flaws |-> flaws]
PlainA == Text("a", {})
PlainB == Text("b", {})
RequestTexts == {PlainA, Text("", {"empty"})} \cup
    {Text("c", f) : f \in {{"nul"}, {"long"}, {"nul", "long"}}}
AnswerTexts == RequestTexts \cup {NoText, Text("c", {"utf8"})}
UpTo(n, S) == UNION {[1..k -> S] : k \in 0..n}

ReadValues == [item : {"a", "b"}, type : {"t", "u"}, hresult : {"ok", "failed"},
               fits : BOOLEAN, late : BOOLEAN]
ReadResults == [item : {"a", "b"}, hresult : {"absent", "ok", "failed"}, code : {"", "E"},
                type : {"", "t"}, value : {NoValue} \cup ReadValues]
Plainly(item, value) == [item |-> item, hresult |-> "ok", code |-> "", type |-> "t",
                         value |-> value]
ValueOf(item) ==
    [item |-> item, type |-> "t", hresult |-> "ok", fits |-> TRUE, late |-> FALSE]
PlainResults == {Plainly(i, ValueOf(v)) : i, v \in {"a", "b"}}

\* Answers that fail or list results, or are a branch of the source.
Replies(errors, lists) ==
    [error : errors, results : lists, path : {<<>>}, entries : {<<>>}]
NoReply == Replies({""}, {<<>>})
Branches(paths, lists) == [error : {""}, results : {<<>>}, path : paths, entries : lists]

BrowseExchanges ==
    LET entries == [name : AnswerTexts, kind : Kinds \cup {"odd"}, item : AnswerTexts]
        paths == {<<>>, <<PlainA>>}
    IN  [op : {"browse"}, a : NoReply,
         q : [path : UpTo(MaxBrowseDepth + 1, RequestTexts), filter : {"all", "odd"}]]
        \cup [op : {"browse"}, a : Branches(paths, UpTo(1, entries)),
              q : [path : paths, filter : {"all"}]]

ReadExchanges ==
    [op : {"read"}, a : Replies({"", "E"}, {<<>>}),
     q : [items : UpTo(MaxBatch + 1, RequestTexts)]]
    \cup [op : {"read"}, a : Replies({""}, UpTo(1, ReadResults)),
          q : [items : {<<PlainA>>, <<PlainB>>}]]
    \cup [op : {"read"}, q : [items : {<<PlainA>>, <<PlainA, PlainB>>, <<PlainB, PlainA>>}],
          a : Replies({""}, UpTo(2, PlainResults))]

WriteExchanges ==
    LET item == [item : RequestTexts, type : {"", "t"}, value : {"", "misfit", "fits"}]
        result == [item : {"a", "b"}, hresult : {"absent", "ok", "failed"}, code : {"", "E"}]
        plain(text) == [item |-> text, type |-> "t", value |-> "fits"]
    IN  [op : {"write"}, a : NoReply, q : [enabled : BOOLEAN, items : UpTo(2, item)]]
        \cup [op : {"write"}, a : Replies({""}, UpTo(2, result)),
              q : [enabled : {TRUE}, items : {<<plain(PlainA), plain(PlainB)>>}]]

AvailableExchanges ==
    [op : {"available"}, q : [item : RequestTexts],
     a : Replies({""}, UpTo(MaxBatch + 1, {[item |-> 1, ok |-> TRUE, valued |-> FALSE]}))]

PropertiesExchanges ==
    LET result == [item : {1, 2}, ok : BOOLEAN, value : {"", "misfit", "fits"}]
    IN  [op : {"properties"}, a : Replies({""}, UpTo(1, result)),
         q : [item : RequestTexts, ids : UpTo(MaxBatch + 1, {1, 2})]]
        \cup [op : {"properties"}, a : Replies({""}, UpTo(2, result)),
              q : [item : {PlainA}, ids : {<<1, 2>>}]]

Exchanges == BrowseExchanges \cup ReadExchanges \cup WriteExchanges
             \cup AvailableExchanges \cup PropertiesExchanges

\* What an exchange asked for, in its order.
AskedFor(x) == CASE x.op = "read" -> Asked(x.q) [] x.op = "write" -> WrittenIDs(x.q)
                 [] x.op = "properties" -> x.q.ids
                 [] x.op = "browse" -> [i \in DOMAIN x.a.entries |-> x.a.entries[i].item.id]
                 [] OTHER -> [i \in DOMAIN x.a.results |-> x.a.results[i].item]

\* The three frontends admit the same requests to the runtime, although their
\* checks differ in order and in where they are made. Whatever the runtime
\* returns, an answered response has one result for each thing asked for, in order; a
\* result is good only if the source said so of that very item; and two
\* frontends that answer agree on every result, except on a time that JSON
\* cannot write.
HandlersExact(x) ==
    LET r == Responses(x.op, x.q, x.a)
        answered == {f \in 1..3 : r[f].called /\ r[f].code = ""}
        late == x.op = "read" /\ \E i \in DOMAIN x.a.results : x.a.results[i].value.late
    IN  /\ r[1].called = r[2].called
        /\ r[2].called = r[3].called
        /\ \A f \in answered :
              /\ Len(r[f].results) = Len(AskedFor(x))
              /\ \A i \in DOMAIN r[f].results :
                    /\ r[f].results[i].item = AskedFor(x)[i]
                    /\ (x.op \in {"read", "write"} /\ r[f].results[i].ok) =>
                          /\ x.a.results[i].hresult = "ok" /\ x.a.results[i].code = ""
                          /\ x.op = "read" =>
                                x.a.results[i].value.item = AskedFor(x)[i]
        /\ \A f, g \in answered : late \/ r[f].results = r[g].results
=============================================================================
