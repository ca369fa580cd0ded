---------------------------- MODULE UADataAccess ----------------------------
(***************************************************************************)
(* Read and Write of the OPC UA frontend, down to the OPC DA source: the   *)
(* slots of a request (internal/opcua/readwrite.go), the jobs they become  *)
(* on the DA thread, the registration of items with the source's group     *)
(* (internal/opcda/da_windows.go, registration.go) and the device Read and *)
(* Write calls (da_windows.go, write_windows.go).                          *)
(*                                                                         *)
(* The source is external: it numbers the items of a group as they come,   *)
(* so a handle of an earlier connection may name another item in this one. *)
(* Its values change by the writes of other callers.                       *)
(***************************************************************************)
EXTENDS Naturals, Sequences, FiniteSets, SequencesExt, Selections

CONSTANTS
    Callers,
    ItemIDs,
    Canonical,            \* the type the source keeps each item in
    Rights,               \* of each item: subset of {"read", "write"}
    ReadRequests,         \* sequences of [node, kind, attribute, plain]
    WriteRequests,        \* the same with the type of the client's Variant and, for a
                          \* propertyItem, the type the source declared of it
    MaxRegisteredItems,
    MaxRequests,          \* bound: requests of one caller
    MaxConnections        \* bound: connections to the source

ASSUME DataAccessAssumption ==
    /\ MaxRegisteredItems \in Nat
    /\ IsFiniteSet(ItemIDs)
    /\ \A i \in ItemIDs : Rights[i] \subseteq {"read", "write"}
    /\ \A r \in ReadRequests \cup WriteRequests :
          /\ r \in Seq(Range(r))
          /\ \A k \in DOMAIN r :
                r[k].kind \in {"item", "propertyItem"} => r[k].node \in ItemIDs

VARIABLES
    call,      \* of each caller: the request being answered
    commands,  \* what waits for the DA thread
    job,       \* the command the DA thread is running, or NoJob
    cache,     \* registrationCache: the handle of an item, 0 for none
    link,      \* [up, generation] of the connection
    group,     \* external: the items of the source's group, by handle
    value,     \* external: what the source holds of each item, by who wrote it
    learned,   \* type and rights of an item's node, "unknown" until a Read
    standing,  \* history: the values items had during a caller's request
    written    \* history: [slot, how] of the writes the source took

accessVars == <<call, commands, job, cache, link, group, value, learned,
                standing, written>>

NoJob == [kind |-> "none"]
NoCall == [n |-> 0, kind |-> "none", targets |-> <<>>, slots |-> <<>>,
           todo |-> <<>>, reply |-> <<>>, phase |-> "done"]
NotLearned == [type |-> "unknown", rights |-> {"unknown"}]

AccessInit ==
    /\ call = [c \in Callers |-> NoCall]
    /\ commands = <<>> /\ job = NoJob
    /\ cache = [i \in ItemIDs |-> 0]
    /\ link = [up |-> TRUE, generation |-> 1]
    /\ group = <<>>
    /\ value = [i \in ItemIDs |-> <<"source", 0, 0>>]
    /\ learned = [i \in ItemIDs |-> NotLearned]
    /\ standing = [c \in Callers |-> {}]
    /\ written = {}

Status(s) == [status |-> s]

-----------------------------------------------------------------------------
(* The service: one verdict per slot, and the jobs for those the source    *)
(* decides. Refusals of a whole request (none or too many nodes, a         *)
(* negative maxAge, unknown timestamps) change nothing and are left out.   *)

\* otherPropertyNode: a property the source exposes as an item of its own (a
\* "propertyItem") has a node of its own, whose type and rights no Read teaches.
Declared(t) ==
    IF t.kind = "propertyItem" THEN [type |-> t.declared, rights |-> {"read", "write"}]
    ELSE learned[t.node]

Forbidden(t, right) ==
    Declared(t).rights # {"unknown"} /\ right \notin Declared(t).rights

ReadVerdict(t) ==
    IF ~t.plain THEN "Bad_IndexRangeInvalid"
    ELSE IF t.kind = "unknown" THEN "Bad_NodeIdUnknown"
    ELSE IF t.kind \in {"property", "propertyItem"} /\ t.attribute = "Value" THEN "property"
    ELSE IF t.attribute = "Description"
         THEN IF t.kind = "item" THEN "description" ELSE "Bad_AttributeIdInvalid"
    ELSE IF t.attribute # "Value" \/ t.kind = "local" THEN "local"
    ELSE IF t.kind # "item" THEN "Bad_AttributeIdInvalid"
    ELSE IF Forbidden(t, "read") THEN "Bad_NotReadable"
    ELSE "batch"

\* writeItemForNode: the node's type decides when it is known. A type no
\* VARTYPE represents ("other") is never written.
Writable(t) ==
    t.type # "other" /\ Declared(t).type \in {"unknown", t.type}

\* A propertyItem is written through its item.
WriteVerdict(t) ==
    IF ~t.plain THEN "Bad_WriteNotSupported"
    ELSE IF t.kind = "unknown" THEN "Bad_NodeIdUnknown"
    ELSE IF t.attribute # "Value" \/ t.kind = "property" THEN "Bad_NotWritable"
    ELSE IF t.kind \notin {"item", "propertyItem"} THEN "Bad_AttributeIdInvalid"
    ELSE IF Forbidden(t, "write") THEN "Bad_NotWritable"
    ELSE IF ~Writable(t) THEN "Bad_TypeMismatch"
    ELSE "batch"

\* The positions of the slots a verdict is about, in order.
Where(verdicts, v) == Ordered({k \in DOMAIN verdicts : verdicts[k] = v})

EachAlone(kind, at) == [k \in DOMAIN at |-> [kind |-> kind, at |-> <<at[k]>>]]

Batch(kind, at) == IF at = <<>> THEN <<>> ELSE <<[kind |-> kind, at |-> at]>>

\* A slot is answered here unless it waits for a job; Go's zero value of the
\* waiting ones is Good.
Open(c, kind, targets, verdicts, todo) ==
    /\ call[c].phase = "done" /\ call[c].n < MaxRequests
    /\ call' = [call EXCEPT ![c] =
          [n |-> call[c].n + 1, kind |-> kind, targets |-> targets, todo |-> todo,
           reply |-> <<>>, phase |-> "serving",
           slots |-> [k \in DOMAIN verdicts |->
              Status(IF verdicts[k] \in {"batch", "property", "description", "local"}
                     THEN "Good" ELSE verdicts[k])]]]
    /\ standing' = [standing EXCEPT ![c] = {<<i, value[i]>> : i \in ItemIDs}]
    /\ UNCHANGED <<commands, job, cache, link, group, value, learned, written>>

Read(c, targets) ==
    LET verdicts == [k \in DOMAIN targets |-> ReadVerdict(targets[k])]
    IN  Open(c, "read", targets, verdicts,
             EachAlone("description", Where(verdicts, "description"))
             \o Batch("read", Where(verdicts, "batch"))
             \o EachAlone("property", Where(verdicts, "property")))

Write(c, targets) ==
    LET verdicts == [k \in DOMAIN targets |-> WriteVerdict(targets[k])]
    IN  Open(c, "write", targets, verdicts, Batch("write", Where(verdicts, "batch")))

\* The job at hand is over, with these slots, and the next one is up.
NextJob(r, slots) ==
    [n |-> r.n, kind |-> r.kind, targets |-> r.targets, slots |-> slots,
     todo |-> Tail(r.todo), reply |-> <<>>, phase |-> "serving"]

\* Mutation: a job that fails leaves its slots as they are.
FailJobSilently(c, s) == call' = [call EXCEPT ![c] = NextJob(call[c], call[c].slots)]

\* Every slot of the job at hand gets the same status.
FailJob(c, s) ==
    call' = [call EXCEPT ![c] = NextJob(call[c],
        [k \in DOMAIN call[c].slots |->
            IF k \in Range(call[c].todo[1].at) THEN Status(s) ELSE call[c].slots[k]])]

\* ReadBatch, WriteBatch and ItemProperties: the command is queued,
Send(c) ==
    /\ call[c].phase = "serving" /\ call[c].todo # <<>>
    /\ commands' = Append(commands, [caller |-> c, n |-> call[c].n,
                                     kind |-> call[c].todo[1].kind, at |-> call[c].todo[1].at])
    /\ call' = [call EXCEPT ![c].phase = "waiting"]
    /\ UNCHANGED <<job, cache, link, group, value, learned, standing, written>>

\* or refused by the runtime: its queue is full, writes are disabled, the
\* request exceeds the runtime's own limits, the runtime has stopped.
Refuse(c) ==
    /\ call[c].phase = "serving" /\ call[c].todo # <<>>
    /\ FailJob(c, "Bad_TooManyOperations")
    /\ UNCHANGED <<commands, job, cache, link, group, value, learned, standing, written>>

\* RequestTimeout runs for the two batch calls; the calls about properties
\* carry the listener's context, which never ends.
TimeOut(c) ==
    /\ call[c].phase \in {"waiting", "replied"}
    /\ call[c].todo[1].kind \in {"read", "write"}
    /\ FailJob(c, "Bad_Timeout")
    /\ UNCHANGED <<commands, job, cache, link, group, value, learned, standing, written>>

\* DataTypeFor: VT_INT is what VT_I4 is, VT_CY has no UA type.
DataTypeFor(t) == CASE t = "int" -> "i4" [] t = "cy" -> "unknown" [] OTHER -> t

\* LearnFromRead: the first type and rights a Read reports of an item stay.
Learn(reply, targets) ==
    [i \in ItemIDs |->
        IF \E k \in DOMAIN reply : targets[k].node = i /\ reply[k].registered
        THEN [type   |-> IF learned[i].type = "unknown" THEN DataTypeFor(Canonical[i])
                         ELSE learned[i].type,
              rights |-> IF learned[i].rights = {"unknown"} THEN Rights[i]
                         ELSE learned[i].rights]
        ELSE learned[i]]

\* dataValueForRead and writeToSource, slot by slot.
SlotFor(r) ==
    CASE r.outcome = "failed" -> Status("Bad_Source")
      [] r.outcome \in {"limit", "mismatch"} ->
             Status(IF r.kind = "write" THEN "Bad_TypeMismatch" ELSE "Bad_InternalError")
      [] r.outcome = "read" -> [status |-> "Good", from |-> r.from, value |-> r.value]
      [] OTHER -> Status("Good")

Receive(c) ==
    /\ call[c].phase = "replied"
    /\ LET reply == call[c].reply
           kind  == call[c].todo[1].kind
       IN  IF reply = <<>>
           THEN FailJob(c, "Bad_Source") /\ UNCHANGED learned
           ELSE /\ call' = [call EXCEPT ![c] = NextJob(call[c],
                      [k \in DOMAIN call[c].slots |->
                          IF k \in DOMAIN reply THEN SlotFor(reply[k])
                          ELSE call[c].slots[k]])]
                /\ learned' = IF kind = "read" THEN Learn(reply, call[c].targets)
                              ELSE learned
    /\ UNCHANGED <<commands, job, cache, link, group, value, standing, written>>

\* Every slot is settled.
Settled(c) == call[c].phase = "serving" /\ call[c].todo = <<>>

\* The response is sent; what is known of the request is not needed any more.
Finish(c) ==
    /\ Settled(c)
    /\ call' = [call EXCEPT ![c] = [NoCall EXCEPT !.n = call[c].n]]
    /\ standing' = [standing EXCEPT ![c] = {}]
    /\ written' = {w \in written : w.slot[1] # c}
    /\ UNCHANGED <<commands, job, cache, link, group, value, learned>>

-----------------------------------------------------------------------------
(* The DA thread. It runs one command at a time; a command whose caller    *)
(* gave up before it was its turn is dropped.                              *)

StillWaiting(j) ==
    call[j.caller].n = j.n /\ call[j.caller].phase = "waiting"
    /\ call[j.caller].todo[1].at = j.at

Take ==
    /\ job = NoJob /\ commands # <<>>
    /\ commands' = Tail(commands)
    /\ LET j == Head(commands)
       IN  job' = IF ~StillWaiting(j) THEN NoJob
                  ELSE [caller |-> j.caller, n |-> j.n, kind |-> j.kind, at |-> j.at,
                        targets |-> call[j.caller].targets,
                        step |-> "resolve", handle |-> <<>>, limited |-> {}]
    /\ UNCHANGED <<call, cache, link, group, value, learned, standing, written>>

\* The buffered response channel of a caller that gave up is never read.
Reply(results) ==
    /\ job' = NoJob
    /\ IF StillWaiting(job)
       THEN call' = [call EXCEPT ![job.caller] =
                         [@ EXCEPT !.reply = results, !.phase = "replied"]]
       ELSE UNCHANGED call

\* disconnect: the cache goes with the connection, and handles with both.
Lose ==
    /\ link' = [link EXCEPT !.up = FALSE]
    /\ cache' = [i \in ItemIDs |-> 0] /\ group' = <<>>

\* A call that fails as a whole answers with an error; when the failure means
\* that the source is gone, handleOperationFailure disconnects.
Fail(lost) ==
    /\ job # NoJob
    /\ Reply(<<>>)
    /\ IF lost /\ link.up THEN Lose ELSE UNCHANGED <<link, cache, group>>
    /\ UNCHANGED <<commands, value, learned, standing, written>>

\* Mutation: an item named twice is registered twice.
PendingRepeats(j) ==
    LET node(k) == j.targets[j.at[k]].node
        order == Ordered({k \in DOMAIN j.at : cache[node(k)] = 0})
    IN  [k \in DOMAIN order |-> node(order[k])]

\* resolveRegistrations: the distinct items not in the cache, in order, up to
\* the room that is left in it.
Pending(j) ==
    LET node(k) == j.targets[j.at[k]].node
        firsts == {k \in DOMAIN j.at :
                     cache[node(k)] = 0 /\ \A l \in 1..(k - 1) : node(l) # node(k)}
        order  == Ordered(firsts)
    IN  [k \in DOMAIN order |-> node(order[k])]

Remaining == MaxRegisteredItems - Cardinality({i \in ItemIDs : cache[i] # 0})

\* addItems: the source takes some of them, and each it takes has the next
\* handle of the group and a place in the cache.
Resolve(taken) ==
    /\ job # NoJob /\ job.step = "resolve" /\ job.kind \in {"read", "write"}
    /\ link.up
    /\ LET pending == Pending(job)
           room    == IF Len(pending) <= Remaining THEN Len(pending) ELSE Remaining
           asked   == SubSeq(pending, 1, room)
           added   == Selected(asked, taken)
           known   == [i \in ItemIDs |->
                         IF \E k \in DOMAIN added : added[k] = i
                         THEN Len(group) + CHOOSE k \in DOMAIN added : added[k] = i
                         ELSE cache[i]]
       IN  /\ taken \subseteq Range(asked)
           /\ group' = group \o added
           /\ cache' = known
           /\ job' = [job EXCEPT !.step = "transfer",
                 !.limited = Range(pending) \ Range(asked),
                 !.handle = [k \in Range(job.at) |-> known[job.targets[k].node]]]
    /\ UNCHANGED <<call, commands, link, value, learned, standing, written>>

\* What a slot that was not registered is answered.
Unregistered(k) ==
    [kind |-> job.kind, registered |-> FALSE,
     outcome |-> IF job.targets[k].node \in job.limited THEN "limit" ELSE "failed"]

\* readDevice: the handles of the registered slots go to IOPCSyncIO::Read,
\* and result and slot are brought together by position.
ReadDevice ==
    /\ job # NoJob /\ job.step = "transfer" /\ job.kind = "read"
    /\ LET sent == Selected(job.at, {k \in Range(job.at) : job.handle[k] # 0})
           answers == [p \in DOMAIN sent |->
               LET i == group[job.handle[sent[p]]]
               IN  IF "read" \in Rights[i]
                   THEN [kind |-> "read", registered |-> TRUE, outcome |-> "read",
                         from |-> i, value |-> value[i]]
                   ELSE [kind |-> "read", registered |-> TRUE, outcome |-> "failed"]]
       IN  Reply([k \in Range(job.at) |->
              IF job.handle[k] = 0 THEN Unregistered(k)
              ELSE answers[CHOOSE p \in DOMAIN sent : sent[p] = k]])
    /\ UNCHANGED <<commands, cache, link, group, value, learned, standing, written>>

\* writeValues: only a value of the item's own type is sent. The source takes,
\* clamps or refuses each; of two writes to one item the later one stays.
WriteValues(how) ==
    /\ job # NoJob /\ job.step = "transfer" /\ job.kind = "write"
    /\ LET sent == Selected(job.at, {k \in Range(job.at) :
                       /\ job.handle[k] # 0
                       /\ Canonical[job.targets[k].node] = job.targets[k].type})
           item(p) == group[job.handle[sent[p]]]
           took == {p \in DOMAIN sent : how[p] # "failed" /\ "write" \in Rights[item(p)]}
           slot(p) == <<job.caller, job.n, sent[p]>>
           last(i) == CHOOSE p \in took : item(p) = i
                         /\ \A q \in took : item(q) = i => q <= p
           stored == [i \in ItemIDs |-> IF \E p \in took : item(p) = i
                                      THEN slot(last(i)) ELSE value[i]]
       IN  /\ DOMAIN how = DOMAIN sent
           /\ value' = stored
           /\ standing' = [c \in Callers |->
                 IF call[c].phase = "done" THEN standing[c]
                 ELSE standing[c] \cup {<<i, stored[i]>> : i \in ItemIDs}]
           /\ written' = written \cup
                 {[slot |-> slot(p), item |-> item(p), how |-> how[p]] : p \in took}
           /\ Reply([k \in Range(job.at) |->
                 IF job.handle[k] = 0 THEN Unregistered(k)
                 ELSE [kind |-> "write", registered |-> TRUE,
                       outcome |->
                          IF k \notin Range(sent) THEN "mismatch"
                          ELSE LET p == CHOOSE p \in DOMAIN sent : sent[p] = k
                               IN  IF p \in took THEN how[p] ELSE "failed"]])
    /\ UNCHANGED <<commands, cache, link, group, learned>>

\* readItemProperty and the Description attribute: one item's properties, read
\* now. Their values are not followed further.
ReadProperties ==
    /\ job # NoJob /\ job.step = "resolve" /\ job.kind \in {"property", "description"}
    /\ link.up
    /\ Reply([k \in Range(job.at) |->
                 [kind |-> job.kind, registered |-> FALSE, outcome |-> "property"]])
    /\ UNCHANGED <<commands, cache, link, group, value, learned, standing, written>>

\* connect: a new group at the source and an empty cache.
Reconnect ==
    /\ job = NoJob /\ ~link.up /\ link.generation < MaxConnections
    /\ link' = [up |-> TRUE, generation |-> link.generation + 1]
    /\ cache' = [i \in ItemIDs |-> 0] /\ group' = <<>>
    /\ UNCHANGED <<call, commands, job, value, learned, standing, written>>

AccessNext ==
    \/ \E c \in Callers, r \in ReadRequests : Read(c, r)
    \/ \E c \in Callers, r \in WriteRequests : Write(c, r)
    \/ \E c \in Callers :
          Send(c) \/ Refuse(c) \/ TimeOut(c) \/ Receive(c) \/ Finish(c)
    \/ Take \/ ReadDevice \/ ReadProperties \/ Reconnect
    \/ \E lost \in BOOLEAN : Fail(lost)
    \/ \E taken \in SUBSET ItemIDs : Resolve(taken)
    \/ /\ job # NoJob
       /\ \E n \in 0..Len(job.at) : \E how \in [1..n -> {"stored", "clamped", "failed"}] :
             WriteValues(how)

AccessSpec == AccessInit /\ [][AccessNext]_accessVars

-----------------------------------------------------------------------------
(* Properties                                                              *)

Answered(c, kind, k) ==
    Settled(c) /\ call[c].kind = kind /\ call[c].slots[k].status = "Good"

\* For a Write slot that answers Good the source took a write of this very slot,
\* to the item it names: through batches with refused, repeated and unregistered
\* items, failing calls, timeouts and reconnections. The slots start out as Good,
\* so a forgotten one would claim a write nobody made. What the source stored is
\* another matter: it may have clamped the value (ClampReported).
GoodMeansWritten ==
    \A c \in Callers : \A k \in DOMAIN call[c].slots :
        Answered(c, "write", k) =>
            \E w \in written : w.slot = <<c, call[c].n, k>>
                               /\ w.item = call[c].targets[k].node

\* A value a Read returns is the named item's own, and the source held it at
\* some moment of this request: nothing is served from an earlier one.
ReadsAreFresh ==
    \A c \in Callers : \A k \in DOMAIN call[c].slots :
        Answered(c, "read", k) /\ "value" \in DOMAIN call[c].slots[k] =>
            /\ call[c].slots[k].from = call[c].targets[k].node
            /\ <<call[c].targets[k].node, call[c].slots[k].value>> \in standing[c]

\* The cache and the source's group agree: an item's handle names that item in
\* the group of the connection that is up, and the group holds nothing the
\* cache has forgotten, so the registration limit bounds the source as well.
CacheMatchesGroup ==
    /\ \A i \in ItemIDs : cache[i] # 0 =>
          cache[i] \in DOMAIN group /\ group[cache[i]] = i
    /\ Range(group) = {i \in ItemIDs : cache[i] # 0}
    /\ Len(group) <= MaxRegisteredItems

\* A write the source clamped is not answered as a plain success.
ClampReported ==
    \A c \in Callers : \A k \in DOMAIN call[c].slots :
        Answered(c, "write", k) =>
            ~\E w \in written : w.slot = <<c, call[c].n, k>> /\ w.how = "clamped"

\* What a Read returns is this item's and current, and the handles it was read
\* through are those of the connection that is up (readFromSource, readDevice,
\* registrationCache).
ReadsAreSound == ReadsAreFresh /\ CacheMatchesGroup
=============================================================================
