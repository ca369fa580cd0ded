# TLA+ models of the OPC DA access adapter

The adapter connects to one classic OPC DA server over COM and offers its items
through gRPC, HTTP, MCP and OPC UA. This directory holds TLA+ models of the parts
where goroutines, a COM thread, vendor callbacks, clients and timers meet, TLC
configurations that check them on small instances, and TLAPS proofs of their safety
properties for instances of any size.

Paths below are relative to the repository root, shown as `src/...` in
`PROJECT.json`. A definition of a module and the lines it models are listed there
under `map`.

## 1. The system

### 1.1 Parts, their state and their operations

| part | source | state | operations |
|---|---|---|---|
| DA runtime | `internal/opcda/runtime_windows.go` | command queue, wake event, `degraded` flag, status record, `daThreadSession` (server, generation, subscriptions, reconnect time) | Browse, ReadBatch, WriteBatch, properties, Subscribe, Unsubscribe (all through `enqueue`), tryConnect, reconnect, markDegraded, Shutdown |
| DA pending set | `internal/opcda/subscribe.go` | `order`, `latest`, `notify`, `closed`, `err`, `done` | merge, drain, invalidate; consumed by `internal/frontend/grpc/subscribe.go` and by the UA subscriptions |
| COM callback object | `internal/opcda/subscribe_windows.go` | reference count, pin, callback registry, the DA group | createSubscription, releaseCOM, OnDataChange, AddRef, Release |
| DA registrations and COM bindings | `internal/opcda/registration.go`, `da_windows.go`, `*_windows.go` | item handles registered with the server | AddItems, eviction, reads, writes, conversion |
| UA sessions | `internal/opcua/session.go` | registry, bound channel, idle clock, requests in flight, end hooks | CreateSession, ActivateSession, CloseSession, Lookup, BeginRequest, ExpireStale, TerminateAll |
| UA listener and service | `internal/opcua/listener.go`, `internal/app/opcua_frontend.go` | tracked connections, slots, permits, WaitGroup, `closed`, `listening`, `drained` | Serve, Close, Shutdown, the housekeeping tick |
| UA subscriptions | `internal/opcua/subscription.go` | items, held values, notification queue, sequence numbers, retransmission queue, keep-alive ticks | Create/Delete items, SetPublishingMode, Publish, acknowledge, Republish, rebuild of the DA group |
| UA secure channel, framing | `internal/opcua/channel.go`, `uasc.go`, `uacp.go` | channels, current and previous token, sequence numbers, chunk buffers | Hello, OpenSecureChannel (issue, renew), CloseSecureChannel, chunk assembly |
| UA address space | `internal/opcua/addressspace.go`, `population.go`, `browse.go` | nodes, populated branches, generation, continuation points | populate, Browse, BrowseNext, invalidate |
| UA read, write, item properties | `internal/opcua/readwrite.go`, `itemproperties.go` | property cache, semantic generation | Read, Write |
| UA binary encoding | `internal/opcua/binary.go`, `nodeid.go`, `variant.go`, `datetime.go` and the encoders and decoders beside each service | none: functions of bytes | one encoder and one decoder per structure |
| gRPC and HTTP frontends | `internal/frontend/grpc`, `internal/frontend/http`, `internal/app/service.go` | admission slots, permits, `listening`, streams with their DA groups | unary calls, Subscribe streams, Start, Serve, Shutdown |
| MCP frontend | `internal/frontend/mcp`, `internal/app/mcp.go` | pending request identifiers, the table of DA groups the session owns | tools, subscribe, next, unsubscribe, closeSubscriptions |
| JSON codec and body scanner | `internal/frontend/dajson`, `internal/frontend/http/json_scan.go` | none | encode, decode, scan |
| configuration, command line, service | `internal/app`, `cmd/adapter` | process state | start, stop |

### 1.2 How they interact

Frontends call the runtime from their own goroutines. A call puts a command into a
bounded queue and sets a manual-reset event; one thread, locked to a COM apartment,
waits for the event and for window messages, runs the commands and replies into a
channel of capacity one. Each COM call runs under a watchdog goroutine that marks the
runtime degraded when the call takes too long. The DA server calls back on threads of
its own through an object the adapter hands it; a callback looks the subscription up in
a registry and merges values into its pending set, which a stream goroutine or a UA
publishing cycle drains. The UA listener runs a goroutine per connection plus one per
held Publish; these share the session registry and the subscription service, each with
a mutex of its own. The application calls a tick that expires channels, sessions and
subscriptions, and shuts everything down from outside.

### 1.3 What is hard, and what correct means

* **The command path.** A signal may be reset between queueing and waiting; a caller may
  leave at its deadline at any moment; the thread may hang in a vendor's code. Correct:
  no lost wake-up, no reply that blocks the thread, every call returns, shutdown stops
  the thread when the source answers.
* **Connection generations.** Connections come and go with subscriptions in place.
  Correct: identifiers are never reused, every identifier handed out is live or was
  invalidated, a lost connection is retried, the reported status is behind the session by
  no more than the operation the thread is in.
* **Callbacks against teardown.** Correct: what the server can reach stays pinned, a
  callback never meets a half-built subscription, a dead connection's values are never
  delivered, and what was reported is delivered while the subscription lives.
* **Sessions against held requests.** Requests check a session and act after the lock is
  gone. Correct: no timeout under a held Publish, no DA group survives the session unless
  a call of the runtime about it failed, every Publish is answered.
* **Listener shutdown.** Correct: no connection escapes Close, bounds balance, nothing
  is left once Serve has returned, Shutdown returns.
* **The address space.** Several clients browse a branch that one call to the source is
  filling, while the source changes, fails or reconnects. Correct: one call per branch, a
  node budget that is passed by one branch per client at most, an answer for everybody.
* **Answers in parts.** Continuation points are limited, expire, and are reused. Correct:
  the parts of an answer make the whole, and a point handed out can be used.
* **Registered items.** Handles outlive the connection they were made in. Correct: a Read
  returns the value of the item asked for, a Write that is answered Good was made.
* **Conversions.** The same value has a form in COM, Go, JSON, protobuf and OPC UA, each
  with an encoder and a decoder of its own. Correct: what is read can be written back,
  nothing is coerced, encoders and decoders agree field by field, truncated bytes are
  refused, shapes are exact although their product wraps.
* **Frontends around the runtime.** Correct: no DA group is forgotten, limits hold,
  shutdown ends the streams and stops the runtime last.
* **Notification bookkeeping.** Correct: a held value has exactly one place in the queue,
  values of an item are in source order, unacknowledged messages can be retransmitted
  unless the queue overflowed.

`PROJECT.json` lists these as `hazards`, each at its line.

## 2. The modules

| module | models | instances |
|---|---|---|
| `DARuntime` | runtime thread, queue, watchdogs, calls, Shutdown | `MCDARuntime` |
| `Coalescing` | what a DA subscription promises its consumer | |
| `DASubscription` | pending set, callbacks, teardown and stream; implements `Coalescing` | `MCDANotifications` |
| `CallbackLifetime` | callback object, group creation and release | `MCDANotifications` |
| `UASession` | sessions, requests in flight, held Publish | `MCUAConnections` |
| `UAListener` | accept loop, connection bounds, Close, Shutdown | `MCUAConnections` |
| `UASubscription` | UA subscriptions of one session | `MCUAConnections`, `MCDataPath`, `MCUASubscription` |
| `UASecureChannel` | channel, tokens, sequence numbers and chunks of one connection | `MCUASecureChannel` |
| `UAAddressSpace` | population of branches and item properties on demand | `MCUAAddressSpace` |
| `UABrowse` | Browse, BrowseNext and continuation points | `MCDataPath` |
| `UADataAccess` | UA Read and Write, jobs on the DA thread, the registration cache | `MCDataPath` |
| `UABinary` | UA binary encoding as layouts that run over bytes | `MCDataPath` |
| `UAMessages` | the layout of every UA message, encoder and decoder apart | `MCDataPath` |
| `DAValues` | values through COM, Go, JSON, protobuf and OPC UA; array shapes; qualities | `MCDataPath` |
| `UnaryHandlers` | the Browse, Read, Write and property handlers of gRPC, HTTP and MCP | `MCDataPath` |
| `JSONScan` | the scanner of HTTP bodies against the one it replaced | `MCDataPath` |
| `MCPSession` | one MCP session with its DA groups | `MCFrontends` |
| `NetworkService` | the process that serves HTTP or gRPC, from Start to Shutdown | `MCFrontends` |
| `Selections` | loops that keep some entries of a list in their order | used by `UASubscription`, `UAAddressSpace`, `UADataAccess` |

The theorems are in modules of their own:

| module | theorems about |
|---|---|
| `DARuntimeProofs` | `DARuntime` |
| `DASubscriptionProofs` | `DASubscription` (the refinement included) and `CallbackLifetime` |
| `UAServerProofs` | `UASession`, `UAListener` and `UASubscription` |
| `UASecureChannelProofs` | `UASecureChannel` |
| `UADataProofs` | `UAAddressSpace`, `UABrowse` and `UADataAccess` |
| `DAValuesProofs` | `DAValues` with `UnaryHandlers` |
| `FrontendProofs` | `MCPSession`, `NetworkService` and `JSONScan` |
| `SelectionTheorems` | numbers (least member, induction, recursion) and the operators of `Selections` |

`Selections` defines what `SelectSeq` and `SetToSortSeq` compute by the place an entry
has among those kept, so that what they return for a sequence of any length is a matter
of cardinalities. Loops of `DAValues` and the calls of `JSONScan` are recursive functions over
numbers; tlapm has no
backend left in a module with RECURSIVE operators, and none of its provers can
instantiate the library's induction rule, which takes an operator. `SelectionTheorems`
states induction about a set of numbers, and recursion about a function that iterates a
step, and proves both from the least member of a set of numbers.

**Instances of several components.** `MCDANotifications`, `MCUAConnections`,
`MCDataPath` and `MCFrontends` put components side by side that share no variable. A
variable `focus` says which of them a behaviour follows; the others stay as they began.
A state of the instance is therefore a state of one component, nothing is multiplied,
and an invariant of the instance is an invariant of each. Fairness of a component is
restated with `focus = "..."` inside each `WF`, since an action of a component that is
not in focus is enabled in the component and not in the instance.

An operator whose comment begins with "Mutation" is a plausible wrong version of the
definition that follows it. No specification uses it; `PROJECT.json` lists under
`mutants` which property each one breaks when it takes the definition's place.

### DARuntime

`da` is the program counter of `runDAThread`. A step is one access to state another
goroutine can see, so the check of `degraded` in `tryConnect` and the status it writes
afterwards are separate steps, and a watchdog can come between. A COM call in progress
is a value of `da` (`connect`, `run`, `cleanup`...) and the action that leaves it is the
call's return. A disconnect is a step per subscription torn down, the release of the
server, and then the status (`TearsDown`, `Releases`, `Reschedule`); a Subscribe enters
the session, is counted and answered in three steps, and an Unsubscribe leaves it, is torn
down by the source, counted and answered in four, as each of them shows from outside and
a teardown may hang. Browse, ReadBatch, WriteBatch and the property calls are one kind of
operation ("read"): the thread treats them alike and only their data differ. `session`
is the record `daThreadSession`; `status` is the record behind `statusMu`, always
written as a whole by `setState` and its relatives. A call goes through `enqueue` step
by step: state check, queueing, signalling (which may fail), waiting on reply, stopped
and deadline. Time is three-valued where it matters: `reconnectAt` is zero, later or due.

### DASubscription and Coalescing

A callback thread takes the mutex, merges one item per step, releases it and then
notifies: drain, invalidation and the other thread run in between wherever the code
allows. `latest[h] = 0` means the map has no entry. `Coalescing` has no threads or
signals: a report makes items unread, a delivery hands over all of them with the last
value of each in first-seen order, an end discards the rest. The mapping takes
`pending.order` for the unread items, the last drained batch for the delivery and
`pending.closed` for the end.

### CallbackLifetime

The phases of `createSubscription` (AddGroup, AddItems, publication in the registry,
Advise) each may fail and unwind; a group that the server made without handing out its
interface is `Orphaned`. `releaseCOM` goes through Unadvise, RemoveGroup, unregister and
unpin. The server is external: it calls only through a reference it
holds, copies references, returns them late or never.

### UASession

Requests are identified by model values, made at most once. `StartRequest` is
`activatedSession` plus the counting of a Publish; the service itself is a later step,
since the session registry's lock is released in between. A held Publish goes through
`BeginRequest`, `Ended`, publishing ticks, a watcher, and `releaseRequest`. `quiet` is
the set of sessions whose last activity is a timeout ago. The end hook runs after the
registry's lock is released and is a separate step. `groups` are the DA groups a
subscription refers to, `sourceGroups` those open at the source, and `failed` the
subscriptions a Subscribe or Unsubscribe of the runtime failed for:
`releaseDASubscription` drops its reference whatever Unsubscribe answers, so that the
group may stay. That the loss of the DA connection takes it away is left to `DARuntime`.

### UAListener

The accept loop of `Serve` with its steps between two looks at shared state, the
goroutines of connections and held Publish requests, the `WaitGroup` as a counter, the
permit of `boundedListener` and the slot of the listener, and `Service.Shutdown` with
the housekeeping tick it stops first. What a connection says is left to the other
modules.

### UASecureChannel

One connection, from the Hello to its end. `channel` is the connection's entry in the
registry: `current` and `previous` token, 0 for nil; how many channels the other
connections hold is a choice of the one step that asks, `HandleIssue`. Each registry
operation holds the registry's lock and is a step; a Renew is two, because
`OpenSecureChannel` looks the channel up before `ChannelRegistry.Renew` does. The read
loop handles one message at a time (`job["loop"]`), and one goroutine stands for the held
Publish requests (`job["publish"]`); both write through `writeSecureMessage`, whose
critical section is `TakesNumber` followed by `Writes` or `WriteFails`. A chunk is its
kind, token, number and which part of which message it carries. Tokens expire in any
order, as their lifetimes differ. `LastNumber`, `WrapFloor` and `WrapBelow` are
UInt32.MaxValue, the wrap floor and 1024, which TLC scales down. The client is external:
it opens one channel, renews it one renewal at a time, sends under the newest token it
was given, and departs from the protocol in at most one message. `odd`, `newest`,
`refused`, `skipped`, `outOfOrder` and `torn` are history variables.

### UAAddressSpace

A client's Browse goes through `EnsurePopulated` step by step: the look at freshness and
budget, joining a flight or starting one, the call to the source, `PopulateBranch` under
the lock, and the reading of the node's references after the lock is released. A node is
an object with an identity, since a Browse may hold the pointer to one that was replaced.
`overshoot` is the history the budget's property is about. The source lists more or less
of `children` at every call, fails, and reconnects. An entry that `nodeForEntry` refuses
ends `PopulateBranch` where it is, with the entries before it added and the earlier
references gone (`PopulateBreaks`).

### UABrowse

A Browse answers its nodes one after the other; time and the requests of other sessions
come in between. A continuation point is the range of references that is left. When a
session is at its limit its oldest points go until there is room, but only those created before
the time of the request being answered: a point of the response being made bears the
request's own time. Of points of one time the order of a Go map decides.

### UADataAccess

A request is a sequence of slots with a verdict each. What is left for the source becomes
a job on the DA thread: `resolveRegistrations` with its batches, the device call, and the
assembly of the results. The source is external and numbers the items of a group as they
come, so that a handle from an earlier connection names another item in the next; another
caller's writes change values between. `learned` is what a Read taught the node about its
type and rights; a property with an ItemID of its own has a node of its own, whose type
and rights are `Declared` once and for all.

### UABinary and UAMessages

A layout is a tree of kinds (`UInt32`, `String`, `Array(...)`, `Struct(...)`). `Put` runs
an encoder's layout over a value, `Get` a decoder's over bytes. The module `UAMessages`
states for each message what its encoder writes and what its decoder reads, each from its
own source, so that a field out of order in one of them shows. A sample fills every
layout with values picked by a number; lengths of zero, one and two elements.

### DAValues, UnaryHandlers and JSONScan

These are functions, checked over bounded inputs: `sample` is what arrives and is chosen
in the initial state. Integer widths are scaled down to 2, 3, 4 and 8 bits and keep their
wrap-around. `UnaryHandlers` writes each handler as a list of checks in the code's order,
the call, and the checks of its answer; the runtime may answer with anything its
interface carries. `JSONScan` builds a body token by token and runs both scanners on it.
The calls of `value`, `object` and `array` are a function from the number of calls they
make below one another to what each returns; a call takes a token before it makes
another, but for the first element of an array, so twice the tokens are deep enough. The
numbers of a body are left to a second variable, read character by character.

### MCPSession and NetworkService

`MCPSession` follows each request from the bounded connection through its handler to the
written response, with the session's lock as a variable where a tool holds it across a
call. `NetworkService` follows Start, the goroutine that serves, unary calls and streams
with their slots, and Shutdown with its deadline. Connections outlive a listener that
failed, and calls go on arriving over them. The protocol libraries are external and
modelled from how the code uses them.

### UASubscription

Every operation holds `SubscriptionService.mu`, so each is one step. A publishing cycle
is `tryPublish`: pick a subscription, hold the status of unreadable items, drain the DA
subscription or report its invalidation, flush what is due, build a message or count a
tick. Iteration over a Go map is a choice among the orders it may yield. A value is a
version number of its DA item; time per item is `never`, `recent` (within the sampling
interval) or `due`. `reported`, `acked` and `born` are history variables, kept of items
that exist and of messages the queue could still hold.

## 3. What is checked

| run | instance | shows |
|---|---|---|
| `runtime` | 2 calls (subscribe or unsubscribe), queue 1, 2 subscriptions, 2 connections, 1 watchdog | no lost wake-up, no blocking reply, identifiers of one connection only, handles accounted for, the status is at most one operation behind the session |
| `runtime_live` | 1 call (read or subscribe), 1 subscription, else as above, SetEvent and MsgWait may fail | calls return although the source may hang; shutdown and reconnect if it answers |
| `notifications` | 2 items, 2 callback threads, 3 reports; 3 groups, 2 live at a time | the pending set implements `Coalescing` and is coherent, the stream delivers; callback objects in reach are pinned and whole; no failure but one, named in section 5, leaves a group behind |
| `ua_connections` | 1 session, 2 connections, 2 requests; 3 connections, 2 permits, 1 slot; 1 item, 2 changes | sessions own their held requests, and their groups unless the runtime failed; bounds and drain; Publish returns, sessions are reclaimed, Shutdown ends, held values are reported |
| `channel` | 2 tokens, 2 messages of at most 2 chunks, numbers 0..3 with the wrap above 1, 1 chunk in flight each way | tokens advance; a conforming client is served; messages are whole and in order; silent channels are reclaimed |
| `data_path` | 2 items, 2 changes, retransmission queue 2; 2 callers, 3 items, 2 registrations, 2 connections; 2 sessions, 1 point each; 474 messages; 12762 values, shapes and exchanges; bodies of 10 tokens, numbers of 5 characters | what clients are told: monitored values once and in order, Good writes were made, reads are of the item, answers in parts are whole, encoders and decoders agree, values and shapes survive, handlers answer what was asked, the scanner agrees with the one it replaced |
| `address_space` | 2 clients, one branch, 2 items, 1 change or reconnect, 2 nodes | one flight per branch, bounded overshoot; every Browse ends, also over refused entries |
| `frontends` | 3 requests, 2 groups, 2 in flight, 1 owned; 2 calls, 2 connections, 1 slot of each kind | no group forgotten, admission bounded, the runtime stops last; sessions and shutdown finish |
| `subscription_fed` | 2 items on one DA item | refutes a comment of `rebuildDASubscription` |
| `subscription_semantics` | 1 item, 1 change of semantics | refutes a comment of `collect` |
| `write_clamped` | the `data_path` instance | refutes a sentence of `docs/frontend/opcua/data-access.md` |
| `browse_stale` | 1 client, one branch | refutes a comment of `population.go` |

**Bounds.** Two callers over a queue of one are enough for a full queue, for a command
waiting behind another, and for a Subscribe and an Unsubscribe of the same identifier;
a second Subscribe that loses the connection finds the first one's group alive;
two generations are enough for a stale identifier to meet a new connection. One watchdog
at a time is what one thread can arm; a late watchdog of an earlier call keeps its slot
until it is done, so one that fires after its call returned is included. Two callback
threads are the smallest number that can contend for the lock; three reports let a value
be replaced before and after a drain. Three groups under a limit of two let one object be
leaked while two others live. The retransmission queue of two overflows with the third
message: two changes and one unreadable status. Two tokens
are a renewal with its crossing messages; four responses pass the wrap of the sent
numbers, and the client's numbers start at the last one, so that both directions wrap.
Two browses of two nodes with one point per session make the second node of a response
compete with the first for the session's only point. Two registrations for three items
fill the cache, and two connections make an old handle meet a new group. Lengths 10 and
13 make a product of dimensions wrap within the bound. One inline key lets the second
spill to the map. One node less than the source lists lets two clients pass the budget
together. Samples of messages with two elements in every array include the least ones,
which the decoder of endpoints refuses (section 5). `MaxBroken` bounds how often refused
entries may replace a node; with one entry per listing, as in the instance, what comes
before a refused entry is empty. `MaxPoints`, `BrowseTime`, `MaxRequests`, `MaxConnections`, `MaxTime`, `MaxEvents`,
`MaxNumeral`, `MaxGenerations`, `MaxReports`, `MaxRefs`, `MaxChanges`, `MaxSemantics`, `MaxTokens`,
`MaxMessages` and `MaxInFlight` bound the environment and nothing of the code.

Deadlock checking is off where a system may come to rest (everything stopped, all
requests made, a function evaluated); the runs of `MCUASubscription` keep it on.

**Fairness.**

* `GoSpec` (`DARuntime`): goroutines that can run do, timers fire, the wait returns when
  its event is set, calls carry deadlines. Nothing is assumed of the source. The two
  properties that need it say so: `SourceAnswers => ...`.
* `Fairness` (`DASubscription`): strong fairness of the merge, teardown and consumer
  steps, because they wait for a Go mutex, which is handed over after a millisecond of
  starvation, and for a `select`, which chooses at random among what is ready.
* `SessionFairness` (`UASession`): goroutines run, publishing tickers tick and keep-alives come
  due, and the application's tick, which runs until shutdown, expires subscriptions.
  Clients are assumed nothing of.
* `ListenerFairness` (`UAListener`): the accept loop runs; closing a socket or a connection makes
  the call that waits on it return; a held Publish returns once its connection has ended;
  the tick finishes; the `select` of the watch sees its stop channel (strong fairness, as
  it may always be at work).
* `FairSpec` (`UASecureChannel`): lifetimes end and the application's tick calls
  `ExpireStaleChannels`, which it does every interval until shutdown. Nothing is assumed
  of the client or of the connection.
* `Fairness` (`UASubscription`): sampling intervals pass, tickers tick, and the client
  keeps sending Publish requests, which is what a held value needs to be reported.
* `SpaceFairness` (`UAAddressSpace`): a client's goroutine goes on, the call to the source
  returns or its deadline passes. The fairness is strong, because a `sync.RWMutex` lets in
  whoever waits for it although others populate again and again, as they may when the
  source keeps sending entries that are refused. Nothing is assumed of how often the source
  changes.
* `MCPFairness` (`MCPSession`): handlers and the writer run, calls of the runtime return
  (they carry deadlines), and closing goes on. Clients are assumed nothing of.
* `ServiceFairness` (`NetworkService`): the serving goroutine, the stopping one and the
  handlers run. Deadlines pass where the code waits for nothing else.

## 4. What is proved

Every safety invariant and every action property of the passing runs is a theorem of its
component's specification, except for the one function on data named at the end of this
section. The theorems hold for every value of the constants under the assumption its
module names, which TLC evaluates in every run:

* Limits and bounds are natural numbers, positive where the code's defaults make them so;
  placeholders (`NoCall`, `Nobody`, `NoSession`, `NoConn`, `None`, `Never`) are no
  members of the sets they stand beside.
* `Groups` (`CallbackLifetime`), `Items` (`UASubscription`), `Clients` and `Keys`
  (`UAAddressSpace`) and `ItemIDs` (`UADataAccess`) are finite, as what a process has
  been given. `Sessions`, `Channels`, `Requests`, `Calls`, `Connections`, `Conns` and
  `Ids` need not be: that finitely many are in use at any time is part of the invariants.
* There are sessions and channels at all (`UASession`); a retransmission queue has at
  least two places, which the code's configuration checks (`UASubscription`); numbers of
  chunks wrap above where they begin again (`UASecureChannel`); requests are sequences
  and name items of `ItemIDs` (`UADataAccess`).
* Integers of 1, 2, 4 and 8 bytes hold any number of values, half of them negative where
  they are signed, as long as a product of two 4 byte lengths fits 8 bytes and the limit on
  the elements of an array fits a length (`DAValues`). The scaled widths of the run satisfy
  this, and so do the real ones.

The invariant a run checks is seldom inductive. What follows names, for each component,
the inductive one and what it adds.

**`DARuntimeProofs`.** `TypeCorrect` is proved by itself: `TypeOK` is inductive. Four
safety theorems share `SafeInv = TypeOK /\ SessionInv /\ SubscriptionsAreCurrent /\
IdentifiersNeverReused /\ HandlesAccountedFor`. `SessionInv` is the strengthening: when
the session holds a server its generation is the last one begun; without a server it has no
subscriptions; the program counters at which there can be no server; all identifiers in
use are among those issued so far; and a group between creation and commit has an
identifier nothing else has and a place below the limit. Without it the step that commits
a group knows nothing of where its identifier came from. The theorems are `NeverReused`,
`AllHandlesAccountedFor`, `OnlyCurrentSubscriptions` and, from the first and the last,
`IdentityKept`. `WakeupNeverLost` rests on `WakeInv`, which holds already while the
thread is about to wait; `RepliesNeverBlockAlways` on `QueueInv` (a queued or running
command is of a call past its one send and without an answer, each command once);
`ConnectedMeansConnectedAlways` on `StatusInv` (nothing is counted without a server, but
between its release and the status update that follows, nor before the new connection is
announced, and a thread that is ending says connected no more). The theorem says how far
the status lags: see section 5 for what a client sees meanwhile.

**`DASubscriptionProofs`.** `SubscriptionTypeCorrect`; then `Inv`, the conjunction of the
type, the lock discipline (the holder of the mutex is the one thread that merges), the
agreement of `order` and `latest`, the announcement and the emptiness of a dead set,
from which `HalvesAgree`, `AlwaysAnnounced`, `DeadStaysDead` and, with all three,
`CoherentAlways` follow. `Refinement` proves `Spec => ImplementsCoalescing`: a merge step
is a `Report` (`MergeReports`), a drain is a `Deliver` (`DrainDelivers`), an invalidation
is an `End`, everything else stutters. For the callback object, `CallbackInv` says which
phases have published the subscription, that the reference count is the adapter's one
and the server's, that a published object is unpinned only when nobody holds it, and
what server and registry have in each phase; `ObjectSafeAlways` and `NothingLeftAlways`
follow.

**`UAServerProofs`, sessions and listener.** `OwnershipInv`: tokens of sessions being
created are fresh and different, `inFlight` is the number of Publish requests in service, and the subscription
a checked request names was made by its own session and is gone once that session's end
hook ran. That last part is why `SessionOwnership` holds although requests check a session
and act after the lock is gone. What it says of groups at the source excepts those whose
own Subscribe or Unsubscribe failed (`GroupsAccounted`): every step that drops a
reference either reached the source or records the failure (`ReleaseAccounts`). `SessionOwnershipAlways` and, as an action property,
`NeverTimedOutWhileServed` follow. `ListenerInv`: the counters count what they should in
every state of the accept loop, the loop holds at most one connection of its own, and
what Close has read covers what is tracked, because it sets `closed` in the same critical
section. From it `ConnectionsAccountedAlways`.

**`UASecureChannelProofs`.** `ChannelInv` is the types, the order of the tokens
(`TokenOrder`, all that `TokensAdvanceAlways` needs), the writers' lock, what a writer may
be at, and two paths. `ResponsePath` and `RequestPath` say that what is on the wire leads
from where one side is to where the other is: there is a function over the positions of
the wire that begins at the receiver's state, follows one message per position and ends at
the sender's. A path that grows at one end and shrinks at the other needs no induction over
the wire. From the requests' path a conforming client is never refused
(`ConformingServedAlways`); with the responses', `MessagesInOrderAlways`.

**`UAServerProofs`, subscriptions.** `SubscriptionInv` (theorem `SubscriptionInvariant`):
`RetransmissionInv` (the queue of one subscription as map and sequence, in increasing
order, the oldest of a full queue being as many messages back as the queue holds),
`HeldOrderInv` (the order names each item that holds a value once, the drained set
each DA item once) and `ItemInv` (what an item has told is in order, what it holds is
later, what waits to be drained is later still, and a refusal is told at most once). A
publishing cycle is several passes over the items; lemmas say of each pass what it keeps
(`CycleSound`), and the steps compose them. `UnacknowledgedKeptAlways`, `ReportedOnceAlways`
and `ValuesInOrderAlways` follow.

**`UADataProofs`.**

* Address space: `SpaceInv`. A key is marked exactly while its one client is on the way
  (`FlightsMatch`), and `BudgetKept` counts a listing that was already held against the
  budget in its client's place: of `n` clients of which `a` wait to add their listing, the
  space has at most `MaxNodes + (n - a) * Longest` nodes. `PopulationSoundAlways` follows.
* Continuation points: `PointsInv` (theorem `PointsInvariant`). What a chain of points has
  handed out, followed by what its live point holds, is the whole answer; and a point of
  the response being made bears its request's time (`GivenKept`), which is what keeps
  `freeOldestLocked` from it. `ContinuationSoundAlways` follows.
* Reads and writes: `AccessInv` (theorem `AccessInvariant`). A slot of an open request is
  true unless a job for it is still to be done, and no two jobs are about the same slot
  (`CallsHold`): a Write begins with Good in every slot, so a forgotten one would lie. A
  queued command is the job its caller waits for or one it gave up, never a later one
  (`CommandsKnown`), so that no late answer is taken for another. A resolved handle names
  its item (`JobKnown`), because cache and group are inverse to each other (`GroupKept`)
  and both go when the connection does. `GoodMeansWrittenAlways` and
  `ReadsAreSoundAlways` follow.

**`DAValuesProofs`.** `DAValues` has no interleaving: a state is a sample and the theorems
are about what pure functions do with it. They hold for samples of any size.

* `ShapesAreExactAlways`: a description of an array is accepted exactly when the product of
  its lengths, in unbounded arithmetic, is within the limit, although the code multiplies
  in 64 bits and looks after each step (`CountedExact`: a product that is kept within the
  limit cannot wrap when one more length is multiplied in). The walk over the elements is
  an odometer in 32 bits. `Rank`, the number of an index vector in row-major order, begins
  at 0, rises by one with each `advanceArrayIndices` (`RankRises`), and is the last one
  exactly when no index can rise (`RankLast`): every element is visited, once, in order.
* `ValuesSurviveAlways`: each scalar type comes back through JSON, protobuf and OPC UA as
  it went out or is refused, and never as another value; arrays element by element; the
  three kinds of result get one verdict. For exchanges, `ReadExact`, `WriteExact`,
  `AvailableExact`, `PropertiesExact` and `BrowseExact` say of a batch of any length and any
  answer of the runtime that the gRPC, HTTP and MCP handlers call it for the same requests,
  answer in its order with each result under the item it was asked for, and answer alike
  where none of them is late. The samples of `DAValues` are shown to be such exchanges.

**`FrontendProofs`.** `MCPInv`: what is under way has its place in `pending`, the lock is
held by the one subscribe between its check and its commit, which keeps the room it found,
and every live group has somebody who will release it at each stage of the run, unless
that failed and was recorded. `ServiceInv`: slots, permits and groups are counted by
calls and connections, and nothing arrives once the frontend stops. From them
`MCPAccountedAlways` and `ServiceSoundAlways`.

`ScanningExactAlways` is about the body scanner. `ScanInv` says that the Decoder is where
the tokens have brought it: there is a `Run`, the Decoder before each token. Along a run
every call of the scanner `Follows` it: called where the Decoder expects a value, a key or
an element under the containers `o`, it comes back either at a place where the Decoder has
just finished a value under `o`, or with the Decoder's verdict on the whole body
(`ValueStep`, `ObjectStep`, `ArrayStep`; by induction on how deep the calls go,
`AllFollow`). The stack of the one is the recursion of the other, and its set of keys what
`jsonKeySet` holds, inline and spilled (`KeysAre`). The one assumption is that the run does
not end at a key only the Decoder refuses (`OddKey`), the disagreement over U+017F of
section 5, which `ScanningExact` names and the instance has a spelling for. For numbers,
`NumberCuts` and `CutNumbers` turn the places `number` stops at into the parts of the
grammar and back.

**`SelectionTheorems`.** `Least`, `Induction` and `Recursion` about numbers; and that
`Ordered(P)` lists a finite set of numbers in their order and `Selected(q, S)` exactly the entries of `q` in `S`, each position once and in the
order of `q`. The proofs go over cardinalities: the places of `P` are a bijection onto
`1 .. Cardinality(P)`, so there is one for every number.

**Only model-checked.**

* Liveness, fairness and everything that needs `ENABLED`: `CallsReturn`, `ShutdownStops`,
  `KeepsReconnecting`, `StreamDelivers`, `PublishReturns`, `EndedSessionsReclaimed`,
  `ListenerStops`, `HeldIsReported`, `SilentChannelsReclaimed`, `BrowsesEnd`,
  `SessionsFinish`, `ShutdownCompletes`.
* `DecodingExact`: the layouts are recursive operators over trees of kinds, and what they
  do for every tree is an induction over the tree, on encoder and decoder at once.
  `RoundTrip` names the one kind of message that is refused although the encoder wrote it
  (`RefusedLists`, section 5), and says that it is refused exactly then.

## 5. Disagreements met while modelling

Four have a run of their own and an entry under `findings`:

* Of two monitored items over one DA item only one is fed by a notification
  (`internal/opcua/subscription.go:1850`).
* The semantics-changed bit is lost when the held value that carries it is replaced
  (`subscription.go:1740`).
* A write the source clamps is answered `Good` and not `Good_Clamped`
  (`internal/opcua/readwrite.go:943`).
* Browsing a parent again empties a child branch that counts as fresh
  (`internal/opcua/addressspace.go:743`).

The others were seen in the same way, by a property that TLC refutes or while reading
the code for the model, and are recorded here:

* A subscription of lower priority is never collected while one of higher priority
  exists, although that one has nothing to say (`subscription.go:1687`; the comment at
  line 1684).
* `ReadEndpointDescription` asks for 24 bytes per UserTokenPolicy before it reads one
  (`internal/opcua/endpoints.go:271`); the comment above says a policy is "at least five
  length prefixes and an enumeration", and there are four: the least one takes 20. A
  GetEndpointsResponse that ends with two least policies, as its encoder writes it, is
  refused. `RoundTrip` excepts exactly the messages with more policies than the bytes left
  allow, and the instance has such samples.
* `addSubscriptionGroup` returns an error without RemoveGroup when AddGroup succeeded but
  handed out no IOPCItemMgt (`internal/opcda/subscribe_windows.go:425`): the group stays at
  the server. The comment on `createSubscription` (line 604) says that any failure after
  AddGroup "releases everything it created before returning". `NothingLeftBehind` names
  these groups.
* `releaseDASubscription` ignores the error of Unsubscribe, be it a full queue, a deadline
  or a degraded runtime, and forgets the group (`internal/opcua/subscription.go:1394`). The
  group may stay open with nobody to refer to it, although the comment at line 1975 says a
  closed session "must not leave DA groups open on the source". A Subscribe that fails past
  its deadline may leave one, too. `SessionOwnership` excepts these groups and no others.
* The status follows the session, and calls to the source that may hang come in between:
  while `disconnect` tears subscriptions down it still says connected
  (`runtime_windows.go:331`, 301), and while Unsubscribe waits for the source it counts the
  subscription that has left the session (`runtime_windows.go:699`, 704).
  `ConnectedMeansConnected` says that it is never further behind than that.
* `writeVariantArray` does not apply `MaxArrayLength`, which the decoder does; a
  NotificationMessage is limited to 256 KiB where messages may have 2 MiB; a ByteString
  of length zero comes back as nil.
* The body scanner compares the byte length before it folds case
  (`internal/frontend/http/json_scan.go:351`), the reference of its equivalence test does
  not (`json_scan_equivalence_test.go:76`): a field name with U+017F for "s" is refused as
  misspelled by one and unknown to the other. `ScannerAgrees` excepts it.
* An array read over JSON names its element type by an object, an array written by a
  string: it cannot be sent back as it came (`internal/frontend/dajson/value.go:326`, 493).
* A value whose year JSON has no form for is an error over HTTP and MCP and a value over
  gRPC (`dajson/value.go:197`). HTTP lets a branch's ItemID hold a NUL that gRPC and MCP
  refuse; gRPC does not bound the list of available properties.
* Items kept as VT_INT, VT_UINT or VT_ERROR can never be written over OPC UA. The limit of
  registered items is answered Bad_TypeMismatch by a UA Write and Bad_InternalError by a
  UA Read. `advanceArrayIndices` wraps when a dimension ends at the largest int32.
* Reads of item properties and descriptions carry no request timeout; a node never learns
  a new type once it has one; a Write that timed out may still be made.
* The node budget is checked before the lock that adds the nodes; nodes the source no
  longer lists stay; a branch browsed again counts its nodes twice; the references of a
  node are read without the lock; a branch browsed across a reconnect is recorded as
  browsed after the invalidation.
* A Browse that goes on after its session ended stores continuation points that only
  their expiry removes.
* Over MCP, a subscribe holds the session's lock across its call while the deadline of
  `closeSubscriptions` runs; a group whose subscribe cannot be committed and whose release
  fails stays until the runtime shuts down; values drained for a result that is too large,
  or just before the subscription ends, are lost; an oversized response that is not a
  tool's leaves its identifier pending.
* HTTP's Shutdown at its deadline leaves handlers running while the runtime is shut down;
  gRPC waits for them. `app.New` failing at the UA listener leaves the runtime it created.

* `Listener.Shutdown` does not wait for connections: `Close` clears `listening`, so the
  test `!l.Listening()` always holds and the drain signal is closed by Shutdown itself
  (`internal/opcua/listener.go:1289`); the comment at line 1268 says it "waits for
  everything the listener started to finish".
* `writeSecureMessage` assigns the sequence number before it compares the size of the
  response (`listener.go:1186`, 1199). The read loop ends the connection over the error,
  but the goroutine of a Publish ignores it: the client gets neither the response nor an
  Error message ("is reported rather than silently truncated", line 1154), and the next
  response leaves a gap in the numbers. `ResponsesFollow` excepts this case.
* A held Publish is answered under the token that was current when it arrived
  (`listener.go:1411`), which two renewals later the channel no longer knows.
* A second Renew before the first new token was used drops a token the client may still
  be using (`channel.go:148`); the comment above `SecureChannel` says the old one is kept
  "until it expires or until a message secured with the new token arrives". A client that
  renews once at a time and moves on when answered, which is the one modelled, never
  meets it.
* A Subscribe whose deadline passes after the thread's last look at the context
  (`runtime_windows.go:645`) may leave a group nobody has the identifier of; the comment
  above it says a group "must never outlive the caller that asked for it".
* A watchdog that fires between `tryConnect`'s check and its status update sets
  `degraded`, and the connected status overwrites the degraded one
  (`runtime_windows.go:284`); ADR 0005 says the runtime "remains degraded until restart".
* A degraded runtime keeps its subscriptions until shutdown; ADR 0013 lists the degraded
  transition among what invalidates them.
* Callback objects whose server keeps a reference stay pinned, one per subscription ever
  made; `subscribe_windows.go:714` says "the leak is bounded by MaxSubscriptions".
* A held Publish of a session that ended may be answered with the fault of a missing
  subscription instead of Bad_SessionClosed (`listener.go:1385`): the publishing tick may
  run before the watcher.
* A CreateSession in progress registers its session after `TerminateAll`
  (`listener.go:1288`).
* Serve stores `listening = true` after the lock is released, possibly after Close
  (`listener.go:315`).
* A failure of Accept is reported only after the last connection is gone
  (`listener.go:321`).
* One request may create two items with the same client handle (`subscription.go:1279`).
* An item may have more than one notification waiting (`subscription.go:1787`);
  `docs/frontend/opcua/subscriptions.md:242` says one.
* When DeleteMonitoredItems cannot rebuild the group, the remaining items fall silent
  without an invalidation (`subscription.go:1419`).

## 6. What is not modelled

* Real time: timeouts and intervals are events that may happen at any moment at which
  they are armed; the clocks of `UAAddressSpace` and `UABrowse` only count.
* Text: UTF-8, surrogates and BSTR length limits. A text is a value with the flaws the
  checks look for.
* The standard nodes of the address space, reference type filters, engineering units, the
  percent deadband and the values of single properties: data no property here relates.
* HTTP's header, host and origin checks, the mapping of error codes to each frontend's own,
  and the depth and duplicate scan of MCP arguments.
* The vendor's server beyond what the adapter relies on; Windows beyond the wake event
  and the message wait; vtable calls and the ownership of COM memory.
* Interactions across components: a UA session's end and the subscriptions it releases are
  modelled on either side by what the other one promises, not in one state.
* The parts listed as `not_modelled` in `PROJECT.json`: source detection and configuration
  are one pass over data that is read once, the generated API and the probes are not the
  adapter's logic.

## 7. Plan

Modelled so far, in this order: the runtime, on which every frontend depends; the path of
a data change from callback to client; the lifecycles around it and the secure
conversation below the services; then the address space, data access, conversions and the
other frontends; then the theorems of section 4. What is left, in order of importance:

1. Abstract specifications that more components can be shown to implement, as `Coalescing`
   is for the pending set: a channel that delivers whole messages in order for
   `UASecureChannel`, and one notification stream per item for `UASubscription`.
2. Action properties next to the invariants: that a retransmission queue drops only its
   oldest message, that a handle in the registration cache changes only with the
   connection.
3. Lemmas about single conversions of `DAValues` that need no induction.

## 8. Running

    tlc -workers 2 -config MCDARuntime.cfg MCDARuntime
    tlapm DARuntimeProofs.tla

Each run of `PROJECT.json` names its module and its configuration; none takes more than
a few minutes.
