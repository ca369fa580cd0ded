-------------------------- MODULE UASecureChannel --------------------------
(***************************************************************************)
(* The secure conversation below the OPC UA services, on one connection:   *)
(* the channel and its tokens (internal/opcua/channel.go), the sequence    *)
(* numbers of both directions (uasc.go), the assembly of messages from     *)
(* chunks (uacp.go), and the handlers that use them (listener.go,          *)
(* service.go).                                                            *)
(*                                                                         *)
(* The client is external: it opens one channel and follows the protocol,  *)
(* one renewal at a time, except for one message of its choice. The bytes  *)
(* in flight are two FIFO queues. Sequence numbers keep their wrap but not *)
(* their width.                                                            *)
(***************************************************************************)
EXTENDS Naturals, Sequences

CONSTANTS
    MaxChannels,     \* ChannelLimits.MaxChannels
    MaxChunkCount,   \* what the Acknowledge announced; 0 is no limit
    LastNumber,      \* UInt32.MaxValue
    WrapFloor,       \* legacySequenceWrapFloor
    WrapBelow,       \* 1024, above the first number after a wrap
    FirstNumbers,    \* the first numbers a client may choose
    MaxTokens,       \* bound: tokens this channel is issued
    MaxMessages,     \* bound: messages the client begins
    MaxInFlight      \* bound: chunks the connection buffers each way

ASSUME ChannelAssumption ==
    /\ MaxChannels \in Nat \ {0} /\ MaxChunkCount \in Nat
    /\ LastNumber \in Nat /\ WrapFloor \in Nat /\ WrapBelow \in Nat \ {0}
    /\ WrapFloor < LastNumber /\ WrapBelow <= WrapFloor
    /\ FirstNumbers \subseteq 0 .. LastNumber
    /\ MaxTokens \in Nat /\ MaxMessages \in Nat /\ MaxInFlight \in Nat \ {0}

VARIABLES
    channel,         \* this connection's entry of registry.channels; token 0 is nil
    nextTokenID,     \* registry.nextTokenID
    expired,         \* tokens whose lifetime is over
    conn,            \* "fresh", "negotiated" or "closed"
    receiveSequence, \* the last number of each validator
    sendSequence,
    incoming,        \* the chunk accumulator
    job,             \* what the read loop and the Publish goroutine are at
    writeMu,         \* its holder
    toServer, toClient,
    client,          \* what the client is at
    \* history
    odd,             \* the client has sent its message out of protocol
    newest,          \* the token of the last message that was accepted
    refused,         \* why the server ended the conversation
    skipped,         \* a numbered response of a Publish was not sent
    outOfOrder,      \* a response did not follow the one before it
    torn             \* what was dispatched was not one message as it was sent

registryVars == <<channel, nextTokenID, expired>>
serverVars   == <<conn, receiveSequence, sendSequence, incoming, job, writeMu>>
wireVars     == <<toServer, toClient>>
historyVars  == <<odd, newest, refused, skipped, outOfOrder, torn>>
endVars      == <<conn, wireVars, client, refused>>
vars == <<registryVars, serverVars, wireVars, client, historyVars>>

Writers == {"loop", "publish"}
Nobody == "nobody"
NotStarted == LastNumber + 1
NoPart == <<0, 0>>
Client(phase) ==
    [phase |-> phase, using |-> 0, renewing |-> FALSE, number |-> NotStarted,
     seen |-> NotStarted, part |-> 0, message |-> 0]
Idle == [at |-> "idle", kind |-> "MSG", token |-> 0, number |-> 0]

Init ==
    /\ channel = [state |-> "none", current |-> 0, previous |-> 0]
    /\ nextTokenID = 0 /\ expired = {}
    /\ conn = "fresh"
    /\ receiveSequence = NotStarted /\ sendSequence = NotStarted
    /\ incoming = <<>>
    /\ job = [w \in Writers |-> Idle] /\ writeMu = Nobody
    /\ toServer = <<>> /\ toClient = <<>>
    /\ client = Client("new")
    /\ odd = FALSE /\ newest = 0 /\ refused = "no"
    /\ skipped = FALSE /\ outOfOrder = FALSE /\ torn = FALSE

-----------------------------------------------------------------------------
(* SequenceValidator, legacy numbering *)

\* SequenceValidator.Next.
Following(last) ==
    CASE last = NotStarted -> 1
      [] last # NotStarted /\ last > WrapFloor -> 0
      [] OTHER -> last + 1

\* SequenceValidator.Accept.
Accepts(last, n) ==
    \/ last = NotStarted
    \/ n = (last + 1) % (LastNumber + 1) /\ n # 0
    \/ last > WrapFloor /\ n < WrapBelow

-----------------------------------------------------------------------------
(* The registry; each operation holds its lock *)

Open == channel.state = "open"

\* lookupLocked and AcceptToken: why a token is refused, or "no".
TokenRefused(t) ==
    CASE ~Open -> "closed"
      [] Open /\ t \in {channel.current, channel.previous} \ {0}
            -> IF t \in expired THEN "expired" ELSE "no"
      [] OTHER -> "token"

\* Mutation: the use of the new token does not retire the old one.
AcceptTokenKeeps(t) ==
    IF Open /\ t = channel.previous /\ t \in expired
    THEN [channel EXCEPT !.previous = 0] ELSE channel

\* What AcceptToken leaves: the use of the current token retires the previous
\* one, and so does the use of a previous one that has expired.
AcceptToken(t) ==
    IF /\ Open
       /\ \/ t = channel.current /\ t \notin expired
          \/ t = channel.previous /\ t \in expired
    THEN [channel EXCEPT !.previous = 0] ELSE channel

\* Mutation: a renewal ends the old token at once.
RenewReplaces == [channel EXCEPT !.previous = 0, !.current = nextTokenID + 1]

\* SecureChannel.Renew.
Renew == [channel EXCEPT !.previous = channel.current, !.current = nextTokenID + 1]

\* Mutation: a channel that remembers a previous token is never reclaimed.
ExpiredForgets == channel.previous = 0 /\ channel.current \in expired

\* SecureChannel.Expired: every token the channel holds has expired.
Expired ==
    /\ channel.previous = 0 \/ channel.previous \in expired
    /\ channel.current \in expired

\* ChannelRegistry.ExpireStale, from the housekeeping tick.
ExpireStale ==
    /\ Open
    /\ Expired
    /\ channel' = [channel EXCEPT !.state = "gone"]
    /\ UNCHANGED <<nextTokenID, expired, serverVars, wireVars, client, historyVars>>

\* A lifetime comes to its end. Lifetimes differ, so a newer token may go first.
Expire(t) ==
    /\ t \in (1 .. nextTokenID) \ expired
    /\ expired' = expired \cup {t}
    /\ UNCHANGED <<channel, nextTokenID, serverVars, wireVars, client, historyVars>>

-----------------------------------------------------------------------------
(* serveConnection *)

\* The loop returns and the socket is closed: what was in flight is lost, and the
\* client sees the end.
Closes(why) ==
    /\ conn' = "closed"
    /\ toServer' = <<>> /\ toClient' = <<>>
    /\ client' = Client("gone")
    /\ refused' = why

\* The read loop has a message of one of these kinds before it.
Reads(kinds) ==
    /\ conn # "closed"
    /\ job["loop"].at = "idle"
    /\ toServer # <<>>
    /\ Head(toServer).kind \in kinds

Taken == toServer' = Tail(toServer) /\ UNCHANGED <<conn, toClient, client, refused>>

Reply(w, kind, token) ==
    job' = [job EXCEPT ![w] = [at |-> "ready", kind |-> kind, token |-> token, number |-> 0]]

\* A message refused for what it is: undecodable or of another type, before the
\* Hello, a second Hello, of another version, mode or policy.
HandleRefused ==
    /\ \/ Reads({"BAD"})
       \/ Reads({"HEL"}) /\ conn = "negotiated"
       \/ Reads({"ISSUE", "RENEW", "MSG", "CLO"}) /\ conn = "fresh"
    /\ Closes("protocol")
    /\ UNCHANGED <<registryVars, receiveSequence, sendSequence, incoming, job, writeMu, odd,
                   newest, skipped, outOfOrder, torn>>

HandleHello ==
    /\ Reads({"HEL"})
    /\ conn = "fresh"
    /\ conn' = "negotiated"
    /\ toServer' = Tail(toServer)
    /\ toClient' = Append(toClient, [kind |-> "ACK", token |-> 0, number |-> 0])
    /\ UNCHANGED <<registryVars, receiveSequence, sendSequence, incoming, job, writeMu, client,
                   historyVars>>

Symmetric(m) == m.kind \in {"MSG", "CLO"}

\* splitSecureMessage: the token of a symmetric chunk, then the sequence number.
WhyRefused(m) ==
    IF Symmetric(m) /\ TokenRefused(m.token) # "no" THEN TokenRefused(m.token)
    ELSE IF ~Accepts(receiveSequence, m.number) THEN "sequence"
    ELSE "no"

\* What the token check of splitSecureMessage leaves, whatever the number.
ChecksToken(m) ==
    /\ channel' = IF Symmetric(m) THEN AcceptToken(m.token) ELSE channel
    /\ newest' = IF Symmetric(m) /\ TokenRefused(m.token) = "no" THEN m.token ELSE newest

\* splitSecureMessage fails.
HandleUnsplit ==
    /\ Reads({"ISSUE", "RENEW", "MSG", "CLO"})
    /\ conn = "negotiated"
    /\ WhyRefused(Head(toServer)) # "no"
    /\ ChecksToken(Head(toServer))
    /\ Closes(WhyRefused(Head(toServer)))
    /\ UNCHANGED <<nextTokenID, expired, receiveSequence, sendSequence, incoming, job, writeMu,
                   odd, skipped, outOfOrder, torn>>

\* splitSecureMessage lets a chunk of this kind through.
Split(kind) ==
    /\ Reads({kind})
    /\ conn = "negotiated"
    /\ WhyRefused(Head(toServer)) = "no"
    /\ receiveSequence' = Head(toServer).number

\* OpenSecureChannel with Issue, in a registry that holds the channels of others.
HandleIssue ==
    /\ Split("ISSUE")
    /\ nextTokenID < MaxTokens
    /\ \E others \in 0 .. MaxChannels :
       IF others >= MaxChannels
       THEN Closes("resources") /\ UNCHANGED <<channel, nextTokenID, job>>
       ELSE /\ nextTokenID' = nextTokenID + 1
            /\ channel' = [state |-> "open", current |-> nextTokenID + 1, previous |-> 0]
            /\ Taken
            /\ Reply("loop", "OPN", nextTokenID + 1)
    /\ UNCHANGED <<expired, sendSequence, incoming, writeMu, odd, newest, skipped, outOfOrder,
                   torn>>

\* OpenSecureChannel with Renew looks the channel up and gives the lock back.
HandleRenew ==
    /\ Split("RENEW")
    /\ IF Open
       THEN Taken /\ job' = [job EXCEPT !["loop"].at = "renew"]
       ELSE Closes("closed") /\ UNCHANGED job
    /\ UNCHANGED <<registryVars, sendSequence, incoming, writeMu, odd, newest, skipped,
                   outOfOrder, torn>>

\* ChannelRegistry.Renew, which looks the channel up again.
RenewToken ==
    /\ job["loop"].at = "renew"
    /\ nextTokenID < MaxTokens
    /\ IF Open
       THEN /\ channel' = Renew
            /\ nextTokenID' = nextTokenID + 1
            /\ Reply("loop", "OPN", nextTokenID + 1)
            /\ UNCHANGED endVars
       ELSE /\ Closes("closed")
            /\ job' = [job EXCEPT !["loop"] = Idle]
            /\ UNCHANGED <<channel, nextTokenID>>
    /\ UNCHANGED <<expired, receiveSequence, sendSequence, incoming, writeMu, odd, newest,
                   skipped, outOfOrder, torn>>

\* CloseSecureChannel: the channel is removed and the connection ends.
HandleClose ==
    /\ Split("CLO")
    /\ channel' = [channel EXCEPT !.state = "gone"]
    /\ newest' = Head(toServer).token
    /\ Closes("finished")
    /\ UNCHANGED <<nextTokenID, expired, sendSequence, incoming, job, writeMu, odd, skipped,
                   outOfOrder, torn>>

\* ChunkAccumulator.Append breaches the negotiated count.
TooMany == MaxChunkCount # 0 /\ Len(incoming) + 1 > MaxChunkCount

\* ChunkAccumulator.Reset.
Reset == incoming' = <<>>

\* handleSecureMessage on a chunk that completes no message.
HandleChunk ==
    LET m == Head(toServer) IN
    /\ Split("MSG")
    /\ ChecksToken(m)
    /\ \/ m.chunk = "abort" /\ Reset /\ Taken
       \/ /\ m.chunk = "intermediate"
          /\ ~TooMany
          /\ incoming' = Append(incoming, m.of)
          /\ Taken
       \/ m.chunk = "intermediate" /\ TooMany /\ UNCHANGED incoming /\ Closes("size")
       \/ m.chunk = "final" /\ TooMany /\ Reset /\ Closes("size")
    /\ UNCHANGED <<nextTokenID, expired, sendSequence, job, writeMu, odd, skipped, outOfOrder,
                   torn>>

\* The chunks of one message, in order and none missing, within the limit.
Whole(chunks) ==
    /\ MaxChunkCount # 0 => Len(chunks) <= MaxChunkCount
    /\ \A k \in DOMAIN chunks : chunks[k] = <<chunks[1][1], k>>

\* handleSecureMessage on the chunk that completes a message. What cannot be decoded
\* ends the connection; a Publish is held, or refused when one is held already;
\* anything else the loop answers. The token of the answer is fixed here.
HandleFinal ==
    LET m == Head(toServer)
        whole == Append(incoming, m.of)
    IN
    /\ Split("MSG")
    /\ ChecksToken(m)
    /\ m.chunk = "final"
    /\ ~TooMany
    /\ incoming' = <<>>
    /\ IF \E k \in DOMAIN whole : whole[k] = NoPart
       THEN Closes("protocol") /\ UNCHANGED <<job, torn>>
       ELSE /\ Taken
            /\ torn' = (torn \/ ~Whole(whole))
            /\ \/ Reply("loop", "MSG", channel.current)
               \/ /\ job["publish"].at = "idle"
                  /\ job' = [job EXCEPT !["publish"].at = "held",
                                        !["publish"].token = channel.current]
    /\ UNCHANGED <<nextTokenID, expired, sendSequence, writeMu, odd, skipped, outOfOrder>>

\* The subscription has something to report, or the session has ended.
PublishReady ==
    /\ job["publish"].at = "held"
    /\ Reply("publish", "MSG", job["publish"].token)
    /\ UNCHANGED <<registryVars, conn, receiveSequence, sendSequence, incoming, writeMu,
                   wireVars, client, historyVars>>

\* The wait of a Publish ends with its connection, and there is nobody to tell.
PublishDropped ==
    /\ conn = "closed"
    /\ job["publish"].at = "held"
    /\ job' = [job EXCEPT !["publish"] = Idle]
    /\ UNCHANGED <<registryVars, conn, receiveSequence, sendSequence, incoming, writeMu,
                   wireVars, client, historyVars>>

\* The read deadline passes, the client has gone, or the listener is closed.
ReadFails ==
    /\ conn # "closed"
    /\ job["loop"].at = "idle"
    /\ Closes("read")
    /\ UNCHANGED <<registryVars, receiveSequence, sendSequence, incoming, job, writeMu, odd,
                   newest, skipped, outOfOrder, torn>>

-----------------------------------------------------------------------------
(* writeSecureMessage *)

\* Mutation: the number is taken before the lock.
TakesNumberUnlocked(w) ==
    /\ job[w].at = "ready"
    /\ sendSequence' = Following(sendSequence)
    /\ job' = [job EXCEPT ![w].at = "writing", ![w].number = Following(sendSequence)]
    /\ UNCHANGED <<registryVars, conn, receiveSequence, incoming, writeMu, wireVars, client,
                   historyVars>>

\* The lock is taken and the number assigned.
TakesNumber(w) ==
    /\ job[w].at = "ready"
    /\ writeMu = Nobody
    /\ writeMu' = w
    /\ sendSequence' = Following(sendSequence)
    /\ job' = [job EXCEPT ![w].at = "writing", ![w].number = Following(sendSequence)]
    /\ UNCHANGED <<registryVars, conn, receiveSequence, incoming, wireVars, client,
                   historyVars>>

Released(w) ==
    /\ writeMu' = Nobody
    /\ job' = [job EXCEPT ![w] = Idle]

\* The message is written.
Writes(w) ==
    /\ job[w].at = "writing"
    /\ conn # "closed"
    /\ Len(toClient) < MaxInFlight
    /\ toClient' = Append(toClient, [kind |-> job[w].kind, token |-> job[w].token,
                                     number |-> job[w].number])
    /\ Released(w)
    /\ UNCHANGED <<registryVars, conn, receiveSequence, sendSequence, incoming, toServer,
                   client, historyVars>>

\* The response is larger than the client accepts, or it cannot be written. The read
\* loop gives the connection up; the Publish goroutine ignores the error.
WriteFails(w) ==
    /\ job[w].at = "writing"
    /\ job[w].kind = "MSG" \/ conn = "closed" \/ Len(toClient) = MaxInFlight
    /\ Released(w)
    /\ IF w = "loop"
       THEN Closes("write") /\ UNCHANGED skipped
       ELSE skipped' = TRUE /\ UNCHANGED endVars
    /\ UNCHANGED <<registryVars, receiveSequence, sendSequence, incoming, odd, newest,
                   outOfOrder, torn>>

-----------------------------------------------------------------------------
(* The client (external) *)

Chunk(kind, chunk, token, n, of) ==
    [kind |-> kind, chunk |-> chunk, token |-> token, number |-> n, of |-> of]

Sends(m) ==
    /\ Len(toServer) < MaxInFlight
    /\ toServer' = Append(toServer, m)

\* The numbers the protocol lets a sender use next; the first is free.
Numbers(last) ==
    IF last = NotStarted THEN FirstNumbers
    ELSE {n \in 0 .. LastNumber : n = last + 1 \/ (last > WrapFloor /\ n < WrapBelow)}

\* What the client is once it has asked for a channel, for a renewal, or sent a chunk.
Opening(n) == [client EXCEPT !.phase = "opening", !.number = n]
Renewing(n) == [client EXCEPT !.renewing = TRUE, !.number = n]
Sending(chunk, message, part, n) ==
    [client EXCEPT !.message = message, !.number = n,
                   !.part = IF chunk = "intermediate" THEN part ELSE 0]

ClientHello ==
    /\ client.phase = "new"
    /\ Sends(Chunk("HEL", "final", 0, 0, NoPart))
    /\ client' = [client EXCEPT !.phase = "greeting"]
    /\ UNCHANGED <<registryVars, serverVars, toClient, historyVars>>

ClientOpens ==
    /\ client.phase = "greeted"
    /\ \E n \in Numbers(client.number) :
          /\ Sends(Chunk("ISSUE", "final", 0, n, NoPart))
          /\ client' = Opening(n)
    /\ UNCHANGED <<registryVars, serverVars, toClient, historyVars>>

ClientRenews ==
    /\ client.phase = "open"
    /\ ~client.renewing
    /\ \E n \in Numbers(client.number) :
          /\ Sends(Chunk("RENEW", "final", 0, n, NoPart))
          /\ client' = Renewing(n)
    /\ UNCHANGED <<registryVars, serverVars, toClient, historyVars>>

\* The next chunk of a message, under a token that is still good when it is sent.
ClientSends(chunk) ==
    LET part == client.part + 1
        message == IF part = 1 THEN client.message + 1 ELSE client.message
    IN
    /\ client.phase = "open"
    /\ client.using \notin expired
    /\ message <= MaxMessages
    /\ chunk = "abort" => part > 1
    /\ chunk = "intermediate" => MaxChunkCount = 0 \/ part < MaxChunkCount
    /\ \E n \in Numbers(client.number) :
          /\ Sends(Chunk("MSG", chunk, client.using, n, <<message, part>>))
          /\ client' = Sending(chunk, message, part, n)
    /\ UNCHANGED <<registryVars, serverVars, toClient, historyVars>>

ClientCloses ==
    /\ client.phase = "open"
    /\ client.using \notin expired
    /\ \E n \in Numbers(client.number) : Sends(Chunk("CLO", "final", client.using, n, NoPart))
    /\ client' = Client("gone")
    /\ UNCHANGED <<registryVars, serverVars, toClient, historyVars>>

\* A message out of protocol: malformed, out of turn, one chunk too long, under
\* a token of the client's choice, or with a number sent before.
ClientErrs ==
    /\ client.phase # "gone"
    /\ ~odd
    /\ odd' = TRUE
    /\ \/ /\ \E kind \in {"BAD", "HEL"} : Sends(Chunk(kind, "final", 0, 0, NoPart))
          /\ UNCHANGED client
       \/ \E t \in 0 .. nextTokenID, chunk \in {"intermediate", "final"},
             of \in {NoPart, <<client.message, client.part + 1>>},
             n \in Numbers(client.number) \cup ({client.number} \ {NotStarted}) :
          /\ Sends(Chunk("MSG", chunk, t, n, of))
          /\ client' = [client EXCEPT !.number = n]
    /\ UNCHANGED <<registryVars, serverVars, toClient, newest, refused, skipped, outOfOrder,
                   torn>>

\* A response arrives; one whose number does not follow ends the client.
ClientReceives ==
    LET m == Head(toClient)
        follows == m.kind = "ACK" \/ Accepts(client.seen, m.number)
    IN
    /\ client.phase # "gone"
    /\ toClient # <<>>
    /\ toClient' = Tail(toClient)
    /\ outOfOrder' = (outOfOrder \/ ~follows)
    /\ client' = CASE ~follows -> Client("gone")
                   [] follows /\ m.kind = "ACK" -> [client EXCEPT !.phase = "greeted"]
                   [] follows /\ m.kind = "OPN" -> [client EXCEPT !.phase = "open",
                          !.using = m.token, !.renewing = FALSE, !.seen = m.number]
                   [] follows /\ m.kind = "MSG" -> [client EXCEPT !.seen = m.number]
    /\ UNCHANGED <<registryVars, serverVars, toServer, odd, newest, refused, skipped, torn>>

-----------------------------------------------------------------------------

ClientStep ==
    \/ ClientHello \/ ClientOpens \/ ClientRenews \/ ClientCloses
    \/ ClientErrs \/ ClientReceives
    \/ \E chunk \in {"intermediate", "final", "abort"} : ClientSends(chunk)

LoopStep ==
    \/ HandleRefused \/ HandleHello \/ HandleUnsplit \/ HandleIssue
    \/ HandleRenew \/ RenewToken \/ HandleClose \/ HandleChunk \/ HandleFinal

Next ==
    \/ ClientStep \/ LoopStep \/ ReadFails \/ PublishReady \/ PublishDropped
    \/ \E w \in Writers : TakesNumber(w) \/ Writes(w) \/ WriteFails(w)
    \/ \E t \in 1 .. MaxTokens : Expire(t)
    \/ ExpireStale

Spec == Init /\ [][Next]_vars

\* Lifetimes end, and the housekeeping tick comes round.
FairSpec ==
    /\ Spec
    /\ \A t \in 1 .. MaxTokens : WF_vars(Expire(t))
    /\ WF_vars(ExpireStale)

-----------------------------------------------------------------------------
(* Properties *)

\* Tokens only advance: once a message was accepted under a token, no older token
\* of the channel is acceptable again ("Accepting the new token retires the
\* previous one"), whatever renewals and messages cross on the wire.
TokensAdvance ==
    Open => \A t \in {channel.current, channel.previous} \ {0} : t >= newest

\* A client that follows the protocol is never cut off: "a client that is still
\* finishing the renewal" keeps its old token, its sequence numbers are accepted
\* over their wrap, and the only token refused to it has expired on the way.
ConformingServed == ~odd => refused \notin {"token", "sequence", "protocol", "size"}

\* What handleSecureMessage dispatches for a client that keeps to the protocol is
\* one message within the announced limit, whole, with nothing of one that was
\* aborted before it.
MessagesWhole == ~odd => ~torn

\* The responses of the read loop and of a held Publish reach the client with
\* numbers that follow each other, over the wrap too, unless a response of a
\* Publish failed after it was given its number.
ResponsesFollow == outOfOrder => skipped

\* In both directions of a connection a conforming peer gets whole messages in
\* their order (handleSecureMessage, writeResponse).
MessagesInOrder == MessagesWhole /\ ResponsesFollow

\* ExpireStale: "a peer cannot hold slots by going silent".
SilentChannelsReclaimed == client.phase = "gone" /\ Open ~> ~Open

=============================================================================
