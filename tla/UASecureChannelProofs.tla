----------------------- MODULE UASecureChannelProofs -----------------------
(***************************************************************************)
(* Proofs about UASecureChannel, for every limit, every number of tokens   *)
(* and messages and every place of the wrap.                               *)
(***************************************************************************)
EXTENDS UASecureChannel, TLAPS

-----------------------------------------------------------------------------
(* Types *)

Requests ==
    [kind : {"HEL", "BAD", "ISSUE", "RENEW", "MSG", "CLO"},
     chunk : {"intermediate", "final", "abort"},
     token : Nat, number : 0 .. LastNumber, of : Nat \X Nat]

Responses == [kind : {"ACK", "OPN", "MSG"}, token : Nat, number : 0 .. LastNumber]

Clients ==
    [phase : {"new", "greeting", "greeted", "opening", "open", "gone"},
     using : Nat, renewing : BOOLEAN, number : 0 .. LastNumber + 1,
     seen : 0 .. LastNumber + 1, part : Nat, message : Nat]

Jobs ==
    [at : {"idle", "renew", "held", "ready", "writing"}, kind : {"MSG", "OPN"},
     token : Nat, number : 0 .. LastNumber]

ServerTypeOK ==
    /\ channel \in [state : {"none", "open", "gone"}, current : Nat, previous : Nat]
    /\ nextTokenID \in Nat
    /\ conn \in {"fresh", "negotiated", "closed"}
    /\ receiveSequence \in 0 .. LastNumber + 1
    /\ sendSequence \in 0 .. LastNumber + 1
    /\ job \in [Writers -> Jobs]
    /\ writeMu \in Writers \cup {Nobody}

WireTypeOK ==
    /\ toServer \in Seq(Requests)
    /\ toClient \in Seq(Responses)
    /\ client \in Clients

\* Every variable keeps its type.
ChannelTypeOK == ServerTypeOK /\ WireTypeOK

\* SequenceValidator.Next always gives a number of the wire.
LEMMA FollowingType ==
  ASSUME NEW n \in 0 .. LastNumber + 1
  PROVE  Following(n) \in 0 .. LastNumber
BY ChannelAssumption DEF Following, NotStarted

\* What a validator gives next, the validator of the other side accepts, over the
\* wrap too: SequenceValidator.Next against SequenceValidator.Accept.
LEMMA FollowingAccepted ==
  ASSUME NEW n \in 0 .. LastNumber + 1
  PROVE  Accepts(n, Following(n))
<1>1. CASE n = NotStarted
  BY <1>1 DEF Accepts
<1>2. CASE n # NotStarted /\ n > WrapFloor
  BY <1>2, ChannelAssumption DEF Accepts, Following
<1>3. CASE n # NotStarted /\ ~(n > WrapFloor)
  <2>1. Following(n) = n + 1
    BY <1>3 DEF Following
  <2>2. n + 1 \in 0 .. LastNumber /\ n + 1 # 0
    BY <1>3, ChannelAssumption DEF NotStarted
  <2>3. (n + 1) % (LastNumber + 1) = n + 1
    BY <2>2, ChannelAssumption
  <2> QED BY <2>1, <2>2, <2>3 DEF Accepts
<1> QED BY <1>1, <1>2, <1>3

\* A number the protocol lets a sender use next is one that
\* SequenceValidator.Accept takes.
LEMMA NumbersAccepted ==
  ASSUME NEW last \in 0 .. LastNumber + 1, NEW n \in Numbers(last)
  PROVE  n \in 0 .. LastNumber /\ Accepts(last, n)
<1>1. CASE last = NotStarted
  BY <1>1, ChannelAssumption DEF Numbers, Accepts
<1>2. CASE last # NotStarted
  <2>1. n \in 0 .. LastNumber /\ (n = last + 1 \/ (last > WrapFloor /\ n < WrapBelow))
    BY <1>2 DEF Numbers
  <2>2. CASE n = last + 1
    <3>1. (last + 1) % (LastNumber + 1) = last + 1
      BY <2>1, <2>2, ChannelAssumption
    <3> QED BY <2>1, <2>2, <3>1, ChannelAssumption DEF Accepts
  <2> QED BY <2>1, <2>2 DEF Accepts
<1> QED BY <1>1, <1>2

\* What the client is after its connection ended is a client.
LEMMA ClientType ==
  ASSUME NEW phase \in {"new", "gone"}
  PROVE  Client(phase) \in Clients /\ Client(phase).phase = phase
BY ChannelAssumption DEF Client, Clients, NotStarted

\* The end of a connection leaves queues and client typed.
LEMMA ClosesType ==
  ASSUME NEW why, Closes(why)
  PROVE  WireTypeOK' /\ conn' = "closed" /\ client'.phase = "gone"
BY ClientType DEF Closes, WireTypeOK

\* The types hold initially.
LEMMA TypeInit == Init => ChannelTypeOK
<1> SUFFICES ASSUME Init PROVE ChannelTypeOK
  OBVIOUS
<1>1. Idle \in Jobs
  BY ChannelAssumption DEF Idle, Jobs
<1>2. ServerTypeOK
  BY <1>1, ChannelAssumption DEF Init, ServerTypeOK, NotStarted
<1>3. WireTypeOK
  BY ClientType DEF Init, WireTypeOK
<1> QED BY <1>2, <1>3 DEF ChannelTypeOK

\* A message the client sends leaves the wire typed.
LEMMA SendsType ==
  ASSUME WireTypeOK, NEW m \in Requests, Sends(m)
  PROVE  toServer' \in Seq(Requests)
BY DEF WireTypeOK, Sends

\* Taking a request off the wire leaves the wire typed.
LEMMA TakenType ==
  ASSUME WireTypeOK, toServer # <<>>
  PROVE  /\ Head(toServer) \in Requests
         /\ Tail(toServer) \in Seq(Requests)
         /\ Len(Tail(toServer)) = Len(toServer) - 1
         /\ \A k \in 1 .. Len(Tail(toServer)) : Tail(toServer)[k] = toServer[k + 1]
         /\ Head(toServer) = toServer[1]
BY DEF WireTypeOK

\* Taking a response off the wire leaves the wire typed.
LEMMA ReceivedType ==
  ASSUME WireTypeOK, toClient # <<>>
  PROVE  /\ Head(toClient) \in Responses
         /\ Tail(toClient) \in Seq(Responses)
         /\ Len(Tail(toClient)) = Len(toClient) - 1
         /\ \A k \in 1 .. Len(Tail(toClient)) : Tail(toClient)[k] = toClient[k + 1]
         /\ Head(toClient) = toClient[1]
BY DEF WireTypeOK

\* The steps of the client keep the types.
LEMMA TypeClient ==
  ASSUME ChannelTypeOK, ClientStep
  PROVE  ChannelTypeOK'
<1> USE DEF ChannelTypeOK
<1>0. ServerTypeOK'
  <2>1. UNCHANGED <<registryVars, serverVars>>
    BY DEF ClientStep, ClientHello, ClientOpens, ClientRenews, ClientCloses, ClientErrs,
           ClientReceives, ClientSends
  <2> QED BY <2>1 DEF ServerTypeOK, registryVars, serverVars
<1>1. CASE ClientHello
  <2>1. Chunk("HEL", "final", 0, 0, NoPart) \in Requests
    BY ChannelAssumption DEF Chunk, Requests, NoPart
  <2>2. client' \in Clients /\ toClient' = toClient
    BY <1>1 DEF ClientHello, WireTypeOK, Clients
  <2> QED BY <1>0, <1>1, <2>1, <2>2, SendsType DEF ClientHello, WireTypeOK
<1>2. CASE ClientOpens \/ ClientRenews
  <2>1. PICK n \in Numbers(client.number), kind \in {"ISSUE", "RENEW"} :
          Sends(Chunk(kind, "final", 0, n, NoPart))
    BY <1>2 DEF ClientOpens, ClientRenews
  <2>2. client.number \in 0 .. LastNumber + 1
    BY DEF WireTypeOK, Clients
  <2>3. Chunk(kind, "final", 0, n, NoPart) \in Requests
    BY <2>1, <2>2, NumbersAccepted DEF Chunk, Requests, NoPart
  <2>4. \A x \in 0 .. LastNumber : x \in 0 .. LastNumber + 1
    BY ChannelAssumption
  <2>5. client' \in Clients /\ toClient' = toClient
    <3>1. CASE ClientOpens
      <4>1. PICK x \in Numbers(client.number) :
              client' = Opening(x)
        BY <3>1 DEF ClientOpens
      <4>2. x \in 0 .. LastNumber + 1
        BY <2>2, <2>4, NumbersAccepted
      <4> QED BY <3>1, <4>1, <4>2 DEF ClientOpens, Opening, WireTypeOK, Clients
    <3>2. CASE ClientRenews
      <4>1. PICK x \in Numbers(client.number) :
              client' = Renewing(x)
        BY <3>2 DEF ClientRenews
      <4>2. x \in 0 .. LastNumber + 1
        BY <2>2, <2>4, NumbersAccepted
      <4> QED BY <3>2, <4>1, <4>2 DEF ClientRenews, Renewing, WireTypeOK, Clients
    <3> QED BY <1>2, <3>1, <3>2
  <2> QED BY <1>0, <2>1, <2>3, <2>5, SendsType DEF WireTypeOK
<1>3. CASE ClientCloses
  <2>1. PICK n \in Numbers(client.number) :
          Sends(Chunk("CLO", "final", client.using, n, NoPart))
    BY <1>3 DEF ClientCloses
  <2>2. Chunk("CLO", "final", client.using, n, NoPart) \in Requests
    BY NumbersAccepted DEF Chunk, Requests, NoPart, WireTypeOK, Clients
  <2>3. client' \in Clients /\ toClient' = toClient
    BY <1>3, ClientType DEF ClientCloses
  <2> QED BY <1>0, <2>1, <2>2, <2>3, SendsType DEF WireTypeOK
<1>4. CASE ClientErrs
  <2>0. toClient' = toClient
    BY <1>4 DEF ClientErrs
  <2>1. CASE /\ \E kind \in {"BAD", "HEL"} : Sends(Chunk(kind, "final", 0, 0, NoPart))
             /\ UNCHANGED client
    <3>1. \A kind \in {"BAD", "HEL"} : Chunk(kind, "final", 0, 0, NoPart) \in Requests
      BY ChannelAssumption DEF Chunk, Requests, NoPart
    <3> QED BY <1>0, <2>0, <2>1, <3>1, SendsType DEF WireTypeOK
  <2>2. CASE \E t \in 0 .. nextTokenID, chunk \in {"intermediate", "final"},
                of \in {NoPart, <<client.message, client.part + 1>>},
                n \in Numbers(client.number) \cup ({client.number} \ {NotStarted}) :
               /\ Sends(Chunk("MSG", chunk, t, n, of))
               /\ client' = [client EXCEPT !.number = n]
    <3>1. PICK t \in 0 .. nextTokenID, chunk \in {"intermediate", "final"},
               of \in {NoPart, <<client.message, client.part + 1>>},
               n \in Numbers(client.number) \cup ({client.number} \ {NotStarted}) :
               /\ Sends(Chunk("MSG", chunk, t, n, of))
               /\ client' = [client EXCEPT !.number = n]
      BY <2>2
    <3>2. client.number \in 0 .. LastNumber + 1 /\ client.message \in Nat /\ client.part \in Nat
      BY DEF WireTypeOK, Clients
    <3>3. n \in 0 .. LastNumber
      <4>1. CASE n \in Numbers(client.number)
        BY <3>2, <4>1, NumbersAccepted
      <4>2. CASE n = client.number /\ n # NotStarted
        BY <3>2, <4>2, ChannelAssumption DEF NotStarted
      <4> QED BY <4>1, <4>2
    <3>4. of \in Nat \X Nat /\ t \in Nat
      BY <3>2 DEF NoPart, ServerTypeOK
    <3>5. Chunk("MSG", chunk, t, n, of) \in Requests
      BY <3>3, <3>4 DEF Chunk, Requests
    <3>6. client' \in Clients
      <4>1. n \in 0 .. LastNumber + 1
        BY <3>3, ChannelAssumption
      <4>2. client' = [client EXCEPT !.number = n]
        BY <3>1
      <4> QED BY <4>1, <4>2 DEF WireTypeOK, Clients
    <3> QED BY <1>0, <2>0, <3>1, <3>5, <3>6, SendsType DEF WireTypeOK
  <2> QED BY <1>4, <2>1, <2>2 DEF ClientErrs
<1>5. CASE ClientReceives
  <2>1. toClient # <<>> /\ toClient' = Tail(toClient) /\ toServer' = toServer
    BY <1>5 DEF ClientReceives
  <2>2. /\ Head(toClient) \in Responses
        /\ toClient' \in Seq(Responses)
    BY <2>1, ReceivedType
  <2>3. Head(toClient).number \in 0 .. LastNumber + 1 /\ Head(toClient).token \in Nat
        /\ Head(toClient).kind \in {"ACK", "OPN", "MSG"}
    BY <2>2, ChannelAssumption DEF Responses
  <2>4. client' \in Clients
    BY <1>5, <2>3, ClientType DEF ClientReceives, WireTypeOK, Clients
  <2> QED BY <1>0, <2>1, <2>2, <2>4 DEF WireTypeOK
<1>6. ASSUME NEW chunk \in {"intermediate", "final", "abort"}, ClientSends(chunk)
      PROVE  ChannelTypeOK'
  <2> DEFINE part == client.part + 1
             message == IF part = 1 THEN client.message + 1 ELSE client.message
  <2>1. PICK n \in Numbers(client.number) :
          /\ Sends(Chunk("MSG", chunk, client.using, n, <<message, part>>))
          /\ client' = Sending(chunk, message, part, n)
    BY <1>6 DEF ClientSends
  <2>2. part \in Nat /\ message \in Nat /\ client.using \in Nat
        /\ client.number \in 0 .. LastNumber + 1
    BY DEF WireTypeOK, Clients
  <2>3. n \in 0 .. LastNumber /\ n \in 0 .. LastNumber + 1
    BY <2>2, NumbersAccepted, ChannelAssumption
  <2> HIDE DEF part, message
  <2>4. Chunk("MSG", chunk, client.using, n, <<message, part>>) \in Requests
    BY <2>2, <2>3 DEF Chunk, Requests
  <2>5. client' \in Clients
    BY <2>1, <2>2, <2>3 DEF Sending, WireTypeOK, Clients
  <2>6. toClient' = toClient
    BY <1>6 DEF ClientSends
  <2> QED BY <1>0, <2>1, <2>4, <2>5, <2>6, SendsType DEF WireTypeOK
<1> QED BY <1>1, <1>2, <1>3, <1>4, <1>5, <1>6 DEF ClientStep

\* What the token check of splitSecureMessage leaves is a channel.
LEMMA ChecksTokenType ==
  ASSUME ServerTypeOK, NEW m, ChecksToken(m)
  PROVE  channel' \in [state : {"none", "open", "gone"}, current : Nat, previous : Nat]
BY DEF ServerTypeOK, ChecksToken, AcceptToken

\* What the read loop has before it is a request, and taking it keeps the types.
LEMMA ReadsType ==
  ASSUME WireTypeOK, NEW kinds, Reads(kinds)
  PROVE  /\ toServer # <<>> /\ Head(toServer) \in Requests
         /\ Head(toServer).number \in 0 .. LastNumber + 1
         /\ Taken => WireTypeOK'
<1>1. toServer # <<>>
  BY DEF Reads
<1>2. Head(toServer) \in Requests /\ Tail(toServer) \in Seq(Requests)
  BY <1>1, TakenType
<1>3. Head(toServer).number \in 0 .. LastNumber + 1
  BY <1>2, ChannelAssumption DEF Requests
<1> QED BY <1>1, <1>2, <1>3 DEF Taken, WireTypeOK

\* A response to write is a job.
LEMMA ReplyType ==
  ASSUME job \in [Writers -> Jobs], NEW w \in Writers, NEW kind \in {"MSG", "OPN"},
         NEW token \in Nat, Reply(w, kind, token)
  PROVE  /\ job' \in [Writers -> Jobs]
         /\ job'[w] = [at |-> "ready", kind |-> kind, token |-> token, number |-> 0]
         /\ \A v \in Writers \ {w} : job'[v] = job[v]
<1>1. [at |-> "ready", kind |-> kind, token |-> token, number |-> 0] \in Jobs
  BY ChannelAssumption DEF Jobs
<1> QED BY <1>1 DEF Reply

\* The steps of the read loop keep the types.
LEMMA TypeLoop ==
  ASSUME ChannelTypeOK, LoopStep
  PROVE  ChannelTypeOK'
<1> USE DEF ChannelTypeOK
<1>1. CASE HandleRefused
  <2>1. Closes("protocol")
    BY <1>1 DEF HandleRefused
  <2>2. WireTypeOK' /\ conn' = "closed"
    BY <2>1, ClosesType
  <2> QED BY <1>1, <2>2 DEF HandleRefused, ServerTypeOK, registryVars
<1>2. CASE HandleHello
  <2>1. toServer # <<>> /\ Tail(toServer) \in Seq(Requests)
    BY <1>2, TakenType DEF HandleHello, Reads
  <2>2. [kind |-> "ACK", token |-> 0, number |-> 0] \in Responses
    BY ChannelAssumption DEF Responses
  <2>3. WireTypeOK'
    BY <1>2, <2>1, <2>2 DEF HandleHello, WireTypeOK
  <2> QED BY <1>2, <2>3 DEF HandleHello, ServerTypeOK, registryVars
<1>3. CASE HandleUnsplit
  <2>1. WireTypeOK' /\ conn' = "closed"
    BY <1>3, ClosesType DEF HandleUnsplit
  <2>2. channel' \in [state : {"none", "open", "gone"}, current : Nat, previous : Nat]
    BY <1>3, ChecksTokenType DEF HandleUnsplit
  <2> QED BY <1>3, <2>1, <2>2 DEF HandleUnsplit, ServerTypeOK
<1>4. CASE HandleIssue
  <2>1. Reads({"ISSUE"}) /\ receiveSequence' = Head(toServer).number
    BY <1>4 DEF HandleIssue, Split
  <2>2. receiveSequence' \in 0 .. LastNumber + 1 /\ (Taken => WireTypeOK')
    BY <2>1, ReadsType
  <2>3. PICK others \in 0 .. MaxChannels :
           IF others >= MaxChannels
           THEN Closes("resources") /\ UNCHANGED <<channel, nextTokenID, job>>
           ELSE /\ nextTokenID' = nextTokenID + 1
                /\ channel' = [state |-> "open", current |-> nextTokenID + 1, previous |-> 0]
                /\ Taken
                /\ Reply("loop", "OPN", nextTokenID + 1)
    BY <1>4 DEF HandleIssue
  <2>4. CASE Closes("resources") /\ UNCHANGED <<channel, nextTokenID, job>>
    BY <1>4, <2>2, <2>4, ClosesType DEF HandleIssue, ServerTypeOK
  <2>5. CASE /\ nextTokenID' = nextTokenID + 1
             /\ channel' = [state |-> "open", current |-> nextTokenID + 1, previous |-> 0]
             /\ Taken
             /\ Reply("loop", "OPN", nextTokenID + 1)
    <3>1. job' \in [Writers -> Jobs]
      <4>1. "loop" \in Writers /\ nextTokenID + 1 \in Nat /\ job \in [Writers -> Jobs]
        BY DEF ServerTypeOK, Writers
      <4> QED BY <2>5, <4>1, ReplyType
    <3> QED BY <1>4, <2>2, <2>5, <3>1 DEF HandleIssue, ServerTypeOK, Taken
  <2> QED BY <2>3, <2>4, <2>5
<1>5. CASE HandleRenew
  <2>1. Reads({"RENEW"}) /\ receiveSequence' = Head(toServer).number
    BY <1>5 DEF HandleRenew, Split
  <2>2. receiveSequence' \in 0 .. LastNumber + 1 /\ (Taken => WireTypeOK')
    BY <2>1, ReadsType
  <2>3. CASE Taken /\ job' = [job EXCEPT !["loop"].at = "renew"]
    <3>1. job' \in [Writers -> Jobs]
      BY <2>3 DEF ServerTypeOK, Writers, Jobs
    <3> QED BY <1>5, <2>2, <2>3, <3>1 DEF HandleRenew, ServerTypeOK, Taken, registryVars
  <2>4. CASE Closes("closed") /\ UNCHANGED job
    BY <1>5, <2>2, <2>4, ClosesType DEF HandleRenew, ServerTypeOK, registryVars
  <2> QED BY <1>5, <2>3, <2>4 DEF HandleRenew
<1>6. CASE RenewToken
  <2>1. CASE Open
    <3>1. Reply("loop", "OPN", nextTokenID + 1) /\ channel' = Renew
          /\ nextTokenID' = nextTokenID + 1 /\ UNCHANGED endVars
      BY <1>6, <2>1 DEF RenewToken
    <3>2. "loop" \in Writers /\ nextTokenID + 1 \in Nat /\ job \in [Writers -> Jobs]
      BY DEF ServerTypeOK, Writers
    <3>3. job' \in [Writers -> Jobs]
      BY <3>1, <3>2, ReplyType
    <3>4. channel' \in [state : {"none", "open", "gone"}, current : Nat, previous : Nat]
      <4>1. channel' = [channel EXCEPT !.previous = channel.current,
                                       !.current = nextTokenID + 1]
        BY <3>1 DEF Renew
      <4> QED BY <3>2, <4>1 DEF ServerTypeOK
    <3> QED BY <1>6, <3>1, <3>3, <3>4
        DEF RenewToken, ServerTypeOK, WireTypeOK, endVars, wireVars
  <2>2. CASE ~Open
    <3>1. WireTypeOK' /\ conn' = "closed"
      BY <1>6, <2>2, ClosesType DEF RenewToken
    <3>2. job' \in [Writers -> Jobs]
      BY <1>6, <2>2, ChannelAssumption DEF RenewToken, ServerTypeOK, Idle, Jobs, Writers
    <3> QED BY <1>6, <2>2, <3>1, <3>2 DEF RenewToken, ServerTypeOK
  <2> QED BY <2>1, <2>2
<1>7. CASE HandleClose
  <2>1. Reads({"CLO"}) /\ receiveSequence' = Head(toServer).number
    BY <1>7 DEF HandleClose, Split
  <2>2. receiveSequence' \in 0 .. LastNumber + 1
    BY <2>1, ReadsType
  <2>3. WireTypeOK' /\ conn' = "closed"
    BY <1>7, ClosesType DEF HandleClose
  <2> QED BY <1>7, <2>2, <2>3 DEF HandleClose, ServerTypeOK
<1>8. CASE HandleChunk
  <2>1. Reads({"MSG"}) /\ receiveSequence' = Head(toServer).number
    BY <1>8 DEF HandleChunk, Split
  <2>2. receiveSequence' \in 0 .. LastNumber + 1 /\ (Taken => WireTypeOK')
    BY <2>1, ReadsType
  <2>3. channel' \in [state : {"none", "open", "gone"}, current : Nat, previous : Nat]
    BY <1>8, ChecksTokenType DEF HandleChunk
  <2>4. Taken \/ Closes("size")
    BY <1>8 DEF HandleChunk
  <2> QED BY <1>8, <2>2, <2>3, <2>4, ClosesType DEF HandleChunk, ServerTypeOK, Taken
<1>9. CASE HandleFinal
  <2>1. Reads({"MSG"}) /\ receiveSequence' = Head(toServer).number
    BY <1>9 DEF HandleFinal, Split
  <2>2. receiveSequence' \in 0 .. LastNumber + 1 /\ (Taken => WireTypeOK')
    BY <2>1, ReadsType
  <2>3. channel' \in [state : {"none", "open", "gone"}, current : Nat, previous : Nat]
    BY <1>9, ChecksTokenType DEF HandleFinal
  <2>4. \/ Closes("protocol") /\ UNCHANGED job
        \/ Taken /\ Reply("loop", "MSG", channel.current)
        \/ Taken /\ job' = [job EXCEPT !["publish"].at = "held",
                                       !["publish"].token = channel.current]
    BY <1>9 DEF HandleFinal
  <2>5. job' \in [Writers -> Jobs]
    <3>1. CASE Reply("loop", "MSG", channel.current)
      BY <3>1, ReplyType DEF ServerTypeOK, Writers
    <3>2. CASE job' = [job EXCEPT !["publish"].at = "held",
                                  !["publish"].token = channel.current]
      BY <3>2 DEF ServerTypeOK, Writers, Jobs
    <3> QED BY <2>4, <3>1, <3>2 DEF ServerTypeOK
  <2> QED BY <1>9, <2>2, <2>3, <2>4, <2>5, ClosesType DEF HandleFinal, ServerTypeOK, Taken
<1> QED BY <1>1, <1>2, <1>3, <1>4, <1>5, <1>6, <1>7, <1>8, <1>9 DEF LoopStep

\* Every other step keeps the types.
LEMMA TypeRest ==
  ASSUME ChannelTypeOK,
         \/ ReadFails \/ PublishReady \/ PublishDropped \/ ExpireStale
         \/ \E w \in Writers : TakesNumber(w) \/ Writes(w) \/ WriteFails(w)
         \/ \E t \in 1 .. MaxTokens : Expire(t)
  PROVE  ChannelTypeOK'
<1> USE DEF ChannelTypeOK
<1>0. Idle \in Jobs
  BY ChannelAssumption DEF Idle, Jobs
<1>1. CASE ReadFails
  BY <1>1, ClosesType DEF ReadFails, ServerTypeOK, registryVars
<1>2. CASE PublishReady
  <2>1. job["publish"].token \in Nat
    BY DEF ServerTypeOK, Writers, Jobs
  <2>2. job' \in [Writers -> Jobs]
    BY <1>2, <2>1, ReplyType DEF PublishReady, ServerTypeOK, Writers
  <2> QED BY <1>2, <2>2 DEF PublishReady, ServerTypeOK, WireTypeOK, registryVars, wireVars
<1>3. CASE PublishDropped
  BY <1>0, <1>3 DEF PublishDropped, ServerTypeOK, WireTypeOK, registryVars, wireVars
<1>4. CASE ExpireStale
  BY <1>4 DEF ExpireStale, ServerTypeOK, WireTypeOK, serverVars, wireVars
<1>5. ASSUME NEW t, Expire(t)
      PROVE  ChannelTypeOK'
  BY <1>5 DEF Expire, ServerTypeOK, WireTypeOK, serverVars, wireVars
<1>6. ASSUME NEW w \in Writers, TakesNumber(w)
      PROVE  ChannelTypeOK'
  <2>1. Following(sendSequence) \in 0 .. LastNumber
        /\ Following(sendSequence) \in 0 .. LastNumber + 1
    BY FollowingType, ChannelAssumption DEF ServerTypeOK
  <2>2. job' \in [Writers -> Jobs]
    BY <1>6, <2>1 DEF TakesNumber, ServerTypeOK, Jobs
  <2> QED BY <1>6, <2>1, <2>2
      DEF TakesNumber, ServerTypeOK, WireTypeOK, registryVars, wireVars
<1>7. ASSUME NEW w \in Writers, Writes(w)
      PROVE  ChannelTypeOK'
  <2>1. [kind |-> job[w].kind, token |-> job[w].token, number |-> job[w].number] \in Responses
    BY DEF Responses, ServerTypeOK, Jobs
  <2>2. toClient' \in Seq(Responses)
    BY <1>7, <2>1 DEF Writes, WireTypeOK
  <2>3. job' \in [Writers -> Jobs] /\ writeMu' \in Writers \cup {Nobody}
    BY <1>0, <1>7 DEF Writes, Released, ServerTypeOK
  <2> QED BY <1>7, <2>2, <2>3 DEF Writes, ServerTypeOK, WireTypeOK, registryVars
<1>8. ASSUME NEW w \in Writers, WriteFails(w)
      PROVE  ChannelTypeOK'
  <2>1. job' \in [Writers -> Jobs] /\ writeMu' \in Writers \cup {Nobody}
    BY <1>0, <1>8 DEF WriteFails, Released, ServerTypeOK
  <2>2. Closes("write") \/ UNCHANGED endVars
    BY <1>8 DEF WriteFails
  <2>3. WireTypeOK' /\ conn' \in {"fresh", "negotiated", "closed"}
    BY <2>2, ClosesType DEF endVars, wireVars, WireTypeOK, ServerTypeOK
  <2> QED BY <1>8, <2>1, <2>3 DEF WriteFails, ServerTypeOK, registryVars
<1> QED BY <1>1, <1>2, <1>3, <1>4, <1>5, <1>6, <1>7, <1>8

\* Every step keeps the types.
LEMMA TypeStep == ChannelTypeOK /\ [Next]_vars => ChannelTypeOK'
<1>1. CASE UNCHANGED vars
  BY <1>1 DEF vars, registryVars, serverVars, wireVars, ChannelTypeOK, ServerTypeOK, WireTypeOK
<1> QED BY <1>1, TypeClient, TypeLoop, TypeRest DEF Next

-----------------------------------------------------------------------------
(* Tokens *)

\* The current token is the last one issued, and the tokens that are remembered are
\* in the order of their use: newest, previous, current.
TokenOrder ==
    /\ newest \in Nat /\ newest <= nextTokenID
    /\ Open => /\ channel.current = nextTokenID /\ nextTokenID > 0
               /\ \/ channel.previous = 0
                  \/ newest <= channel.previous /\ channel.previous < channel.current

\* What AcceptToken leaves behind keeps the order, whichever token was presented.
LEMMA ChecksTokenOrder ==
  ASSUME ChannelTypeOK, TokenOrder, NEW m, ChecksToken(m), UNCHANGED nextTokenID
  PROVE  TokenOrder'
<1> USE DEF ChannelTypeOK, ServerTypeOK, TokenOrder
<1>1. CASE ~Symmetric(m) \/ ~Open
  BY <1>1 DEF ChecksToken, AcceptToken, TokenRefused, Open
<1>2. CASE Symmetric(m) /\ Open
  <2>1. CASE TokenRefused(m.token) = "no"
    <3>1. /\ m.token \in {channel.current, channel.previous} \ {0}
          /\ m.token \notin expired
      BY <1>2, <2>1 DEF TokenRefused
    <3>2. newest' = m.token /\ channel' = AcceptToken(m.token)
      BY <1>2, <2>1 DEF ChecksToken
    <3>3. CASE m.token = channel.current
      BY <1>2, <3>1, <3>2, <3>3 DEF AcceptToken, Open
    <3>4. CASE m.token = channel.previous
      BY <1>2, <3>1, <3>2, <3>4 DEF AcceptToken, Open
    <3> QED BY <3>1, <3>3, <3>4
  <2>2. CASE TokenRefused(m.token) # "no"
    BY <1>2, <2>2 DEF ChecksToken, AcceptToken, Open
  <2> QED BY <2>1, <2>2
<1> QED BY <1>1, <1>2

\* Every step keeps the order of the tokens.
LEMMA TokenStep == ChannelTypeOK /\ TokenOrder /\ [Next]_vars => TokenOrder'
<1> SUFFICES ASSUME ChannelTypeOK, TokenOrder, [Next]_vars
             PROVE  TokenOrder'
  OBVIOUS
<1> USE DEF ChannelTypeOK, ServerTypeOK
<1>1. CASE UNCHANGED <<channel, nextTokenID, newest>>
  BY <1>1 DEF TokenOrder, Open
<1>2. CASE HandleUnsplit \/ HandleChunk \/ HandleFinal
  BY <1>2, ChecksTokenOrder DEF HandleUnsplit, HandleChunk, HandleFinal
<1>3. CASE HandleIssue
  <2>1. UNCHANGED newest
    BY <1>3 DEF HandleIssue
  <2>2. \/ UNCHANGED <<channel, nextTokenID>>
        \/ /\ nextTokenID' = nextTokenID + 1
           /\ channel' = [state |-> "open", current |-> nextTokenID + 1, previous |-> 0]
    BY <1>3 DEF HandleIssue
  <2> QED BY <1>1, <2>1, <2>2 DEF TokenOrder, Open
<1>4. CASE RenewToken
  <2>1. UNCHANGED newest
    BY <1>4 DEF RenewToken
  <2>2. \/ UNCHANGED <<channel, nextTokenID>>
        \/ Open /\ nextTokenID' = nextTokenID + 1 /\ channel' = Renew
    BY <1>4 DEF RenewToken
  <2>3. CASE Open /\ nextTokenID' = nextTokenID + 1 /\ channel' = Renew
    <3>1. /\ channel'.state = "open" /\ channel'.previous = channel.current
          /\ channel'.current = nextTokenID + 1
      BY <2>3 DEF Renew, Open
    <3> QED BY <2>1, <2>3, <3>1 DEF TokenOrder, Open
  <2> QED BY <1>1, <2>1, <2>2, <2>3
<1>5. CASE HandleClose
  <2>1. Reads({"CLO"}) /\ WhyRefused(Head(toServer)) = "no" /\ newest' = Head(toServer).token
    BY <1>5 DEF HandleClose, Split
  <2>2. TokenRefused(Head(toServer).token) = "no"
    BY <2>1 DEF Reads, WhyRefused, Symmetric
  <2>3. newest' \in {channel.current, channel.previous} \ {0} /\ Open
    BY <2>1, <2>2 DEF TokenRefused
  <2>4. channel'.state = "gone" /\ UNCHANGED nextTokenID
    BY <1>5 DEF HandleClose
  <2> QED BY <2>3, <2>4 DEF TokenOrder, Open
<1>6. CASE ExpireStale
  BY <1>6 DEF ExpireStale, TokenOrder, Open, historyVars
<1>7. CASE ClientStep
  BY <1>1, <1>7 DEF ClientStep, ClientHello, ClientOpens, ClientRenews, ClientCloses, ClientErrs,
      ClientReceives, ClientSends, registryVars, historyVars
<1>8. CASE \/ HandleRefused \/ HandleHello \/ HandleRenew \/ ReadFails \/ PublishReady
           \/ PublishDropped
  BY <1>1, <1>8 DEF HandleRefused, HandleHello, HandleRenew, ReadFails, PublishReady,
      PublishDropped, registryVars, historyVars
<1>9. CASE \/ \E w \in Writers : TakesNumber(w) \/ Writes(w) \/ WriteFails(w)
           \/ \E t \in 1 .. MaxTokens : Expire(t)
  BY <1>1, <1>9 DEF TakesNumber, Writes, WriteFails, Expire, registryVars, historyVars
<1>10. CASE UNCHANGED vars
  BY <1>1, <1>10 DEF vars, registryVars, historyVars
<1> QED BY <1>2, <1>3, <1>4, <1>5, <1>6, <1>7, <1>8, <1>9, <1>10 DEF Next, LoopStep

\* Tokens only advance on every channel (ChannelRegistry.AcceptToken, Renew and
\* OpenSecureChannel): once a message was accepted under a token, no older one is
\* acceptable again, whatever the client sends and whichever lifetimes end first.
THEOREM TokensAdvanceAlways == Spec => []TokensAdvance
<1>1. Init => ChannelTypeOK /\ TokenOrder
  BY TypeInit DEF Init, TokenOrder, Open
<1>2. ChannelTypeOK /\ TokenOrder /\ [Next]_vars => (ChannelTypeOK /\ TokenOrder)'
  BY TypeStep, TokenStep
<1>3. ChannelTypeOK /\ TokenOrder => TokensAdvance
  BY DEF ChannelTypeOK, ServerTypeOK, TokenOrder, TokensAdvance
<1> QED BY <1>1, <1>2, <1>3, PTL DEF Spec

-----------------------------------------------------------------------------
(* Responses *)

\* What a sequence validator goes through when the responses q arrive one by one:
\* g[k] is its last number after k of them.
ReceivedAlong(g, q) ==
    /\ g \in [0 .. Len(q) -> 0 .. LastNumber + 1]
    /\ \A k \in 1 .. Len(q) :
          IF q[k].kind = "ACK" THEN g[k] = g[k - 1]
          ELSE g[k] = q[k].number /\ g[k] = Following(g[k - 1])

\* One response more.
LEMMA ReceivedAppend ==
  ASSUME NEW q \in Seq(Responses), NEW g, ReceivedAlong(g, q), NEW m \in Responses,
         NEW n \in 0 .. LastNumber + 1,
         IF m.kind = "ACK" THEN n = g[Len(q)] ELSE n = m.number /\ n = Following(g[Len(q)])
  PROVE  \E h : /\ ReceivedAlong(h, Append(q, m))
                /\ h[0] = g[0] /\ h[Len(Append(q, m))] = n
<1> DEFINE h == [k \in 0 .. Len(q) + 1 |-> IF k <= Len(q) THEN g[k] ELSE n]
<1>1. /\ Len(Append(q, m)) = Len(q) + 1 /\ Len(q) \in Nat
      /\ \A k \in 1 .. Len(q) : Append(q, m)[k] = q[k]
      /\ Append(q, m)[Len(q) + 1] = m
  OBVIOUS
<1>2. /\ h \in [0 .. Len(q) + 1 -> 0 .. LastNumber + 1]
      /\ \A k \in 0 .. Len(q) : h[k] = g[k]
      /\ h[Len(q) + 1] = n
  BY <1>1 DEF ReceivedAlong
<1> HIDE DEF h
<1>3. ASSUME NEW k \in 1 .. Len(Append(q, m))
      PROVE  IF Append(q, m)[k].kind = "ACK" THEN h[k] = h[k - 1]
             ELSE h[k] = Append(q, m)[k].number /\ h[k] = Following(h[k - 1])
  <2>1. CASE k \in 1 .. Len(q)
    <3>1. k - 1 \in 0 .. Len(q) /\ k \in 0 .. Len(q)
      BY <1>1, <2>1
    <3>2. h[k] = g[k] /\ h[k - 1] = g[k - 1] /\ Append(q, m)[k] = q[k]
      BY <1>1, <1>2, <2>1, <3>1
    <3> QED BY <2>1, <3>2 DEF ReceivedAlong
  <2>2. CASE k = Len(q) + 1
    <3>1. h[k] = n /\ h[k - 1] = g[Len(q)] /\ Append(q, m)[k] = m
      BY <1>1, <1>2, <2>2
    <3> QED BY <3>1
  <2> QED BY <1>1, <2>1, <2>2
<1>4. ReceivedAlong(h, Append(q, m))
  BY <1>1, <1>2, <1>3 DEF ReceivedAlong
<1>5. h[0] = g[0] /\ h[Len(Append(q, m))] = n
  BY <1>1, <1>2
<1> QED BY <1>4, <1>5

\* One response less.
LEMMA ReceivedTail ==
  ASSUME NEW q \in Seq(Responses), q # <<>>, NEW g, ReceivedAlong(g, q)
  PROVE  \E h : /\ ReceivedAlong(h, Tail(q))
                /\ h[0] = g[1] /\ h[Len(Tail(q))] = g[Len(q)]
<1> DEFINE h == [k \in 0 .. Len(q) - 1 |-> g[k + 1]]
<1>1. /\ Len(Tail(q)) = Len(q) - 1 /\ Len(q) \in Nat /\ Len(q) > 0
      /\ \A k \in 1 .. Len(Tail(q)) : Tail(q)[k] = q[k + 1]
  OBVIOUS
<1>2. /\ h \in [0 .. Len(Tail(q)) -> 0 .. LastNumber + 1]
      /\ \A k \in 0 .. Len(Tail(q)) : h[k] = g[k + 1]
  BY <1>1 DEF ReceivedAlong
<1> HIDE DEF h
<1>3. ASSUME NEW k \in 1 .. Len(Tail(q))
      PROVE  IF Tail(q)[k].kind = "ACK" THEN h[k] = h[k - 1]
             ELSE h[k] = Tail(q)[k].number /\ h[k] = Following(h[k - 1])
  <2>1. k + 1 \in 1 .. Len(q) /\ k - 1 \in 0 .. Len(Tail(q)) /\ k \in 0 .. Len(Tail(q))
        /\ (k + 1) - 1 = k /\ (k - 1) + 1 = k
    BY <1>1
  <2>2. h[k] = g[k + 1] /\ h[k - 1] = g[k] /\ Tail(q)[k] = q[k + 1]
    BY <1>1, <1>2, <2>1
  <2> QED BY <2>1, <2>2 DEF ReceivedAlong
<1>4. ReceivedAlong(h, Tail(q))
  BY <1>2, <1>3 DEF ReceivedAlong
<1>5. h[0] = g[1] /\ h[Len(Tail(q))] = g[Len(q)]
  BY <1>1, <1>2
<1> QED BY <1>4, <1>5

\* writeMu is held by the writer that has its number and has not written yet, and
\* that number is the last one assigned.
WriteLocked ==
    \A w \in Writers : /\ job[w].at = "writing" <=> writeMu = w
                       /\ job[w].at = "writing" => job[w].number = sendSequence

\* Between the client's validator and the server's there are the responses on the
\* wire and the one being written.
ResponsePath ==
    \E g : /\ ReceivedAlong(g, toClient)
           /\ g[0] = client.seen
           /\ sendSequence = IF writeMu = Nobody THEN g[Len(toClient)]
                             ELSE Following(g[Len(toClient)])

ResponseInv ==
    /\ WriteLocked
    /\ outOfOrder \in BOOLEAN /\ skipped \in BOOLEAN
    /\ ~skipped /\ client.phase # "gone" => ResponsePath
    /\ conn = "closed" => client.phase = "gone"
    /\ ResponsesFollow

\* A step that writes nothing and leaves the lock alone keeps ResponseInv.
LEMMA ResponseFrame ==
  ASSUME ChannelTypeOK, ResponseInv, UNCHANGED <<sendSequence, writeMu, outOfOrder, skipped>>,
         \A w \in Writers : /\ job'[w].at = "writing" <=> job[w].at = "writing"
                            /\ job[w].at = "writing" => job'[w].number = job[w].number,
         client'.phase # "gone" => /\ UNCHANGED toClient /\ client'.seen = client.seen
                                   /\ client.phase # "gone" /\ conn' # "closed"
  PROVE  ResponseInv'
<1>1. WriteLocked'
  BY DEF ResponseInv, WriteLocked
<1>2. ASSUME ~skipped', client'.phase # "gone"
      PROVE  ResponsePath'
  <2>1. ResponsePath
    BY <1>2 DEF ResponseInv
  <2> QED BY <1>2, <2>1 DEF ResponsePath
<1> QED BY <1>1, <1>2 DEF ResponseInv, ResponsesFollow

\* The steps of the client keep ResponseInv: a response that arrives follows.
LEMMA ResponseClient ==
  ASSUME ChannelTypeOK, ResponseInv, ClientStep
  PROVE  ResponseInv'
<1>0. UNCHANGED <<sendSequence, writeMu, job, conn, skipped>>
  BY DEF ClientStep, ClientHello, ClientOpens, ClientRenews, ClientCloses, ClientErrs,
         ClientReceives, ClientSends, serverVars, historyVars
<1>1. CASE ClientReceives
  <2> DEFINE m == Head(toClient)
             follows == m.kind = "ACK" \/ Accepts(client.seen, m.number)
  <2>1. /\ toClient # <<>> /\ toClient' = Tail(toClient) /\ client.phase # "gone"
        /\ outOfOrder' = (outOfOrder \/ ~follows)
        /\ client' = CASE ~follows -> Client("gone")
                       [] follows /\ m.kind = "ACK" -> [client EXCEPT !.phase = "greeted"]
                       [] follows /\ m.kind = "OPN" -> [client EXCEPT !.phase = "open",
                              !.using = m.token, !.renewing = FALSE, !.seen = m.number]
                       [] follows /\ m.kind = "MSG" -> [client EXCEPT !.seen = m.number]
    BY <1>1 DEF ClientReceives
  <2>2. /\ m \in Responses /\ m = toClient[1] /\ Len(toClient) \in Nat /\ Len(toClient) > 0
        /\ toClient \in Seq(Responses) /\ client.seen \in 0 .. LastNumber + 1
    BY <2>1, ReceivedType DEF ChannelTypeOK, WireTypeOK, Clients
  <2> HIDE DEF m
  <2>3. m.kind \in {"ACK", "OPN", "MSG"}
    BY <2>2 DEF Responses
  <2>4. ASSUME ~skipped
        PROVE  follows /\ ResponsePath'
    <3>1. PICK g : /\ ReceivedAlong(g, toClient)
                   /\ g[0] = client.seen
                   /\ sendSequence = IF writeMu = Nobody THEN g[Len(toClient)]
                                     ELSE Following(g[Len(toClient)])
      BY <2>1, <2>4 DEF ResponseInv, ResponsePath
    <3>2. IF m.kind = "ACK" THEN g[1] = g[0] ELSE g[1] = m.number /\ g[1] = Following(g[0])
      <4>1. 1 \in 1 .. Len(toClient) /\ 1 - 1 = 0
        BY <2>2
      <4> QED BY <2>2, <3>1, <4>1 DEF ReceivedAlong
    <3>3. follows
      BY <2>2, <3>1, <3>2, FollowingAccepted
    <3>4. client'.seen = g[1]
      <4>1. CASE m.kind = "ACK"
        BY <2>1, <3>1, <3>2, <3>3, <4>1 DEF ChannelTypeOK, WireTypeOK, Clients
      <4>2. CASE m.kind = "OPN"
        BY <2>1, <3>2, <3>3, <4>2 DEF ChannelTypeOK, WireTypeOK, Clients
      <4>3. CASE m.kind = "MSG"
        BY <2>1, <3>2, <3>3, <4>3 DEF ChannelTypeOK, WireTypeOK, Clients
      <4> QED BY <2>3, <4>1, <4>2, <4>3
    <3>5. PICK h : /\ ReceivedAlong(h, Tail(toClient))
                   /\ h[0] = g[1] /\ h[Len(Tail(toClient))] = g[Len(toClient)]
      BY <2>1, <2>2, <3>1, ReceivedTail
    <3>6. ResponsePath'
      BY <1>0, <2>1, <3>1, <3>4, <3>5 DEF ResponsePath
    <3> QED BY <3>3, <3>6
  <2>5. WriteLocked'
    BY <1>0 DEF ResponseInv, WriteLocked
  <2>6. ResponsesFollow' /\ outOfOrder' \in BOOLEAN
    BY <1>0, <2>1, <2>4 DEF ResponseInv, ResponsesFollow
  <2> QED BY <1>0, <2>1, <2>4, <2>5, <2>6 DEF ResponseInv
<1>2. CASE ClientHello \/ ClientOpens \/ ClientRenews
           \/ \E chunk \in {"intermediate", "final", "abort"} : ClientSends(chunk)
  <2>1. UNCHANGED <<toClient, outOfOrder>> /\ client.phase # "gone"
    BY <1>2 DEF ClientHello, ClientOpens, ClientRenews, ClientSends, historyVars
  <2>2. client'.seen = client.seen
    <3>1. CASE ClientHello
      BY <3>1 DEF ClientHello, ChannelTypeOK, WireTypeOK, Clients
    <3>2. CASE ClientOpens
      <4>1. PICK n : client' = Opening(n)
        BY <3>2 DEF ClientOpens
      <4> QED BY <4>1 DEF Opening, ChannelTypeOK, WireTypeOK, Clients
    <3>3. CASE ClientRenews
      <4>1. PICK n : client' = Renewing(n)
        BY <3>3 DEF ClientRenews
      <4> QED BY <4>1 DEF Renewing, ChannelTypeOK, WireTypeOK, Clients
    <3>4. CASE \E chunk \in {"intermediate", "final", "abort"} : ClientSends(chunk)
      <4>1. PICK chunk, message, part, n : client' = Sending(chunk, message, part, n)
        BY <3>4 DEF ClientSends
      <4> QED BY <4>1 DEF Sending, ChannelTypeOK, WireTypeOK, Clients
    <3> QED BY <1>2, <3>1, <3>2, <3>3, <3>4
  <2>3. conn # "closed"
    BY <2>1 DEF ResponseInv
  <2> QED BY <1>0, <2>1, <2>2, <2>3, ResponseFrame
<1>3. CASE ClientCloses
  <2>1. UNCHANGED outOfOrder /\ client'.phase = "gone"
    BY <1>3, ClientType DEF ClientCloses, historyVars
  <2> QED BY <1>0, <2>1, ResponseFrame
<1>4. CASE ClientErrs
  <2>1. UNCHANGED <<toClient, outOfOrder>> /\ client.phase # "gone"
    BY <1>4 DEF ClientErrs
  <2>2. UNCHANGED client \/ \E n : client' = [client EXCEPT !.number = n]
    BY <1>4 DEF ClientErrs
  <2>3. client'.seen = client.seen
    BY <2>2 DEF ChannelTypeOK, WireTypeOK, Clients
  <2>4. conn # "closed"
    BY <2>1 DEF ResponseInv
  <2> QED BY <1>0, <2>1, <2>3, <2>4, ResponseFrame
<1> QED BY <1>1, <1>2, <1>3, <1>4 DEF ClientStep

\* The steps that neither take a number nor write keep ResponseInv, except for
\* HandleHello.
LEMMA ResponseQuiet ==
  ASSUME ChannelTypeOK, ResponseInv,
         \/ HandleRefused \/ HandleUnsplit \/ HandleIssue \/ HandleRenew \/ RenewToken
         \/ HandleClose \/ HandleChunk \/ HandleFinal \/ ReadFails \/ PublishReady
         \/ PublishDropped \/ ExpireStale \/ \E t \in 1 .. MaxTokens : Expire(t)
  PROVE  ResponseInv'
<1> DEFINE A == /\ UNCHANGED <<sendSequence, writeMu, outOfOrder, skipped>>
                /\ \/ UNCHANGED <<conn, toClient, client>>
                   \/ \E why : Closes(why)
           J == \A w \in Writers :
                   /\ job'[w].at = "writing" <=> job[w].at = "writing"
                   /\ job[w].at = "writing" => job'[w].number = job[w].number
<1>0. job \in [Writers -> Jobs] /\ "loop" \in Writers /\ "publish" \in Writers
  BY DEF ChannelTypeOK, ServerTypeOK, Writers
<1>1. ASSUME A, J PROVE ResponseInv'
  <2>1. client'.phase # "gone" => UNCHANGED <<conn, toClient, client>>
    BY <1>1, ClosesType
  <2> QED BY <1>1, <2>1, ResponseFrame DEF ResponseInv
<1>2. CASE UNCHANGED job
  <2>1. J
    BY <1>2
  <2>2. A
    BY <1>2, <1>0 DEF HandleRefused, HandleUnsplit, HandleIssue, HandleRenew, RenewToken,
         HandleClose, HandleChunk, HandleFinal, ReadFails, PublishReady, PublishDropped,
         ExpireStale, Expire, Taken, serverVars, wireVars, historyVars, endVars
  <2> QED BY <1>1, <2>1, <2>2
<1>3. CASE \/ HandleRefused \/ HandleUnsplit \/ HandleClose \/ HandleChunk \/ ReadFails
           \/ ExpireStale \/ \E t \in 1 .. MaxTokens : Expire(t)
  BY <1>2, <1>3 DEF HandleRefused, HandleUnsplit, HandleClose, HandleChunk, ReadFails,
      ExpireStale, Expire, serverVars
<1>4. CASE HandleIssue
  <2>1. UNCHANGED job \/ (Taken /\ Reply("loop", "OPN", nextTokenID + 1))
    BY <1>4 DEF HandleIssue
  <2>2. CASE Taken /\ Reply("loop", "OPN", nextTokenID + 1)
    <3>1. job["loop"].at = "idle"
      BY <1>4 DEF HandleIssue, Split, Reads
    <3>2. J
      BY <1>0, <2>2, <3>1 DEF Reply
    <3> QED BY <1>1, <1>4, <2>2, <3>2 DEF HandleIssue, Taken
  <2> QED BY <1>2, <2>1, <2>2
<1>5. CASE HandleRenew
  <2>1. UNCHANGED job \/ (Taken /\ job' = [job EXCEPT !["loop"].at = "renew"])
    BY <1>5 DEF HandleRenew
  <2>2. CASE Taken /\ job' = [job EXCEPT !["loop"].at = "renew"]
    <3>1. job["loop"].at = "idle"
      BY <1>5 DEF HandleRenew, Split, Reads
    <3>2. J
      BY <1>0, <2>2, <3>1 DEF Jobs
    <3> QED BY <1>1, <1>5, <2>2, <3>2 DEF HandleRenew, Taken
  <2> QED BY <1>2, <2>1, <2>2
<1>6. CASE RenewToken
  <2>1. job["loop"].at = "renew"
    BY <1>6 DEF RenewToken
  <2>2. \/ Reply("loop", "OPN", nextTokenID + 1)
        \/ job' = [job EXCEPT !["loop"] = Idle]
    BY <1>6 DEF RenewToken
  <2>3. J
    BY <1>0, <2>1, <2>2 DEF Reply, Idle
  <2>4. A
    BY <1>6 DEF RenewToken, endVars, wireVars
  <2> QED BY <1>1, <2>3, <2>4
<1>7. CASE HandleFinal
  <2>1. \/ UNCHANGED job
        \/ Taken /\ Reply("loop", "MSG", channel.current)
        \/ /\ Taken /\ job["publish"].at = "idle"
           /\ job' = [job EXCEPT !["publish"].at = "held",
                                 !["publish"].token = channel.current]
    BY <1>7 DEF HandleFinal
  <2>2. job["loop"].at = "idle"
    BY <1>7 DEF HandleFinal, Split, Reads
  <2>3. CASE Taken /\ Reply("loop", "MSG", channel.current)
    <3>1. J
      BY <1>0, <2>2, <2>3 DEF Reply
    <3> QED BY <1>1, <1>7, <2>3, <3>1 DEF HandleFinal, Taken
  <2>4. CASE /\ Taken /\ job["publish"].at = "idle"
             /\ job' = [job EXCEPT !["publish"].at = "held",
                                   !["publish"].token = channel.current]
    <3>1. J
      BY <1>0, <2>4 DEF Jobs
    <3> QED BY <1>1, <1>7, <2>4, <3>1 DEF HandleFinal, Taken
  <2> QED BY <1>2, <2>1, <2>3, <2>4
<1>8. CASE PublishReady \/ PublishDropped
  <2>1. J
    BY <1>0, <1>8 DEF PublishReady, PublishDropped, Reply, Idle
  <2>2. A
    BY <1>8 DEF PublishReady, PublishDropped, wireVars, historyVars
  <2> QED BY <1>1, <2>1, <2>2
<1> QED BY <1>3, <1>4, <1>5, <1>6, <1>7, <1>8

\* The steps that take a number or write keep ResponseInv: the number given under
\* writeMu is the one that goes out next.
LEMMA ResponseWriters ==
  ASSUME ChannelTypeOK, ResponseInv,
         HandleHello \/ \E w \in Writers : TakesNumber(w) \/ Writes(w) \/ WriteFails(w)
  PROVE  ResponseInv'
<1>0. /\ job \in [Writers -> Jobs] /\ toClient \in Seq(Responses)
      /\ sendSequence \in 0 .. LastNumber + 1 /\ writeMu \in Writers \cup {Nobody}
      /\ Nobody \notin Writers
  BY DEF ChannelTypeOK, ServerTypeOK, WireTypeOK, Writers, Nobody
<1>1. CASE HandleHello
  <2> DEFINE m == [kind |-> "ACK", token |-> 0, number |-> 0]
  <2>1. /\ UNCHANGED <<job, writeMu, sendSequence, client, outOfOrder, skipped>>
        /\ toClient' = Append(toClient, m) /\ conn' = "negotiated"
    BY <1>1 DEF HandleHello, historyVars
  <2>2. m \in Responses /\ m.kind = "ACK"
    BY ChannelAssumption DEF Responses
  <2> HIDE DEF m
  <2>3. ASSUME ResponsePath
        PROVE  ResponsePath'
    <3>1. PICK g : /\ ReceivedAlong(g, toClient)
                   /\ g[0] = client.seen
                   /\ sendSequence = IF writeMu = Nobody THEN g[Len(toClient)]
                                     ELSE Following(g[Len(toClient)])
      BY <2>3 DEF ResponsePath
    <3>2. g[Len(toClient)] \in 0 .. LastNumber + 1
      <4>1. Len(toClient) \in 0 .. Len(toClient)
        BY <1>0
      <4> QED BY <3>1, <4>1 DEF ReceivedAlong
    <3>3. PICK h : /\ ReceivedAlong(h, Append(toClient, m))
                   /\ h[0] = g[0] /\ h[Len(Append(toClient, m))] = g[Len(toClient)]
      BY <1>0, <2>2, <3>1, <3>2, ReceivedAppend
    <3> QED BY <2>1, <3>1, <3>3 DEF ResponsePath
  <2> QED BY <2>1, <2>3 DEF ResponseInv, WriteLocked, ResponsesFollow
<1>2. ASSUME NEW w \in Writers, TakesNumber(w)
      PROVE  ResponseInv'
  <2>1. /\ UNCHANGED <<conn, toClient, client, outOfOrder, skipped>>
        /\ job[w].at = "ready" /\ writeMu = Nobody /\ writeMu' = w
        /\ sendSequence' = Following(sendSequence)
        /\ job' = [job EXCEPT ![w].at = "writing", ![w].number = Following(sendSequence)]
    BY <1>2 DEF TakesNumber, wireVars, historyVars
  <2>2. /\ job'[w].at = "writing" /\ job'[w].number = sendSequence'
        /\ \A v \in Writers \ {w} : job'[v] = job[v]
    BY <1>0, <2>1 DEF Jobs
  <2>3. WriteLocked'
    BY <1>0, <2>1, <2>2 DEF ResponseInv, WriteLocked
  <2>4. ResponsePath => ResponsePath'
    BY <1>0, <2>1 DEF ResponsePath
  <2> QED BY <2>1, <2>3, <2>4 DEF ResponseInv, ResponsesFollow
<1>3. ASSUME NEW w \in Writers, Writes(w)
      PROVE  ResponseInv'
  <2> DEFINE m == [kind |-> job[w].kind, token |-> job[w].token, number |-> job[w].number]
  <2>1. /\ UNCHANGED <<conn, sendSequence, client, outOfOrder, skipped>>
        /\ job[w].at = "writing" /\ writeMu' = Nobody /\ job' = [job EXCEPT ![w] = Idle]
        /\ toClient' = Append(toClient, m)
    BY <1>3 DEF Writes, Released, historyVars
  <2>2. writeMu = w /\ job[w].number = sendSequence
    BY <2>1 DEF ResponseInv, WriteLocked
  <2>3. m \in Responses /\ m.kind # "ACK" /\ m.number = sendSequence
    BY <1>0, <2>2 DEF Responses, Jobs
  <2> HIDE DEF m
  <2>4. WriteLocked'
    <3>1. job'[w].at = "idle" /\ \A v \in Writers \ {w} : job'[v] = job[v]
      BY <1>0, <2>1 DEF Idle
    <3> QED BY <1>0, <2>1, <2>2, <3>1 DEF ResponseInv, WriteLocked
  <2>5. ASSUME ResponsePath
        PROVE  ResponsePath'
    <3>1. PICK g : /\ ReceivedAlong(g, toClient)
                   /\ g[0] = client.seen
                   /\ sendSequence = Following(g[Len(toClient)])
      BY <1>0, <2>2, <2>5 DEF ResponsePath
    <3>2. PICK h : /\ ReceivedAlong(h, Append(toClient, m))
                   /\ h[0] = g[0] /\ h[Len(Append(toClient, m))] = sendSequence
      BY <1>0, <2>3, <3>1, ReceivedAppend
    <3> QED BY <2>1, <3>1, <3>2 DEF ResponsePath
  <2> QED BY <2>1, <2>4, <2>5 DEF ResponseInv, ResponsesFollow
<1>4. ASSUME NEW w \in Writers, WriteFails(w)
      PROVE  ResponseInv'
  <2>1. /\ UNCHANGED <<sendSequence, outOfOrder>>
        /\ job[w].at = "writing" /\ writeMu' = Nobody /\ job' = [job EXCEPT ![w] = Idle]
        /\ \/ Closes("write") /\ UNCHANGED skipped
           \/ skipped' = TRUE /\ UNCHANGED endVars
    BY <1>4 DEF WriteFails, Released
  <2>2. WriteLocked'
    <3>1. writeMu = w
      BY <2>1 DEF ResponseInv, WriteLocked
    <3>2. job'[w].at = "idle" /\ \A v \in Writers \ {w} : job'[v] = job[v]
      BY <1>0, <2>1 DEF Idle
    <3> QED BY <1>0, <2>1, <3>1, <3>2 DEF ResponseInv, WriteLocked
  <2>3. CASE Closes("write") /\ UNCHANGED skipped
    BY <2>1, <2>2, <2>3, ClosesType DEF ResponseInv, ResponsesFollow
  <2>4. CASE skipped' = TRUE /\ UNCHANGED endVars
    BY <2>1, <2>2, <2>4 DEF ResponseInv, ResponsesFollow, endVars
  <2> QED BY <2>1, <2>3, <2>4
<1> QED BY <1>1, <1>2, <1>3, <1>4

\* ResponseInv is inductive.
LEMMA ResponseInductive ==
  /\ Init => ResponseInv
  /\ ChannelTypeOK /\ ResponseInv /\ [Next]_vars => ResponseInv'
<1>1. ASSUME Init PROVE ResponseInv
  <2>1. /\ toClient = <<>> /\ sendSequence = NotStarted /\ client.seen = NotStarted
        /\ writeMu = Nobody /\ job = [w \in Writers |-> Idle]
        /\ outOfOrder = FALSE /\ skipped = FALSE /\ conn = "fresh"
    BY <1>1 DEF Init, Client
  <2>2. ReceivedAlong([k \in {0} |-> NotStarted], <<>>)
    BY ChannelAssumption DEF ReceivedAlong, NotStarted
  <2>3. ResponsePath
    BY <2>1, <2>2 DEF ResponsePath
  <2>4. WriteLocked
    BY <2>1 DEF WriteLocked, Idle, Nobody, Writers
  <2> QED BY <2>1, <2>3, <2>4 DEF ResponseInv, ResponsesFollow
<1>2. ASSUME ChannelTypeOK, ResponseInv, UNCHANGED vars PROVE ResponseInv'
  BY <1>2, ResponseFrame DEF vars, serverVars, wireVars, historyVars, ResponseInv
<1> QED BY <1>1, <1>2, ResponseClient, ResponseQuiet, ResponseWriters DEF Next, LoopStep

-----------------------------------------------------------------------------
(* Requests of a client that keeps to the protocol *)

\* Where a client is in the protocol: how often it has asked to be let in (Hello, Issue
\* and each Renew), its last number, the message it is sending and how much of it
\* was sent, and the token it used last. The server, too, is at such a point, some
\* requests behind the client.
Points ==
    {a \in [asked : Nat, number : 0 .. LastNumber + 1, part : Nat, message : Nat, least : Nat] :
        MaxChunkCount # 0 => a.part < MaxChunkCount}

\* At point a the protocol lets the client send m, which brings it to point b. The
\* token is the one of the last answer or, while a renewal is outstanding, the one
\* before the answer that is due.
Allowed(a, m, b) ==
    /\ m.kind # "BAD"
    /\ m.kind = "HEL" => a.asked = 0
    /\ m.kind = "ISSUE" => a.asked = 1
    /\ m.kind \in {"RENEW", "MSG", "CLO"} => a.asked >= 2
    /\ b.asked = IF Symmetric(m) THEN a.asked ELSE a.asked + 1
    /\ IF m.kind = "HEL" THEN b.number = a.number
       ELSE b.number = m.number /\ Accepts(a.number, m.number)
    /\ IF Symmetric(m)
       THEN /\ m.token > 0 /\ m.token = b.least /\ a.least <= m.token
            /\ m.token + 1 = a.asked \/ m.token + 2 = a.asked
       ELSE b.least = a.least
    /\ IF m.kind = "MSG"
       THEN /\ m.of = <<b.message, a.part + 1>>
            /\ a.part > 0 => b.message = a.message
            /\ b.part = IF m.chunk = "intermediate" THEN a.part + 1 ELSE 0
       ELSE b.part = a.part /\ b.message = a.message

\* The points the requests q lead through, one after the other.
SentAlong(h, q) ==
    /\ h \in [0 .. Len(q) -> Points]
    /\ \A k \in 1 .. Len(q) : Allowed(h[k - 1], q[k], h[k])
    /\ \A k \in 0 .. Len(q) : h[k].asked <= h[Len(q)].asked

\* One request more.
LEMMA SentAppend ==
  ASSUME NEW q \in Seq(Requests), NEW h, SentAlong(h, q), NEW m \in Requests,
         NEW b \in Points, Allowed(h[Len(q)], m, b)
  PROVE  \E r : /\ SentAlong(r, Append(q, m))
                /\ r[0] = h[0] /\ r[Len(Append(q, m))] = b
<1> DEFINE r == [k \in 0 .. Len(q) + 1 |-> IF k <= Len(q) THEN h[k] ELSE b]
<1>1. /\ Len(Append(q, m)) = Len(q) + 1 /\ Len(q) \in Nat
      /\ \A k \in 1 .. Len(q) : Append(q, m)[k] = q[k]
      /\ Append(q, m)[Len(q) + 1] = m
  OBVIOUS
<1>2. /\ r \in [0 .. Len(q) + 1 -> Points]
      /\ \A k \in 0 .. Len(q) : r[k] = h[k]
      /\ r[Len(q) + 1] = b
  BY <1>1 DEF SentAlong
<1> HIDE DEF r
<1>3. ASSUME NEW k \in 1 .. Len(Append(q, m))
      PROVE  Allowed(r[k - 1], Append(q, m)[k], r[k])
  <2>1. CASE k \in 1 .. Len(q)
    <3>1. k - 1 \in 0 .. Len(q) /\ k \in 0 .. Len(q)
      BY <1>1, <2>1
    <3>2. r[k] = h[k] /\ r[k - 1] = h[k - 1] /\ Append(q, m)[k] = q[k]
      BY <1>1, <1>2, <2>1, <3>1
    <3> QED BY <2>1, <3>2 DEF SentAlong
  <2>2. CASE k = Len(q) + 1
    <3>1. r[k] = b /\ r[k - 1] = h[Len(q)] /\ Append(q, m)[k] = m
      BY <1>1, <1>2, <2>2
    <3> QED BY <3>1
  <2> QED BY <1>1, <2>1, <2>2
<1>4. ASSUME NEW k \in 0 .. Len(q) + 1
      PROVE  r[k].asked <= b.asked
  <2>1. h[Len(q)] \in Points /\ Len(q) \in 0 .. Len(q)
    BY <1>1 DEF SentAlong
  <2>2. h[Len(q)].asked <= b.asked
    BY <2>1 DEF Allowed, Points
  <2>3. CASE k \in 0 .. Len(q)
    <3>1. h[k] \in Points /\ h[k].asked <= h[Len(q)].asked
      BY <2>3 DEF SentAlong
    <3>2. h[k].asked \in Nat /\ h[Len(q)].asked \in Nat /\ b.asked \in Nat
      BY <2>1, <3>1 DEF Points
    <3>3. r[k] = h[k]
      BY <1>2, <2>3
    <3> QED BY <2>2, <3>1, <3>2, <3>3
  <2>4. CASE k = Len(q) + 1
    BY <1>2, <2>4 DEF Points
  <2> QED BY <1>1, <2>3, <2>4
<1>5. SentAlong(r, Append(q, m))
  BY <1>1, <1>2, <1>3, <1>4 DEF SentAlong
<1>6. r[0] = h[0] /\ r[Len(Append(q, m))] = b
  BY <1>1, <1>2
<1> QED BY <1>5, <1>6

\* One request less.
LEMMA SentTail ==
  ASSUME NEW q \in Seq(Requests), q # <<>>, NEW h, SentAlong(h, q)
  PROVE  \E r : /\ SentAlong(r, Tail(q))
                /\ r[0] = h[1] /\ r[Len(Tail(q))] = h[Len(q)]
<1> DEFINE r == [k \in 0 .. Len(q) - 1 |-> h[k + 1]]
<1>1. /\ Len(Tail(q)) = Len(q) - 1 /\ Len(q) \in Nat /\ Len(q) > 0
      /\ \A k \in 1 .. Len(Tail(q)) : Tail(q)[k] = q[k + 1]
  OBVIOUS
<1>2. /\ r \in [0 .. Len(Tail(q)) -> Points]
      /\ \A k \in 0 .. Len(Tail(q)) : r[k] = h[k + 1]
  BY <1>1 DEF SentAlong
<1> HIDE DEF r
<1>3. ASSUME NEW k \in 1 .. Len(Tail(q))
      PROVE  Allowed(r[k - 1], Tail(q)[k], r[k])
  <2>1. k + 1 \in 1 .. Len(q) /\ k - 1 \in 0 .. Len(Tail(q)) /\ k \in 0 .. Len(Tail(q))
        /\ (k + 1) - 1 = k /\ (k - 1) + 1 = k
    BY <1>1
  <2>2. r[k] = h[k + 1] /\ r[k - 1] = h[k] /\ Tail(q)[k] = q[k + 1]
    BY <1>1, <1>2, <2>1
  <2> QED BY <2>1, <2>2 DEF SentAlong
<1>4. r[0] = h[1] /\ r[Len(Tail(q))] = h[Len(q)]
  BY <1>1, <1>2
<1>5. ASSUME NEW k \in 0 .. Len(Tail(q))
      PROVE  r[k].asked <= r[Len(Tail(q))].asked
  <2>1. k + 1 \in 0 .. Len(q)
    BY <1>1
  <2> QED BY <1>2, <1>4, <2>1 DEF SentAlong
<1>6. SentAlong(r, Tail(q))
  BY <1>2, <1>3, <1>5 DEF SentAlong
<1> QED BY <1>4, <1>6

\* How often the client has been let in after each of the responses q: the
\* Acknowledge, then one answer with a new token each time.
AnsweredAlong(g, q) ==
    /\ g \in [0 .. Len(q) -> Nat]
    /\ \A k \in 1 .. Len(q) :
          /\ q[k].kind = "ACK" => g[k - 1] = 0 /\ g[k] = 1
          /\ q[k].kind = "OPN" => /\ g[k - 1] > 0 /\ g[k] = g[k - 1] + 1
                                  /\ q[k].token = g[k - 1]
          /\ q[k].kind = "MSG" => g[k] = g[k - 1]
    /\ \A k \in 0 .. Len(q) : g[k] <= g[Len(q)]

\* One response more.
LEMMA AnsweredAppend ==
  ASSUME NEW q \in Seq(Responses), NEW g, AnsweredAlong(g, q), NEW m \in Responses,
         NEW n \in Nat,
         m.kind = "ACK" => g[Len(q)] = 0 /\ n = 1,
         m.kind = "OPN" => g[Len(q)] > 0 /\ n = g[Len(q)] + 1 /\ m.token = g[Len(q)],
         m.kind = "MSG" => n = g[Len(q)]
  PROVE  \E h : /\ AnsweredAlong(h, Append(q, m))
                /\ h[0] = g[0] /\ h[Len(Append(q, m))] = n
<1> DEFINE h == [k \in 0 .. Len(q) + 1 |-> IF k <= Len(q) THEN g[k] ELSE n]
<1>1. /\ Len(Append(q, m)) = Len(q) + 1 /\ Len(q) \in Nat
      /\ \A k \in 1 .. Len(q) : Append(q, m)[k] = q[k]
      /\ Append(q, m)[Len(q) + 1] = m
  OBVIOUS
<1>2. /\ h \in [0 .. Len(q) + 1 -> Nat]
      /\ \A k \in 0 .. Len(q) : h[k] = g[k]
      /\ h[Len(q) + 1] = n
  BY <1>1 DEF AnsweredAlong
<1> HIDE DEF h
<1>3. ASSUME NEW k \in 1 .. Len(Append(q, m))
      PROVE  LET x == Append(q, m)[k] IN
             /\ x.kind = "ACK" => h[k - 1] = 0 /\ h[k] = 1
             /\ x.kind = "OPN" => h[k - 1] > 0 /\ h[k] = h[k - 1] + 1 /\ x.token = h[k - 1]
             /\ x.kind = "MSG" => h[k] = h[k - 1]
  <2>1. CASE k \in 1 .. Len(q)
    <3>1. k - 1 \in 0 .. Len(q) /\ k \in 0 .. Len(q)
      BY <1>1, <2>1
    <3>2. h[k] = g[k] /\ h[k - 1] = g[k - 1] /\ Append(q, m)[k] = q[k]
      BY <1>1, <1>2, <2>1, <3>1
    <3> QED BY <2>1, <3>2 DEF AnsweredAlong
  <2>2. CASE k = Len(q) + 1
    <3>1. h[k] = n /\ h[k - 1] = g[Len(q)] /\ Append(q, m)[k] = m
      BY <1>1, <1>2, <2>2
    <3>2. /\ m.kind = "ACK" => g[Len(q)] = 0 /\ n = 1
          /\ m.kind = "OPN" => g[Len(q)] > 0 /\ n = g[Len(q)] + 1 /\ m.token = g[Len(q)]
          /\ m.kind = "MSG" => n = g[Len(q)]
      OBVIOUS
    <3> QED BY <3>1, <3>2
  <2> QED BY <1>1, <2>1, <2>2
<1>4. ASSUME NEW k \in 0 .. Len(q) + 1
      PROVE  h[k] <= n
  <2>1. g[Len(q)] \in Nat /\ Len(q) \in 0 .. Len(q)
    BY <1>1 DEF AnsweredAlong
  <2>2. g[Len(q)] <= n
    BY <2>1 DEF Responses
  <2>3. CASE k \in 0 .. Len(q)
    <3>1. g[k] \in Nat /\ g[k] <= g[Len(q)]
      BY <2>3 DEF AnsweredAlong
    <3> QED BY <1>2, <2>1, <2>2, <2>3, <3>1
  <2>4. CASE k = Len(q) + 1
    BY <1>2, <2>4
  <2> QED BY <1>1, <2>3, <2>4
<1>5. AnsweredAlong(h, Append(q, m))
  BY <1>1, <1>2, <1>3, <1>4 DEF AnsweredAlong
<1>6. h[0] = g[0] /\ h[Len(Append(q, m))] = n
  BY <1>1, <1>2
<1> QED BY <1>5, <1>6

\* One response less.
LEMMA AnsweredTail ==
  ASSUME NEW q \in Seq(Responses), q # <<>>, NEW g, AnsweredAlong(g, q)
  PROVE  \E h : /\ AnsweredAlong(h, Tail(q))
                /\ h[0] = g[1] /\ h[Len(Tail(q))] = g[Len(q)]
<1> DEFINE h == [k \in 0 .. Len(q) - 1 |-> g[k + 1]]
<1>1. /\ Len(Tail(q)) = Len(q) - 1 /\ Len(q) \in Nat /\ Len(q) > 0
      /\ \A k \in 1 .. Len(Tail(q)) : Tail(q)[k] = q[k + 1]
  OBVIOUS
<1>2. /\ h \in [0 .. Len(Tail(q)) -> Nat]
      /\ \A k \in 0 .. Len(Tail(q)) : h[k] = g[k + 1]
  BY <1>1 DEF AnsweredAlong
<1> HIDE DEF h
<1>3. ASSUME NEW k \in 1 .. Len(Tail(q))
      PROVE  LET x == Tail(q)[k] IN
             /\ x.kind = "ACK" => h[k - 1] = 0 /\ h[k] = 1
             /\ x.kind = "OPN" => h[k - 1] > 0 /\ h[k] = h[k - 1] + 1 /\ x.token = h[k - 1]
             /\ x.kind = "MSG" => h[k] = h[k - 1]
  <2>1. k + 1 \in 1 .. Len(q) /\ k - 1 \in 0 .. Len(Tail(q)) /\ k \in 0 .. Len(Tail(q))
        /\ (k + 1) - 1 = k /\ (k - 1) + 1 = k
    BY <1>1
  <2>2. h[k] = g[k + 1] /\ h[k - 1] = g[k] /\ Tail(q)[k] = q[k + 1]
    BY <1>1, <1>2, <2>1
  <2> QED BY <2>1, <2>2 DEF AnsweredAlong
<1>4. h[0] = g[1] /\ h[Len(Tail(q))] = g[Len(q)]
  BY <1>1, <1>2
<1>5. ASSUME NEW k \in 0 .. Len(Tail(q))
      PROVE  h[k] <= h[Len(Tail(q))]
  <2>1. k + 1 \in 0 .. Len(q)
    BY <1>1
  <2> QED BY <1>2, <1>4, <2>1 DEF AnsweredAlong
<1>6. AnsweredAlong(h, Tail(q))
  BY <1>2, <1>3, <1>5 DEF AnsweredAlong
<1> QED BY <1>4, <1>6

\* The read loop has an answer with a new token to write.
OpenPending == job["loop"].at \in {"ready", "writing"} /\ job["loop"].kind = "OPN"

\* A Publish never answers with a token, the token of an answer is the last one
\* issued, and nothing goes on before the Hello.
JobsInv ==
    /\ job["publish"].kind = "MSG"
    /\ OpenPending => job["loop"].token = nextTokenID /\ nextTokenID > 0
    /\ conn = "fresh" => nextTokenID = 0 /\ job["loop"].at = "idle"

\* Every step keeps JobsInv.
LEMMA JobsStep == ChannelTypeOK /\ JobsInv /\ [Next]_vars => JobsInv'
<1> SUFFICES ASSUME ChannelTypeOK, JobsInv, [Next]_vars
             PROVE  JobsInv'
  OBVIOUS
<1>0. /\ job \in [Writers -> Jobs] /\ "loop" \in Writers /\ "publish" \in Writers
      /\ nextTokenID \in Nat
  BY DEF ChannelTypeOK, ServerTypeOK, Writers
<1>1. ASSUME UNCHANGED <<job, nextTokenID>>, conn' = "fresh" => conn = "fresh"
      PROVE  JobsInv'
  BY <1>1 DEF JobsInv, OpenPending
<1>2. CASE ClientStep
  BY <1>1, <1>2 DEF ClientStep, ClientHello, ClientOpens, ClientRenews, ClientCloses, ClientErrs,
      ClientReceives, ClientSends, registryVars, serverVars
<1>3. CASE \/ HandleRefused \/ HandleHello \/ HandleUnsplit \/ HandleClose \/ HandleChunk
           \/ ReadFails \/ ExpireStale \/ \E t \in 1 .. MaxTokens : Expire(t)
  BY <1>1, <1>3 DEF HandleRefused, HandleHello, HandleUnsplit, HandleClose, HandleChunk,
      ReadFails, ExpireStale, Expire, Closes, Taken, registryVars, serverVars
<1>4. CASE HandleIssue
  <2>1. conn = "negotiated"
    BY <1>4 DEF HandleIssue, Split
  <2>2. \/ Closes("resources") /\ UNCHANGED <<nextTokenID, job>>
        \/ /\ nextTokenID' = nextTokenID + 1 /\ Taken
           /\ Reply("loop", "OPN", nextTokenID + 1)
    BY <1>4 DEF HandleIssue
  <2>3. CASE Closes("resources") /\ UNCHANGED <<nextTokenID, job>>
    BY <1>1, <2>3 DEF Closes
  <2>4. CASE /\ nextTokenID' = nextTokenID + 1 /\ Taken
             /\ Reply("loop", "OPN", nextTokenID + 1)
    BY <1>0, <2>1, <2>4 DEF Taken, Reply, JobsInv, OpenPending
  <2> QED BY <2>2, <2>3, <2>4
<1>5. CASE HandleRenew
  <2>1. conn = "negotiated"
    BY <1>5 DEF HandleRenew, Split
  <2>2. \/ Closes("closed") /\ UNCHANGED <<nextTokenID, job>>
        \/ Taken /\ job' = [job EXCEPT !["loop"].at = "renew"] /\ UNCHANGED nextTokenID
    BY <1>5 DEF HandleRenew, registryVars
  <2>3. CASE Closes("closed") /\ UNCHANGED <<nextTokenID, job>>
    BY <1>1, <2>3 DEF Closes
  <2>4. CASE Taken /\ job' = [job EXCEPT !["loop"].at = "renew"] /\ UNCHANGED nextTokenID
    BY <1>0, <2>1, <2>4 DEF Taken, JobsInv, OpenPending, Jobs
  <2> QED BY <2>2, <2>3, <2>4
<1>6. CASE RenewToken
  <2>1. job["loop"].at = "renew" /\ conn # "fresh"
    BY <1>6 DEF RenewToken, JobsInv
  <2>2. \/ /\ nextTokenID' = nextTokenID + 1 /\ Reply("loop", "OPN", nextTokenID + 1)
           /\ UNCHANGED conn
        \/ /\ Closes("closed") /\ UNCHANGED nextTokenID
           /\ job' = [job EXCEPT !["loop"] = Idle]
    BY <1>6 DEF RenewToken, endVars
  <2>3. CASE /\ nextTokenID' = nextTokenID + 1 /\ Reply("loop", "OPN", nextTokenID + 1)
             /\ UNCHANGED conn
    BY <1>0, <2>1, <2>3 DEF Reply, JobsInv, OpenPending
  <2>4. CASE /\ Closes("closed") /\ UNCHANGED nextTokenID
             /\ job' = [job EXCEPT !["loop"] = Idle]
    BY <1>0, <2>1, <2>4 DEF Closes, Idle, JobsInv, OpenPending
  <2> QED BY <2>2, <2>3, <2>4
<1>7. CASE HandleFinal
  <2>1. conn = "negotiated" /\ UNCHANGED nextTokenID
    BY <1>7 DEF HandleFinal, Split
  <2>2. \/ Closes("protocol") /\ UNCHANGED job
        \/ Taken /\ Reply("loop", "MSG", channel.current)
        \/ Taken /\ job' = [job EXCEPT !["publish"].at = "held",
                                       !["publish"].token = channel.current]
    BY <1>7 DEF HandleFinal
  <2>3. CASE Closes("protocol") /\ UNCHANGED job
    BY <1>1, <2>1, <2>3 DEF Closes
  <2>4. CASE Taken /\ Reply("loop", "MSG", channel.current)
    BY <1>0, <2>1, <2>4 DEF Taken, Reply, JobsInv, OpenPending
  <2>5. CASE Taken /\ job' = [job EXCEPT !["publish"].at = "held",
                                         !["publish"].token = channel.current]
    BY <1>0, <2>1, <2>5 DEF Taken, JobsInv, OpenPending, Jobs
  <2> QED BY <2>2, <2>3, <2>4, <2>5
<1>8. CASE PublishReady \/ PublishDropped
  <2>1. /\ job'["publish"].kind = "MSG" /\ job'["loop"] = job["loop"]
        /\ UNCHANGED <<conn, nextTokenID>>
    BY <1>0, <1>8 DEF PublishReady, PublishDropped, Reply, Idle, registryVars
  <2> QED BY <2>1 DEF JobsInv, OpenPending
<1>9. ASSUME NEW w \in Writers, TakesNumber(w)
      PROVE  JobsInv'
  <2>1. /\ job[w].at = "ready" /\ job'[w].at = "writing" /\ job'[w].kind = job[w].kind
        /\ job'[w].token = job[w].token
        /\ \A v \in Writers \ {w} : job'[v] = job[v]
        /\ UNCHANGED <<conn, nextTokenID>>
    BY <1>0, <1>9 DEF TakesNumber, Jobs, registryVars
  <2> QED BY <1>0, <2>1 DEF JobsInv, OpenPending
<1>10. ASSUME NEW w \in Writers, Writes(w) \/ WriteFails(w)
       PROVE  JobsInv'
  <2>1. /\ job' = [job EXCEPT ![w] = Idle]
        /\ UNCHANGED nextTokenID
        /\ conn' = conn \/ conn' = "closed"
    BY <1>10 DEF Writes, WriteFails, Released, Closes, registryVars, endVars
  <2>2. job'[w] = Idle /\ \A v \in Writers \ {w} : job'[v] = job[v]
    BY <1>0, <2>1
  <2>3. job'["publish"].kind = "MSG"
    BY <1>0, <2>2 DEF Idle, JobsInv
  <2>4. /\ OpenPending' => job'["loop"] = job["loop"]
        /\ job["loop"].at = "idle" => job'["loop"].at = "idle"
    BY <1>0, <2>2 DEF Idle, OpenPending
  <2>5. OpenPending' => job'["loop"].token = nextTokenID' /\ nextTokenID' > 0
    BY <2>1, <2>4 DEF JobsInv, OpenPending
  <2>6. conn' = "fresh" => nextTokenID' = 0 /\ job'["loop"].at = "idle"
    BY <2>1, <2>4 DEF JobsInv
  <2> QED BY <2>3, <2>5, <2>6 DEF JobsInv
<1>11. CASE UNCHANGED vars
  BY <1>1, <1>11 DEF vars, registryVars, serverVars
<1> QED BY <1>2, <1>3, <1>4, <1>5, <1>6, <1>7, <1>8, <1>9, <1>10, <1>11 DEF Next, LoopStep

\* The server is at point a: it has taken every request before it.
AtServer(a) ==
    /\ a.number = receiveSequence
    /\ a.asked = IF conn = "fresh" THEN 0
                 ELSE IF job["loop"].at = "renew" THEN nextTokenID + 2 ELSE nextTokenID + 1
    /\ incoming \in Seq(Nat \X Nat) /\ Len(incoming) = a.part
    /\ \A k \in 1 .. a.part : incoming[k] = <<a.message, k>>
    /\ Open => \/ channel.previous + 1 = nextTokenID
               \/ channel.previous = 0 /\ a.least = nextTokenID

\* How often the client has been let in, and whether it waits for an answer.
Got == IF client.phase \in {"new", "greeting"} THEN 0 ELSE client.using + 1
Waiting == client.phase \in {"greeting", "opening"} \/ client.renewing

\* The client is at point b.
AtClient(b) ==
    /\ b.number = client.number /\ b.part = client.part /\ b.message = client.message
    /\ b.least <= client.using
    /\ b.asked = IF Waiting THEN Got + 1 ELSE Got
    /\ client.phase # "open" => client.using = 0 /\ ~client.renewing
    /\ client.phase = "open" => client.using > 0

\* How often the server has let the client in, by what it has written.
Answered == IF conn = "fresh" THEN 0 ELSE IF OpenPending THEN nextTokenID ELSE nextTokenID + 1

\* The requests on the wire lead from where the server is to where the client is.
RequestPath ==
    \E h : /\ SentAlong(h, toServer)
           /\ AtServer(h[0])
           /\ client.phase # "gone" => AtClient(h[Len(toServer)])

\* The responses on the wire bring the client what the server has answered.
AnswerPath ==
    client.phase # "gone" =>
       \E g : AnsweredAlong(g, toClient) /\ g[0] = Got /\ g[Len(toClient)] = Answered

\* As long as the client keeps to the protocol, it is not refused for what it sent,
\* what is dispatched is whole, and the wire leads from one side to the other.
ConformInv ==
    /\ odd \in BOOLEAN
    /\ ~odd => /\ refused \notin {"token", "sequence", "protocol", "size"}
               /\ ~torn
               /\ conn # "closed" => RequestPath /\ AnswerPath

\* ConformInv holds initially.
LEMMA ConformInit == Init => ConformInv
<1> SUFFICES ASSUME Init PROVE ConformInv
  OBVIOUS
<1> DEFINE a == [asked |-> 0, number |-> NotStarted, part |-> 0, message |-> 0, least |-> 0]
           h == [k \in {0} |-> a]
           g == [k \in {0} |-> 0]
<1>1. a \in Points
  BY ChannelAssumption DEF Points, NotStarted
<1>2. SentAlong(h, <<>>) /\ h[0] = a
  BY <1>1 DEF SentAlong, Points
<1>3. AnsweredAlong(g, <<>>) /\ g[0] = 0
  BY DEF AnsweredAlong
<1>4. AtServer(a) /\ AtClient(a) /\ Got = 0 /\ Answered = 0
  BY DEF Init, AtServer, AtClient, Got, Waiting, Answered, Client, Open, Idle, Writers
<1>5. toServer = <<>> /\ toClient = <<>> /\ odd = FALSE /\ torn = FALSE /\ refused = "no"
  BY DEF Init
<1> HIDE DEF a, h, g
<1>6. RequestPath
  BY <1>2, <1>4, <1>5 DEF RequestPath
<1>7. AnswerPath
  BY <1>3, <1>4, <1>5 DEF AnswerPath
<1> QED BY <1>5, <1>6, <1>7 DEF ConformInv

\* The end of a connection keeps ConformInv when it was for another reason than the
\* client's requests.
LEMMA ConformCloses ==
  ASSUME ConformInv, NEW why, Closes(why), UNCHANGED <<odd, torn>>,
         ~odd => why \notin {"token", "sequence", "protocol", "size"}
  PROVE  ConformInv'
BY DEF ConformInv, Closes

\* A step that leaves the wire and the place of both sides alone keeps ConformInv.
LEMMA ConformFrame ==
  ASSUME ConformInv,
         UNCHANGED <<odd, torn, refused, toServer, toClient, client, conn, receiveSequence,
                     nextTokenID, incoming>>,
         Open' => UNCHANGED channel /\ Open,
         job'["loop"].at = "renew" <=> job["loop"].at = "renew",
         OpenPending' <=> OpenPending
  PROVE  ConformInv'
<1>1. ASSUME RequestPath PROVE RequestPath'
  <2>1. PICK h : /\ SentAlong(h, toServer)
                 /\ AtServer(h[0])
                 /\ client.phase # "gone" => AtClient(h[Len(toServer)])
    BY <1>1 DEF RequestPath
  <2>2. AtServer(h[0])'
    BY <2>1 DEF AtServer, Open
  <2>3. client'.phase # "gone" => AtClient(h[Len(toServer)])'
    BY <2>1 DEF AtClient, Got, Waiting
  <2> QED BY <2>1, <2>2, <2>3 DEF RequestPath
<1>2. ASSUME AnswerPath PROVE AnswerPath'
  <2>1. Got' = Got /\ Answered' = Answered
    BY DEF Got, Answered
  <2> QED BY <1>2, <2>1 DEF AnswerPath
<1> QED BY <1>1, <1>2 DEF ConformInv

\* What the client sends next, if it is allowed where the client is, keeps RequestPath.
LEMMA RequestSent ==
  ASSUME ChannelTypeOK, RequestPath, client.phase # "gone", NEW m \in Requests, Sends(m),
         UNCHANGED <<registryVars, serverVars>>,
         \A a \in Points : AtClient(a) =>
             \E b \in Points : Allowed(a, m, b) /\ (client'.phase # "gone" => AtClient(b)')
  PROVE  RequestPath'
<1>0. toServer \in Seq(Requests) /\ toServer' = Append(toServer, m)
  BY DEF ChannelTypeOK, WireTypeOK, Sends
<1>1. PICK h : /\ SentAlong(h, toServer)
               /\ AtServer(h[0])
               /\ AtClient(h[Len(toServer)])
  BY DEF RequestPath
<1>2. h[Len(toServer)] \in Points
  <2>1. Len(toServer) \in 0 .. Len(toServer)
    BY <1>0
  <2> QED BY <1>1, <2>1 DEF SentAlong
<1>3. PICK b \in Points : /\ Allowed(h[Len(toServer)], m, b)
                          /\ client'.phase # "gone" => AtClient(b)'
  BY <1>1, <1>2
<1>4. PICK r : /\ SentAlong(r, Append(toServer, m))
               /\ r[0] = h[0] /\ r[Len(Append(toServer, m))] = b
  BY <1>0, <1>1, <1>3, SentAppend
<1>5. AtServer(h[0])'
  BY <1>1 DEF AtServer, Open, registryVars, serverVars
<1> QED BY <1>0, <1>3, <1>4, <1>5 DEF RequestPath

\* Sending does not change what the client has received.
LEMMA AnswersKept ==
  ASSUME AnswerPath, UNCHANGED <<registryVars, serverVars, toClient>>,
         client'.phase # "gone" => client.phase # "gone" /\ Got' = Got
  PROVE  AnswerPath'
<1>1. Answered' = Answered
  BY DEF Answered, OpenPending, registryVars, serverVars
<1> QED BY <1>1 DEF AnswerPath

\* What a client that keeps to the protocol sends keeps ConformInv.
LEMMA ConformSends ==
  ASSUME ChannelTypeOK, ConformInv, ~odd, conn # "closed",
         \/ ClientHello \/ ClientOpens \/ ClientRenews \/ ClientCloses
         \/ \E chunk \in {"intermediate", "final", "abort"} : ClientSends(chunk)
  PROVE  ConformInv'
<1>0. /\ RequestPath /\ AnswerPath
      /\ client \in Clients /\ client.number \in 0 .. LastNumber + 1
      /\ client.using \in Nat /\ client.part \in Nat /\ client.message \in Nat
  BY DEF ConformInv, ChannelTypeOK, WireTypeOK, Clients
<1>1. /\ UNCHANGED <<registryVars, serverVars, toClient, historyVars>> /\ client.phase # "gone"
  BY DEF ClientHello, ClientOpens, ClientRenews, ClientCloses, ClientSends
<1>2. ASSUME RequestPath', AnswerPath' PROVE ConformInv'
  BY <1>1, <1>2 DEF ConformInv, historyVars, serverVars
<1>3. \A x \in 0 .. LastNumber : x \in 0 .. LastNumber + 1
  BY ChannelAssumption
<1>4. CASE ClientHello
  <2> DEFINE m == Chunk("HEL", "final", 0, 0, NoPart)
  <2>1. /\ m \in Requests /\ m.kind = "HEL"
    BY ChannelAssumption DEF Chunk, Requests, NoPart
  <2>2. client.phase = "new" /\ Sends(m) /\ client' = [client EXCEPT !.phase = "greeting"]
    BY <1>4 DEF ClientHello
  <2> HIDE DEF m
  <2>3. /\ client'.phase = "greeting" /\ client'.using = client.using
        /\ client'.number = client.number /\ client'.part = client.part
        /\ client'.message = client.message /\ client'.renewing = client.renewing
    BY <1>0, <2>2 DEF Clients
  <2>4. ASSUME NEW a \in Points, AtClient(a)
        PROVE  \E b \in Points : Allowed(a, m, b) /\ AtClient(b)'
    <3> DEFINE b == [a EXCEPT !.asked = 1]
    <3>1. a.asked = 0 /\ a.least <= client.using
      BY <2>2, <2>4 DEF AtClient, Got, Waiting
    <3>2. /\ b \in Points /\ b.asked = 1 /\ b.number = a.number /\ b.part = a.part
          /\ b.message = a.message /\ b.least = a.least
      BY DEF Points
    <3> HIDE DEF b
    <3>3. Allowed(a, m, b)
      BY <2>1, <3>1, <3>2 DEF Allowed, Symmetric
    <3>4. AtClient(b)'
      BY <2>2, <2>3, <2>4, <3>2 DEF AtClient, Got, Waiting
    <3> QED BY <3>2, <3>3, <3>4
  <2>5. RequestPath'
    BY <1>0, <1>1, <2>1, <2>2, <2>4, RequestSent
  <2>6. AnswerPath'
    BY <1>0, <1>1, <2>2, <2>3, AnswersKept DEF Got
  <2> QED BY <1>2, <2>5, <2>6
<1>5. CASE ClientOpens
  <2>1. PICK n \in Numbers(client.number) :
          Sends(Chunk("ISSUE", "final", 0, n, NoPart)) /\ client' = Opening(n)
    BY <1>5 DEF ClientOpens
  <2>2. n \in 0 .. LastNumber /\ n \in 0 .. LastNumber + 1 /\ Accepts(client.number, n)
    BY <1>0, <1>3, NumbersAccepted
  <2> DEFINE m == Chunk("ISSUE", "final", 0, n, NoPart)
  <2>3. m \in Requests /\ m.kind = "ISSUE" /\ m.number = n
    BY <2>2 DEF Chunk, Requests, NoPart
  <2>4. Sends(m)
    BY <2>1
  <2> HIDE DEF m
  <2>5. client.phase = "greeted"
    BY <1>5 DEF ClientOpens
  <2>6. /\ client'.phase = "opening" /\ client'.using = client.using /\ client'.number = n
        /\ client'.part = client.part /\ client'.message = client.message
        /\ client'.renewing = client.renewing
    BY <1>0, <2>1 DEF Clients, Opening
  <2>7. ASSUME NEW a \in Points, AtClient(a)
        PROVE  \E b \in Points : Allowed(a, m, b) /\ AtClient(b)'
    <3> DEFINE b == [a EXCEPT !.asked = 2, !.number = n]
    <3>1. a.asked = 1 /\ a.number = client.number
      BY <2>5, <2>7 DEF AtClient, Got, Waiting
    <3>2. /\ b \in Points /\ b.asked = 2 /\ b.number = n /\ b.part = a.part
          /\ b.message = a.message /\ b.least = a.least
      BY <2>2 DEF Points
    <3> HIDE DEF b
    <3>3. Allowed(a, m, b)
      BY <2>2, <2>3, <3>1, <3>2 DEF Allowed, Symmetric
    <3>4. AtClient(b)'
      BY <2>5, <2>6, <2>7, <3>2 DEF AtClient, Got, Waiting
    <3> QED BY <3>2, <3>3, <3>4
  <2>8. RequestPath'
    BY <1>0, <1>1, <2>3, <2>4, <2>7, RequestSent
  <2>9. AnswerPath'
    BY <1>0, <1>1, <2>5, <2>6, AnswersKept DEF Got
  <2> QED BY <1>2, <2>8, <2>9
<1>6. CASE ClientRenews
  <2>1. PICK n \in Numbers(client.number) :
          Sends(Chunk("RENEW", "final", 0, n, NoPart)) /\ client' = Renewing(n)
    BY <1>6 DEF ClientRenews
  <2>2. n \in 0 .. LastNumber /\ n \in 0 .. LastNumber + 1 /\ Accepts(client.number, n)
    BY <1>0, <1>3, NumbersAccepted
  <2> DEFINE m == Chunk("RENEW", "final", 0, n, NoPart)
  <2>3. m \in Requests /\ m.kind = "RENEW" /\ m.number = n
    BY <2>2 DEF Chunk, Requests, NoPart
  <2>4. Sends(m)
    BY <2>1
  <2> HIDE DEF m
  <2>5. client.phase = "open" /\ ~client.renewing
    BY <1>6 DEF ClientRenews
  <2>6. /\ client'.phase = "open" /\ client'.using = client.using /\ client'.number = n
        /\ client'.part = client.part /\ client'.message = client.message
        /\ client'.renewing = TRUE
    BY <1>0, <2>1, <2>5 DEF Clients, Renewing
  <2>7. ASSUME NEW a \in Points, AtClient(a)
        PROVE  \E b \in Points : Allowed(a, m, b) /\ AtClient(b)'
    <3> DEFINE b == [a EXCEPT !.asked = a.asked + 1, !.number = n]
    <3>1. a.asked = client.using + 1 /\ client.using > 0 /\ a.number = client.number
      BY <2>5, <2>7 DEF AtClient, Got, Waiting
    <3>2. /\ b \in Points /\ b.asked = a.asked + 1 /\ b.number = n /\ b.part = a.part
          /\ b.message = a.message /\ b.least = a.least
      <4>1. a.asked + 1 \in Nat
        BY DEF Points
      <4> QED BY <2>2, <4>1 DEF Points
    <3> HIDE DEF b
    <3>3. Allowed(a, m, b)
      BY <1>0, <2>2, <2>3, <3>1, <3>2 DEF Allowed, Symmetric
    <3>4. AtClient(b)'
      BY <2>5, <2>6, <2>7, <3>1, <3>2 DEF AtClient, Got, Waiting
    <3> QED BY <3>2, <3>3, <3>4
  <2>8. RequestPath'
    BY <1>0, <1>1, <2>3, <2>4, <2>7, RequestSent
  <2>9. AnswerPath'
    BY <1>0, <1>1, <2>5, <2>6, AnswersKept DEF Got
  <2> QED BY <1>2, <2>8, <2>9
<1>7. CASE ClientCloses
  <2>1. PICK n \in Numbers(client.number) :
          Sends(Chunk("CLO", "final", client.using, n, NoPart))
    BY <1>7 DEF ClientCloses
  <2>2. n \in 0 .. LastNumber /\ n \in 0 .. LastNumber + 1 /\ Accepts(client.number, n)
    BY <1>0, <1>3, NumbersAccepted
  <2> DEFINE m == Chunk("CLO", "final", client.using, n, NoPart)
  <2>3. m \in Requests /\ m.kind = "CLO" /\ m.number = n /\ m.token = client.using
    BY <1>0, <2>2 DEF Chunk, Requests, NoPart
  <2>4. Sends(m)
    BY <2>1
  <2> HIDE DEF m
  <2>5. client.phase = "open" /\ client'.phase = "gone"
    BY <1>7, ClientType DEF ClientCloses
  <2>6. ASSUME NEW a \in Points, AtClient(a)
        PROVE  \E b \in Points : Allowed(a, m, b)
    <3> DEFINE b == [a EXCEPT !.number = n, !.least = client.using]
    <3>1. /\ a.asked = client.using + 1 \/ a.asked = client.using + 2
          /\ client.using > 0 /\ a.number = client.number /\ a.least <= client.using
      BY <1>0, <2>5, <2>6 DEF AtClient, Got, Waiting
    <3>2. /\ b \in Points /\ b.asked = a.asked /\ b.number = n /\ b.part = a.part
          /\ b.message = a.message /\ b.least = client.using
      BY <1>0, <2>2 DEF Points
    <3> HIDE DEF b
    <3>3. Allowed(a, m, b)
      BY <1>0, <2>2, <2>3, <3>1, <3>2 DEF Allowed, Symmetric
    <3> QED BY <3>2, <3>3
  <2>7. RequestPath'
    BY <1>0, <1>1, <2>3, <2>4, <2>5, <2>6, RequestSent
  <2>8. AnswerPath'
    BY <1>0, <1>1, <2>5, AnswersKept
  <2> QED BY <1>2, <2>7, <2>8
<1>8. ASSUME NEW chunk \in {"intermediate", "final", "abort"}, ClientSends(chunk)
      PROVE  ConformInv'
  <2> DEFINE part == client.part + 1
             message == IF part = 1 THEN client.message + 1 ELSE client.message
  <2>1. PICK n \in Numbers(client.number) :
          /\ Sends(Chunk("MSG", chunk, client.using, n, <<message, part>>))
          /\ client' = Sending(chunk, message, part, n)
    BY <1>8 DEF ClientSends
  <2>2. n \in 0 .. LastNumber /\ n \in 0 .. LastNumber + 1 /\ Accepts(client.number, n)
    BY <1>0, <1>3, NumbersAccepted
  <2>3. /\ part \in Nat /\ message \in Nat /\ part = client.part + 1
        /\ client.part > 0 => message = client.message
    BY <1>0
  <2>4. /\ client.phase = "open"
        /\ chunk = "intermediate" => MaxChunkCount = 0 \/ part < MaxChunkCount
    BY <1>8 DEF ClientSends
  <2> DEFINE m == Chunk("MSG", chunk, client.using, n, <<message, part>>)
  <2> HIDE DEF part, message
  <2>5. /\ m \in Requests /\ m.kind = "MSG" /\ m.number = n /\ m.token = client.using
        /\ m.chunk = chunk /\ m.of = <<message, part>>
    BY <1>0, <2>2, <2>3 DEF Chunk, Requests
  <2>6. Sends(m)
    BY <2>1
  <2> HIDE DEF m
  <2>7. /\ client'.phase = "open" /\ client'.using = client.using /\ client'.number = n
        /\ client'.part = (IF chunk = "intermediate" THEN part ELSE 0)
        /\ client'.message = message /\ client'.renewing = client.renewing
    BY <1>0, <2>1, <2>4 DEF Clients, Sending
  <2>8. ASSUME NEW a \in Points, AtClient(a)
        PROVE  \E b \in Points : Allowed(a, m, b) /\ AtClient(b)'
    <3>1. /\ a.asked = client.using + 1 \/ a.asked = client.using + 2
          /\ client.using > 0 /\ a.number = client.number /\ a.least <= client.using
          /\ a.part = client.part /\ a.message = client.message
      BY <1>0, <2>4, <2>8 DEF AtClient, Got, Waiting
    <3>2. PICK b \in Points :
            /\ b.asked = a.asked /\ b.number = n /\ b.message = message
            /\ b.part = (IF chunk = "intermediate" THEN part ELSE 0) /\ b.least = client.using
      <4> DEFINE b == [asked |-> a.asked, number |-> n, message |-> message,
                       part |-> IF chunk = "intermediate" THEN part ELSE 0,
                       least |-> client.using]
      <4>1. b \in Points
        BY <1>0, <2>2, <2>3, <2>4, ChannelAssumption DEF Points
      <4> QED BY <4>1
    <3>3. Allowed(a, m, b)
      BY <1>0, <2>2, <2>3, <2>5, <3>1, <3>2 DEF Allowed, Symmetric
    <3>4. AtClient(b)'
      BY <1>0, <2>4, <2>7, <2>8, <3>1, <3>2 DEF AtClient, Got, Waiting
    <3> QED BY <3>3, <3>4
  <2>9. RequestPath'
    BY <1>0, <1>1, <2>5, <2>6, <2>8, RequestSent
  <2>10. AnswerPath'
    BY <1>0, <1>1, <2>4, <2>7, AnswersKept DEF Got
  <2> QED BY <1>2, <2>9, <2>10
<1> QED BY <1>4, <1>5, <1>6, <1>7, <1>8

\* The requests behind the first one lead on from point b.
Rest(b) ==
    \E r : /\ SentAlong(r, Tail(toServer))
           /\ r[0] = b
           /\ client.phase # "gone" => AtClient(r[Len(Tail(toServer))])

\* The first request on the wire is allowed where the server is.
LEMMA RequestFirst ==
  ASSUME ChannelTypeOK, RequestPath, toServer # <<>>
  PROVE  \E a, b \in Points : AtServer(a) /\ Allowed(a, Head(toServer), b) /\ Rest(b)
<1>0. /\ toServer \in Seq(Requests) /\ Head(toServer) = toServer[1]
      /\ Len(toServer) \in Nat /\ Len(toServer) > 0
  BY DEF ChannelTypeOK, WireTypeOK
<1>1. PICK h : /\ SentAlong(h, toServer)
               /\ AtServer(h[0])
               /\ client.phase # "gone" => AtClient(h[Len(toServer)])
  BY DEF RequestPath
<1>2. 0 \in 0 .. Len(toServer) /\ 1 \in 1 .. Len(toServer) /\ 1 \in 0 .. Len(toServer)
      /\ 1 - 1 = 0
  BY <1>0
<1>3. h[0] \in Points /\ h[1] \in Points /\ Allowed(h[0], Head(toServer), h[1])
  BY <1>0, <1>1, <1>2 DEF SentAlong
<1>4. Rest(h[1])
  <2>1. PICK r : /\ SentAlong(r, Tail(toServer))
                 /\ r[0] = h[1] /\ r[Len(Tail(toServer))] = h[Len(toServer)]
    BY <1>0, <1>1, SentTail
  <2> QED BY <1>1, <2>1 DEF Rest
<1> DEFINE a == h[0]
           b == h[1]
<1>5. a \in Points /\ b \in Points /\ AtServer(a) /\ Allowed(a, Head(toServer), b) /\ Rest(b)
  BY <1>1, <1>3, <1>4
<1> HIDE DEF a, b
<1> QED BY <1>5

\* Once the first request is taken, the path starts from where it has led.
LEMMA RequestNext ==
  ASSUME NEW b, Rest(b), AtServer(b)', toServer' = Tail(toServer), UNCHANGED client
  PROVE  RequestPath'
<1>1. PICK r, last : /\ SentAlong(r, Tail(toServer))
                     /\ r[0] = b /\ last = r[Len(Tail(toServer))]
                     /\ client.phase # "gone" => AtClient(last)
  BY DEF Rest
<1>2. client'.phase # "gone" => AtClient(last)'
  BY <1>1 DEF AtClient, Got, Waiting
<1> QED BY <1>1, <1>2 DEF RequestPath

\* splitSecureMessage refuses a request that is allowed only when the channel is gone
\* or its token has expired; the token check leaves what the next request needs.
LEMMA AllowedAccepted ==
  ASSUME ChannelTypeOK, TokenOrder, NEW a \in Points, NEW b \in Points, NEW m \in Requests,
         AtServer(a), Allowed(a, m, b), conn = "negotiated", job["loop"].at = "idle",
         m.kind # "HEL"
  PROVE  /\ WhyRefused(m) \in {"no", "closed", "expired"}
         /\ b.number = m.number
         /\ WhyRefused(m) = "no" /\ ChecksToken(m) /\ UNCHANGED nextTokenID =>
              (Open => \/ channel.previous + 1 = nextTokenID
                       \/ channel.previous = 0 /\ b.least = nextTokenID)'
<1>0. /\ nextTokenID \in Nat /\ channel.current \in Nat /\ channel.previous \in Nat
      /\ channel \in [state : {"none", "open", "gone"}, current : Nat, previous : Nat]
      /\ m.token \in Nat /\ a.least \in Nat /\ a.asked = nextTokenID + 1
  BY DEF ChannelTypeOK, ServerTypeOK, Requests, Points, AtServer
<1>1. Accepts(receiveSequence, m.number) /\ b.number = m.number
  BY DEF Allowed, AtServer
<1>2. CASE ~Symmetric(m)
  <2>1. WhyRefused(m) = "no"
    BY <1>1, <1>2 DEF WhyRefused
  <2>2. b.least = a.least
    BY <1>2 DEF Allowed
  <2>3. ChecksToken(m) => channel' = channel
    BY <1>2 DEF ChecksToken
  <2> QED BY <1>1, <2>1, <2>2, <2>3 DEF AtServer, Open
<1>3. CASE Symmetric(m)
  <2>1. /\ m.token > 0 /\ m.token = b.least /\ a.least <= m.token
        /\ m.token = nextTokenID \/ m.token + 1 = nextTokenID
    BY <1>0, <1>3 DEF Allowed
  <2>2. CASE ~Open
    <3>1. WhyRefused(m) = "closed"
      BY <1>1, <1>3, <2>2 DEF WhyRefused, TokenRefused
    <3> QED BY <1>1, <3>1
  <2>3. CASE Open
    <3>1. /\ channel.current = nextTokenID
          /\ \/ channel.previous + 1 = nextTokenID
             \/ channel.previous = 0 /\ a.least = nextTokenID
      BY <2>3 DEF TokenOrder, AtServer
    <3>2. m.token \in {channel.current, channel.previous} \ {0}
      BY <1>0, <2>1, <3>1
    <3>3. TokenRefused(m.token) \in {"no", "expired"}
      BY <2>3, <3>2 DEF TokenRefused
    <3>4. WhyRefused(m) = TokenRefused(m.token)
      BY <1>1, <1>3, <3>3 DEF WhyRefused
    <3>5. ASSUME WhyRefused(m) = "no", ChecksToken(m), UNCHANGED nextTokenID
          PROVE  \/ channel'.previous + 1 = nextTokenID'
                 \/ channel'.previous = 0 /\ b.least = nextTokenID'
      <4>1. m.token \notin expired /\ channel' = AcceptToken(m.token)
        BY <1>3, <2>3, <3>2, <3>4, <3>5 DEF ChecksToken, TokenRefused
      <4>2. CASE m.token = channel.current
        <5>1. channel' = [channel EXCEPT !.previous = 0]
          BY <2>3, <4>1, <4>2 DEF AcceptToken
        <5>2. channel'.previous = 0
          BY <1>0, <5>1
        <5> QED BY <2>1, <3>1, <3>5, <4>2, <5>2
      <4>3. CASE m.token # channel.current
        <5>1. channel' = channel
          BY <4>1, <4>3 DEF AcceptToken
        <5>2. channel.previous + 1 = nextTokenID
          BY <1>0, <2>1, <3>1, <3>2, <4>3
        <5> QED BY <3>5, <5>1, <5>2
      <4> QED BY <4>2, <4>3
    <3> QED BY <1>1, <3>3, <3>4, <3>5
  <2> QED BY <2>2, <2>3
<1> QED BY <1>2, <1>3

\* A client that keeps to the protocol takes the responses as they come.
LEMMA ConformReceives ==
  ASSUME ChannelTypeOK, JobsInv, ConformInv, ~odd, conn # "closed", ClientReceives
  PROVE  ConformInv'
<1> DEFINE m == Head(toClient)
<1>0. /\ client \in Clients /\ client.using \in Nat /\ nextTokenID \in Nat
      /\ toServer \in Seq(Requests)
  BY DEF ChannelTypeOK, ServerTypeOK, WireTypeOK, Clients
<1>1. /\ toClient # <<>> /\ toClient' = Tail(toClient) /\ client.phase # "gone"
      /\ UNCHANGED <<registryVars, serverVars, toServer, odd, refused, torn>>
      /\ RequestPath /\ AnswerPath
  BY DEF ClientReceives, ConformInv
<1>2. /\ m \in Responses /\ m = toClient[1] /\ toClient \in Seq(Responses)
      /\ Len(toClient) \in Nat /\ Len(toClient) > 0
  BY <1>1, ReceivedType DEF ChannelTypeOK, WireTypeOK
<1>3. \/ client' = Client("gone")
      \/ m.kind = "ACK" /\ client' = [client EXCEPT !.phase = "greeted"]
      \/ m.kind = "OPN" /\ client' = [client EXCEPT !.phase = "open", !.using = m.token,
                                                    !.renewing = FALSE, !.seen = m.number]
      \/ m.kind = "MSG" /\ client' = [client EXCEPT !.seen = m.number]
  <2>1. m.kind \in {"ACK", "OPN", "MSG"}
    BY <1>2 DEF Responses
  <2> QED BY <2>1 DEF ClientReceives
<1> HIDE DEF m
<1>4. PICK h, last : /\ SentAlong(h, toServer) /\ AtServer(h[0])
                     /\ last = h[Len(toServer)] /\ AtClient(last)
  BY <1>1 DEF RequestPath
<1>5. PICK g : AnsweredAlong(g, toClient) /\ g[0] = Got /\ g[Len(toClient)] = Answered
  BY <1>1 DEF AnswerPath
<1>6. /\ m.kind = "ACK" => g[0] = 0 /\ g[1] = 1
      /\ m.kind = "OPN" => g[0] > 0 /\ g[1] = g[0] + 1 /\ m.token = g[0]
      /\ m.kind = "MSG" => g[1] = g[0]
      /\ g[1] <= Answered
  <2>1. 1 \in 1 .. Len(toClient) /\ 1 \in 0 .. Len(toClient) /\ 1 - 1 = 0
    BY <1>2
  <2> QED BY <1>2, <1>5, <2>1 DEF AnsweredAlong
<1>7. /\ h[0].asked <= last.asked
      /\ conn = "fresh" => Answered = 0
      /\ conn # "fresh" => Answered <= h[0].asked /\ h[0].asked > 0
      /\ h[0].asked \in Nat /\ last.asked \in Nat /\ Answered \in Nat
  <2>1. 0 \in 0 .. Len(toServer) /\ Len(toServer) \in 0 .. Len(toServer)
    BY <1>0
  <2>2. h[0] \in Points /\ last \in Points
        /\ h[0].asked <= last.asked
    BY <1>4, <2>1 DEF SentAlong
  <2> QED BY <1>0, <1>4, <2>2 DEF AtServer, Answered, Points
<1>8. CASE client' = Client("gone")
  <2>1. client'.phase = "gone"
    BY <1>8, ClientType
  <2>2. AtServer(h[0])'
    BY <1>1, <1>4 DEF AtServer, Open, registryVars, serverVars
  <2>3. RequestPath'
    BY <1>1, <1>4, <2>1, <2>2 DEF RequestPath
  <2>4. AnswerPath'
    BY <2>1 DEF AnswerPath
  <2> QED BY <1>1, <2>3, <2>4 DEF ConformInv
<1>9. ASSUME AtClient(last)', Got' = g[1]
      PROVE  ConformInv'
  <2>1. AtServer(h[0])'
    BY <1>1, <1>4 DEF AtServer, Open, registryVars, serverVars
  <2>2. RequestPath'
    BY <1>1, <1>4, <1>9, <2>1 DEF RequestPath
  <2>3. PICK r : /\ AnsweredAlong(r, Tail(toClient))
                 /\ r[0] = g[1] /\ r[Len(Tail(toClient))] = g[Len(toClient)]
    BY <1>1, <1>2, <1>5, AnsweredTail
  <2>4. Answered' = Answered
    BY <1>1 DEF Answered, OpenPending, registryVars, serverVars
  <2>5. AnswerPath'
    BY <1>1, <1>5, <1>9, <2>3, <2>4 DEF AnswerPath
  <2> QED BY <1>1, <2>2, <2>5 DEF ConformInv
<1>10. CASE m.kind = "ACK" /\ client' = [client EXCEPT !.phase = "greeted"]
  <2>1. /\ client'.phase = "greeted" /\ client'.using = client.using
        /\ client'.number = client.number /\ client'.part = client.part
        /\ client'.message = client.message /\ client'.renewing = client.renewing
    BY <1>0, <1>10 DEF Clients
  <2>2. Got = 0 /\ g[1] = 1
    BY <1>5, <1>6, <1>10
  <2>3. client.phase \in {"new", "greeting"}
    BY <1>0, <2>2 DEF Got
  <2>4. last.asked > 0
    BY <1>6, <1>7, <2>2
  <2>5. last.asked = 1 /\ client.using = 0 /\ ~client.renewing
    BY <1>4, <2>2, <2>3, <2>4 DEF AtClient, Waiting
  <2>6. AtClient(last)'
    BY <1>4, <2>1, <2>5 DEF AtClient, Waiting, Got
  <2>7. Got' = 1
    BY <2>1, <2>5 DEF Got
  <2> QED BY <1>9, <2>2, <2>6, <2>7
<1>11. CASE m.kind = "OPN" /\ client' = [client EXCEPT !.phase = "open", !.using = m.token,
                                                       !.renewing = FALSE, !.seen = m.number]
  <2>1. /\ client'.phase = "open" /\ client'.using = m.token
        /\ client'.number = client.number /\ client'.part = client.part
        /\ client'.message = client.message /\ client'.renewing = FALSE
    BY <1>0, <1>11 DEF Clients
  <2>2. Got > 0 /\ g[1] = Got + 1 /\ m.token = Got
    BY <1>5, <1>6, <1>11
  <2>3. client.phase \notin {"new", "greeting"} /\ Got = client.using + 1
    BY <1>0, <2>2 DEF Got
  <2>4. last.asked >= client.using + 2
    BY <1>0, <1>6, <1>7, <2>2, <2>3
  <2>5. last.asked = client.using + 2
    <3>1. AtClient(last)
      BY <1>4
    <3>2. last.asked = Got + 1 \/ last.asked = Got
      BY <3>1 DEF AtClient
    <3> QED BY <1>0, <2>3, <2>4, <3>2
  <2>6. last.least <= client.using /\ last.least \in Nat
    <3>1. Len(toServer) \in 0 .. Len(toServer)
      BY <1>0
    <3>2. last \in Points
      BY <1>4, <3>1 DEF SentAlong
    <3> QED BY <1>4, <3>2 DEF AtClient, Points
  <2>7. AtClient(last)'
    BY <1>0, <1>4, <2>1, <2>2, <2>3, <2>5, <2>6 DEF AtClient, Waiting, Got
  <2>8. Got' = g[1]
    BY <2>1, <2>2 DEF Got
  <2> QED BY <1>9, <2>7, <2>8
<1>12. CASE m.kind = "MSG" /\ client' = [client EXCEPT !.seen = m.number]
  <2>1. /\ client'.phase = client.phase /\ client'.using = client.using
        /\ client'.number = client.number /\ client'.part = client.part
        /\ client'.message = client.message /\ client'.renewing = client.renewing
    BY <1>0, <1>12 DEF Clients
  <2>2. Got' = Got /\ g[1] = Got
    BY <1>5, <1>6, <1>12, <2>1 DEF Got
  <2>3. AtClient(last)'
    BY <1>4, <2>1, <2>2 DEF AtClient, Waiting
  <2> QED BY <1>9, <2>2, <2>3
<1> QED BY <1>3, <1>8, <1>10, <1>11, <1>12

\* With the chunk that is allowed next, the accumulator holds the first chunks of one
\* message, in order, and no more of them than the Acknowledge announced.
LEMMA NextChunk ==
  ASSUME NEW a \in Points, NEW b \in Points, NEW m \in Requests, AtServer(a),
         Allowed(a, m, b), m.kind = "MSG"
  PROVE  /\ Append(incoming, m.of) \in Seq(Nat \X Nat)
         /\ Len(Append(incoming, m.of)) = a.part + 1
         /\ \A k \in 1 .. a.part + 1 : Append(incoming, m.of)[k] = <<b.message, k>>
         /\ ~TooMany
<1>1. /\ a.part \in Nat /\ b.message \in Nat /\ m.of \in Nat \X Nat
      /\ MaxChunkCount # 0 => a.part < MaxChunkCount
  BY DEF Points, Requests
<1>2. /\ incoming \in Seq(Nat \X Nat) /\ Len(incoming) = a.part
      /\ \A k \in 1 .. a.part : incoming[k] = <<a.message, k>>
  BY DEF AtServer
<1>3. m.of = <<b.message, a.part + 1>> /\ (a.part > 0 => b.message = a.message)
  BY DEF Allowed
<1>4. Append(incoming, m.of) \in Seq(Nat \X Nat) /\ Len(Append(incoming, m.of)) = a.part + 1
  BY <1>1, <1>2
<1>5. ASSUME NEW k \in 1 .. a.part + 1
      PROVE  Append(incoming, m.of)[k] = <<b.message, k>>
  <2>1. CASE k \in 1 .. a.part
    <3>1. Append(incoming, m.of)[k] = incoming[k]
      BY <1>1, <1>2, <2>1
    <3>2. b.message = a.message
      BY <1>1, <1>3, <2>1
    <3> QED BY <1>2, <2>1, <3>1, <3>2
  <2>2. CASE k = a.part + 1
    <3>1. Append(incoming, m.of)[k] = m.of
      BY <1>1, <1>2, <2>2
    <3> QED BY <1>3, <2>2, <3>1
  <2>3. k \in 1 .. a.part \/ k = a.part + 1
    BY <1>1
  <2> QED BY <2>1, <2>2, <2>3
<1>6. ~TooMany
  BY <1>1, <1>2, ChannelAssumption DEF TooMany
<1> QED BY <1>4, <1>5, <1>6

\* The steps of the read loop keep ConformInv: none of them refuses what a client that
\* keeps to the protocol sent.
LEMMA ConformLoop ==
  ASSUME ChannelTypeOK, TokenOrder, JobsInv, ConformInv, ~odd, conn # "closed", LoopStep
  PROVE  ConformInv'
<1>0. /\ job \in [Writers -> Jobs] /\ "loop" \in Writers /\ "publish" \in Writers
      /\ nextTokenID \in Nat /\ client \in Clients /\ RequestPath /\ AnswerPath
      /\ refused \notin {"token", "sequence", "protocol", "size"} /\ ~torn
      /\ conn \in {"fresh", "negotiated"}
      /\ channel \in [state : {"none", "open", "gone"}, current : Nat, previous : Nat]
  BY DEF ChannelTypeOK, ServerTypeOK, WireTypeOK, Writers, ConformInv
<1>1. ASSUME NEW kinds, Reads(kinds)
      PROVE  \E a, b \in Points :
               /\ AtServer(a) /\ Allowed(a, Head(toServer), b) /\ Rest(b)
               /\ Head(toServer) \in Requests /\ Head(toServer).kind \in kinds
               /\ job["loop"].at = "idle"
  <2>1. toServer # <<>> /\ Head(toServer).kind \in kinds /\ job["loop"].at = "idle"
    BY <1>1 DEF Reads
  <2>2. Head(toServer) \in Requests
    BY <1>1, ReadsType DEF ChannelTypeOK
  <2> QED BY <1>0, <2>1, <2>2, RequestFirst
<1>2. ASSUME RequestPath', AnswerPath', UNCHANGED <<odd, refused, torn>>
      PROVE  ConformInv'
  BY <1>0, <1>2 DEF ConformInv
<1>3. CASE HandleRefused
  <2>1. PICK kinds : /\ Reads(kinds)
                     /\ \/ kinds = {"BAD"}
                        \/ kinds = {"HEL"} /\ conn = "negotiated"
                        \/ kinds = {"ISSUE", "RENEW", "MSG", "CLO"} /\ conn = "fresh"
    BY <1>3 DEF HandleRefused
  <2>2. PICK a, b \in Points :
               /\ AtServer(a) /\ Allowed(a, Head(toServer), b)
               /\ Head(toServer).kind \in kinds /\ job["loop"].at = "idle"
    BY <1>1, <2>1
  <2>3. a.asked = IF conn = "fresh" THEN 0 ELSE nextTokenID + 1
    BY <2>2 DEF AtServer
  <2> QED BY <1>0, <2>1, <2>2, <2>3 DEF Allowed
<1>4. CASE HandleHello
  <2>1. /\ Reads({"HEL"}) /\ conn = "fresh" /\ conn' = "negotiated"
        /\ toServer' = Tail(toServer)
        /\ toClient' = Append(toClient, [kind |-> "ACK", token |-> 0, number |-> 0])
        /\ UNCHANGED <<registryVars, receiveSequence, incoming, job, client, historyVars>>
    BY <1>4 DEF HandleHello
  <2>2. PICK a, b \in Points :
               /\ AtServer(a) /\ Allowed(a, Head(toServer), b) /\ Rest(b)
               /\ Head(toServer).kind = "HEL" /\ job["loop"].at = "idle"
    BY <1>1, <2>1
  <2>3. nextTokenID = 0 /\ ~OpenPending
    BY <2>1, <2>2 DEF JobsInv, OpenPending
  <2>4. /\ b.asked = 1 /\ b.number = a.number /\ b.least = a.least /\ b.part = a.part
        /\ b.message = a.message
    BY <2>2 DEF Allowed, Symmetric
  <2>5. AtServer(b)'
    BY <2>1, <2>2, <2>3, <2>4 DEF AtServer, Open, registryVars
  <2>6. RequestPath'
    BY <2>1, <2>2, <2>5, RequestNext
  <2>7. AnswerPath'
    <3>1. CASE client.phase = "gone"
      BY <2>1, <3>1 DEF AnswerPath
    <3>2. CASE client.phase # "gone"
      <4> DEFINE m == [kind |-> "ACK", token |-> 0, number |-> 0]
      <4>1. PICK g : AnsweredAlong(g, toClient) /\ g[0] = Got /\ g[Len(toClient)] = 0
        BY <1>0, <2>1, <3>2 DEF AnswerPath, Answered
      <4>2. m \in Responses /\ m.kind = "ACK" /\ toClient \in Seq(Responses)
        BY ChannelAssumption DEF Responses, ChannelTypeOK, WireTypeOK
      <4>3. toClient' = Append(toClient, m)
        BY <2>1
      <4> HIDE DEF m
      <4>4. PICK h : /\ AnsweredAlong(h, Append(toClient, m))
                     /\ h[0] = g[0] /\ h[Len(Append(toClient, m))] = 1
        BY <4>1, <4>2, AnsweredAppend
      <4>5. Got' = Got /\ Answered' = 1
        BY <2>1, <2>3 DEF Got, Answered, OpenPending, registryVars
      <4> QED BY <4>1, <4>3, <4>4, <4>5 DEF AnswerPath
    <3> QED BY <3>1, <3>2
  <2> QED BY <1>2, <2>1, <2>6, <2>7 DEF historyVars
<1>5. ASSUME NEW kinds \in SUBSET {"ISSUE", "RENEW", "MSG", "CLO"}, Reads(kinds),
             conn = "negotiated"
      PROVE  \E a, b \in Points :
               LET m == Head(toServer) IN
               /\ AtServer(a) /\ Allowed(a, m, b) /\ Rest(b) /\ m \in Requests
               /\ a.asked = nextTokenID + 1 /\ m.kind \in kinds
               /\ WhyRefused(m) \in {"no", "closed", "expired"} /\ b.number = m.number
               /\ WhyRefused(m) = "no" /\ ChecksToken(m) /\ UNCHANGED nextTokenID =>
                    (Open => \/ channel.previous + 1 = nextTokenID
                             \/ channel.previous = 0 /\ b.least = nextTokenID)'
  <2>1. PICK a, b \in Points :
               /\ AtServer(a) /\ Allowed(a, Head(toServer), b) /\ Rest(b)
               /\ Head(toServer) \in Requests /\ Head(toServer).kind \in kinds
               /\ job["loop"].at = "idle"
    BY <1>1, <1>5
  <2>2. a.asked = nextTokenID + 1
    BY <1>5, <2>1 DEF AtServer
  <2>3. Head(toServer).kind # "HEL"
    BY <2>1
  <2> QED BY <1>5, <2>1, <2>2, <2>3, AllowedAccepted
<1>6. CASE HandleUnsplit
  <2>1. /\ Reads({"ISSUE", "RENEW", "MSG", "CLO"}) /\ conn = "negotiated"
        /\ WhyRefused(Head(toServer)) # "no" /\ Closes(WhyRefused(Head(toServer)))
        /\ UNCHANGED <<odd, torn>>
    BY <1>6 DEF HandleUnsplit
  <2>2. WhyRefused(Head(toServer)) \in {"no", "closed", "expired"}
    BY <1>5, <2>1
  <2>3. PICK why : why = WhyRefused(Head(toServer))
    OBVIOUS
  <2> QED BY <2>1, <2>2, <2>3, ConformCloses
<1>7. ASSUME toClient' = toClient, client' = client, Got' = Got, Answered' = Answered
      PROVE  AnswerPath'
  BY <1>0, <1>7 DEF AnswerPath
<1>8. CASE HandleIssue
  <2>1. /\ Reads({"ISSUE"}) /\ conn = "negotiated" /\ receiveSequence' = Head(toServer).number
        /\ UNCHANGED <<odd, torn, incoming>>
    BY <1>8 DEF HandleIssue, Split
  <2>2. \/ Closes("resources")
        \/ /\ nextTokenID' = nextTokenID + 1
           /\ channel' = [state |-> "open", current |-> nextTokenID + 1, previous |-> 0]
           /\ Taken
           /\ Reply("loop", "OPN", nextTokenID + 1)
    BY <1>8 DEF HandleIssue
  <2>3. CASE Closes("resources")
    BY <2>1, <2>3, ConformCloses
  <2>4. CASE /\ nextTokenID' = nextTokenID + 1
             /\ channel' = [state |-> "open", current |-> nextTokenID + 1, previous |-> 0]
             /\ Taken
             /\ Reply("loop", "OPN", nextTokenID + 1)
    <3>1. PICK a, b \in Points :
               /\ AtServer(a) /\ Allowed(a, Head(toServer), b) /\ Rest(b)
               /\ a.asked = nextTokenID + 1 /\ Head(toServer).kind = "ISSUE"
               /\ b.number = Head(toServer).number
      BY <1>5, <2>1
    <3>2. /\ nextTokenID = 0 /\ b.asked = 2 /\ b.part = a.part /\ b.message = a.message
      BY <1>0, <3>1 DEF Allowed, Symmetric
    <3>3. /\ job'["loop"].at = "ready" /\ job'["loop"].kind = "OPN"
          /\ job["loop"].at = "idle"
      BY <1>0, <2>1, <2>4 DEF Reply, Reads
    <3>4. AtServer(b)'
      BY <2>1, <2>4, <3>1, <3>2, <3>3 DEF AtServer, Taken
    <3>5. RequestPath'
      BY <2>4, <3>1, <3>4, RequestNext DEF Taken
    <3>6. Got' = Got /\ Answered' = Answered
      BY <2>1, <2>4, <3>2, <3>3 DEF Got, Answered, OpenPending, Taken
    <3>7. AnswerPath'
      BY <1>7, <2>4, <3>6 DEF Taken
    <3> QED BY <1>2, <2>1, <2>4, <3>5, <3>7 DEF Taken
  <2> QED BY <2>2, <2>3, <2>4
<1>9. CASE HandleRenew
  <2>1. /\ Reads({"RENEW"}) /\ conn = "negotiated" /\ receiveSequence' = Head(toServer).number
        /\ UNCHANGED <<odd, torn, incoming, channel, nextTokenID>>
    BY <1>9 DEF HandleRenew, Split, registryVars
  <2>2. Closes("closed") \/ (Taken /\ job' = [job EXCEPT !["loop"].at = "renew"])
    BY <1>9 DEF HandleRenew
  <2>3. CASE Closes("closed")
    BY <2>1, <2>3, ConformCloses
  <2>4. CASE Taken /\ job' = [job EXCEPT !["loop"].at = "renew"]
    <3>1. PICK a, b \in Points :
               /\ AtServer(a) /\ Allowed(a, Head(toServer), b) /\ Rest(b)
               /\ a.asked = nextTokenID + 1 /\ Head(toServer).kind = "RENEW"
               /\ b.number = Head(toServer).number
      BY <1>5, <2>1
    <3>2. /\ b.asked = nextTokenID + 2 /\ b.part = a.part /\ b.message = a.message
          /\ b.least = a.least
      BY <1>0, <3>1 DEF Allowed, Symmetric
    <3>3. job'["loop"].at = "renew" /\ job["loop"].at = "idle"
      BY <1>0, <2>1, <2>4 DEF Reads, Jobs
    <3>4. AtServer(b)'
      BY <2>1, <2>4, <3>1, <3>2, <3>3 DEF AtServer, Taken, Open
    <3>5. RequestPath'
      BY <2>4, <3>1, <3>4, RequestNext DEF Taken
    <3>6. Got' = Got /\ Answered' = Answered
      BY <2>1, <2>4, <3>3 DEF Got, Answered, OpenPending, Taken
    <3>7. AnswerPath'
      BY <1>7, <2>4, <3>6 DEF Taken
    <3> QED BY <1>2, <2>1, <2>4, <3>5, <3>7 DEF Taken
  <2> QED BY <2>2, <2>3, <2>4
<1>10. CASE RenewToken
  <2>1. job["loop"].at = "renew" /\ conn = "negotiated" /\ UNCHANGED <<odd, torn>>
    BY <1>0, <1>10 DEF RenewToken, JobsInv
  <2>2. \/ Closes("closed")
        \/ /\ Open /\ channel' = Renew /\ nextTokenID' = nextTokenID + 1
           /\ Reply("loop", "OPN", nextTokenID + 1) /\ UNCHANGED endVars
           /\ UNCHANGED <<receiveSequence, incoming>>
    BY <1>10 DEF RenewToken
  <2>3. CASE Closes("closed")
    BY <2>1, <2>3, ConformCloses
  <2>4. CASE /\ Open /\ channel' = Renew /\ nextTokenID' = nextTokenID + 1
             /\ Reply("loop", "OPN", nextTokenID + 1) /\ UNCHANGED endVars
             /\ UNCHANGED <<receiveSequence, incoming>>
    <3>1. PICK h : /\ SentAlong(h, toServer) /\ AtServer(h[0])
                   /\ client.phase # "gone" => AtClient(h[Len(toServer)])
      BY <1>0 DEF RequestPath
    <3>2. PICK last : last = h[Len(toServer)]
      OBVIOUS
    <3>3. /\ channel'.previous = nextTokenID /\ channel.current = nextTokenID
      <4>1. channel.current = nextTokenID
        BY <2>4 DEF TokenOrder
      <4>2. channel' = [channel EXCEPT !.previous = channel.current,
                                       !.current = nextTokenID + 1]
        BY <2>4 DEF Renew
      <4> QED BY <1>0, <4>1, <4>2
    <3>4. /\ job'["loop"].at = "ready" /\ job'["loop"].kind = "OPN"
      BY <1>0, <2>4 DEF Reply
    <3>5. AtServer(h[0])'
      BY <1>0, <2>1, <2>4, <3>1, <3>3, <3>4 DEF AtServer, endVars
    <3>6. client.phase # "gone" => AtClient(last)'
      BY <2>4, <3>1, <3>2 DEF AtClient, Got, Waiting, endVars
    <3>7. RequestPath'
      BY <2>4, <3>1, <3>2, <3>5, <3>6 DEF RequestPath, endVars, wireVars
    <3>8. Got' = Got /\ Answered' = Answered
      BY <2>1, <2>4, <3>4 DEF Got, Answered, OpenPending, endVars
    <3>9. AnswerPath'
      BY <1>7, <2>4, <3>8 DEF endVars, wireVars
    <3> QED BY <1>2, <2>1, <2>4, <3>7, <3>9 DEF endVars
  <2> QED BY <2>2, <2>3, <2>4
<1>11. CASE HandleClose
  <2>1. Closes("finished") /\ UNCHANGED <<odd, torn>>
    BY <1>11 DEF HandleClose
  <2> QED BY <2>1, ConformCloses
<1>12. ASSUME Reads({"MSG"}), conn = "negotiated", receiveSequence' = Head(toServer).number,
              WhyRefused(Head(toServer)) = "no", ChecksToken(Head(toServer)),
              UNCHANGED nextTokenID
       PROVE  \E a, b \in Points :
                 LET m == Head(toServer) IN
                 /\ AtServer(a) /\ Allowed(a, m, b) /\ Rest(b) /\ m \in Requests
                 /\ m.kind = "MSG" /\ b.asked = nextTokenID + 1
                 /\ b.number = m.number
                 /\ (Open => \/ channel.previous + 1 = nextTokenID
                             \/ channel.previous = 0 /\ b.least = nextTokenID)'
  <2>1. PICK a, b \in Points :
               LET m == Head(toServer) IN
               /\ AtServer(a) /\ Allowed(a, m, b) /\ Rest(b) /\ m \in Requests
               /\ a.asked = nextTokenID + 1 /\ m.kind \in {"MSG"}
               /\ WhyRefused(m) \in {"no", "closed", "expired"} /\ b.number = m.number
               /\ WhyRefused(m) = "no" /\ ChecksToken(m) /\ UNCHANGED nextTokenID =>
                    (Open => \/ channel.previous + 1 = nextTokenID
                             \/ channel.previous = 0 /\ b.least = nextTokenID)'
    BY <1>5, <1>12
  <2>2. b.asked = nextTokenID + 1
    BY <2>1 DEF Allowed, Symmetric
  <2> QED BY <1>12, <2>1, <2>2
<1>13. CASE HandleChunk
  <2> DEFINE m == Head(toServer)
  <2>1. /\ Reads({"MSG"}) /\ conn = "negotiated" /\ receiveSequence' = m.number
        /\ WhyRefused(m) = "no" /\ ChecksToken(m)
        /\ UNCHANGED <<nextTokenID, job, odd, torn>>
    BY <1>13 DEF HandleChunk, Split
  <2>2. \/ m.chunk = "abort" /\ incoming' = <<>> /\ Taken
        \/ m.chunk = "intermediate" /\ incoming' = Append(incoming, m.of) /\ Taken
        \/ TooMany
    BY <1>13 DEF HandleChunk, Reset
  <2>3. PICK a, b \in Points :
                 /\ AtServer(a) /\ Allowed(a, m, b) /\ Rest(b) /\ m \in Requests
                 /\ m.kind = "MSG" /\ b.asked = nextTokenID + 1
                 /\ b.number = m.number
                 /\ (Open => \/ channel.previous + 1 = nextTokenID
                             \/ channel.previous = 0 /\ b.least = nextTokenID)'
    BY <1>12, <2>1
  <2>4. /\ Append(incoming, m.of) \in Seq(Nat \X Nat)
        /\ Len(Append(incoming, m.of)) = a.part + 1
        /\ \A k \in 1 .. a.part + 1 : Append(incoming, m.of)[k] = <<b.message, k>>
        /\ ~TooMany
    BY <2>3, NextChunk
  <2>5. b.part = IF m.chunk = "intermediate" THEN a.part + 1 ELSE 0
    BY <2>3 DEF Allowed
  <2> HIDE DEF m
  <2>6. /\ incoming' \in Seq(Nat \X Nat) /\ Len(incoming') = b.part
        /\ \A k \in 1 .. b.part : incoming'[k] = <<b.message, k>>
    <3>1. CASE m.chunk = "abort" /\ incoming' = <<>>
      BY <2>5, <3>1
    <3>2. CASE m.chunk = "intermediate" /\ incoming' = Append(incoming, m.of)
      BY <2>4, <2>5, <3>2
    <3> QED BY <2>2, <2>4, <3>1, <3>2
  <2>7. job["loop"].at = "idle" /\ Taken
    BY <2>1, <2>2, <2>4 DEF Reads
  <2>8. AtServer(b)'
    BY <2>1, <2>3, <2>6, <2>7 DEF AtServer, Taken
  <2>9. RequestPath'
    BY <2>3, <2>7, <2>8, RequestNext DEF Taken
  <2>10. Got' = Got /\ Answered' = Answered
    BY <2>1, <2>7 DEF Got, Answered, OpenPending, Taken
  <2>11. AnswerPath'
    BY <1>7, <2>7, <2>10 DEF Taken
  <2> QED BY <1>2, <2>1, <2>7, <2>9, <2>11 DEF Taken
<1>14. CASE HandleFinal
  <2> DEFINE m == Head(toServer)
             whole == Append(incoming, m.of)
  <2>1. /\ Reads({"MSG"}) /\ conn = "negotiated" /\ receiveSequence' = m.number
        /\ WhyRefused(m) = "no" /\ ChecksToken(m) /\ m.chunk = "final"
        /\ UNCHANGED <<nextTokenID, odd>> /\ incoming' = <<>>
    BY <1>14 DEF HandleFinal, Split
  <2>2. \/ \E k \in DOMAIN whole : whole[k] = NoPart
        \/ /\ Taken
           /\ torn' = (torn \/ ~Whole(whole))
           /\ \/ Reply("loop", "MSG", channel.current)
              \/ /\ job["publish"].at = "idle"
                 /\ job' = [job EXCEPT !["publish"].at = "held",
                                       !["publish"].token = channel.current]
    BY <1>14 DEF HandleFinal
  <2>3. PICK a, b \in Points :
                 /\ AtServer(a) /\ Allowed(a, m, b) /\ Rest(b) /\ m \in Requests
                 /\ m.kind = "MSG" /\ b.asked = nextTokenID + 1
                 /\ b.number = m.number
                 /\ (Open => \/ channel.previous + 1 = nextTokenID
                             \/ channel.previous = 0 /\ b.least = nextTokenID)'
    BY <1>12, <2>1
  <2>4. /\ whole \in Seq(Nat \X Nat)
        /\ Len(whole) = a.part + 1
        /\ \A k \in 1 .. a.part + 1 : whole[k] = <<b.message, k>>
    BY <2>3, NextChunk
  <2>5. b.part = 0 /\ a.part \in Nat /\ (MaxChunkCount # 0 => a.part < MaxChunkCount)
    BY <2>1, <2>3 DEF Allowed, Points
  <2> HIDE DEF m, whole
  <2>6. DOMAIN whole = 1 .. a.part + 1
    BY <2>4
  <2>7. \A k \in DOMAIN whole : whole[k] # NoPart
    BY <2>4, <2>5, <2>6 DEF NoPart
  <2>8. Whole(whole)
    <3>1. 1 \in 1 .. a.part + 1
      BY <2>5
    <3>2. whole[1][1] = b.message
      BY <2>4, <3>1
    <3> QED BY <2>4, <2>5, <2>6, <3>2, ChannelAssumption DEF Whole
  <2>9. /\ Taken /\ ~torn' /\ job["loop"].at = "idle"
        /\ \/ Reply("loop", "MSG", channel.current)
           \/ job' = [job EXCEPT !["publish"].at = "held",
                                 !["publish"].token = channel.current]
    BY <1>0, <2>1, <2>2, <2>7, <2>8 DEF Reads
  <2>10. job'["loop"].at # "renew" /\ ~OpenPending /\ ~OpenPending'
    <3>1. CASE Reply("loop", "MSG", channel.current)
      BY <1>0, <2>9, <3>1 DEF Reply, OpenPending
    <3>2. CASE job' = [job EXCEPT !["publish"].at = "held",
                                  !["publish"].token = channel.current]
      BY <1>0, <2>9, <3>2 DEF OpenPending
    <3> QED BY <2>9, <3>1, <3>2
  <2>11. AtServer(b)'
    BY <2>1, <2>3, <2>5, <2>9, <2>10 DEF AtServer, Taken
  <2>12. RequestPath'
    BY <2>3, <2>9, <2>11, RequestNext DEF Taken
  <2>13. Got' = Got /\ Answered' = Answered
    BY <2>1, <2>9, <2>10 DEF Got, Answered, Taken
  <2>14. AnswerPath'
    BY <1>7, <2>9, <2>13 DEF Taken
  <2> QED BY <1>0, <2>1, <2>9, <2>12, <2>14 DEF Taken, ConformInv
<1> QED BY <1>3, <1>4, <1>6, <1>8, <1>9, <1>10, <1>11, <1>13, <1>14 DEF LoopStep

\* The client errs once at most, and after that nothing is promised.
LEMMA OddStep ==
  ASSUME ConformInv, [Next]_vars
  PROVE  odd' \in BOOLEAN /\ (odd => odd')
<1>1. CASE ClientErrs
  BY <1>1 DEF ClientErrs
<1>2. CASE UNCHANGED odd
  BY <1>2 DEF ConformInv
<1>3. CASE ClientStep
  BY <1>1, <1>2, <1>3 DEF ClientStep, ClientHello, ClientOpens, ClientRenews, ClientCloses,
      ClientReceives, ClientSends, historyVars
<1>4. CASE LoopStep
  BY <1>2, <1>4 DEF LoopStep, HandleRefused, HandleHello, HandleUnsplit, HandleIssue,
      HandleRenew, RenewToken, HandleClose, HandleChunk, HandleFinal, historyVars
<1>5. CASE \/ ReadFails \/ PublishReady \/ PublishDropped \/ ExpireStale
           \/ \E w \in Writers : TakesNumber(w) \/ Writes(w) \/ WriteFails(w)
           \/ \E t \in 1 .. MaxTokens : Expire(t)
  BY <1>2, <1>5 DEF ReadFails, PublishReady, PublishDropped, ExpireStale, TakesNumber, Writes,
      WriteFails, Expire, historyVars
<1>6. CASE UNCHANGED vars
  BY <1>2, <1>6 DEF vars, historyVars
<1> QED BY <1>3, <1>4, <1>5, <1>6 DEF Next

\* Once the connection is closed nothing is read from it any more.
LEMMA ConformClosed ==
  ASSUME ConformInv, conn = "closed", [Next]_vars
  PROVE  ConformInv'
<1>0. odd' \in BOOLEAN /\ (odd => odd')
  BY OddStep
<1>1. ASSUME UNCHANGED <<conn, refused, torn>>
      PROVE  ConformInv'
  BY <1>0, <1>1 DEF ConformInv
<1>2. ASSUME NEW why, Closes(why), UNCHANGED torn,
             why \notin {"token", "sequence", "protocol", "size"}
      PROVE  ConformInv'
  BY <1>0, <1>2 DEF ConformInv, Closes
<1>3. CASE ClientStep
  BY <1>1, <1>3 DEF ClientStep, ClientHello, ClientOpens, ClientRenews, ClientCloses, ClientErrs,
      ClientReceives, ClientSends, serverVars, historyVars
<1>4. CASE RenewToken
  BY <1>1, <1>2, <1>4 DEF RenewToken, endVars
<1>5. ASSUME NEW w \in Writers, WriteFails(w)
      PROVE  ConformInv'
  BY <1>1, <1>2, <1>5 DEF WriteFails, endVars
<1>6. CASE LoopStep
  BY <1>4, <1>6 DEF LoopStep, HandleRefused, HandleHello, HandleUnsplit, HandleIssue,
      HandleRenew, HandleClose, HandleChunk, HandleFinal, Split, Reads
<1>7. CASE \/ ReadFails \/ PublishReady \/ PublishDropped \/ ExpireStale
           \/ \E w \in Writers : TakesNumber(w) \/ Writes(w)
           \/ \E t \in 1 .. MaxTokens : Expire(t)
  BY <1>1, <1>7 DEF ReadFails, PublishReady, PublishDropped, ExpireStale, TakesNumber, Writes,
      Expire, serverVars, historyVars
<1>8. CASE UNCHANGED vars
  BY <1>1, <1>8 DEF vars, serverVars, historyVars
<1> QED BY <1>3, <1>5, <1>6, <1>7, <1>8 DEF Next

\* The steps of the housekeeping tick, of a held Publish and of the writers keep
\* ConformInv: an answer is written under the token the client waits for.
LEMMA ConformRest ==
  ASSUME ChannelTypeOK, JobsInv, ConformInv, ~odd, conn # "closed",
         \/ ReadFails \/ PublishReady \/ PublishDropped \/ ExpireStale
         \/ \E w \in Writers : TakesNumber(w) \/ Writes(w) \/ WriteFails(w)
         \/ \E t \in 1 .. MaxTokens : Expire(t)
  PROVE  ConformInv'
<1>0. /\ job \in [Writers -> Jobs] /\ "loop" \in Writers /\ "publish" \in Writers
      /\ Writers = {"loop", "publish"} /\ toClient \in Seq(Responses) /\ nextTokenID \in Nat
      /\ channel \in [state : {"none", "open", "gone"}, current : Nat, previous : Nat]
  BY DEF ChannelTypeOK, ServerTypeOK, WireTypeOK, Writers
<1>1. CASE ReadFails
  BY <1>1, ConformCloses DEF ReadFails
<1>2. CASE PublishReady \/ PublishDropped
  <2>1. job'["loop"] = job["loop"]
    BY <1>0, <1>2 DEF PublishReady, PublishDropped, Reply
  <2> QED BY <1>2, <2>1, ConformFrame
      DEF PublishReady, PublishDropped, OpenPending, registryVars, wireVars, historyVars, Open
<1>3. CASE ExpireStale
  <2>1. ~Open'
    BY <1>0, <1>3 DEF ExpireStale, Open
  <2> QED BY <1>3, <2>1, ConformFrame
      DEF ExpireStale, OpenPending, serverVars, wireVars, historyVars
<1>4. ASSUME NEW t, Expire(t)
      PROVE  ConformInv'
  BY <1>4, ConformFrame DEF Expire, OpenPending, serverVars, wireVars, historyVars, Open
<1>5. ASSUME NEW w \in Writers, TakesNumber(w)
      PROVE  ConformInv'
  <2>1. /\ job[w].at = "ready" /\ job'[w].at = "writing" /\ job'[w].kind = job[w].kind
        /\ \A v \in Writers \ {w} : job'[v] = job[v]
    BY <1>0, <1>5 DEF TakesNumber, Jobs
  <2>2. /\ job'["loop"].at = "renew" <=> job["loop"].at = "renew"
        /\ OpenPending' <=> OpenPending
    BY <1>0, <2>1 DEF OpenPending
  <2> QED BY <1>5, <2>2, ConformFrame DEF TakesNumber, registryVars, wireVars, historyVars, Open
<1>6. ASSUME NEW w \in Writers, WriteFails(w)
      PROVE  ConformInv'
  <2>1. CASE w = "loop"
    BY <1>6, <2>1, ConformCloses DEF WriteFails
  <2>2. CASE w # "loop"
    <3>1. UNCHANGED endVars /\ job' = [job EXCEPT ![w] = Idle]
      BY <1>6, <2>2 DEF WriteFails, Released
    <3>2. job'["loop"] = job["loop"]
      BY <1>0, <2>2, <3>1
    <3> QED BY <1>6, <3>1, <3>2, ConformFrame
        DEF WriteFails, OpenPending, registryVars, endVars, wireVars, Open
  <2> QED BY <2>1, <2>2
<1>7. ASSUME NEW w \in Writers, Writes(w)
      PROVE  ConformInv'
  <2> DEFINE m == [kind |-> job[w].kind, token |-> job[w].token, number |-> job[w].number]
  <2>1. /\ job[w].at = "writing" /\ job' = [job EXCEPT ![w] = Idle]
        /\ toClient' = Append(toClient, m)
        /\ UNCHANGED <<registryVars, conn, receiveSequence, incoming, toServer, client,
                       historyVars>>
    BY <1>7 DEF Writes, Released
  <2>2. /\ m \in Responses /\ m.kind = job[w].kind /\ m.kind \in {"OPN", "MSG"}
        /\ m.token = job[w].token
    BY <1>0 DEF Responses, Jobs
  <2>3. job'[w].at = "idle" /\ \A v \in Writers \ {w} : job'[v] = job[v]
    BY <1>0, <2>1 DEF Idle
  <2> HIDE DEF m
  <2>4. job'["loop"].at = "renew" <=> job["loop"].at = "renew"
    BY <1>0, <2>1, <2>3
  <2>5. ASSUME RequestPath
        PROVE  RequestPath'
    <3>1. PICK h, last :
            /\ SentAlong(h, toServer) /\ AtServer(h[0]) /\ last = h[Len(toServer)]
            /\ client.phase # "gone" => AtClient(last)
      BY <2>5 DEF RequestPath
    <3>2. AtServer(h[0])'
      BY <2>1, <2>4, <3>1 DEF AtServer, Open, registryVars
    <3>3. client'.phase # "gone" => AtClient(last)'
      BY <2>1, <3>1 DEF AtClient, Got, Waiting
    <3> QED BY <2>1, <3>1, <3>2, <3>3 DEF RequestPath
  <2>6. ASSUME AnswerPath, client.phase # "gone"
        PROVE  AnswerPath'
    <3>1. PICK g : AnsweredAlong(g, toClient) /\ g[0] = Got /\ g[Len(toClient)] = Answered
      BY <2>6 DEF AnswerPath
    <3>2. Got' = Got /\ Answered \in Nat /\ Answered' \in Nat
      BY <1>0, <2>1 DEF Got, Answered, registryVars
    <3>3. PICK n \in Nat : n = Answered'
      BY <3>2
    <3>4. /\ m.kind = "OPN" => Answered > 0 /\ n = Answered + 1 /\ m.token = Answered
          /\ m.kind = "MSG" => n = Answered
      <4>1. CASE m.kind = "OPN"
        <5>1. w = "loop" /\ OpenPending /\ ~OpenPending'
          BY <1>0, <2>1, <2>2, <2>3, <4>1 DEF JobsInv, OpenPending
        <5>2. job["loop"].token = nextTokenID /\ nextTokenID > 0 /\ conn # "fresh"
          BY <5>1 DEF JobsInv, OpenPending
        <5> QED BY <1>0, <2>1, <2>2, <3>3, <4>1, <5>1, <5>2 DEF Answered, registryVars
      <4>2. CASE m.kind = "MSG"
        <5>1. OpenPending' <=> OpenPending
          BY <1>0, <2>1, <2>2, <2>3, <4>2 DEF OpenPending
        <5> QED BY <2>1, <3>3, <4>2, <5>1 DEF Answered, registryVars
      <4> QED BY <4>1, <4>2
    <3>5. PICK h : /\ AnsweredAlong(h, Append(toClient, m))
                   /\ h[0] = g[0] /\ h[Len(Append(toClient, m))] = n
      <4>1. /\ m.kind = "ACK" => g[Len(toClient)] = 0 /\ n = 1
            /\ m.kind = "OPN" => /\ g[Len(toClient)] > 0 /\ n = g[Len(toClient)] + 1
                                 /\ m.token = g[Len(toClient)]
            /\ m.kind = "MSG" => n = g[Len(toClient)]
        BY <2>2, <3>1, <3>4
      <4> QED BY <1>0, <2>2, <3>1, <4>1, AnsweredAppend
    <3> QED BY <2>1, <3>1, <3>2, <3>3, <3>5 DEF AnswerPath
  <2>7. client.phase = "gone" => AnswerPath'
    BY <2>1 DEF AnswerPath
  <2> QED BY <2>1, <2>5, <2>6, <2>7 DEF ConformInv, historyVars
<1> QED BY <1>1, <1>2, <1>3, <1>4, <1>5, <1>6, <1>7

\* ConformInv is kept by every step.
LEMMA ConformStep ==
  ChannelTypeOK /\ TokenOrder /\ JobsInv /\ ConformInv /\ [Next]_vars => ConformInv'
<1> SUFFICES ASSUME ChannelTypeOK, TokenOrder, JobsInv, ConformInv, [Next]_vars
             PROVE  ConformInv'
  OBVIOUS
<1>0. odd \in BOOLEAN /\ odd' \in BOOLEAN /\ (odd => odd')
  BY OddStep DEF ConformInv
<1>1. CASE odd
  BY <1>0, <1>1 DEF ConformInv
<1>2. CASE conn = "closed"
  BY <1>2, ConformClosed
<1>3. CASE ~odd /\ conn # "closed"
  <2>1. CASE ClientErrs
    BY <2>1 DEF ClientErrs, ConformInv
  <2>2. CASE UNCHANGED vars
    <3>1. UNCHANGED <<channel, job, odd, torn, refused, toServer, toClient, client, conn,
                      receiveSequence, nextTokenID, incoming>>
      BY <2>2 DEF vars, registryVars, serverVars, wireVars, historyVars
    <3> QED BY <3>1, ConformFrame DEF OpenPending, Open
  <2> QED BY <1>3, <2>1, <2>2, ConformSends, ConformReceives, ConformLoop, ConformRest
      DEF Next, ClientStep
<1> QED BY <1>0, <1>1, <1>2, <1>3

\* The inductive invariant: the types, the order of the tokens, what the writers
\* are at, and the paths along which both directions of the wire can be followed.
ChannelInv == ChannelTypeOK /\ TokenOrder /\ ResponseInv /\ JobsInv /\ ConformInv

\* The inductive invariant holds in every state.
LEMMA ChannelInvariant == Spec => []ChannelInv
<1>1. Init => ChannelInv
  <2>1. Init => TokenOrder
    BY DEF Init, TokenOrder, Open
  <2>2. Init => JobsInv
    BY DEF Init, JobsInv, OpenPending, Idle, Writers
  <2> QED BY <2>1, <2>2, TypeInit, ResponseInductive, ConformInit DEF ChannelInv
<1>2. ChannelInv /\ [Next]_vars => ChannelInv'
  BY TypeStep, TokenStep, ResponseInductive, JobsStep, ConformStep DEF ChannelInv
<1> QED BY <1>1, <1>2, PTL DEF Spec

\* A client that keeps to the protocol is never refused for its token, its number, its
\* message or its size (splitSecureMessage, ChunkAccumulator.Append and the dispatch of
\* serveConnection), whatever renewals cross its messages, over the wrap of its numbers
\* and up to the limit of its chunks; only a token that expired on the way is refused.
THEOREM ConformingServedAlways == Spec => []ConformingServed
<1>1. ChannelInv => ConformingServed
  BY DEF ChannelInv, ConformInv, ConformingServed
<1> QED BY <1>1, ChannelInvariant, PTL

\* Both directions keep whole messages in their order: handleSecureMessage dispatches
\* what the client sent as one message, and the numbers writeSecureMessage assigns under
\* writeMu follow each other on the wire, unless a response of a Publish failed after
\* it was given its number.
THEOREM MessagesInOrderAlways == Spec => []MessagesInOrder
<1>1. ChannelInv => MessagesInOrder
  BY DEF ChannelInv, ConformInv, ResponseInv, MessagesInOrder, MessagesWhole
<1> QED BY <1>1, ChannelInvariant, PTL

=============================================================================
