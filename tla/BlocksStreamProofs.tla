-------------------------- MODULE BlocksStreamProofs --------------------------
(***************************************************************************)
(* Proofs about BlocksStream, for any chain, any height to begin with and  *)
(* any number of calls of the generator and of stop(): types, the match of *)
(* demand and supply, delivery, and that the consumer sees BlockFeed.      *)
(***************************************************************************)
EXTENDS BlocksStream, FiniteSetTheorems, SequenceTheorems, TLAPS

\* The socket's own theorems, for this stream's connection.
SockP == INSTANCE EventSocketProofs WITH
           Conns <- {Stream}, Messages <- Heights,
           Hello <- "Subscribe", Requests <- {"Next"}, Bye <- "Close", MaxUplink <- 2

UnderWay == Requested + InFlight

\* At most one Next or block is under way, a next() waits for it unless the
\* socket's end has ended the generator, and while the socket is open a next()
\* that waits has one under way.
OneForOne ==
  /\ UnderWay \in {0, 1}
  /\ UnderWay = 1 => gen = "awaiting" \/ (gen = "returned" /\ ready[Stream] = "closed")
  /\ ready[Stream] = "open" /\ gen = "awaiting" => UnderWay = 1

\* One subscription, before everything else.
OneSubscribe ==
  /\ ready[Stream] \in {"none", "connecting"} =>
       uplink[Stream] = <<>> /\ emitted[Stream] = <<>> /\ nextHeight = 0
  /\ \A i \in DOMAIN uplink[Stream] : uplink[Stream][i] = "Subscribe" => i = 1 /\ nextHeight = 0

\* The peer's next block is the next result; before the subscription nothing
\* has been sent.
InStep ==
  /\ nextHeight = 0 => InFlight = 0 /\ (gen # "returned" => results = <<>>)
  /\ gen # "returned" /\ nextHeight # 0 /\ (UnderWay = 1 \/ ready[Stream] = "open") =>
       nextHeight = FromHeight + Len(results) + InFlight

\* A block under way is the next result, and is committed.
NextBlock ==
  gen = "awaiting" =>
    \A m \in Heights : m \in reads[Stream] \/ (downlink[Stream] # <<>> /\ m = Head(downlink[Stream])) =>
      m = FromHeight + Len(results) /\ m <= chain

OneByOne == OneForOne /\ OneSubscribe /\ InStep /\ NextBlock /\ NoBlockDropped

IInv == TypeOK /\ OneByOne
-----------------------------------------------------------------------------
\* Every step is one of the socket's, or leaves it alone: BlocksStream
\* implements EventSocket, and what is proved of the socket holds here.
LEMMA SocketStep ==
  ASSUME TypeOK, [Next]_vars
  PROVE  [SockP!Next]_SockP!sockVars
<1> USE DEF SockP!Next
<1>1. CASE Setup
  BY <1>1 DEF Setup, Sock!SetupWebSocket, SockP!SetupWebSocket
<1>2. CASE Opened
  BY <1>2 DEF Opened, Sock!OnOpen, SockP!OnOpen
<1>3. CASE StartRead
  BY <1>3 DEF StartRead, Sock!StartRead, SockP!StartRead
<1>4. CASE CleanClose
  BY <1>4 DEF CleanClose, Sock!CleanClose, SockP!CleanClose, Sock!OnClose, SockP!OnClose
<1>5. CASE ConnectionLost
  BY <1>5 DEF ConnectionLost, Sock!ConnectionLost, SockP!ConnectionLost, Sock!OnClose, SockP!OnClose
<1>6. ASSUME NEW m \in Heights, OnMessage(m) PROVE SockP!Next
  BY <1>6 DEF OnMessage, Sock!OnMessage, SockP!OnMessage
<1>7. ASSUME NEW k \in Closers, Stop(k) PROVE SockP!Next
  BY <1>7 DEF Stop, Sock!CloseAsync, SockP!CloseAsync
<1>8. CASE ResumeNext
  BY <1>8 DEF ResumeNext, Sock!Send, SockP!Send
<1>9. ASSUME NEW r \in {"Subscribe", "Next", "Close"}, PeerReceives(r) PROVE SockP!Next
  BY <1>9 DEF PeerReceives, Sock!PeerReceives, SockP!PeerReceives
<1>10. CASE PeerSendsBlock
  <2>1. nextHeight \in Heights
    <3>1. /\ nextHeight \in FromHeight .. chain /\ chain \in 0 .. MaxHeight
          /\ FromHeight \in Nat /\ MaxHeight \in Nat
      BY <1>10, BlocksStreamAssumption DEF PeerSendsBlock, TypeOK
    <3>2. QED
      BY ONLY <3>1 DEF Heights
  <2>2. Sock!PeerSends(Stream, nextHeight)
    BY <1>10 DEF PeerSendsBlock
  <2>3. SockP!PeerSends(Stream, nextHeight)
    BY <2>2 DEF Sock!PeerSends, SockP!PeerSends, Sock!Range, SockP!Range
  <2>4. SockP!Next
    BY <2>1, <2>3
  <2>5. QED
    BY <2>4
<1>11. CASE PeerCloses
  BY <1>11 DEF PeerCloses, Sock!PeerCloses, SockP!PeerCloses
<1>12. CASE UNCHANGED sockVars
  BY <1>12 DEF sockVars, SockP!sockVars
<1>13. QED
  BY <1>1, <1>2, <1>3, <1>4, <1>5, <1>6, <1>7, <1>8, <1>9, <1>10, <1>11, <1>12
     DEF Next, vars, Call, ResumeEnd, Commit

LEMMA SocketTypes == Sock!TypeOK <=> SockP!TypeOK
  BY DEF Sock!TypeOK, SockP!TypeOK, Sock!ReadyStates, SockP!ReadyStates

LEMMA SocketTypesStep ==
  ASSUME TypeOK, [Next]_vars
  PROVE  Sock!TypeOK'
<1>1. SockP!TypeOK
  BY SocketTypes DEF TypeOK
<1>2. SockP!TypeOK'
  BY <1>1, SocketStep, SockP!SocketTypeStep
<1>3. QED
  BY <1>2, SocketTypes DEF Sock!TypeOK, SockP!TypeOK, Sock!ReadyStates, SockP!ReadyStates

-----------------------------------------------------------------------------
\* Counting the Next frames of a queue, as frames join and leave it.
LEMMA AskedFinite ==
  ASSUME NEW S, NEW q \in Seq(S)
  PROVE  IsFiniteSet(Asked(q)) /\ Cardinality(Asked(q)) \in Nat
<1>1. Asked(q) \subseteq 1 .. Len(q) /\ Len(q) \in Nat
  BY LenProperties DEF Asked
<1>2. IsFiniteSet(1 .. Len(q))
  BY <1>1, FS_Interval
<1>3. IsFiniteSet(Asked(q))
  BY <1>1, <1>2, FS_Subset
<1>4. QED
  BY <1>3, FS_CardinalityType

LEMMA AskedAppended ==
  ASSUME NEW S, NEW q \in Seq(S), NEW e \in S
  PROVE  Cardinality(Asked(Append(q, e))) = Cardinality(Asked(q)) + (IF e = "Next" THEN 1 ELSE 0)
<1> DEFINE a == Append(q, e)
<1>1. /\ Len(q) \in Nat /\ DOMAIN q = 1 .. Len(q) /\ DOMAIN a = 1 .. Len(q) + 1
      /\ \A i \in 1 .. Len(q) : a[i] = q[i]
      /\ a[Len(q) + 1] = e
  BY AppendProperties
<1> HIDE DEF a
<1>2. Len(q) + 1 \notin Asked(q) /\ IsFiniteSet(Asked(q)) /\ Cardinality(Asked(q)) \in Nat
  <2>1. Len(q) + 1 \notin Asked(q)
    BY <1>1 DEF Asked
  <2>2. QED
    BY <2>1, AskedFinite
<1>3. CASE e = "Next"
  <2>1. Asked(a) = Asked(q) \cup {Len(q) + 1}
    BY <1>1, <1>3 DEF Asked
  <2>2. QED
    BY <1>2, <1>3, <2>1, FS_AddElement DEF a
<1>4. CASE e # "Next"
  <2>1. Asked(a) = Asked(q)
    BY <1>1, <1>4 DEF Asked
  <2>2. QED
    BY <1>2, <1>4, <2>1 DEF a
<1>5. QED
  BY <1>3, <1>4

LEMMA AskedPopped ==
  ASSUME NEW S, NEW q \in Seq(S), q # <<>>
  PROVE  Cardinality(Asked(Tail(q))) = Cardinality(Asked(q)) - (IF Head(q) = "Next" THEN 1 ELSE 0)
<1> DEFINE t == Tail(q)
           later == Asked(q) \ {1}
<1>1. /\ Len(q) \in Nat \ {0} /\ DOMAIN q = 1 .. Len(q) /\ DOMAIN t = 1 .. Len(q) - 1
      /\ \A i \in 1 .. Len(q) - 1 : t[i] = q[i + 1]
      /\ Head(q) = q[1] /\ t \in Seq(S)
  BY HeadTailProperties, EmptySeq
<1> HIDE DEF t
<1>2. IsFiniteSet(Asked(q)) /\ IsFiniteSet(Asked(t)) /\ Cardinality(Asked(q)) \in Nat
  BY <1>1, AskedFinite
<1>3. [i \in Asked(t) |-> i + 1] \in Bijection(Asked(t), later)
  <2> DEFINE f == [i \in Asked(t) |-> i + 1]
  <2>1. ASSUME NEW i \in Asked(t) PROVE i \in Nat /\ i + 1 \in later
    BY <1>1 DEF Asked
  <2>2. ASSUME NEW j \in later PROVE j \in Nat /\ j - 1 \in Asked(t) /\ (j - 1) + 1 = j
    <3>1. j \in 1 .. Len(q) /\ j # 1 /\ q[j] = "Next"
      BY <1>1 DEF Asked
    <3>2. j - 1 \in 1 .. Len(q) - 1 /\ (j - 1) + 1 = j
      BY <1>1, <3>1
    <3>3. QED
      BY <1>1, <3>1, <3>2 DEF Asked
  <2>3. f \in Injection(Asked(t), later)
    BY <2>1 DEF Injection, IsInjective
  <2>4. f \in Surjection(Asked(t), later)
    BY <2>1, <2>2 DEF Surjection
  <2>5. QED
    BY <2>3, <2>4 DEF Bijection
<1>4. Cardinality(later) = Cardinality(Asked(t))
  BY <1>2, <1>3, FS_Bijection DEF ExistsBijection
<1>5. 1 \in Asked(q) <=> Head(q) = "Next"
  BY <1>1 DEF Asked
<1>6. Cardinality(later) = IF 1 \in Asked(q) THEN Cardinality(Asked(q)) - 1 ELSE Cardinality(Asked(q))
  BY <1>2, FS_RemoveElement
<1>7. Cardinality(Asked(t)) = Cardinality(Asked(q)) - (IF Head(q) = "Next" THEN 1 ELSE 0)
  BY <1>2, <1>4, <1>5, <1>6
<1>8. QED
  BY <1>7 DEF t

-----------------------------------------------------------------------------
\* What the steps do to the demand and the supply under way.
Frames == {"Subscribe", "Next", "Close"}

LEMMA Shapes ==
  ASSUME TypeOK
  PROVE  /\ DOMAIN uplink = {Stream} /\ uplink[Stream] \in Seq(Frames)
         /\ DOMAIN downlink = {Stream} /\ downlink[Stream] \in Seq(Heights)
         /\ DOMAIN emitted = {Stream} /\ emitted[Stream] \in Seq(Heights)
         /\ DOMAIN reads = {Stream} /\ reads[Stream] \subseteq Heights /\ IsFiniteSet(reads[Stream])
         /\ DOMAIN ready = {Stream} /\ DOMAIN handshake = {Stream} /\ DOMAIN peerUp = {Stream}
         /\ Cardinality(Asked(uplink[Stream])) \in Nat /\ credit \in Nat
         /\ Len(downlink[Stream]) \in Nat /\ Cardinality(reads[Stream]) \in Nat
<1>1. {"Next"} \cup {"Subscribe", "Close"} = Frames
  BY DEF Frames
<1>2. /\ DOMAIN uplink = {Stream} /\ uplink[Stream] \in Seq(Frames)
      /\ DOMAIN downlink = {Stream} /\ downlink[Stream] \in Seq(Heights)
      /\ DOMAIN emitted = {Stream} /\ emitted[Stream] \in Seq(Heights)
      /\ DOMAIN reads = {Stream} /\ reads[Stream] \subseteq Heights
      /\ DOMAIN ready = {Stream} /\ DOMAIN handshake = {Stream} /\ DOMAIN peerUp = {Stream}
  BY <1>1 DEF TypeOK, Sock!TypeOK
<1>3. IsFiniteSet(Heights)
  BY FS_Interval, BlocksStreamAssumption DEF Heights
<1>4. IsFiniteSet(reads[Stream]) /\ Cardinality(reads[Stream]) \in Nat
  BY <1>2, <1>3, FS_Subset, FS_CardinalityType
<1>5. Cardinality(Asked(uplink[Stream])) \in Nat
  BY <1>2, AskedFinite
<1>6. credit \in Nat /\ Len(downlink[Stream]) \in Nat
  BY <1>2, LenProperties, BlocksStreamAssumption DEF TypeOK
<1>7. QED
  BY <1>2, <1>4, <1>5, <1>6

LEMMA FlowOfStillness ==
  ASSUME UNCHANGED <<uplink, downlink, reads, credit>>
  PROVE  Requested' = Requested /\ InFlight' = InFlight
  BY DEF Requested, InFlight, Asked

\* A frame other than Next that the client sends.
LEMMA FlowOfFrame ==
  ASSUME TypeOK, NEW f \in {"Subscribe", "Close"},
         uplink' = [uplink EXCEPT ![Stream] = Append(@, f)],
         UNCHANGED <<downlink, reads, credit>>
  PROVE  Requested' = Requested /\ InFlight' = InFlight
<1>1. uplink'[Stream] = Append(uplink[Stream], f) /\ f \in Frames /\ f # "Next"
  BY Shapes DEF Frames
<1>2. Cardinality(Asked(uplink'[Stream])) = Cardinality(Asked(uplink[Stream])) + 0
  BY <1>1, Shapes, AskedAppended
<1>3. Cardinality(Asked(uplink[Stream])) \in Nat
  BY Shapes
<1>4. Cardinality(Asked(uplink'[Stream])) = Cardinality(Asked(uplink[Stream]))
  BY ONLY <1>2, <1>3
<1>5. QED
  BY <1>4 DEF Requested, InFlight

LEMMA FlowOfAsking ==
  ASSUME TypeOK, ResumeNext
  PROVE  /\ Requested' = Requested + (IF ready[Stream] = "open" THEN 1 ELSE 0)
         /\ InFlight' = InFlight
<1>1. /\ uplink' = IF ready[Stream] = "open" THEN [uplink EXCEPT ![Stream] = Append(@, "Next")] ELSE uplink
      /\ UNCHANGED <<downlink, reads, credit>>
  BY DEF ResumeNext, Sock!Send, peerVars
<1>2. InFlight' = InFlight
  BY <1>1 DEF InFlight
<1>3. CASE ready[Stream] = "open"
  <2>1. uplink'[Stream] = Append(uplink[Stream], "Next") /\ "Next" \in Frames
    BY <1>1, <1>3, Shapes DEF Frames
  <2>2. Cardinality(Asked(uplink'[Stream])) = Cardinality(Asked(uplink[Stream])) + 1
    BY <2>1, Shapes, AskedAppended
  <2>3. Cardinality(Asked(uplink[Stream])) \in Nat /\ credit \in Nat /\ credit' = credit
    BY Shapes, <1>1
  <2>4. /\ Requested = Cardinality(Asked(uplink[Stream])) + credit
        /\ Requested' = Cardinality(Asked(uplink'[Stream])) + credit'
    BY DEF Requested
  <2>5. Requested' = Requested + 1
    BY ONLY <2>2, <2>3, <2>4
  <2>6. QED
    BY <1>2, <1>3, <2>5
<1>4. CASE ready[Stream] # "open"
  <2>1. Requested' = Requested /\ Requested \in Nat
    BY <1>1, <1>4, Shapes DEF Requested
  <2>2. QED
    BY <1>2, <1>4, <2>1
<1>5. QED
  BY <1>3, <1>4

LEMMA FlowOfReceipt ==
  ASSUME TypeOK, NEW r \in Frames, PeerReceives(r)
  PROVE  Requested' = Requested /\ InFlight' = InFlight
<1>1. /\ uplink[Stream] # <<>> /\ r = Head(uplink[Stream])
      /\ uplink' = [uplink EXCEPT ![Stream] = Tail(@)]
      /\ UNCHANGED <<downlink, reads>>
      /\ credit' = IF r = "Next" THEN credit + 1 ELSE credit
  BY DEF PeerReceives, Sock!PeerReceives
<1>2. uplink'[Stream] = Tail(uplink[Stream])
  BY <1>1, Shapes
<1>3. Cardinality(Asked(uplink'[Stream])) = Cardinality(Asked(uplink[Stream])) - (IF r = "Next" THEN 1 ELSE 0)
  BY <1>1, <1>2, Shapes, AskedPopped
<1>4. /\ Requested = Cardinality(Asked(uplink[Stream])) + credit
      /\ Requested' = Cardinality(Asked(uplink'[Stream])) + credit'
  BY DEF Requested
<1>5. Cardinality(Asked(uplink[Stream])) \in Nat /\ credit \in Nat
  BY Shapes
<1>6. credit' = credit + (IF r = "Next" THEN 1 ELSE 0)
  BY <1>1, <1>5
<1>7. Requested' = Requested
  BY ONLY <1>3, <1>4, <1>5, <1>6
<1>8. QED
  BY <1>1, <1>7 DEF InFlight

LEMMA FlowOfBlock ==
  ASSUME TypeOK, PeerSendsBlock
  PROVE  Requested' = Requested - 1 /\ InFlight' = InFlight + 1
<1>1. /\ downlink' = [downlink EXCEPT ![Stream] = Append(@, nextHeight)]
      /\ UNCHANGED <<uplink, reads>> /\ credit' = credit - 1
  BY DEF PeerSendsBlock, Sock!PeerSends
<1>2. nextHeight \in Heights
  <2>1. /\ nextHeight \in FromHeight .. chain /\ chain \in 0 .. MaxHeight
        /\ FromHeight \in Nat /\ MaxHeight \in Nat
    BY BlocksStreamAssumption DEF PeerSendsBlock, TypeOK
  <2>2. QED
    BY ONLY <2>1 DEF Heights
<1>3. Len(downlink'[Stream]) = Len(downlink[Stream]) + 1
  BY <1>1, <1>2, Shapes, AppendProperties
<1>4. /\ Len(downlink[Stream]) \in Nat /\ Cardinality(reads[Stream]) \in Nat
      /\ Cardinality(Asked(uplink[Stream])) \in Nat /\ credit \in Nat
  BY Shapes
<1>5. Requested' = Cardinality(Asked(uplink[Stream])) + (credit - 1)
  BY <1>1 DEF Requested
<1>6. InFlight' = (Len(downlink[Stream]) + 1) + Cardinality(reads[Stream])
  BY <1>1, <1>3 DEF InFlight
<1>7. QED
  BY ONLY <1>4, <1>5, <1>6 DEF Requested, InFlight

\* The first of at most one frame under way, taken from the wire.
LEMMA FlowOfRead ==
  ASSUME TypeOK, OneForOne, StartRead
  PROVE  /\ downlink'[Stream] = <<>> /\ Requested' = Requested
         /\ InFlight = 1 /\ Requested = 0 /\ reads[Stream] = {}
         /\ ready[Stream] = "open" => InFlight' = 1 /\ reads'[Stream] = {Head(downlink[Stream])}
         /\ ready[Stream] # "open" => InFlight' = 0 /\ reads'[Stream] = {}
<1> DEFINE h == Head(downlink[Stream])
<1>1. /\ downlink[Stream] # <<>>
      /\ downlink' = [downlink EXCEPT ![Stream] = Tail(@)]
      /\ reads' = IF ready[Stream] = "open" THEN [reads EXCEPT ![Stream] = @ \cup {h}] ELSE reads
      /\ UNCHANGED <<uplink, credit>>
  BY DEF StartRead, Sock!StartRead, peerVars
<1>2. /\ Len(downlink[Stream]) \in Nat \ {0} /\ Tail(downlink[Stream]) \in Seq(Heights)
      /\ Len(Tail(downlink[Stream])) = Len(downlink[Stream]) - 1
  BY <1>1, Shapes, HeadTailProperties, EmptySeq
<1>3. /\ Requested = Cardinality(Asked(uplink[Stream])) + credit
      /\ InFlight = Len(downlink[Stream]) + Cardinality(reads[Stream])
      /\ Cardinality(Asked(uplink[Stream])) \in Nat /\ credit \in Nat
      /\ Cardinality(reads[Stream]) \in Nat
      /\ Requested + InFlight \in {0, 1}
  BY Shapes DEF Requested, InFlight, OneForOne, UnderWay
<1>4. /\ Requested = 0 /\ InFlight = 1 /\ Cardinality(reads[Stream]) = 0
      /\ Len(downlink[Stream]) = 1
  <2>1. Len(downlink[Stream]) \in Nat /\ Len(downlink[Stream]) > 0
    BY <1>2
  <2>2. Requested \in Nat /\ InFlight \in Nat /\ Requested + InFlight <= 1
    BY ONLY <1>3, <2>1
  <2>3. InFlight >= Len(downlink[Stream]) /\ InFlight >= 1
    BY ONLY <1>3, <2>1
  <2>4. InFlight = 1 /\ Requested = 0
    BY ONLY <2>2, <2>3
  <2>5. Len(downlink[Stream]) + Cardinality(reads[Stream]) = 1 /\ Cardinality(reads[Stream]) \in Nat
    BY <1>3, <2>4
  <2>6. Cardinality(reads[Stream]) = 0 /\ Len(downlink[Stream]) = 1
    <3>1. \A a, b \in Nat : a > 0 /\ a + b = 1 => a = 1 /\ b = 0
      OBVIOUS
    <3>2. QED
      BY ONLY <2>1, <2>5, <3>1
  <2>7. QED
    BY <2>4, <2>6
<1>5. reads[Stream] = {}
  BY <1>4, Shapes, FS_EmptySet
<1>6. downlink'[Stream] = <<>> /\ Len(downlink'[Stream]) = 0
  BY <1>1, <1>2, <1>4, Shapes, EmptySeq
<1>7. Requested' = Requested
  BY <1>1 DEF Requested
<1>8. InFlight' = Cardinality(reads'[Stream])
  <2>1. InFlight' = Len(downlink'[Stream]) + Cardinality(reads'[Stream])
    BY DEF InFlight
  <2>2. reads'[Stream] = {h} \/ reads'[Stream] = {}
    <3>1. reads'[Stream] = {} \cup {h} \/ reads'[Stream] = {}
      BY <1>1, <1>5, Shapes
    <3>2. QED
      BY ONLY <3>1
  <2>3. Cardinality(reads'[Stream]) \in Nat
    <3>1. IsFiniteSet(reads'[Stream])
      BY <2>2, FS_Singleton, FS_EmptySet
    <3>2. QED
      BY <3>1, FS_CardinalityType
  <2>4. QED
    BY ONLY <2>1, <2>3, <1>6
<1>9. CASE ready[Stream] = "open"
  <2>1. reads'[Stream] = {h}
    BY <1>1, <1>5, <1>9, Shapes
  <2>2. QED
    BY <1>4, <1>5, <1>6, <1>7, <1>8, <1>9, <2>1, FS_Singleton
<1>10. CASE ready[Stream] # "open"
  BY <1>1, <1>4, <1>5, <1>6, <1>7, <1>8, <1>10, FS_EmptySet
<1>11. QED
  BY <1>9, <1>10

LEMMA FlowOfMessage ==
  ASSUME TypeOK, OneForOne, NEW m \in Heights, OnMessage(m)
  PROVE  /\ UnderWay = 1 /\ InFlight = 1
         /\ Requested' = 0 /\ InFlight' = 0 /\ UnderWay' = 0
         /\ m \in reads[Stream] \/ (downlink[Stream] # <<>> /\ m = Head(downlink[Stream]))
<1>1. UNCHANGED <<uplink, credit>>
  BY DEF OnMessage, Sock!OnMessage, peerVars
<1>2. /\ Requested = Cardinality(Asked(uplink[Stream])) + credit
      /\ InFlight = Len(downlink[Stream]) + Cardinality(reads[Stream])
      /\ Cardinality(Asked(uplink[Stream])) \in Nat /\ credit \in Nat
      /\ Cardinality(reads[Stream]) \in Nat /\ Len(downlink[Stream]) \in Nat
      /\ Requested + InFlight \in {0, 1}
  BY Shapes DEF Requested, InFlight, OneForOne, UnderWay
<1>3. Requested' = Requested
  BY <1>1 DEF Requested
<1>4. CASE /\ downlink[Stream] # <<>> /\ m = Head(downlink[Stream])
           /\ downlink' = [downlink EXCEPT ![Stream] = Tail(@)]
           /\ UNCHANGED reads
  <2>1. /\ Len(downlink[Stream]) \in Nat \ {0}
        /\ Len(downlink'[Stream]) = Len(downlink[Stream]) - 1
    BY <1>4, Shapes, HeadTailProperties, EmptySeq
  <2>2. InFlight' = Len(downlink'[Stream]) + Cardinality(reads[Stream])
    BY <1>4 DEF InFlight
  <2>3. InFlight = 1 /\ Requested = 0 /\ InFlight' = 0
    BY ONLY <1>2, <2>1, <2>2
  <2>4. QED
    BY <1>3, <1>4, <2>3 DEF UnderWay
<1>5. CASE /\ m \in reads[Stream]
           /\ reads' = [reads EXCEPT ![Stream] = @ \ {m}]
           /\ UNCHANGED downlink
  <2>1. /\ reads'[Stream] = reads[Stream] \ {m}
        /\ Cardinality(reads'[Stream]) = Cardinality(reads[Stream]) - 1
    BY <1>5, Shapes, FS_RemoveElement
  <2>2. InFlight' = Len(downlink[Stream]) + Cardinality(reads'[Stream])
    BY <1>5 DEF InFlight
  <2>3. Cardinality(reads[Stream]) # 0
    BY <1>5, Shapes, FS_EmptySet
  <2>4. InFlight = 1 /\ Requested = 0 /\ InFlight' = 0
    BY ONLY <1>2, <2>1, <2>2, <2>3
  <2>5. QED
    BY <1>3, <1>5, <2>4 DEF UnderWay
<1>6. QED
  BY <1>4, <1>5 DEF OnMessage, Sock!OnMessage

\* Nothing under way: the wire is empty and no read pends.
LEMMA NothingInFlight ==
  ASSUME TypeOK, InFlight = 0
  PROVE  downlink[Stream] = <<>> /\ reads[Stream] = {}
<1>1. /\ Len(downlink[Stream]) + Cardinality(reads[Stream]) = 0
      /\ Len(downlink[Stream]) \in Nat /\ Cardinality(reads[Stream]) \in Nat
  BY Shapes DEF InFlight
<1>2. Len(downlink[Stream]) = 0 /\ Cardinality(reads[Stream]) = 0
  BY ONLY <1>1
<1>3. QED
  BY <1>2, Shapes, FS_EmptySet, EmptySeq

LEMMA FlowTypes ==
  ASSUME TypeOK
  PROVE  Requested \in Nat /\ InFlight \in Nat /\ UnderWay \in Nat
<1>1. /\ Cardinality(Asked(uplink[Stream])) \in Nat /\ credit \in Nat
      /\ Len(downlink[Stream]) \in Nat /\ Cardinality(reads[Stream]) \in Nat
  BY Shapes
<1>2. QED
  BY ONLY <1>1 DEF Requested, InFlight, UnderWay
-----------------------------------------------------------------------------
\* What each step keeps.  Steps that touch no block, no request and no result:
Quiet ==
  /\ UNCHANGED <<adapter, uplink, downlink, reads, emitted, nextHeight, credit, gen, results>>
  /\ chain' \in {chain, chain + 1}
  /\ ready'[Stream] = ready[Stream] \/ (ready[Stream] = "none" /\ ready'[Stream] = "connecting")

LEMMA QuietSteps ==
  ASSUME TypeOK,
         Setup \/ PeerCloses \/ Commit \/ UNCHANGED vars \/ (\E kind \in {"next", "return"} : Call(kind))
  PROVE  Quiet
<1>1. CASE Setup
  BY <1>1, Shapes DEF Setup, Sock!SetupWebSocket, Quiet, genVars, peerVars
<1>2. CASE PeerCloses
  BY <1>2 DEF PeerCloses, Sock!PeerCloses, Quiet, genVars, peerVars
<1>3. CASE Commit
  BY <1>3 DEF Commit, Quiet, genVars, sockVars
<1>4. CASE UNCHANGED vars
  BY <1>4 DEF vars, Quiet, genVars, sockVars, peerVars
<1>5. CASE \E kind \in {"next", "return"} : Call(kind)
  BY <1>5 DEF Call, Quiet, sockVars, peerVars
<1>6. QED
  BY <1>1, <1>2, <1>3, <1>4, <1>5

LEMMA QuietKeeps ==
  ASSUME IInv, Quiet
  PROVE  OneByOne'
<1>1. Requested' = Requested /\ InFlight' = InFlight /\ UnderWay' = UnderWay
  BY FlowOfStillness DEF Quiet, UnderWay
<1>2. /\ UNCHANGED <<adapter, uplink, downlink, reads, emitted, nextHeight, gen, results>>
      /\ ready'[Stream] = ready[Stream] \/ (ready[Stream] = "none" /\ ready'[Stream] = "connecting")
  BY DEF Quiet
<1>3. \A m \in Heights : m <= chain => m <= chain'
  <2>1. chain \in Nat /\ \A m \in Heights : m \in Nat
    BY BlocksStreamAssumption DEF IInv, TypeOK, Heights
  <2>2. QED
    BY <2>1 DEF Quiet
<1>4. gen = "none" \/ ready'[Stream] = ready[Stream]
  BY <1>2, Shapes DEF IInv, TypeOK, Sock!TypeOK
<1>5. OneForOne'
  BY <1>1, <1>2, <1>4 DEF IInv, OneByOne, OneForOne
<1>6. OneSubscribe'
  BY <1>2 DEF IInv, OneByOne, OneSubscribe
<1>7. InStep'
  BY <1>1, <1>2 DEF IInv, OneByOne, InStep
<1>8. NextBlock'
  BY <1>2, <1>3 DEF IInv, OneByOne, NextBlock
<1>9. NoBlockDropped'
  BY <1>2 DEF IInv, OneByOne, NoBlockDropped
<1>10. QED
  BY <1>5, <1>6, <1>7, <1>8, <1>9 DEF OneByOne

LEMMA OpenedKeeps ==
  ASSUME IInv, Opened
  PROVE  OneByOne'
<1>1. /\ ready[Stream] = "connecting" /\ ready'[Stream] = "open"
      /\ gen' = "fresh" /\ uplink' = [uplink EXCEPT ![Stream] = Append(@, "Subscribe")]
      /\ UNCHANGED <<downlink, reads, emitted, nextHeight, credit, results>>
  BY Shapes DEF IInv, Opened, Sock!OnOpen, peerVars
<1>2. gen = "none" /\ handshake[Stream] = "waiting"
  BY <1>1 DEF IInv, TypeOK, Sock!TypeOK
<1>3. Requested' = Requested /\ InFlight' = InFlight /\ UnderWay' = UnderWay
  BY <1>1, FlowOfFrame DEF IInv, UnderWay
<1>4. /\ uplink[Stream] = <<>> /\ emitted[Stream] = <<>> /\ nextHeight = 0
      /\ results = <<>> /\ UnderWay = 0
  BY <1>1, <1>2 DEF IInv, OneByOne, OneSubscribe, InStep, OneForOne
<1>5. OneForOne'
  BY <1>1, <1>3, <1>4 DEF OneForOne
<1>6. OneSubscribe'
  <2>1. uplink'[Stream] = <<"Subscribe">>
    BY <1>1, <1>4, Shapes DEF IInv
  <2>2. DOMAIN uplink'[Stream] = {1}
    BY <2>1
  <2>3. QED
    BY <1>1, <1>4, <2>2 DEF OneSubscribe
<1>7. InStep'
  BY <1>1, <1>3, <1>4 DEF IInv, OneByOne, InStep
<1>8. NextBlock'
  BY <1>1 DEF NextBlock
<1>9. NoBlockDropped'
  <2>1. results' = <<>> /\ emitted'[Stream] = <<>>
    BY <1>1, <1>4
  <2>2. Len(emitted'[Stream]) = Len(results') /\ DOMAIN results' = {}
    BY <2>1
  <2>3. QED
    BY <2>1, <2>2 DEF NoBlockDropped
<1>10. QED
  BY <1>5, <1>6, <1>7, <1>8, <1>9 DEF OneByOne

LEMMA StartReadKeeps ==
  ASSUME IInv, StartRead
  PROVE  OneByOne'
<1>1. /\ ready[Stream] \in {"open", "closing"}
      /\ UNCHANGED <<adapter, ready, uplink, emitted, nextHeight, gen, results, chain>>
  BY DEF StartRead, Sock!StartRead, genVars, peerVars
<1>2. /\ downlink'[Stream] = <<>> /\ Requested' = Requested
      /\ InFlight = 1 /\ Requested = 0 /\ reads[Stream] = {} /\ downlink[Stream] # <<>>
      /\ ready[Stream] = "open" => InFlight' = 1 /\ reads'[Stream] = {Head(downlink[Stream])}
      /\ ready[Stream] # "open" => InFlight' = 0 /\ reads'[Stream] = {}
  BY FlowOfRead DEF IInv, OneByOne, StartRead, Sock!StartRead
<1>3. UnderWay = 1 /\ UnderWay' = InFlight'
  BY <1>2, FlowTypes DEF IInv, UnderWay
<1>4. OneForOne'
  BY <1>1, <1>2, <1>3 DEF IInv, OneByOne, OneForOne
<1>5. OneSubscribe'
  BY <1>1 DEF IInv, OneByOne, OneSubscribe
<1>6. nextHeight # 0
  BY <1>2 DEF IInv, OneByOne, InStep
<1>7. InStep'
  BY <1>1, <1>2, <1>3, <1>6 DEF IInv, OneByOne, InStep
<1>8. NextBlock'
  BY <1>1, <1>2 DEF IInv, OneByOne, NextBlock
<1>9. NoBlockDropped'
  BY <1>1 DEF IInv, OneByOne, NoBlockDropped
<1>10. QED
  BY <1>4, <1>5, <1>7, <1>8, <1>9 DEF OneByOne

\* A settled call adds one result to those there are.
LEMMA Settled ==
  ASSUME TypeOK, NEW r \in Heights \cup {Done}, Settle(r)
  PROVE  /\ Len(results) \in Nat /\ Len(results') = Len(results) + 1
         /\ DOMAIN results = 1 .. Len(results) /\ DOMAIN results' = 1 .. Len(results) + 1
         /\ \A i \in 1 .. Len(results) : results'[i] = results[i]
         /\ results'[Len(results) + 1] = r
         /\ results' \in Seq(Heights \cup {Done}) /\ results' # <<>> /\ Last(results') = r
<1>1. results \in Seq(Heights \cup {Done}) /\ results' = Append(results, r)
  BY DEF TypeOK, Settle
<1>2. /\ results' \in Seq(Heights \cup {Done})
      /\ Len(results) \in Nat /\ Len(results') = Len(results) + 1
      /\ DOMAIN results = 1 .. Len(results) /\ DOMAIN results' = 1 .. Len(results) + 1
      /\ \A i \in 1 .. Len(results) : results'[i] = results[i]
      /\ results'[Len(results) + 1] = r
  BY <1>1, AppendProperties
<1>3. results' # <<>> /\ Last(results') = r
  BY <1>2, EmptySeq DEF Last
<1>4. QED
  BY <1>2, <1>3

\* Done after the blocks that were delivered keeps their account.
LEMMA DoneKeepsDelivery ==
  ASSUME TypeOK, NoBlockDropped, Settle(Done), UNCHANGED <<adapter, emitted>>,
         adapter = "node" \/ ready[Stream] = "open" \/ ready'[Stream] # "open"
  PROVE  NoBlockDropped'
<1> SUFFICES ASSUME (adapter = "node" \/ ready[Stream] = "open")'
             PROVE  /\ Len(emitted'[Stream]) <= Len(results')
                    /\ \A i \in DOMAIN results' :
                         results'[i] = IF i <= Len(emitted'[Stream]) THEN emitted'[Stream][i] ELSE Done
  BY DEF NoBlockDropped
<1>1. /\ Len(emitted[Stream]) <= Len(results)
      /\ \A i \in DOMAIN results :
           results[i] = IF i <= Len(emitted[Stream]) THEN emitted[Stream][i] ELSE Done
  BY DEF NoBlockDropped
<1>2. Len(emitted[Stream]) \in Nat /\ emitted'[Stream] = emitted[Stream]
  BY Shapes, LenProperties
<1>3. /\ Len(results) \in Nat /\ Len(results') = Len(results) + 1
      /\ DOMAIN results = 1 .. Len(results) /\ DOMAIN results' = 1 .. Len(results) + 1
      /\ \A i \in 1 .. Len(results) : results'[i] = results[i]
      /\ results'[Len(results) + 1] = Done
  BY Settled
<1>4. Len(emitted'[Stream]) <= Len(results')
  BY ONLY <1>1, <1>2, <1>3
<1>5. ASSUME NEW i \in DOMAIN results'
      PROVE  results'[i] = IF i <= Len(emitted'[Stream]) THEN emitted'[Stream][i] ELSE Done
  <2>1. CASE i \in 1 .. Len(results)
    BY ONLY <1>1, <1>2, <1>3, <2>1
  <2>2. CASE i = Len(results) + 1
    <3>1. ~(i <= Len(emitted[Stream]))
      BY ONLY <1>1, <1>2, <1>3, <2>2
    <3>2. QED
      BY <1>2, <1>3, <2>2, <3>1
  <2>3. QED
    BY ONLY <1>3, <1>5, <2>1, <2>2
<1>6. QED
  BY <1>4, <1>5

LEMMA ClosedKeeps ==
  ASSUME IInv, CleanClose \/ ConnectionLost
  PROVE  OneByOne'
<1>1. /\ ready[Stream] # "none" /\ ready'[Stream] = "closed"
      /\ UNCHANGED <<adapter, uplink, downlink, reads, emitted, nextHeight, credit, chain>>
  BY Shapes DEF IInv, CleanClose, ConnectionLost, Sock!CleanClose, Sock!ConnectionLost,
       Sock!OnClose, peerVars
<1>2. \/ gen = "awaiting" /\ gen' = "returned" /\ Settle(Done)
      \/ gen # "awaiting" /\ gen' = gen /\ results' = results
  BY DEF CleanClose, ConnectionLost, Halted, genVars
<1>3. Requested' = Requested /\ InFlight' = InFlight /\ UnderWay' = UnderWay
  BY <1>1, FlowOfStillness DEF UnderWay
<1>4. OneForOne'
  BY <1>1, <1>2, <1>3 DEF IInv, OneByOne, OneForOne
<1>5. OneSubscribe'
  BY <1>1 DEF IInv, OneByOne, OneSubscribe
<1>6. InStep'
  <2>1. nextHeight' = 0 => InFlight' = 0 /\ (gen' # "returned" => results' = <<>>)
    BY <1>1, <1>2, <1>3 DEF IInv, OneByOne, InStep
  <2>2. ~(gen' # "returned" /\ UnderWay' = 1) /\ ready'[Stream] # "open"
    BY <1>1, <1>2, <1>3 DEF IInv, OneByOne, OneForOne
  <2>3. QED
    BY <2>1, <2>2 DEF InStep
<1>7. NextBlock'
  BY <1>2 DEF NextBlock
<1>8. NoBlockDropped'
  <2>1. CASE Settle(Done)
    BY <1>1, <2>1, DoneKeepsDelivery DEF IInv, OneByOne
  <2>2. CASE results' = results
    BY <1>1, <2>2 DEF IInv, OneByOne, NoBlockDropped
  <2>3. QED
    BY <1>2, <2>1, <2>2
<1>9. QED
  BY <1>4, <1>5, <1>6, <1>7, <1>8 DEF OneByOne

LEMMA ResumeEndKeeps ==
  ASSUME IInv, ResumeEnd
  PROVE  OneByOne'
<1>1. /\ gen \in {"fresh", "suspended", "returned"} /\ gen' = "returned" /\ Settle(Done)
      /\ UNCHANGED <<adapter, ready, uplink, downlink, reads, emitted, nextHeight, credit, chain>>
  BY DEF ResumeEnd, Busy, sockVars, peerVars
<1>2. Requested' = Requested /\ InFlight' = InFlight /\ UnderWay' = UnderWay
  BY <1>1, FlowOfStillness DEF UnderWay
<1>3. OneForOne'
  BY <1>1, <1>2 DEF IInv, OneByOne, OneForOne
<1>4. OneSubscribe'
  BY <1>1 DEF IInv, OneByOne, OneSubscribe
<1>5. InStep'
  BY <1>1, <1>2 DEF IInv, OneByOne, InStep
<1>6. NextBlock'
  BY <1>1 DEF NextBlock
<1>7. NoBlockDropped'
  <2>1. CASE ready'[Stream] = "open"
    BY <1>1, <2>1, DoneKeepsDelivery DEF IInv, OneByOne
  <2>2. CASE ready'[Stream] # "open"
    BY <1>1, <2>2, DoneKeepsDelivery DEF IInv, OneByOne
  <2>3. QED
    BY <2>1, <2>2
<1>8. QED
  BY <1>3, <1>4, <1>5, <1>6, <1>7 DEF OneByOne

LEMMA StopKeeps ==
  ASSUME IInv, NEW k \in Closers, Stop(k)
  PROVE  OneByOne'
<1>1. /\ ready[Stream] \in {"open", "closing", "closed"}
      /\ ready'[Stream] = (IF ready[Stream] = "closed" THEN "closed" ELSE "closing")
      /\ \/ uplink' = [uplink EXCEPT ![Stream] = Append(@, "Close")]
         \/ uplink' = uplink
      /\ UNCHANGED <<adapter, downlink, reads, emitted, nextHeight, credit, chain, gen, results>>
  <2>1. ready[Stream] \in {"open", "closing", "closed"}
    BY DEF IInv, TypeOK, Sock!TypeOK, Stop, Sock!CloseAsync, Sock!ReadyStates
  <2>2. QED
    BY <2>1, Shapes DEF IInv, Stop, Sock!CloseAsync, genVars, peerVars
<1>2. Requested' = Requested /\ InFlight' = InFlight /\ UnderWay' = UnderWay
  BY <1>1, FlowOfFrame, FlowOfStillness DEF IInv, UnderWay
<1>3. OneForOne'
  BY <1>1, <1>2 DEF IInv, OneByOne, OneForOne
<1>4. OneSubscribe'
  <2>1. \A i \in DOMAIN uplink'[Stream] :
          uplink'[Stream][i] = "Subscribe" => i \in DOMAIN uplink[Stream] /\ uplink[Stream][i] = "Subscribe"
    <3>1. CASE uplink' = [uplink EXCEPT ![Stream] = Append(@, "Close")]
      <4>1. uplink'[Stream] = Append(uplink[Stream], "Close") /\ "Close" \in Frames
        BY <3>1, Shapes DEF IInv, Frames
      <4>2. /\ Len(uplink[Stream]) \in Nat /\ DOMAIN uplink[Stream] = 1 .. Len(uplink[Stream])
            /\ DOMAIN uplink'[Stream] = 1 .. Len(uplink[Stream]) + 1
            /\ \A i \in 1 .. Len(uplink[Stream]) : uplink'[Stream][i] = uplink[Stream][i]
            /\ uplink'[Stream][Len(uplink[Stream]) + 1] = "Close"
        BY <4>1, Shapes, AppendProperties DEF IInv
      <4>3. QED
        BY ONLY <4>2
    <3>2. CASE uplink' = uplink
      BY <3>2
    <3>3. QED
      BY <1>1, <3>1, <3>2
  <2>2. QED
    BY <1>1, <2>1 DEF IInv, OneByOne, OneSubscribe
<1>5. InStep'
  BY <1>1, <1>2 DEF IInv, OneByOne, InStep
<1>6. NextBlock'
  BY <1>1 DEF IInv, OneByOne, NextBlock
<1>7. NoBlockDropped'
  BY <1>1 DEF IInv, OneByOne, NoBlockDropped
<1>8. QED
  BY <1>3, <1>4, <1>5, <1>6, <1>7 DEF OneByOne

LEMMA ResumeNextKeeps ==
  ASSUME IInv, ResumeNext
  PROVE  OneByOne'
<1>1. /\ gen \in {"fresh", "suspended"} /\ gen' = "awaiting"
      /\ uplink' = IF ready[Stream] = "open" THEN [uplink EXCEPT ![Stream] = Append(@, "Next")] ELSE uplink
      /\ UNCHANGED <<adapter, ready, downlink, reads, emitted, nextHeight, chain, results>>
      /\ handshake[Stream] = "accepted"
  BY DEF ResumeNext, Busy, Sock!Send, peerVars
<1>2. /\ Requested' = Requested + (IF ready[Stream] = "open" THEN 1 ELSE 0)
      /\ InFlight' = InFlight
  BY FlowOfAsking DEF IInv
<1>3. Requested = 0 /\ InFlight = 0 /\ UnderWay = 0 /\ UnderWay' = (IF ready[Stream] = "open" THEN 1 ELSE 0)
  <2>1. UnderWay = 0
    BY <1>1 DEF IInv, OneByOne, OneForOne
  <2>2. Requested \in Nat /\ InFlight \in Nat /\ Requested + InFlight = 0
    BY <2>1, FlowTypes DEF IInv, UnderWay
  <2>3. Requested = 0 /\ InFlight = 0
    BY ONLY <2>2
  <2>4. QED
    BY <1>2, <2>1, <2>3 DEF UnderWay
<1>4. ready[Stream] \notin {"none", "connecting"}
  BY <1>1 DEF IInv, TypeOK, Sock!TypeOK
<1>5. OneForOne'
  BY <1>1, <1>3 DEF OneForOne
<1>6. OneSubscribe'
  <2>1. \A i \in DOMAIN uplink'[Stream] :
          uplink'[Stream][i] = "Subscribe" => i \in DOMAIN uplink[Stream] /\ uplink[Stream][i] = "Subscribe"
    <3>1. CASE ready[Stream] = "open"
      <4>1. uplink'[Stream] = Append(uplink[Stream], "Next") /\ "Next" \in Frames
        BY <1>1, <3>1, Shapes DEF IInv, Frames
      <4>2. /\ Len(uplink[Stream]) \in Nat /\ DOMAIN uplink[Stream] = 1 .. Len(uplink[Stream])
            /\ DOMAIN uplink'[Stream] = 1 .. Len(uplink[Stream]) + 1
            /\ \A i \in 1 .. Len(uplink[Stream]) : uplink'[Stream][i] = uplink[Stream][i]
            /\ uplink'[Stream][Len(uplink[Stream]) + 1] = "Next"
        BY <4>1, Shapes, AppendProperties DEF IInv
      <4>3. QED
        BY ONLY <4>2
    <3>2. CASE ready[Stream] # "open"
      BY <1>1, <3>2
    <3>3. QED
      BY <3>1, <3>2
  <2>2. QED
    BY <1>1, <1>4, <2>1 DEF IInv, OneByOne, OneSubscribe
<1>7. InStep'
  BY <1>1, <1>2, <1>3 DEF IInv, OneByOne, InStep
<1>8. NextBlock'
  BY <1>1, <1>3, NothingInFlight DEF IInv, NextBlock
<1>9. NoBlockDropped'
  BY <1>1 DEF IInv, OneByOne, NoBlockDropped
<1>10. QED
  BY <1>5, <1>6, <1>7, <1>8, <1>9 DEF OneByOne

LEMMA PeerReceivesKeeps ==
  ASSUME IInv, NEW r \in Frames, PeerReceives(r)
  PROVE  OneByOne'
<1>1. /\ uplink[Stream] # <<>> /\ r = Head(uplink[Stream]) /\ peerUp[Stream]
      /\ uplink'[Stream] = Tail(uplink[Stream])
      /\ nextHeight' = IF r = "Subscribe" THEN FromHeight ELSE nextHeight
      /\ UNCHANGED <<adapter, ready, downlink, reads, emitted, chain, gen, results>>
  BY Shapes DEF IInv, PeerReceives, Sock!PeerReceives, genVars
<1>2. Requested' = Requested /\ InFlight' = InFlight /\ UnderWay' = UnderWay
  BY FlowOfReceipt DEF IInv, UnderWay
<1>3. ready[Stream] \in {"open", "closing"}
  BY <1>1 DEF IInv, TypeOK, Sock!TypeOK
<1>4. /\ Len(uplink[Stream]) \in Nat \ {0} /\ r = uplink[Stream][1]
      /\ DOMAIN uplink[Stream] = 1 .. Len(uplink[Stream])
      /\ DOMAIN uplink'[Stream] = 1 .. Len(uplink[Stream]) - 1
      /\ \A i \in 1 .. Len(uplink[Stream]) - 1 : uplink'[Stream][i] = uplink[Stream][i + 1]
  BY <1>1, Shapes, HeadTailProperties, EmptySeq DEF IInv
<1>5. r = "Subscribe" => nextHeight = 0
  <2>1. 1 \in DOMAIN uplink[Stream]
    BY ONLY <1>4
  <2>2. QED
    BY <1>4, <2>1 DEF IInv, OneByOne, OneSubscribe
<1>6. FromHeight \in Nat \ {0}
  BY BlocksStreamAssumption
<1>7. OneForOne'
  BY <1>1, <1>2 DEF IInv, OneByOne, OneForOne
<1>8. OneSubscribe'
  <2>1. ASSUME NEW i \in DOMAIN uplink'[Stream], uplink'[Stream][i] = "Subscribe"
        PROVE  FALSE
    <3>1. i + 1 \in DOMAIN uplink[Stream] /\ uplink[Stream][i + 1] = "Subscribe" /\ i \in Nat \ {0}
      BY <1>4, <2>1
    <3>2. i + 1 = 1
      BY <3>1 DEF IInv, OneByOne, OneSubscribe
    <3>3. QED
      BY ONLY <3>1, <3>2
  <2>2. QED
    BY <1>1, <1>3, <2>1 DEF OneSubscribe
<1>9. InStep'
  <2>1. CASE r = "Subscribe"
    <3>1. InFlight = 0 /\ (gen # "returned" => results = <<>>)
      BY <1>5, <2>1 DEF IInv, OneByOne, InStep
    <3>2. nextHeight' = FromHeight /\ (gen' # "returned" => Len(results') = 0) /\ InFlight' = 0
      BY <1>1, <1>2, <2>1, <3>1
    <3>3. QED
      BY <1>6, <3>2 DEF InStep
  <2>2. CASE r # "Subscribe"
    BY <1>1, <1>2, <2>2 DEF IInv, OneByOne, InStep
  <2>3. QED
    BY <2>1, <2>2
<1>10. NextBlock'
  BY <1>1 DEF IInv, OneByOne, NextBlock
<1>11. NoBlockDropped'
  BY <1>1 DEF IInv, OneByOne, NoBlockDropped
<1>12. QED
  BY <1>7, <1>8, <1>9, <1>10, <1>11 DEF OneByOne

LEMMA PeerSendsBlockKeeps ==
  ASSUME IInv, PeerSendsBlock
  PROVE  OneByOne'
<1>1. /\ peerUp[Stream] /\ credit > 0 /\ nextHeight \in FromHeight .. chain
      /\ nextHeight' = nextHeight + 1
      /\ downlink'[Stream] = Append(downlink[Stream], nextHeight)
      /\ UNCHANGED <<adapter, ready, uplink, reads, emitted, chain, gen, results>>
  BY Shapes DEF IInv, PeerSendsBlock, Sock!PeerSends, genVars
<1>2. ready[Stream] \in {"open", "closing"}
  BY <1>1 DEF IInv, TypeOK, Sock!TypeOK
<1>3. /\ FromHeight \in Nat \ {0} /\ nextHeight \in Nat \ {0} /\ nextHeight <= chain
      /\ nextHeight \in Heights
  <2>1. FromHeight \in Nat \ {0} /\ MaxHeight \in Nat /\ chain \in 0 .. MaxHeight
    BY BlocksStreamAssumption DEF IInv, TypeOK
  <2>2. QED
    BY ONLY <1>1, <2>1 DEF Heights
<1>4. Requested' = Requested - 1 /\ InFlight' = InFlight + 1
  BY FlowOfBlock DEF IInv
<1>5. Requested = 1 /\ InFlight = 0 /\ UnderWay = 1 /\ UnderWay' = 1
  <2>1. /\ Requested \in Nat /\ InFlight \in Nat /\ Requested + InFlight \in {0, 1}
        /\ Requested = Cardinality(Asked(uplink[Stream])) + credit
        /\ Cardinality(Asked(uplink[Stream])) \in Nat /\ credit \in Nat
    BY FlowTypes, Shapes DEF IInv, OneByOne, OneForOne, UnderWay, Requested
  <2>2. Requested > 0
    <3>1. \A a, b \in Nat : b > 0 => a + b > 0
      OBVIOUS
    <3>2. QED
      BY <1>1, <2>1, <3>1
  <2>3. Requested = 1 /\ InFlight = 0
    <3>1. \A a, b \in Nat : a > 0 /\ a + b \in {0, 1} => a = 1 /\ b = 0
      OBVIOUS
    <3>2. QED
      BY <2>1, <2>2, <3>1
  <2>4. QED
    BY <1>4, <2>3 DEF UnderWay
<1>6. gen = "awaiting"
  BY <1>2, <1>5 DEF IInv, OneByOne, OneForOne
<1>7. downlink[Stream] = <<>> /\ reads[Stream] = {}
  BY <1>5, NothingInFlight DEF IInv
<1>8. nextHeight = FromHeight + Len(results) /\ Len(results) \in Nat
  <2>1. nextHeight = FromHeight + Len(results) + InFlight
    BY <1>3, <1>5, <1>6 DEF IInv, OneByOne, InStep
  <2>2. Len(results) \in Nat
    BY LenProperties DEF IInv, TypeOK
  <2>3. QED
    BY <1>3, <1>5, <2>1, <2>2
<1>9. OneForOne'
  BY <1>1, <1>5, <1>6 DEF OneForOne
<1>10. OneSubscribe'
  BY <1>1, <1>2, <1>3 DEF IInv, OneByOne, OneSubscribe
<1>11. InStep'
  <2>1. nextHeight' # 0 /\ nextHeight' = FromHeight + Len(results') + InFlight'
    BY <1>1, <1>3, <1>4, <1>5, <1>8
  <2>2. QED
    BY <2>1 DEF InStep
<1>12. NextBlock'
  <2>1. downlink'[Stream] = <<nextHeight>>
    BY <1>1, <1>7
  <2>2. Head(downlink'[Stream]) = nextHeight
    BY <2>1
  <2>3. QED
    BY <1>1, <1>3, <1>7, <1>8, <2>2 DEF NextBlock
<1>13. NoBlockDropped'
  BY <1>1 DEF IInv, OneByOne, NoBlockDropped
<1>14. QED
  BY <1>9, <1>10, <1>11, <1>12, <1>13 DEF OneByOne

\* A block that arrives finds its next() waiting, and is the one it waits for.
LEMMA OnMessageDelivers ==
  ASSUME IInv, NEW m \in Heights, OnMessage(m)
  PROVE  \/ /\ gen = "awaiting" /\ gen' = "suspended" /\ Settle(m)
            /\ m = FromHeight + Len(results) /\ m <= chain
         \/ /\ gen = "returned" /\ ready[Stream] = "closed" /\ UNCHANGED genVars
<1>1. /\ UnderWay = 1
      /\ m \in reads[Stream] \/ (downlink[Stream] # <<>> /\ m = Head(downlink[Stream]))
  BY FlowOfMessage DEF IInv, OneByOne
<1>2. gen = "awaiting" \/ (gen = "returned" /\ ready[Stream] = "closed")
  BY <1>1 DEF IInv, OneByOne, OneForOne
<1>3. gen = "awaiting" => m = FromHeight + Len(results) /\ m <= chain
  BY <1>1 DEF IInv, OneByOne, NextBlock
<1>4. QED
  BY <1>2, <1>3 DEF OnMessage, GotBlock

\* While the generator runs, every result is a block the socket emitted.
LEMMA AllBlocks ==
  ASSUME IInv, gen # "returned", adapter = "node" \/ ready[Stream] = "open"
  PROVE  Len(emitted[Stream]) = Len(results)
<1>1. /\ Len(emitted[Stream]) <= Len(results)
      /\ \A i \in DOMAIN results :
           results[i] = IF i <= Len(emitted[Stream]) THEN emitted[Stream][i] ELSE Done
  BY DEF IInv, OneByOne, NoBlockDropped
<1>2. /\ Len(emitted[Stream]) \in Nat /\ Len(results) \in Nat
      /\ DOMAIN results = 1 .. Len(results)
  BY Shapes, LenProperties DEF IInv, TypeOK
<1>3. CASE Len(emitted[Stream]) < Len(results)
  <2>1. Len(results) \in DOMAIN results /\ ~(Len(results) <= Len(emitted[Stream])) /\ results # <<>>
    BY <1>2, <1>3
  <2>2. results[Len(results)] = Done
    BY <1>1, <2>1
  <2>3. gen = "returned"
    BY <2>1, <2>2 DEF IInv, TypeOK, Last
  <2>4. QED
    BY <2>3
<1>4. QED
  BY <1>1, <1>2, <1>3

LEMMA OnMessageKeeps ==
  ASSUME IInv, NEW m \in Heights, OnMessage(m)
  PROVE  OneByOne'
<1>1. /\ emitted'[Stream] = Append(emitted[Stream], m)
      /\ UNCHANGED <<adapter, ready, uplink, nextHeight, chain>>
      /\ adapter = "node" => ready[Stream] \in {"open", "closing"}
  BY Shapes DEF IInv, OnMessage, Sock!OnMessage, peerVars
<1>2. UnderWay = 1 /\ InFlight = 1 /\ UnderWay' = 0 /\ InFlight' = 0
  BY FlowOfMessage DEF IInv, OneByOne
<1>3. \/ gen = "awaiting" /\ gen' = "suspended" /\ Settle(m)
      \/ gen = "returned" /\ ready[Stream] = "closed" /\ gen' = gen /\ results' = results
  BY OnMessageDelivers DEF genVars
<1>4. Settle(m) => Len(results) \in Nat /\ Len(results') = Len(results) + 1
  BY Settled DEF IInv
<1>5. nextHeight # 0
  BY <1>2 DEF IInv, OneByOne, InStep
<1>6. OneForOne'
  BY <1>1, <1>2, <1>3 DEF OneForOne
<1>7. OneSubscribe'
  BY <1>1, <1>5 DEF IInv, OneByOne, OneSubscribe
<1>8. InStep'
  <2>1. CASE gen = "awaiting" /\ gen' = "suspended" /\ Settle(m)
    <3>1. nextHeight = FromHeight + Len(results) + 1
      BY <1>2, <1>5, <2>1 DEF IInv, OneByOne, InStep
    <3>2. FromHeight \in Nat
      BY BlocksStreamAssumption
    <3>3. nextHeight' = FromHeight + Len(results') + InFlight'
      BY <1>1, <1>2, <1>4, <2>1, <3>1, <3>2
    <3>4. QED
      BY <1>1, <1>5, <3>3 DEF InStep
  <2>2. CASE gen' = "returned"
    BY <1>1, <1>5, <2>2 DEF InStep
  <2>3. QED
    BY <1>3, <2>1, <2>2
<1>9. NextBlock'
  BY <1>3 DEF NextBlock
<1>10. NoBlockDropped'
  <2> SUFFICES ASSUME (adapter = "node" \/ ready[Stream] = "open")'
               PROVE  /\ Len(emitted'[Stream]) <= Len(results')
                      /\ \A i \in DOMAIN results' :
                           results'[i] = IF i <= Len(emitted'[Stream]) THEN emitted'[Stream][i] ELSE Done
    BY DEF NoBlockDropped
  <2>1. gen = "awaiting" /\ Settle(m) /\ (adapter = "node" \/ ready[Stream] = "open")
    BY <1>1, <1>3
  <2>2. Len(emitted[Stream]) = Len(results)
    BY <2>1, AllBlocks
  <2>3. \A i \in DOMAIN results :
          results[i] = IF i <= Len(emitted[Stream]) THEN emitted[Stream][i] ELSE Done
    BY <2>1 DEF IInv, OneByOne, NoBlockDropped
  <2>4. /\ Len(results) \in Nat /\ Len(results') = Len(results) + 1
        /\ DOMAIN results = 1 .. Len(results) /\ DOMAIN results' = 1 .. Len(results) + 1
        /\ \A i \in 1 .. Len(results) : results'[i] = results[i]
        /\ results'[Len(results) + 1] = m
    BY <2>1, Settled DEF IInv
  <2>5. /\ Len(emitted'[Stream]) = Len(emitted[Stream]) + 1
        /\ \A i \in 1 .. Len(emitted[Stream]) : emitted'[Stream][i] = emitted[Stream][i]
        /\ emitted'[Stream][Len(emitted[Stream]) + 1] = m
    BY <1>1, Shapes, AppendProperties DEF IInv
  <2>6. Len(emitted'[Stream]) <= Len(results')
    BY ONLY <2>2, <2>4, <2>5
  <2>7. ASSUME NEW i \in DOMAIN results'
        PROVE  i <= Len(emitted'[Stream]) /\ results'[i] = emitted'[Stream][i]
    <3>1. CASE i \in 1 .. Len(results)
      <4>1. results[i] = emitted[Stream][i]
        BY ONLY <2>2, <2>3, <2>4, <3>1
      <4>2. QED
        BY ONLY <2>2, <2>4, <2>5, <3>1, <4>1
    <3>2. CASE i = Len(results) + 1
      BY ONLY <2>2, <2>4, <2>5, <3>2
    <3>3. QED
      BY ONLY <2>4, <2>7, <3>1, <3>2
  <2>8. QED
    BY <2>6, <2>7
<1>11. QED
  BY <1>6, <1>7, <1>8, <1>9, <1>10 DEF OneByOne

LEMMA OneByOneStep ==
  ASSUME IInv, [Next]_vars
  PROVE  OneByOne'
<1>1. CASE Opened
  BY <1>1, OpenedKeeps
<1>2. CASE StartRead
  BY <1>2, StartReadKeeps
<1>3. CASE CleanClose \/ ConnectionLost
  BY <1>3, ClosedKeeps
<1>4. ASSUME NEW m \in Heights, OnMessage(m) PROVE OneByOne'
  BY <1>4, OnMessageKeeps
<1>5. ASSUME NEW k \in Closers, Stop(k) PROVE OneByOne'
  BY <1>5, StopKeeps
<1>6. CASE ResumeNext
  BY <1>6, ResumeNextKeeps
<1>7. CASE ResumeEnd
  BY <1>7, ResumeEndKeeps
<1>8. ASSUME NEW r \in {"Subscribe", "Next", "Close"}, PeerReceives(r) PROVE OneByOne'
  BY <1>8, PeerReceivesKeeps DEF Frames
<1>9. CASE PeerSendsBlock
  BY <1>9, PeerSendsBlockKeeps
<1>10. CASE Setup \/ PeerCloses \/ Commit \/ UNCHANGED vars \/ (\E kind \in {"next", "return"} : Call(kind))
  <2>1. TypeOK
    BY DEF IInv
  <2>2. QED
    BY <1>10, <2>1, QuietSteps, QuietKeeps
<1>11. QED
  BY <1>1, <1>2, <1>3, <1>4, <1>5, <1>6, <1>7, <1>8, <1>9, <1>10 DEF Next
-----------------------------------------------------------------------------
\* The types of the generator and of the peer.
GenTypes ==
  /\ gen \in GenStates
  /\ calls \in Seq({"next", "return"})
  /\ results \in Seq(Heights \cup {Done})
  /\ Len(calls) + Len(results) <= MaxCalls
  /\ gen = "awaiting" => calls # <<>> /\ Head(calls) = "next"
  /\ gen = "returned" <=> results # <<>> /\ Last(results) = Done

PeerTypes ==
  /\ chain \in 0 .. MaxHeight
  /\ nextHeight \in 0 .. MaxHeight + FromHeight
  /\ credit \in 0 .. MaxCalls

LEMMA SettledTypes ==
  ASSUME TypeOK, NEW r \in Heights \cup {Done}, Settle(r), calls # <<>>,
         gen' \in GenStates \ {"awaiting"}, gen' = "returned" <=> r = Done
  PROVE  GenTypes'
<1>1. /\ calls' \in Seq({"next", "return"}) /\ Len(calls) \in Nat \ {0}
      /\ Len(calls') = Len(calls) - 1
  BY HeadTailProperties, EmptySeq DEF TypeOK, Settle
<1>2. /\ Len(results) \in Nat /\ Len(results') = Len(results) + 1
      /\ results' \in Seq(Heights \cup {Done}) /\ results' # <<>> /\ Last(results') = r
  BY Settled
<1>3. Len(calls) + Len(results) <= MaxCalls /\ MaxCalls \in Nat
  BY BlocksStreamAssumption DEF TypeOK
<1>4. Len(calls') + Len(results') <= MaxCalls
  BY ONLY <1>1, <1>2, <1>3
<1>5. QED
  BY <1>1, <1>2, <1>4 DEF GenTypes

LEMMA NoBlockIsDone == Done \notin Heights
  BY BlocksStreamAssumption DEF Done, Heights

LEMMA GenTypesStep ==
  ASSUME IInv, [Next]_vars
  PROVE  GenTypes' /\ (gen' = "none" <=> handshake'[Stream] # "accepted")
<1> DEFINE Opening == gen' = "none" <=> handshake'[Stream] # "accepted"
<1>1. TypeOK /\ GenTypes /\ (gen = "none" <=> handshake[Stream] # "accepted")
  BY DEF IInv, TypeOK, GenTypes
<1>2. ASSUME UNCHANGED genVars, UNCHANGED handshake PROVE GenTypes' /\ Opening
  BY <1>1, <1>2 DEF GenTypes, genVars
<1>3. CASE Setup
  <2>1. UNCHANGED genVars /\ handshake[Stream] = "none" /\ handshake'[Stream] = "waiting"
    BY <1>1, <1>3, Shapes DEF TypeOK, Sock!TypeOK, Setup, Sock!SetupWebSocket
  <2>2. QED
    BY <1>1, <2>1 DEF GenTypes, genVars
<1>4. CASE Opened
  <2>1. /\ gen' = "fresh" /\ calls' = calls /\ results' = results
        /\ handshake[Stream] # "accepted" /\ handshake'[Stream] = "accepted"
    BY <1>1, <1>4, Shapes DEF TypeOK, Sock!TypeOK, Opened, Sock!OnOpen
  <2>2. gen = "none"
    BY <1>1, <2>1
  <2>3. QED
    BY <1>1, <2>1, <2>2 DEF GenTypes, GenStates
<1>5. CASE StartRead
  BY <1>2, <1>5 DEF StartRead, Sock!StartRead
<1>6. CASE CleanClose \/ ConnectionLost
  <2>1. /\ Halted
        /\ \/ handshake'[Stream] = handshake[Stream]
           \/ handshake[Stream] = "waiting" /\ handshake'[Stream] = "rejected"
    BY <1>1, <1>6, Shapes DEF CleanClose, ConnectionLost, Sock!CleanClose, Sock!ConnectionLost, Sock!OnClose
  <2>2. CASE gen = "awaiting"
    <3>1. gen' = "returned" /\ Settle(Done) /\ calls # <<>>
      BY <1>1, <2>1, <2>2 DEF Halted, GenTypes
    <3>2. QED
      BY <1>1, <2>1, <2>2, <3>1, SettledTypes DEF GenStates
  <2>3. CASE gen # "awaiting"
    BY <1>1, <2>1, <2>3 DEF Halted, GenTypes, genVars
  <2>4. QED
    BY <2>2, <2>3
<1>7. ASSUME NEW m \in Heights, OnMessage(m) PROVE GenTypes' /\ Opening
  <2>1. UNCHANGED handshake
    BY <1>7 DEF OnMessage, Sock!OnMessage
  <2>2. CASE gen = "awaiting"
    <3>1. gen' = "suspended" /\ Settle(m) /\ calls # <<>> /\ m # Done
      BY <1>1, <1>7, <2>2, NoBlockIsDone DEF OnMessage, GotBlock, GenTypes
    <3>2. QED
      BY <1>1, <2>1, <2>2, <3>1, SettledTypes DEF GenStates
  <2>3. CASE gen # "awaiting"
    BY <1>2, <1>7, <2>1, <2>3 DEF OnMessage, GotBlock
  <2>4. QED
    BY <2>2, <2>3
<1>8. ASSUME NEW k \in Closers, Stop(k) PROVE GenTypes' /\ Opening
  BY <1>2, <1>8 DEF Stop, Sock!CloseAsync
<1>9. ASSUME NEW kind \in {"next", "return"}, Call(kind) PROVE GenTypes' /\ Opening
  <2>1. /\ calls' = Append(calls, kind) /\ UNCHANGED <<gen, results, handshake>>
        /\ Len(calls) + Len(results) < MaxCalls
    BY <1>9 DEF Call, sockVars
  <2>2. /\ calls \in Seq({"next", "return"}) /\ Len(calls) \in Nat
        /\ calls' \in Seq({"next", "return"}) /\ Len(calls') = Len(calls) + 1
        /\ calls # <<>> => calls' # <<>> /\ Head(calls') = Head(calls)
    <3>1. /\ calls \in Seq({"next", "return"}) /\ Len(calls) \in Nat
          /\ calls' \in Seq({"next", "return"}) /\ Len(calls') = Len(calls) + 1
          /\ \A i \in 1 .. Len(calls) : calls'[i] = calls[i]
      BY <1>1, <2>1, AppendProperties DEF GenTypes
    <3>2. calls # <<>> => 1 \in 1 .. Len(calls)
      BY <3>1, EmptySeq
    <3>3. QED
      BY <3>1, <3>2
  <2>3. Len(calls') + Len(results') <= MaxCalls
    <3>1. Len(results) \in Nat /\ MaxCalls \in Nat /\ results' = results
      BY <1>1, <2>1, LenProperties, BlocksStreamAssumption DEF GenTypes
    <3>2. QED
      BY ONLY <2>1, <2>2, <3>1
  <2>4. QED
    BY <1>1, <2>1, <2>2, <2>3 DEF GenTypes
<1>10. CASE ResumeNext
  <2>1. /\ calls # <<>> /\ Head(calls) = "next" /\ gen \in {"fresh", "suspended"}
        /\ gen' = "awaiting" /\ UNCHANGED <<calls, results, handshake>>
    BY <1>10 DEF ResumeNext, Busy, Sock!Send
  <2>2. QED
    BY <1>1, <2>1 DEF GenTypes, GenStates
<1>11. CASE ResumeEnd
  <2>1. /\ calls # <<>> /\ gen # "none" /\ gen' = "returned" /\ Settle(Done) /\ UNCHANGED handshake
    BY <1>11 DEF ResumeEnd, Busy, sockVars
  <2>2. QED
    BY <1>1, <2>1, SettledTypes DEF GenStates
<1>12. ASSUME NEW r \in {"Subscribe", "Next", "Close"}, PeerReceives(r) PROVE GenTypes' /\ Opening
  BY <1>2, <1>12 DEF PeerReceives, Sock!PeerReceives
<1>13. CASE PeerSendsBlock
  BY <1>2, <1>13 DEF PeerSendsBlock, Sock!PeerSends
<1>14. CASE PeerCloses
  BY <1>2, <1>14 DEF PeerCloses, Sock!PeerCloses
<1>15. CASE Commit
  BY <1>2, <1>15 DEF Commit, sockVars
<1>16. CASE UNCHANGED vars
  BY <1>2, <1>16 DEF vars, sockVars
<1>17. QED
  BY <1>3, <1>4, <1>5, <1>6, <1>7, <1>8, <1>9, <1>10, <1>11, <1>12, <1>13, <1>14, <1>15, <1>16
     DEF Next

LEMMA PeerTypesStep ==
  ASSUME IInv, [Next]_vars
  PROVE  PeerTypes'
<1>1. /\ chain \in 0 .. MaxHeight /\ nextHeight \in 0 .. MaxHeight + FromHeight
      /\ credit \in 0 .. MaxCalls
      /\ FromHeight \in Nat \ {0} /\ MaxHeight \in Nat /\ MaxCalls \in Nat
  BY BlocksStreamAssumption DEF IInv, TypeOK
<1>2. CASE Commit
  <2>1. chain < MaxHeight /\ chain' = chain + 1 /\ nextHeight' = nextHeight /\ credit' = credit
    BY <1>2 DEF Commit
  <2>2. QED
    BY ONLY <1>1, <2>1 DEF PeerTypes
<1>3. CASE PeerSendsBlock
  <2>1. /\ nextHeight \in FromHeight .. chain /\ nextHeight' = nextHeight + 1
        /\ credit > 0 /\ credit' = credit - 1 /\ chain' = chain
    BY <1>3 DEF PeerSendsBlock
  <2>2. QED
    BY ONLY <1>1, <2>1 DEF PeerTypes
\* The one Next under way is a waiting call's: there is a call to bound it.
<1>4. ASSUME NEW r \in {"Subscribe", "Next", "Close"}, PeerReceives(r) PROVE PeerTypes'
  <2>1. /\ chain' = chain /\ nextHeight' = (IF r = "Subscribe" THEN FromHeight ELSE nextHeight)
        /\ credit' = (IF r = "Next" THEN credit + 1 ELSE credit)
    BY <1>4 DEF PeerReceives
  <2>2. CASE r = "Next"
    <3>1. /\ Requested' = Requested /\ Requested \in Nat /\ InFlight \in Nat /\ Requested + InFlight \in {0, 1}
      BY <1>4, FlowOfReceipt, FlowTypes DEF IInv, OneByOne, OneForOne, UnderWay, Frames
    <3>2. /\ Requested = Cardinality(Asked(uplink[Stream])) + credit
          /\ Cardinality(Asked(uplink[Stream])) \in Nat /\ credit \in Nat
      BY Shapes DEF IInv, Requested
    <3>3. Cardinality(Asked(uplink[Stream])) > 0
      <4>1. /\ uplink[Stream] \in Seq(Frames) /\ uplink[Stream] # <<>> /\ Head(uplink[Stream]) = "Next"
        BY <1>4, <2>2, Shapes DEF IInv, PeerReceives, Sock!PeerReceives
      <4>2. uplink[Stream][1] = "Next" /\ 1 \in DOMAIN uplink[Stream]
        BY <4>1, EmptySeq
      <4>3. 1 \in Asked(uplink[Stream]) /\ IsFiniteSet(Asked(uplink[Stream]))
        BY <4>1, <4>2, AskedFinite DEF Asked
      <4>4. Cardinality(Asked(uplink[Stream])) # 0
        BY <4>3, FS_EmptySet
      <4>5. QED
        BY <3>2, <4>4
    <3>4. \A a, b, c \in Nat : a > 0 /\ (a + b) + c \in {0, 1} => b = 0 /\ (a + b) + c = 1
      OBVIOUS
    <3>5. credit = 0 /\ UnderWay = 1
      BY <3>1, <3>2, <3>3, <3>4 DEF UnderWay
    <3>6. ready[Stream] \in {"open", "closing"}
      BY <1>4 DEF IInv, TypeOK, Sock!TypeOK, PeerReceives, Sock!PeerReceives
    <3>7. gen = "awaiting"
      BY <3>5, <3>6 DEF IInv, OneByOne, OneForOne
    <3>8. Len(calls) \in Nat \ {0} /\ Len(results) \in Nat /\ Len(calls) + Len(results) <= MaxCalls
      BY <3>7, LenProperties, EmptySeq DEF IInv, TypeOK
    <3>9. MaxCalls >= 1
      BY ONLY <1>1, <3>8
    <3>10. QED
      BY <1>1, <2>1, <2>2, <3>5, <3>9 DEF PeerTypes
  <2>3. CASE r # "Next"
    <3>1. credit' = credit
      BY <2>1, <2>3
    <3>2. QED
      BY ONLY <1>1, <2>1, <3>1 DEF PeerTypes
  <2>4. QED
    BY <2>2, <2>3
<1>5. CASE UNCHANGED peerVars
  BY <1>1, <1>5 DEF PeerTypes, peerVars
<1>6. QED
  <2>1. ASSUME NEW m \in Heights, OnMessage(m) PROVE UNCHANGED peerVars
    BY <2>1 DEF OnMessage
  <2>2. ASSUME NEW k \in Closers, Stop(k) PROVE UNCHANGED peerVars
    BY <2>2 DEF Stop
  <2>3. QED
    BY <1>2, <1>3, <1>4, <1>5, <2>1, <2>2
       DEF Next, vars, Setup, Opened, StartRead, CleanClose, ConnectionLost, Call, ResumeNext,
           ResumeEnd, PeerCloses

LEMMA IInvInit == Init => IInv
<1> SUFFICES ASSUME Init PROVE IInv
  OBVIOUS
<1>1. /\ ready[Stream] = "none" /\ handshake[Stream] = "none" /\ uplink[Stream] = <<>>
      /\ downlink[Stream] = <<>> /\ reads[Stream] = {} /\ emitted[Stream] = <<>>
      /\ chain = 0 /\ nextHeight = 0 /\ credit = 0
      /\ gen = "none" /\ calls = <<>> /\ results = <<>>
  BY DEF Init, Sock!Init
<1>2. Sock!TypeOK
  BY DEF Init, Sock!Init, Sock!TypeOK, Sock!ReadyStates
<1>3. TypeOK
  BY <1>1, <1>2, BlocksStreamAssumption DEF TypeOK, GenStates
<1>4. Requested = 0 /\ InFlight = 0 /\ UnderWay = 0
  <2>1. Asked(uplink[Stream]) = {}
    BY <1>1 DEF Asked
  <2>2. /\ Cardinality(Asked(uplink[Stream])) = 0 /\ Cardinality(reads[Stream]) = 0
        /\ Len(downlink[Stream]) = 0
    BY <1>1, <2>1, FS_EmptySet
  <2>3. Requested = 0 /\ InFlight = 0
    BY <1>1, <2>2 DEF Requested, InFlight
  <2>4. QED
    BY <2>3 DEF UnderWay
<1>5. DOMAIN uplink[Stream] = {} /\ DOMAIN results = {} /\ Len(emitted[Stream]) = Len(results)
      /\ Len(results) = 0
  BY <1>1
<1>6. OneByOne
  BY <1>1, <1>4, <1>5 DEF OneByOne, OneForOne, OneSubscribe, InStep, NextBlock, NoBlockDropped
<1>7. QED
  BY <1>3, <1>6 DEF IInv

LEMMA IInvStep == IInv /\ [Next]_vars => IInv'
<1> SUFFICES ASSUME IInv, [Next]_vars PROVE IInv'
  OBVIOUS
<1>1. Sock!TypeOK' /\ GenTypes' /\ PeerTypes' /\ (gen' = "none" <=> handshake'[Stream] # "accepted")
  BY SocketTypesStep, GenTypesStep, PeerTypesStep DEF IInv
<1>2. TypeOK'
  BY <1>1 DEF TypeOK, GenTypes, PeerTypes
<1>3. QED
  BY <1>2, OneByOneStep DEF IInv

LEMMA BlocksInductive == Spec => []IInv
<1>1. QED
  BY IInvInit, IInvStep, PTL DEF Spec

-----------------------------------------------------------------------------
(* The theorems. *)

\* Every variable of the stream, of its socket and of the peer keeps to its
\* type: the generator exists exactly once accepted() has resolved, waits only
\* for the next() at the head of its queue, and has returned exactly when its
\* last result says so.
THEOREM BlocksTypeCorrect == Spec => []TypeOK
<1>1. IInv => TypeOK
  BY DEF IInv
<1>2. QED
  BY <1>1, BlocksInductive, PTL

\* sendNext() once per iteration of lazyBlocks, whatever the calls of next(),
\* return() and stop() and the network do: never two blocks under way, and on
\* an open socket one exactly while a next() waits.
THEOREM OneOutstandingAlways == Spec => []OneOutstanding
<1>1. IInv => OneOutstanding
  <2> SUFFICES ASSUME IInv PROVE OneOutstanding
    OBVIOUS
  <2>1. /\ UnderWay \in {0, 1}
        /\ UnderWay = 1 => gen = "awaiting" \/ (gen = "returned" /\ ready[Stream] = "closed")
        /\ ready[Stream] = "open" /\ gen = "awaiting" => UnderWay = 1
    BY DEF IInv, OneByOne, OneForOne
  <2>2. UnderWay <= 1
    BY ONLY <2>1
  <2>3. ready[Stream] = "open" => UnderWay = (IF gen = "awaiting" THEN 1 ELSE 0)
    BY <2>1
  <2>4. QED
    BY <2>2, <2>3 DEF OneOutstanding, UnderWay
<1>2. QED
  BY <1>1, BlocksInductive, PTL

\* The `once` listener of an iteration misses no block: what the socket emits
\* is what the consumer is given, in order.
THEOREM NothingDropped == Spec => []NoBlockDropped
<1>1. IInv => NoBlockDropped
  BY DEF IInv, OneByOne
<1>2. QED
  BY <1>1, BlocksInductive, PTL

\* Whatever the generator, stop() and the peer do together, each does to the
\* socket what setupWebSocket and the adapters allow, one step at a time: the
\* stream implements EventSocket.
THEOREM BlocksKeepsSocket == Spec => Sock!Spec
<1>1. Init => Sock!Init
  BY DEF Init
<1>2. TypeOK /\ [Next]_vars => [Sock!Next]_Sock!sockVars
  BY SocketStep
     DEF Sock!Next, Sock!sockVars, Sock!SetupWebSocket, Sock!OnOpen, Sock!Send, Sock!CloseAsync,
         Sock!StartRead, Sock!OnMessage, Sock!CleanClose, Sock!ConnectionLost, Sock!OnClose,
         Sock!PeerReceives, Sock!PeerSends, Sock!PeerCloses, Sock!Range,
         SockP!Next, SockP!sockVars, SockP!SetupWebSocket, SockP!OnOpen, SockP!Send, SockP!CloseAsync,
         SockP!StartRead, SockP!OnMessage, SockP!CleanClose, SockP!ConnectionLost, SockP!OnClose,
         SockP!PeerReceives, SockP!PeerSends, SockP!PeerCloses, SockP!Range
<1>3. QED
  BY <1>1, <1>2, BlocksTypeCorrect, PTL DEF Spec, Sock!Spec

\* So what is proved of the socket alone holds of the stream's: a block that was
\* sent is on the wire, being read or emitted, in one of these places only, and
\* under Node.js blocks are emitted in the order they were sent.
THEOREM BlocksSocketDelivers == Spec => [](Sock!NoMessageVanishes /\ Sock!InOrderDelivery)
<1>1. Init => SockP!Init
  BY DEF Init, Sock!Init, SockP!Init
<1>2. Spec => SockP!Spec
  BY <1>1, SocketStep, BlocksTypeCorrect, PTL DEF Spec, SockP!Spec
<1>3. SockP!FramesAssumption /\ SockP!BoundAssumption
  BY DEF SockP!FramesAssumption, SockP!BoundAssumption
<1>4. SockP!Spec => [](SockP!NoMessageVanishes /\ SockP!InOrderDelivery)
  BY <1>3, SockP!NothingVanishes, SockP!NodeDeliversInOrder, PTL
<1>5. /\ SockP!NoMessageVanishes => Sock!NoMessageVanishes
      /\ SockP!InOrderDelivery => Sock!InOrderDelivery
  BY DEF SockP!NoMessageVanishes, Sock!NoMessageVanishes, SockP!InOrderDelivery, Sock!InOrderDelivery,
         SockP!Range, Sock!Range, SockP!IsInjective, Sock!IsInjective
<1>6. QED
  BY <1>2, <1>4, <1>5, PTL

\* onceClosed ends the iteration that waits, in the 'close' event itself.
THEOREM CloseReleases == Spec => CloseReleasesWaiter
<1>1. ASSUME IInv, [Next]_vars, ready'[Stream] = "closed", ready[Stream] # "closed"
      PROVE  gen' # "awaiting"
  <2>1. TypeOK
    BY <1>1 DEF IInv
  <2>2. CASE CleanClose \/ ConnectionLost
    BY <2>2 DEF CleanClose, ConnectionLost, Halted, genVars
  <2>3. ASSUME NEW m \in Heights, OnMessage(m) PROVE FALSE
    BY <1>1, <2>3 DEF OnMessage, Sock!OnMessage
  <2>4. ASSUME NEW k \in Closers, Stop(k) PROVE FALSE
    BY <1>1, <2>1, <2>4, Shapes DEF Stop, Sock!CloseAsync
  <2>5. ASSUME NEW r \in {"Subscribe", "Next", "Close"}, PeerReceives(r) PROVE FALSE
    BY <1>1, <2>5 DEF PeerReceives, Sock!PeerReceives
  <2>6. CASE Setup \/ Opened
    BY <1>1, <2>1, <2>6, Shapes DEF Setup, Sock!SetupWebSocket, Opened, Sock!OnOpen
  <2>7. CASE StartRead \/ ResumeNext \/ PeerSendsBlock \/ PeerCloses
    BY <1>1, <2>7 DEF StartRead, Sock!StartRead, ResumeNext, Sock!Send, PeerSendsBlock,
         Sock!PeerSends, PeerCloses, Sock!PeerCloses
  <2>8. CASE UNCHANGED sockVars
    BY <1>1, <2>8 DEF sockVars
  <2>9. QED
    BY <1>1, <2>2, <2>3, <2>4, <2>5, <2>6, <2>7, <2>8 DEF Next, vars, Call, ResumeEnd, Commit
<1>2. IInv /\ [Next]_vars => [ready[Stream]' = "closed" => gen' # "awaiting" \/ ready[Stream] = "closed"]_vars
  BY <1>1
<1>3. QED
  BY <1>2, BlocksInductive, PTL DEF Spec, CloseReleasesWaiter

\* The detailed stream implements the feed that `client.blocks()` promises:
\* consecutive heights from the one asked for, each committed when it is
\* yielded, then Done for ever.
THEOREM FeedImplemented == Spec => ImplementsFeed
<1>1. Init => Feed!Init
  BY DEF Init, Feed!Init
<1>2. IInv /\ [Next]_vars => [Feed!Next]_(Feed!feedVars)
  <2> SUFFICES ASSUME IInv, [Next]_vars PROVE [Feed!Next]_(Feed!feedVars)
    OBVIOUS
  <2> USE DEF Feed!Next, Feed!feedVars
  <2>1. CASE Commit
    BY <2>1 DEF Commit, Feed!Commit, genVars
  <2>2. CASE ResumeEnd
    BY <2>2 DEF ResumeEnd, Settle, peerVars, Feed!End, Feed!Done, Done
  <2>3. CASE CleanClose \/ ConnectionLost
    BY <2>3 DEF CleanClose, ConnectionLost, Halted, Settle, genVars, peerVars, Feed!End, Feed!Done, Done
  <2>4. ASSUME NEW m \in Heights, OnMessage(m) PROVE [Feed!Next]_(Feed!feedVars)
    <3>1. chain' = chain
      BY <2>4 DEF OnMessage, peerVars
    <3>2. CASE gen = "awaiting" /\ Settle(m) /\ m = FromHeight + Len(results) /\ m <= chain
      <4>1. ~Feed!Ended
        <5>1. gen # "returned"
          BY <3>2
        <5>2. QED
          BY <5>1 DEF IInv, TypeOK, Last, Feed!Ended, Feed!Done, Done
      <4>2. QED
        BY <3>1, <3>2, <4>1 DEF Settle, Feed!Deliver
    <3>3. CASE UNCHANGED genVars
      BY <3>1, <3>3 DEF genVars
    <3>4. QED
      BY <2>4, <3>2, <3>3, OnMessageDelivers
  <2>5. ASSUME NEW k \in Closers, Stop(k) PROVE [Feed!Next]_(Feed!feedVars)
    BY <2>5 DEF Stop, genVars, peerVars
  <2>6. ASSUME NEW kind \in {"next", "return"}, Call(kind) PROVE [Feed!Next]_(Feed!feedVars)
    BY <2>6 DEF Call, peerVars
  <2>7. ASSUME NEW r \in {"Subscribe", "Next", "Close"}, PeerReceives(r)
        PROVE  [Feed!Next]_(Feed!feedVars)
    BY <2>7 DEF PeerReceives, genVars
  <2>8. CASE Setup \/ Opened \/ StartRead \/ ResumeNext \/ PeerSendsBlock \/ PeerCloses \/ UNCHANGED vars
    BY <2>8 DEF Setup, Opened, StartRead, ResumeNext, PeerSendsBlock, PeerCloses, vars, genVars, peerVars
  <2>9. QED
    BY <2>1, <2>2, <2>3, <2>4, <2>5, <2>6, <2>7, <2>8 DEF Next
<1>3. QED
  BY <1>1, <1>2, BlocksInductive, PTL DEF Spec, ImplementsFeed, Feed!Spec
=============================================================================
