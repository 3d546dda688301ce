-------------------------- MODULE EventSocketProofs --------------------------
(***************************************************************************)
(* Proofs about EventSocket, for any number of connections, messages and   *)
(* callers of stop().                                                      *)
(***************************************************************************)
EXTENDS EventSocket, SequenceTheorems, TLAPS

Frames == Requests \cup {Hello, Bye}

\* Appending to one queue, or taking the head of one, leaves queues.
LEMMA QueueAppended ==
  ASSUME NEW S, NEW q \in [Conns -> Seq(S)], NEW c \in Conns, NEW e \in S
  PROVE  [q EXCEPT ![c] = Append(@, e)] \in [Conns -> Seq(S)]
  BY AppendProperties

LEMMA QueuePopped ==
  ASSUME NEW S, NEW q \in [Conns -> Seq(S)], NEW c \in Conns, q[c] # <<>>
  PROVE  /\ Head(q[c]) \in S
         /\ [q EXCEPT ![c] = Tail(@)] \in [Conns -> Seq(S)]
<1>1. q[c] \in Seq(S)
  OBVIOUS
<1>2. Head(q[c]) \in S /\ Tail(q[c]) \in Seq(S)
  BY <1>1, HeadTailProperties
<1>3. QED
  BY <1>2

\* TypeOK after every step.
LEMMA SocketTypeStep ==
  ASSUME TypeOK, [Next]_sockVars
  PROVE  TypeOK'
<1> USE DEF TypeOK, ReadyStates
<1>1. ASSUME NEW c \in Conns, SetupWebSocket(c) PROVE TypeOK'
  BY <1>1 DEF SetupWebSocket
<1>2. ASSUME NEW c \in Conns, OnOpen(c) PROVE TypeOK'
  <2>1. uplink' \in [Conns -> Seq(Frames)]
    BY <1>2, QueueAppended DEF OnOpen, Frames
  <2>2. QED
    BY <1>2, <2>1 DEF OnOpen, Frames
<1>3. ASSUME NEW c \in Conns, NEW r \in Requests, Send(c, r) PROVE TypeOK'
  <2>1. uplink' \in [Conns -> Seq(Frames)]
    BY <1>3, QueueAppended DEF Send, Frames
  <2>2. QED
    BY <1>3, <2>1 DEF Send, Frames
<1>4. ASSUME NEW c \in Conns, NEW k \in Closers, CloseAsync(c, k) PROVE TypeOK'
  <2>1. CASE ready[c] = "closed"
    <3>1. /\ UNCHANGED <<adapter, ready, handshake, uplink, downlink, reads, peerUp, sent, emitted>>
          /\ stopCall' = [stopCall EXCEPT ![c][k] = "resolved"]
      BY <1>4, <2>1 DEF CloseAsync
    <3>2. stopCall' \in [Conns -> [Closers -> {"idle", "waiting", "resolved"}]]
      BY <3>1
    <3>3. \A d \in Conns : \A j \in Closers :
            stopCall'[d][j] = "waiting" => ready[d] = "closing"
      BY <3>1
    <3>4. QED
      BY <3>1, <3>2, <3>3
  <2>2. CASE ready[c] # "closed"
    <3>1. uplink' \in [Conns -> Seq(Frames)]
      <4>1. /\ uplink \in [Conns -> Seq(Frames)]
            /\ Bye \in Frames
        BY DEF Frames
      <4>2. [uplink EXCEPT ![c] = Append(@, Bye)] \in [Conns -> Seq(Frames)]
        BY <4>1, QueueAppended
      <4>3. QED
        BY <1>4, <2>2, <4>1, <4>2 DEF CloseAsync
    <3>2. /\ ready' = [ready EXCEPT ![c] = "closing"]
          /\ stopCall' = [stopCall EXCEPT ![c][k] = "waiting"]
          /\ UNCHANGED <<adapter, handshake, downlink, reads, peerUp, sent, emitted>>
          /\ handshake[c] = "accepted"
      BY <1>4, <2>2 DEF CloseAsync
    <3>3. stopCall' \in [Conns -> [Closers -> {"idle", "waiting", "resolved"}]]
      BY <3>2
    <3>4. QED
      BY <3>1, <3>2, <3>3, <2>2 DEF Frames
  <2>3. QED
    BY <2>1, <2>2
<1>5. ASSUME NEW c \in Conns, StartRead(c) PROVE TypeOK'
  <2>1. Head(downlink[c]) \in Messages /\ downlink' \in [Conns -> Seq(Messages)]
    BY <1>5, QueuePopped DEF StartRead
  <2>2. QED
    BY <1>5, <2>1 DEF StartRead
<1>6. ASSUME NEW c \in Conns, NEW m \in Messages, OnMessage(c, m) PROVE TypeOK'
  <2>1. emitted' \in [Conns -> Seq(Messages)]
    BY <1>6, QueueAppended DEF OnMessage
  <2>2. downlink' \in [Conns -> Seq(Messages)] /\ reads' \in [Conns -> SUBSET Messages]
    <3>1. ASSUME downlink[c] # <<>>
          PROVE  [downlink EXCEPT ![c] = Tail(@)] \in [Conns -> Seq(Messages)]
      BY <3>1, QueuePopped
    <3>2. [reads EXCEPT ![c] = @ \ {m}] \in [Conns -> SUBSET Messages]
      OBVIOUS
    <3>3. QED
      BY <1>6, <3>1, <3>2 DEF OnMessage
  <2>3. \A d \in Conns : reads'[d] # {} => adapter = "native"
    BY <1>6 DEF OnMessage
  <2>4. UNCHANGED <<adapter, ready, handshake, stopCall, uplink, peerUp, sent>>
    BY <1>6 DEF OnMessage
  <2>5. QED
    BY <2>1, <2>2, <2>3, <2>4
<1>7. ASSUME NEW c \in Conns, OnClose(c), ready[c] \in {"connecting", "open", "closing"}
      PROVE TypeOK'
  BY <1>7 DEF OnClose
<1>8. ASSUME NEW c \in Conns, NEW r \in Frames, PeerReceives(c, r) PROVE TypeOK'
  <2>1. uplink' \in [Conns -> Seq(Frames)]
    BY <1>8, QueuePopped DEF PeerReceives, Frames
  <2>2. QED
    BY <1>8, <2>1 DEF PeerReceives, Frames
<1>9. ASSUME NEW c \in Conns, NEW m \in Messages, PeerSends(c, m) PROVE TypeOK'
  <2>1. sent' \in [Conns -> Seq(Messages)] /\ downlink' \in [Conns -> Seq(Messages)]
    BY <1>9, QueueAppended DEF PeerSends
  <2>2. QED
    BY <1>9, <2>1 DEF PeerSends
<1>10. ASSUME NEW c \in Conns, PeerCloses(c) PROVE TypeOK'
  BY <1>10 DEF PeerCloses
<1>11. CASE UNCHANGED sockVars
  BY <1>11 DEF sockVars
<1>12. QED
  BY <1>1, <1>2, <1>3, <1>4, <1>5, <1>6, <1>7, <1>8, <1>9, <1>10, <1>11
     DEF Next, CleanClose, ConnectionLost, Frames

\* The state of every connection has its type, and what the fields of one
\* connection say of each other holds: accepted() is pending exactly while the
\* socket connects, a stop() is pending only while it closes, a peer can send
\* only to a socket that opened and has not closed, and only the native adapter
\* reads Blobs.
THEOREM TypeCorrect == Spec => []TypeOK
<1>1. Init => TypeOK
  BY DEF Init, TypeOK, ReadyStates
<1>2. TypeOK /\ [Next]_sockVars => TypeOK'
  BY SocketTypeStep
<1>3. QED
  BY <1>1, <1>2, PTL DEF Spec

\* Concatenation, where the heads and tails of the queues meet.
LEMMA AppendMoves ==
  ASSUME NEW S, NEW done \in Seq(S), NEW todo \in Seq(S), todo # <<>>
  PROVE  Append(done, Head(todo)) \o Tail(todo) = done \o todo
<1> DEFINE l == Append(done, Head(todo)) \o Tail(todo)
<1>1. Head(todo) \in S /\ Tail(todo) \in Seq(S) /\ Len(Tail(todo)) = Len(todo) - 1
  BY HeadTailProperties
<1>2. \A i \in 1 .. Len(todo) - 1 : Tail(todo)[i] = todo[i + 1]
  BY HeadTailProperties
<1>3. l \in Seq(S) /\ done \o todo \in Seq(S) /\ Len(l) = Len(done \o todo)
  BY <1>1, AppendProperties, ConcatProperties
<1>4. \A i \in 1 .. Len(l) : l[i] = (done \o todo)[i]
  BY <1>1, <1>2, AppendProperties, ConcatProperties
<1>5. QED
  BY <1>3, <1>4, SeqEqual

LEMMA AppendStays ==
  ASSUME NEW S, NEW done \in Seq(S), NEW todo \in Seq(S), NEW e \in S
  PROVE  done \o Append(todo, e) = Append(done \o todo, e)
  BY AppendIsConcat, ConcatAssociative, ConcatProperties

\* The adapter for Node.js delivers every connection's messages in the order
\* the peer sent them, none lost, none repeated: what the peer has sent is
\* always what was emitted followed by what is on the wire.
THEOREM NodeDeliversInOrder == Spec => []InOrderDelivery
<1>1. Init => InOrderDelivery
  BY DEF Init, InOrderDelivery
<1>2. TypeOK /\ InOrderDelivery /\ [Next]_sockVars => InOrderDelivery'
  <2> SUFFICES ASSUME TypeOK, InOrderDelivery, [Next]_sockVars, adapter' = "node",
                      NEW d \in Conns
               PROVE  sent'[d] = emitted'[d] \o downlink'[d]
    BY DEF InOrderDelivery
  <2>1. adapter = "node"
    BY DEF Next, sockVars, SetupWebSocket, OnOpen, Send, CloseAsync, StartRead, OnMessage,
           CleanClose, ConnectionLost, OnClose, PeerReceives, PeerSends, PeerCloses
  <2>2. /\ sent[d] = emitted[d] \o downlink[d]
        /\ sent[d] \in Seq(Messages)
        /\ emitted[d] \in Seq(Messages)
        /\ downlink[d] \in Seq(Messages)
    BY <2>1 DEF InOrderDelivery, TypeOK
  <2>3. ASSUME NEW c \in Conns, NEW m \in Messages, OnMessage(c, m)
        PROVE  sent'[d] = emitted'[d] \o downlink'[d]
    <3>1. /\ downlink[c] # <<>>
          /\ m = Head(downlink[c])
          /\ downlink' = [downlink EXCEPT ![c] = Tail(@)]
          /\ emitted' = [emitted EXCEPT ![c] = Append(@, m)]
          /\ sent' = sent
      BY <2>1, <2>3 DEF OnMessage
    <3>2. CASE c = d
      <4>1. /\ sent'[d] = sent[d]
            /\ emitted'[d] = Append(emitted[d], Head(downlink[d]))
            /\ downlink'[d] = Tail(downlink[d])
            /\ downlink[d] # <<>>
        BY <3>1, <3>2 DEF TypeOK
      <4>2. Append(emitted[d], Head(downlink[d])) \o Tail(downlink[d])
              = emitted[d] \o downlink[d]
        BY <2>2, <4>1, AppendMoves
      <4>3. QED
        BY <2>2, <4>1, <4>2
    <3>3. CASE c # d
      BY <2>2, <3>1, <3>3 DEF TypeOK
    <3>4. QED
      BY <3>2, <3>3
  <2>4. ASSUME NEW c \in Conns, NEW m \in Messages, PeerSends(c, m)
        PROVE  sent'[d] = emitted'[d] \o downlink'[d]
    <3>1. /\ downlink' = [downlink EXCEPT ![c] = Append(@, m)]
          /\ sent' = [sent EXCEPT ![c] = Append(@, m)]
          /\ emitted' = emitted
      BY <2>4 DEF PeerSends
    <3>2. CASE c = d
      <4>1. /\ sent'[d] = Append(sent[d], m)
            /\ emitted'[d] = emitted[d]
            /\ downlink'[d] = Append(downlink[d], m)
        BY <3>1, <3>2 DEF TypeOK
      <4>2. emitted[d] \o Append(downlink[d], m) = Append(emitted[d] \o downlink[d], m)
        <5>1. emitted[d] \in Seq(Messages) /\ downlink[d] \in Seq(Messages)
          BY <2>2
        <5>2. \A done, todo \in Seq(Messages) :
                done \o Append(todo, m) = Append(done \o todo, m)
          BY AppendStays
        <5>3. QED
          BY <5>1, <5>2
      <4>3. QED
        BY <2>2, <4>1, <4>2
    <3>3. CASE c # d
      BY <2>2, <3>1, <3>3 DEF TypeOK
    <3>4. QED
      BY <3>2, <3>3
  <2>5. CASE UNCHANGED <<sent, emitted, downlink>>
    BY <2>2, <2>5
  <2>6. QED
    BY <2>1, <2>3, <2>4, <2>5
       DEF Next, sockVars, SetupWebSocket, OnOpen, Send, CloseAsync, StartRead,
           CleanClose, ConnectionLost, OnClose, PeerReceives, PeerCloses
<1>3. QED
  BY <1>1, <1>2, TypeCorrect, PTL DEF Spec

-----------------------------------------------------------------------------
\* What a queue holds, when something joins it, leaves it or queues are joined.
LEMMA RangeAppend ==
  ASSUME NEW S, NEW q \in Seq(S), NEW e \in S
  PROVE  /\ Range(Append(q, e)) = Range(q) \cup {e}
         /\ IsInjective(q) /\ e \notin Range(q) => IsInjective(Append(q, e))
<1> DEFINE a == Append(q, e)
<1>1. /\ a \in Seq(S) /\ Len(a) = Len(q) + 1 /\ Len(q) \in Nat
      /\ \A i \in 1 .. Len(q) : a[i] = q[i]
      /\ a[Len(q) + 1] = e
      /\ DOMAIN a = 1 .. Len(q) + 1 /\ DOMAIN q = 1 .. Len(q)
  BY AppendProperties
<1> HIDE DEF a
<1>2. Range(a) = Range(q) \cup {e}
  BY <1>1 DEF Range
<1>3. ASSUME IsInjective(q), e \notin Range(q) PROVE IsInjective(a)
  BY <1>1, <1>3 DEF Range, IsInjective
<1>4. QED
  BY <1>2, <1>3 DEF a

LEMMA RangeTail ==
  ASSUME NEW S, NEW q \in Seq(S), q # <<>>, IsInjective(q)
  PROVE  /\ IsInjective(Tail(q))
         /\ Head(q) \in Range(q)
         /\ Range(Tail(q)) = Range(q) \ {Head(q)}
<1> DEFINE t == Tail(q)
<1>1. /\ Len(q) \in Nat \ {0} /\ t \in Seq(S) /\ Len(t) = Len(q) - 1
      /\ \A i \in 1 .. Len(q) - 1 : t[i] = q[i + 1]
      /\ Head(q) = q[1]
      /\ DOMAIN t = 1 .. Len(q) - 1 /\ DOMAIN q = 1 .. Len(q)
  BY HeadTailProperties, EmptySeq
<1> HIDE DEF t
<1>2. Head(q) \in Range(q)
  BY <1>1 DEF Range
<1>3. \A i, j \in 1 .. Len(q) : q[i] = q[j] => i = j
  BY <1>1 DEF IsInjective
<1>4. IsInjective(t)
  <2>1. ASSUME NEW i \in DOMAIN t, NEW j \in DOMAIN t, t[i] = t[j] PROVE i = j
    <3>1. i + 1 \in 1 .. Len(q) /\ j + 1 \in 1 .. Len(q)
      BY <1>1
    <3>2. q[i + 1] = q[j + 1]
      BY <1>1, <2>1
    <3>3. i + 1 = j + 1
      BY <1>3, <3>1, <3>2
    <3>4. QED
      BY <1>1, <3>3
  <2>2. QED
    BY <2>1 DEF IsInjective
<1>5. ASSUME NEW x \in Range(t) PROVE x \in Range(q) /\ x # Head(q)
  <2>1. PICK i \in 1 .. Len(q) - 1 : x = q[i + 1]
    BY <1>1 DEF Range
  <2>2. i + 1 \in 1 .. Len(q) /\ i + 1 # 1
    BY <1>1
  <2>3. QED
    BY <1>1, <1>3, <2>1, <2>2 DEF Range
<1>6. ASSUME NEW x \in Range(q), x # Head(q) PROVE x \in Range(t)
  <2>1. PICK i \in 1 .. Len(q) : x = q[i]
    BY <1>1 DEF Range
  <2>2. i - 1 \in 1 .. Len(q) - 1 /\ (i - 1) + 1 = i
    BY <1>1, <1>6, <2>1
  <2>3. t[i - 1] = x
    BY <1>1, <2>1, <2>2
  <2>4. QED
    BY <1>1, <2>2, <2>3 DEF Range
<1>7. QED
  BY <1>2, <1>4, <1>5, <1>6 DEF t

LEMMA RangeConcat ==
  ASSUME NEW S, NEW p \in Seq(S), NEW q \in Seq(S)
  PROVE  /\ Range(p \o q) = Range(p) \cup Range(q)
         /\ IsInjective(p) /\ IsInjective(q) /\ Range(p) \cap Range(q) = {} => IsInjective(p \o q)
<1> DEFINE c == p \o q
<1>1. /\ c \in Seq(S) /\ Len(c) = Len(p) + Len(q) /\ Len(p) \in Nat /\ Len(q) \in Nat
      /\ DOMAIN c = 1 .. Len(p) + Len(q) /\ DOMAIN p = 1 .. Len(p) /\ DOMAIN q = 1 .. Len(q)
  BY ConcatProperties
<1>2. \A i \in 1 .. Len(p) + Len(q) :
        c[i] = IF i <= Len(p) THEN p[i] ELSE q[i - Len(p)]
  BY ConcatProperties
<1> HIDE DEF c
<1>3. ASSUME NEW x \in Range(c) PROVE x \in Range(p) \cup Range(q)
  <2>1. PICK i \in 1 .. Len(p) + Len(q) : x = c[i]
    BY <1>1 DEF Range
  <2>2. CASE i <= Len(p)
    BY <1>1, <1>2, <2>1, <2>2 DEF Range
  <2>3. CASE ~(i <= Len(p))
    <3>1. i - Len(p) \in 1 .. Len(q)
      BY <1>1, <2>3
    <3>2. QED
      BY <1>1, <1>2, <2>1, <2>3, <3>1 DEF Range
  <2>4. QED
    BY <2>2, <2>3
<1>4. ASSUME NEW x \in Range(p) PROVE x \in Range(c)
  BY <1>1, <1>2 DEF Range
<1>5. ASSUME NEW x \in Range(q) PROVE x \in Range(c)
  <2>1. PICK i \in 1 .. Len(q) : x = q[i]
    BY <1>1 DEF Range
  <2>2. i + Len(p) \in 1 .. Len(p) + Len(q) /\ ~(i + Len(p) <= Len(p)) /\ (i + Len(p)) - Len(p) = i
    BY <1>1
  <2>3. c[i + Len(p)] = x
    BY <1>2, <2>1, <2>2
  <2>4. QED
    BY <1>1, <2>2, <2>3 DEF Range
<1>6. ASSUME IsInjective(p), IsInjective(q), Range(p) \cap Range(q) = {},
             NEW i \in DOMAIN c, NEW j \in DOMAIN c, c[i] = c[j]
      PROVE  i = j
  <2>1. CASE i <= Len(p) /\ j <= Len(p)
    BY <1>1, <1>2, <1>6, <2>1 DEF IsInjective
  <2>2. CASE ~(i <= Len(p)) /\ ~(j <= Len(p))
    <3>1. i - Len(p) \in 1 .. Len(q) /\ j - Len(p) \in 1 .. Len(q)
      BY <1>1, <2>2
    <3>2. q[i - Len(p)] = q[j - Len(p)]
      BY <1>1, <1>2, <1>6, <2>2
    <3>3. i - Len(p) = j - Len(p)
      BY <1>1, <1>6, <3>1, <3>2 DEF IsInjective
    <3>4. QED
      BY <1>1, <3>3
  <2>3. \A k, l \in DOMAIN c : k <= Len(p) /\ ~(l <= Len(p)) => c[k] # c[l]
    <3> SUFFICES ASSUME NEW k \in DOMAIN c, NEW l \in DOMAIN c, k <= Len(p), ~(l <= Len(p))
                 PROVE  c[k] # c[l]
      OBVIOUS
    <3>1. c[k] \in Range(p)
      BY <1>1, <1>2 DEF Range
    <3>2. l - Len(p) \in 1 .. Len(q)
      BY <1>1
    <3>3. c[l] \in Range(q)
      BY <1>1, <1>2, <3>2 DEF Range
    <3>4. QED
      BY <1>6, <3>1, <3>3
  <2>4. QED
    BY <1>6, <2>1, <2>2, <2>3
<1>7. QED
  BY <1>3, <1>4, <1>5, <1>6 DEF c, IsInjective

\* NoMessageVanishes with the queues apart, and the whole life of the socket
\* before anybody closes it.
Held(c) == Range(emitted[c]) \cup Range(downlink[c]) \cup reads[c]

Accounted(c) ==
  /\ IsInjective(emitted[c]) /\ IsInjective(downlink[c])
  /\ Range(emitted[c]) \cap Range(downlink[c]) = {}
  /\ reads[c] \cap (Range(emitted[c]) \cup Range(downlink[c])) = {}
  /\ Held(c) \subseteq Range(sent[c])
  /\ ready[c] \notin {"closing", "closed"} => Held(c) = Range(sent[c])

\* The steps that move messages.
LEMMA AccountedStep ==
  ASSUME TypeOK, [Next]_sockVars, NEW d \in Conns, Accounted(d)
  PROVE  Accounted(d)'
<1>1. /\ sent[d] \in Seq(Messages) /\ emitted[d] \in Seq(Messages) /\ downlink[d] \in Seq(Messages)
      /\ reads[d] \subseteq Messages
  BY DEF TypeOK
<1>2. ASSUME NEW m \in Messages, PeerSends(d, m) PROVE Accounted(d)'
  <2>1. /\ sent'[d] = Append(sent[d], m) /\ downlink'[d] = Append(downlink[d], m)
        /\ emitted'[d] = emitted[d] /\ reads'[d] = reads[d] /\ ready'[d] = ready[d]
        /\ m \notin Range(sent[d])
    BY <1>2 DEF PeerSends, TypeOK
  <2>2. m \notin Held(d)
    BY <2>1 DEF Accounted
  <2>3. /\ Range(sent'[d]) = Range(sent[d]) \cup {m}
        /\ Range(downlink'[d]) = Range(downlink[d]) \cup {m}
        /\ IsInjective(downlink'[d])
    BY <1>1, <2>1, <2>2, RangeAppend DEF Accounted, Held
  <2>4. QED
    BY <2>1, <2>2, <2>3 DEF Accounted, Held
<1>3. ASSUME StartRead(d) PROVE Accounted(d)'
  <2> DEFINE h == Head(downlink[d])
  <2>1. /\ downlink[d] # <<>> /\ downlink'[d] = Tail(downlink[d])
        /\ reads'[d] = IF ready[d] = "open" THEN reads[d] \cup {h} ELSE reads[d]
        /\ ready[d] \in {"open", "closing"}
        /\ emitted'[d] = emitted[d] /\ sent'[d] = sent[d] /\ ready'[d] = ready[d]
    BY <1>3 DEF StartRead, TypeOK
  <2>2. IsInjective(downlink[d])
    BY DEF Accounted
  <2>3. /\ IsInjective(downlink'[d]) /\ h \in Range(downlink[d])
        /\ Range(downlink'[d]) = Range(downlink[d]) \ {h}
    BY <1>1, <2>1, <2>2, RangeTail
  <2> HIDE DEF h
  <2>4. QED
    BY <2>1, <2>3 DEF Accounted, Held
<1>4. ASSUME NEW m \in Messages, OnMessage(d, m) PROVE Accounted(d)'
  <2>1. /\ emitted'[d] = Append(emitted[d], m) /\ sent'[d] = sent[d] /\ ready'[d] = ready[d]
        /\ \/ /\ downlink[d] # <<>> /\ m = Head(downlink[d]) /\ downlink'[d] = Tail(downlink[d])
              /\ reads'[d] = reads[d]
           \/ m \in reads[d] /\ reads'[d] = reads[d] \ {m} /\ downlink'[d] = downlink[d]
    BY <1>4 DEF OnMessage, TypeOK
  <2>2. CASE /\ downlink[d] # <<>> /\ m = Head(downlink[d]) /\ downlink'[d] = Tail(downlink[d])
             /\ reads'[d] = reads[d]
    <3>1. IsInjective(downlink[d])
      BY DEF Accounted
    <3>2. /\ IsInjective(downlink'[d]) /\ m \in Range(downlink[d])
          /\ Range(downlink'[d]) = Range(downlink[d]) \ {m}
      BY <1>1, <2>2, <3>1, RangeTail
    <3>3. IsInjective(emitted'[d]) /\ Range(emitted'[d]) = Range(emitted[d]) \cup {m}
      BY <1>1, <2>1, <3>2, RangeAppend DEF Accounted
    <3>4. QED
      BY <2>1, <2>2, <3>2, <3>3 DEF Accounted, Held
  <2>3. CASE m \in reads[d] /\ reads'[d] = reads[d] \ {m} /\ downlink'[d] = downlink[d]
    <3>1. IsInjective(emitted'[d]) /\ Range(emitted'[d]) = Range(emitted[d]) \cup {m}
      BY <1>1, <2>1, <2>3, RangeAppend DEF Accounted
    <3>2. QED
      BY <2>1, <2>3, <3>1 DEF Accounted, Held
  <2>4. QED
    BY <2>1, <2>2, <2>3
<1>5. ASSUME UNCHANGED <<sent[d], emitted[d], downlink[d], reads[d]>>,
             ready'[d] \notin {"closing", "closed"} => ready[d] \notin {"closing", "closed"}
      PROVE  Accounted(d)'
  BY <1>5 DEF Accounted, Held
<1>6. ASSUME NEW c \in Conns, SetupWebSocket(c) \/ OnOpen(c) PROVE Accounted(d)'
  <2>1. /\ UNCHANGED <<sent, emitted, downlink, reads>> /\ ready[c] \in {"none", "connecting"}
        /\ \E r \in {"connecting", "open"} : ready' = [ready EXCEPT ![c] = r]
    BY <1>6 DEF SetupWebSocket, OnOpen
  <2>2. ready[d] \in {"closing", "closed"} => ready'[d] = ready[d]
    BY <2>1 DEF TypeOK
  <2>3. QED
    BY <1>5, <2>1, <2>2
<1>7. ASSUME NEW c \in Conns, OnClose(c) PROVE Accounted(d)'
  <2>1. UNCHANGED <<sent, emitted, downlink, reads>> /\ ready' = [ready EXCEPT ![c] = "closed"]
    BY <1>7 DEF OnClose
  <2>2. ready'[d] = "closed" \/ ready'[d] = ready[d]
    BY <2>1 DEF TypeOK
  <2>3. QED
    BY <1>5, <2>1, <2>2
<1>8. ASSUME NEW c \in Conns, NEW k \in Closers, CloseAsync(c, k) PROVE Accounted(d)'
  <2>1. UNCHANGED <<sent, emitted, downlink, reads>>
    BY <1>8 DEF CloseAsync
  <2>2. ready'[d] = "closing" \/ ready'[d] = ready[d]
    BY <1>8 DEF CloseAsync, TypeOK
  <2>3. QED
    BY <1>5, <2>1, <2>2
<1>9. ASSUME NEW c \in Conns, c # d,
             StartRead(c) \/ (\E m \in Messages : OnMessage(c, m) \/ PeerSends(c, m))
      PROVE  Accounted(d)'
  <2>1. UNCHANGED <<sent[d], emitted[d], downlink[d], reads[d], ready[d]>>
    BY <1>9 DEF StartRead, OnMessage, PeerSends, TypeOK
  <2>2. QED
    BY <1>5, <2>1
<1>10. ASSUME UNCHANGED <<sent, emitted, downlink, reads, ready>> PROVE Accounted(d)'
  BY <1>5, <1>10
<1>11. QED
  BY <1>2, <1>3, <1>4, <1>6, <1>7, <1>8, <1>9, <1>10
     DEF Next, sockVars, Send, CleanClose, ConnectionLost, PeerReceives, PeerCloses

\* With either adapter and any number of connections no message is emitted
\* twice or while its Blob is still being read, and while a socket is open every
\* message the peer has sent is on the wire, being read, or emitted.
THEOREM NothingVanishes == Spec => []NoMessageVanishes
<1> DEFINE I == TypeOK /\ \A c \in Conns : Accounted(c)
<1>1. Init => I
  <2> SUFFICES ASSUME Init PROVE \A c \in Conns : Accounted(c)
    BY DEF Init, TypeOK, ReadyStates
  <2>1. Range(<<>>) = {} /\ IsInjective(<<>>)
    BY DEF Range, IsInjective
  <2>2. QED
    BY <2>1 DEF Init, Accounted, Held
<1>2. I /\ [Next]_sockVars => I'
  BY SocketTypeStep, AccountedStep
<1>3. I => NoMessageVanishes
  <2> SUFFICES ASSUME I, NEW c \in Conns
               PROVE  /\ IsInjective(emitted[c] \o downlink[c])
                      /\ reads[c] \cap Range(emitted[c] \o downlink[c]) = {}
                      /\ ready[c] = "open" =>
                           Range(sent[c]) = Range(emitted[c] \o downlink[c]) \cup reads[c]
    BY DEF NoMessageVanishes
  <2>1. emitted[c] \in Seq(Messages) /\ downlink[c] \in Seq(Messages)
    BY DEF TypeOK
  <2>2. Accounted(c)
    OBVIOUS
  <2>3. /\ Range(emitted[c] \o downlink[c]) = Range(emitted[c]) \cup Range(downlink[c])
        /\ IsInjective(emitted[c] \o downlink[c])
    BY <2>1, <2>2, RangeConcat DEF Accounted
  <2>4. QED
    BY <2>2, <2>3 DEF Accounted, Held
<1>4. QED
  BY <1>1, <1>2, <1>3, PTL DEF Spec
=============================================================================
