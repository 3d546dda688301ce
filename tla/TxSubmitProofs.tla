---------------------------- MODULE TxSubmitProofs ----------------------------
(***************************************************************************)
(* Proofs about TxSubmit, for any number of calls of submit(), verifying   *)
(* or not: types, and that what submit reports is what the peer decided.   *)
(***************************************************************************)
EXTENDS TxSubmit, SequenceTheorems, TLAPS

\* The socket's own theorems, for the streams the calls open.
SockP == INSTANCE EventSocketProofs WITH
           Conns <- Calls, Closers <- {"submit"}, Messages <- Statuses,
           Hello <- "Subscribe", Requests <- {}, Bye <- "Close", MaxUplink <- 0

\* Where a call is, its POST and its confirmation go together.
Paced(c) ==
  /\ post[c] \in {"sent", "accepted", "refused"} => pc[c] \in {"plain", "posting"}
  /\ handshake[c] = "waiting" => pc[c] = "subscribing"
  /\ pc[c] \in {"posting", "confirming"} => confirmation[c] # "none"
  /\ pc[c] = "stopping" => post[c] = "failed" \/ confirmation[c] \notin {"none", "pending"}
  /\ handshake[c] = "accepted" => confirmation[c] # "none"

\* A final status, wherever it is on its way to the caller, is the peer's.
True(status) == status \in Terminal => status = fate

Truthful(c) ==
  /\ \A i \in DOMAIN backlog[c] : True(backlog[c][i])
  /\ \A i \in DOMAIN downlink[c] : True(downlink[c][i])
  /\ \A status \in reads[c] : True(status)
  /\ True(confirmation[c]) /\ True(outcome[c])

\* The outcome repeats the confirmation; only a rejected one goes unhandled.
Settled(c) ==
  /\ outcome[c] \in {"Approved", "Closed"} => confirmation[c] = outcome[c]
  /\ unhandled[c] => confirmation[c] \notin {"none", "pending", "Approved"}

\* The first verdict on the stream of the adapter for Node.js settles the
\* confirmation, and 'close' comes after all of them.
Heard(c) ==
  /\ confirmation[c] = "Closed" => ready[c] = "closed"
  /\ adapter = "node" /\ confirmation[c] \in {"none", "pending", "Closed"} =>
       \A i \in DOMAIN emitted[c] : emitted[c][i] \notin Terminal

Sound(c) == Paced(c) /\ Truthful(c) /\ Settled(c) /\ Heard(c)

IInv == TypeOK /\ \A c \in Calls : Sound(c)
-----------------------------------------------------------------------------
\* Every step is one of the socket's, or leaves it alone: TxSubmit implements
\* EventSocket, and what is proved of the socket holds here.
LEMMA SocketStep ==
  ASSUME TypeOK, [Next]_vars
  PROVE  [SockP!Next]_SockP!sockVars
<1> USE DEF SockP!Next
<1>1. ASSUME NEW c \in Calls, Client(c) PROVE SockP!Next \/ UNCHANGED sockVars
  <2>1. CASE SubmitPlain(c) \/ Abort(c) \/ PostOk(c) \/ PostFails(c)
    BY <2>1 DEF SubmitPlain, Abort, PostOk, PostFails
  <2>2. CASE SubmitVerify(c)
    BY <2>2 DEF SubmitVerify, Sock!SetupWebSocket, SockP!SetupWebSocket
  <2>3. CASE Opened(c)
    BY <2>3 DEF Opened, Sock!OnOpen, SockP!OnOpen
  <2>4. ASSUME NEW status \in Statuses, OnEvent(c, status) PROVE SockP!Next
    BY <2>4 DEF OnEvent, Sock!OnMessage, SockP!OnMessage
  <2>5. CASE StartRead(c)
    BY <2>5 DEF StartRead, Sock!StartRead, SockP!StartRead
  <2>6. CASE CleanClose(c)
    BY <2>6 DEF CleanClose, Sock!CleanClose, SockP!CleanClose, Sock!OnClose, SockP!OnClose
  <2>7. CASE ConnectionLost(c)
    BY <2>7 DEF ConnectionLost, Sock!ConnectionLost, SockP!ConnectionLost, Sock!OnClose, SockP!OnClose
  <2>8. CASE Finish(c)
    <3>1. SockP!CloseAsync(c, "submit")
      BY <2>8 DEF Finish, Sock!CloseAsync, SockP!CloseAsync
    <3>2. QED
      BY <3>1
  <2>9. QED
    BY <1>1, <2>1, <2>2, <2>3, <2>4, <2>5, <2>6, <2>7, <2>8 DEF Client
<1>2. ASSUME NEW c \in Calls, Peer(c) PROVE SockP!Next \/ UNCHANGED sockVars
  <2>1. CASE PeerSubscribes(c)
    <3>1. SockP!PeerReceives(c, "Subscribe") \/ SockP!PeerReceives(c, "Close")
      BY <2>1 DEF PeerSubscribes, Sock!PeerReceives, SockP!PeerReceives
    <3>2. QED
      BY <3>1
  <2>2. CASE PeerSendsEvent(c)
    <3>1. Head(backlog[c]) \in Statuses
      BY <2>2, HeadTailProperties DEF PeerSendsEvent, TypeOK
    <3>2. SockP!PeerSends(c, Head(backlog[c]))
      BY <2>2 DEF PeerSendsEvent, Sock!PeerSends, SockP!PeerSends, Sock!Range, SockP!Range
    <3>3. QED
      BY <3>1, <3>2
  <2>3. CASE PeerCloses(c)
    BY <2>3 DEF PeerCloses, Sock!PeerCloses, SockP!PeerCloses
  <2>4. CASE PeerQueues(c) \/ PeerRefuses(c)
    BY <2>4 DEF PeerQueues, PeerRefuses
  <2>5. QED
    BY <1>2, <2>1, <2>2, <2>3, <2>4 DEF Peer
<1>3. ASSUME NEW status \in Terminal, PeerDecides(status) PROVE UNCHANGED sockVars
  BY <1>3 DEF PeerDecides
<1>4. QED
  BY <1>1, <1>2, <1>3 DEF Next, vars, sockVars, SockP!sockVars

LEMMA SocketTypesStep ==
  ASSUME TypeOK, [Next]_vars
  PROVE  Sock!TypeOK'
<1>1. SockP!TypeOK
  BY DEF TypeOK, Sock!TypeOK, SockP!TypeOK, Sock!ReadyStates, SockP!ReadyStates
<1>2. SockP!TypeOK'
  BY <1>1, SocketStep, SockP!SocketTypeStep
<1>3. QED
  BY <1>2 DEF Sock!TypeOK, SockP!TypeOK, Sock!ReadyStates, SockP!ReadyStates

-----------------------------------------------------------------------------
\* What one step leaves alone.
Shape ==
  /\ DOMAIN pc = Calls /\ DOMAIN post = Calls /\ DOMAIN confirmation = Calls
  /\ DOMAIN outcome = Calls /\ DOMAIN aborted = Calls /\ DOMAIN unhandled = Calls
  /\ DOMAIN backlog = Calls /\ DOMAIN ready = Calls /\ DOMAIN handshake = Calls
  /\ DOMAIN uplink = Calls /\ DOMAIN downlink = Calls /\ DOMAIN reads = Calls
  /\ DOMAIN emitted = Calls

LEMMA Shapes == TypeOK => Shape
  BY DEF TypeOK, Sock!TypeOK, Shape

SocketAlone(c) ==
  /\ ready'[c] = ready[c] /\ handshake'[c] = handshake[c] /\ downlink'[c] = downlink[c]
  /\ reads'[c] = reads[c] /\ emitted'[c] = emitted[c] /\ adapter' = adapter

CallAlone(c) ==
  /\ pc'[c] = pc[c] /\ post'[c] = post[c] /\ confirmation'[c] = confirmation[c]
  /\ outcome'[c] = outcome[c] /\ unhandled'[c] = unhandled[c]

PeerAlone(c) == backlog'[c] = backlog[c] /\ fate' = fate

LEMMA AloneKeeps ==
  ASSUME NEW c \in Calls, Sound(c), SocketAlone(c), CallAlone(c), PeerAlone(c)
  PROVE  Sound(c)'
<1> USE DEF SocketAlone, CallAlone, PeerAlone
<1>1. Paced(c)'
  BY DEF Sound, Paced
<1>2. Truthful(c)'
  BY DEF Sound, Truthful, True
<1>3. Settled(c)'
  BY DEF Sound, Settled
<1>4. Heard(c)'
  BY DEF Sound, Heard
<1>5. QED
  BY <1>1, <1>2, <1>3, <1>4 DEF Sound

\* A step of one call, or of the peer for its stream, leaves the others alone.
LEMMA OthersAlone ==
  ASSUME TypeOK, NEW c \in Calls, Client(c) \/ PeerSubscribes(c) \/ PeerSendsEvent(c) \/ PeerCloses(c),
         NEW d \in Calls, d # c
  PROVE  SocketAlone(d) /\ CallAlone(d) /\ PeerAlone(d)
<1> USE Shapes DEF Shape, SocketAlone, CallAlone, PeerAlone
<1>1. CASE SubmitPlain(c) \/ PostOk(c) \/ PostFails(c)
  BY <1>1 DEF SubmitPlain, PostOk, PostFails, sockVars, peerVars
<1>2. CASE Abort(c)
  BY <1>2 DEF Abort, Confirm, sockVars, peerVars
<1>3. CASE SubmitVerify(c)
  BY <1>3 DEF SubmitVerify, Sock!SetupWebSocket, peerVars
<1>4. CASE Opened(c)
  BY <1>4 DEF Opened, Sock!OnOpen, peerVars
<1>5. ASSUME NEW status \in Statuses, OnEvent(c, status)
      PROVE  SocketAlone(d) /\ CallAlone(d) /\ PeerAlone(d)
  BY <1>5 DEF OnEvent, Sock!OnMessage, Confirm, peerVars
<1>6. CASE StartRead(c)
  BY <1>6 DEF StartRead, Sock!StartRead, callVars, peerVars
<1>7. CASE CleanClose(c) \/ ConnectionLost(c)
  BY <1>7 DEF CleanClose, Sock!CleanClose, ConnectionLost, Sock!ConnectionLost, Sock!OnClose,
       Disconnected, Confirm, peerVars
<1>8. CASE Finish(c)
  BY <1>8 DEF Finish, Sock!CloseAsync, peerVars
<1>9. CASE PeerSubscribes(c)
  BY <1>9 DEF PeerSubscribes, Sock!PeerReceives, callVars
<1>10. CASE PeerSendsEvent(c)
  BY <1>10 DEF PeerSendsEvent, Sock!PeerSends, callVars
<1>11. CASE PeerCloses(c)
  BY <1>11 DEF PeerCloses, Sock!PeerCloses, callVars, peerVars
<1>12. QED
  BY <1>1, <1>2, <1>3, <1>4, <1>5, <1>6, <1>7, <1>8, <1>9, <1>10, <1>11 DEF Client

-----------------------------------------------------------------------------
\* What a step does to its own call.
LEMMA ConfirmDoes ==
  ASSUME TypeOK, NEW c \in Calls, NEW v \in Terminal \cup {"Closed", "Aborted"}, Confirm(c, v)
  PROVE  \/ /\ confirmation[c] # "pending"
            /\ confirmation'[c] = confirmation[c] /\ pc'[c] = pc[c] /\ unhandled'[c] = unhandled[c]
         \/ /\ confirmation[c] = "pending" /\ confirmation'[c] = v
            /\ pc'[c] = (IF pc[c] = "confirming" THEN "stopping" ELSE pc[c])
            /\ unhandled'[c] => unhandled[c] \/ v # "Approved"
  BY Shapes DEF Confirm, Shape

\* A verdict that settles the confirmation, with all else of the call alone.
LEMMA ConfirmKeeps ==
  ASSUME TypeOK, NEW c \in Calls, NEW v \in Terminal \cup {"Closed", "Aborted"}, Confirm(c, v),
         Sound(c), True(v), fate' = fate,
         post'[c] = post[c], outcome'[c] = outcome[c], handshake'[c] = handshake[c]
  PROVE  /\ Paced(c)' /\ Settled(c)'
         /\ True(confirmation[c])' /\ True(outcome[c])'
<1>1. CASE /\ confirmation[c] # "pending"
           /\ confirmation'[c] = confirmation[c] /\ pc'[c] = pc[c] /\ unhandled'[c] = unhandled[c]
  BY <1>1 DEF Sound, Paced, Settled, Truthful, True
<1>2. CASE /\ confirmation[c] = "pending" /\ confirmation'[c] = v
           /\ pc'[c] = (IF pc[c] = "confirming" THEN "stopping" ELSE pc[c])
           /\ unhandled'[c] => unhandled[c] \/ v # "Approved"
  <2>1. v \notin {"none", "pending"}
    BY DEF Terminal
  <2>2. Paced(c)'
    BY <1>2, <2>1 DEF Sound, Paced
  <2>3. Settled(c)'
    BY <1>2, <2>1 DEF Sound, Settled
  <2>4. True(confirmation[c])' /\ True(outcome[c])'
    BY <1>2 DEF Sound, Truthful, True
  <2>5. QED
    BY <2>2, <2>3, <2>4
<1>3. QED
  BY <1>1, <1>2, ConfirmDoes

LEMMA SubmitKeeps ==
  ASSUME IInv, NEW c \in Calls, SubmitPlain(c) \/ SubmitVerify(c)
  PROVE  Sound(c)'
<1>1. Sound(c) /\ TypeOK /\ Shape
  BY Shapes DEF IInv
<1>2. /\ pc[c] = "idle" /\ fate' = fate /\ backlog' = backlog
      /\ UNCHANGED <<adapter, downlink, reads, emitted, confirmation, outcome, unhandled>>
  BY DEF SubmitPlain, SubmitVerify, Sock!SetupWebSocket, sockVars, peerVars
<1>3. Truthful(c)' /\ Settled(c)'
  BY <1>1, <1>2 DEF Sound, Truthful, True, Settled
<1>4. CASE SubmitPlain(c)
  <2>1. pc'[c] = "plain" /\ post'[c] = "sent" /\ UNCHANGED <<ready, handshake>>
    BY <1>1, <1>4 DEF SubmitPlain, Shape, sockVars
  <2>2. Paced(c)' /\ Heard(c)'
    BY <1>1, <1>2, <2>1 DEF Sound, Paced, Heard
  <2>3. QED
    BY <1>3, <2>2 DEF Sound
<1>5. CASE SubmitVerify(c)
  <2>1. /\ pc'[c] = "subscribing" /\ post' = post /\ handshake'[c] = "waiting"
        /\ handshake[c] = "none" /\ ready'[c] = "connecting" /\ ready[c] = "none"
    BY <1>1, <1>5 DEF SubmitVerify, Sock!SetupWebSocket, Shape, TypeOK, Sock!TypeOK
  <2>2. Paced(c)' /\ Heard(c)'
    BY <1>1, <1>2, <2>1 DEF Sound, Paced, Heard
  <2>3. QED
    BY <1>3, <2>2 DEF Sound
<1>6. QED
  BY <1>4, <1>5

LEMMA OpenedKeeps ==
  ASSUME IInv, NEW c \in Calls, Opened(c)
  PROVE  Sound(c)' /\ pc[c] = "subscribing"
<1>1. Sound(c) /\ TypeOK /\ Shape
  BY Shapes DEF IInv
<1>2. /\ ready[c] = "connecting" /\ handshake'[c] = "accepted" /\ ready'[c] = "open"
      /\ pc'[c] = "posting" /\ post'[c] = "sent" /\ confirmation'[c] = "pending"
      /\ UNCHANGED <<adapter, downlink, reads, emitted, outcome, unhandled, fate, backlog>>
  BY <1>1 DEF Opened, Sock!OnOpen, Shape, peerVars
<1>3. handshake[c] = "waiting" /\ confirmation[c] = "none"
  BY <1>1, <1>2 DEF TypeOK, Sock!TypeOK
<1>4. pc[c] = "subscribing"
  BY <1>1, <1>3 DEF Sound, Paced
<1>5. Paced(c)' /\ Settled(c)' /\ Heard(c)'
  BY <1>1, <1>2, <1>3 DEF Sound, Paced, Settled, Heard
<1>6. Truthful(c)'
  BY <1>1, <1>2 DEF Sound, Truthful, True, Terminal
<1>7. QED
  BY <1>4, <1>5, <1>6 DEF Sound

LEMMA OnEventKeeps ==
  ASSUME IInv, NEW c \in Calls, NEW status \in Statuses, OnEvent(c, status)
  PROVE  Sound(c)'
<1>1. Sound(c) /\ TypeOK /\ Shape
  BY Shapes DEF IInv
<1>2. /\ post' = post /\ outcome' = outcome /\ fate' = fate /\ backlog' = backlog
      /\ UNCHANGED <<adapter, ready, handshake>>
      /\ emitted'[c] = Append(emitted[c], status)
      /\ adapter = "node" => ready[c] \in {"open", "closing"}
  BY <1>1 DEF OnEvent, Sock!OnMessage, Shape, peerVars
<1>3. True(status) /\ (\A i \in DOMAIN downlink'[c] : True(downlink'[c][i])) /\ (\A x \in reads'[c] : True(x))
  <2>1. CASE /\ downlink[c] # <<>> /\ status = Head(downlink[c])
             /\ downlink' = [downlink EXCEPT ![c] = Tail(@)] /\ UNCHANGED reads
    <3>1. downlink[c] \in Seq(Statuses)
      BY <1>1 DEF TypeOK, Sock!TypeOK
    <3>2. /\ Len(downlink[c]) \in Nat \ {0} /\ DOMAIN downlink[c] = 1 .. Len(downlink[c])
          /\ downlink'[c] = Tail(downlink[c]) /\ status = downlink[c][1]
          /\ DOMAIN Tail(downlink[c]) = 1 .. Len(downlink[c]) - 1
          /\ \A i \in 1 .. Len(downlink[c]) - 1 : Tail(downlink[c])[i] = downlink[c][i + 1]
      BY <1>1, <2>1, <3>1, HeadTailProperties, EmptySeq DEF Shape
    <3>3. /\ 1 \in DOMAIN downlink[c]
          /\ \A i \in DOMAIN downlink'[c] : i + 1 \in DOMAIN downlink[c] /\ downlink'[c][i] = downlink[c][i + 1]
      BY ONLY <3>2
    <3>4. QED
      BY <1>1, <2>1, <3>2, <3>3 DEF Sound, Truthful
  <2>2. CASE /\ status \in reads[c] /\ reads' = [reads EXCEPT ![c] = @ \ {status}]
             /\ UNCHANGED downlink
    <3>1. reads'[c] = reads[c] \ {status}
      BY <1>1, <2>2 DEF Shape
    <3>2. QED
      BY <1>1, <2>2, <3>1 DEF Sound, Truthful
  <2>3. QED
    BY <2>1, <2>2 DEF OnEvent, Sock!OnMessage
<1>4. \/ status \in Terminal /\ Confirm(c, status)
      \/ status \notin Terminal /\ UNCHANGED <<pc, confirmation, unhandled>>
  BY DEF OnEvent
<1>5. Paced(c)' /\ Settled(c)' /\ True(confirmation[c])' /\ True(outcome[c])'
  <2>1. CASE status \in Terminal /\ Confirm(c, status)
    BY <1>1, <1>2, <1>3, <2>1, ConfirmKeeps
  <2>2. CASE UNCHANGED <<pc, confirmation, unhandled>>
    BY <1>1, <1>2, <2>2 DEF Sound, Paced, Settled, Truthful, True
  <2>3. QED
    BY <1>4, <2>1, <2>2
<1>6. Truthful(c)'
  BY <1>1, <1>2, <1>3, <1>5 DEF Sound, Truthful, True
\* The first verdict of the stream finds the confirmation pending.
<1>7. Heard(c)'
  <2>1. /\ emitted[c] \in Seq(Statuses) /\ Len(emitted[c]) \in Nat
        /\ DOMAIN emitted[c] = 1 .. Len(emitted[c]) /\ DOMAIN emitted'[c] = 1 .. Len(emitted[c]) + 1
        /\ \A i \in 1 .. Len(emitted[c]) : emitted'[c][i] = emitted[c][i]
        /\ emitted'[c][Len(emitted[c]) + 1] = status
    BY <1>1, <1>2, AppendProperties DEF TypeOK, Sock!TypeOK
  <2>2. confirmation'[c] \in {"none", "pending", "Closed"} =>
          confirmation[c] = confirmation'[c] /\ (status \in Terminal => confirmation[c] # "pending")
    BY <1>1, <1>4, ConfirmDoes DEF Terminal
  <2>3. confirmation'[c] = "Closed" => ready'[c] = "closed"
    BY <1>1, <1>2, <2>2 DEF Sound, Heard
  <2>4. ASSUME adapter' = "node", confirmation'[c] \in {"none", "pending", "Closed"}
        PROVE  \A i \in DOMAIN emitted'[c] : emitted'[c][i] \notin Terminal
    <3>1. handshake[c] = "accepted" /\ ready[c] # "closed" /\ confirmation[c] = confirmation'[c]
          /\ (status \in Terminal => confirmation[c] # "pending")
      BY <1>1, <1>2, <2>2, <2>4 DEF TypeOK, Sock!TypeOK, Sock!ReadyStates
    <3>2. confirmation[c] = "pending"
      BY <1>1, <2>4, <3>1 DEF Sound, Paced, Heard
    <3>3. status \notin Terminal
      BY <3>1, <3>2
    <3>4. \A i \in 1 .. Len(emitted[c]) : emitted[c][i] \notin Terminal
      BY <1>1, <1>2, <2>1, <2>4, <3>2 DEF Sound, Heard
    <3>5. ASSUME NEW i \in DOMAIN emitted'[c] PROVE emitted'[c][i] \notin Terminal
      <4>1. i \in 1 .. Len(emitted[c]) \/ i = Len(emitted[c]) + 1
        BY ONLY <2>1, <3>5
      <4>2. QED
        BY <2>1, <3>3, <3>4, <4>1
    <3>6. QED
      BY <3>5
  <2>5. QED
    BY <2>3, <2>4 DEF Heard
<1>8. QED
  BY <1>5, <1>6, <1>7 DEF Sound

LEMMA StartReadKeeps ==
  ASSUME IInv, NEW c \in Calls, StartRead(c)
  PROVE  Sound(c)'
<1>1. Sound(c) /\ TypeOK /\ Shape
  BY Shapes DEF IInv
<1>2. /\ downlink[c] # <<>> /\ downlink'[c] = Tail(downlink[c])
      /\ reads'[c] \subseteq reads[c] \cup {Head(downlink[c])}
      /\ UNCHANGED <<adapter, ready, handshake, emitted, pc, post, confirmation, outcome, unhandled, fate, backlog>>
  BY <1>1 DEF StartRead, Sock!StartRead, Shape, callVars, peerVars
<1>3. downlink[c] \in Seq(Statuses)
  BY <1>1 DEF TypeOK, Sock!TypeOK
<1>4. /\ Len(downlink[c]) \in Nat \ {0} /\ DOMAIN downlink[c] = 1 .. Len(downlink[c])
      /\ Head(downlink[c]) = downlink[c][1]
      /\ DOMAIN Tail(downlink[c]) = 1 .. Len(downlink[c]) - 1
      /\ \A i \in 1 .. Len(downlink[c]) - 1 : Tail(downlink[c])[i] = downlink[c][i + 1]
  BY <1>2, <1>3, HeadTailProperties, EmptySeq
<1>5. /\ 1 \in DOMAIN downlink[c]
      /\ \A i \in DOMAIN Tail(downlink[c]) :
           i + 1 \in DOMAIN downlink[c] /\ Tail(downlink[c])[i] = downlink[c][i + 1]
  BY ONLY <1>4
<1>6. /\ \A i \in DOMAIN downlink'[c] : True(downlink'[c][i])
      /\ \A x \in reads'[c] : True(x)
  BY <1>1, <1>2, <1>4, <1>5 DEF Sound, Truthful
<1>7. Truthful(c)'
  BY <1>1, <1>2, <1>6 DEF Sound, Truthful, True
<1>8. Paced(c)' /\ Settled(c)' /\ Heard(c)'
  BY <1>1, <1>2 DEF Sound, Paced, Settled, Heard
<1>9. QED
  BY <1>7, <1>8 DEF Sound

LEMMA ClosedKeeps ==
  ASSUME IInv, NEW c \in Calls, CleanClose(c) \/ ConnectionLost(c)
  PROVE  Sound(c)'
<1>1. Sound(c) /\ TypeOK /\ Shape
  BY Shapes DEF IInv
<1>2. /\ ready[c] \in {"connecting", "open", "closing"} /\ ready'[c] = "closed"
      /\ handshake'[c] = (IF handshake[c] = "waiting" THEN "rejected" ELSE handshake[c])
      /\ UNCHANGED <<adapter, downlink, reads, emitted, post, fate, backlog>>
      /\ Disconnected(c)
  BY <1>1 DEF CleanClose, ConnectionLost, Sock!CleanClose, Sock!ConnectionLost, Sock!OnClose,
       Disconnected, Shape, peerVars
\* Before the handshake: events() rejects.
<1>3. CASE pc[c] = "subscribing"
  <2>1. /\ pc'[c] = "settled" /\ outcome'[c] = "HandshakeError"
        /\ UNCHANGED <<confirmation, unhandled>>
    BY <1>1, <1>2, <1>3 DEF Disconnected, Shape
  <2>2. Paced(c)' /\ Settled(c)' /\ Heard(c)'
    BY <1>1, <1>2, <1>3, <2>1 DEF Sound, Paced, Settled, Heard
  <2>3. Truthful(c)'
    BY <1>1, <1>2, <2>1 DEF Sound, Truthful, True, Terminal
  <2>4. QED
    BY <2>2, <2>3 DEF Sound
\* Afterwards: the confirmation is rejected, if it still pends.
<1>4. CASE pc[c] # "subscribing"
  <2>1. Confirm(c, "Closed") /\ outcome' = outcome /\ handshake'[c] = handshake[c]
    BY <1>1, <1>2, <1>4 DEF Disconnected, Sound, Paced
  <2>2. True("Closed")
    BY DEF True, Terminal
  <2>3. Paced(c)' /\ Settled(c)' /\ True(confirmation[c])' /\ True(outcome[c])'
    BY <1>1, <1>2, <2>1, <2>2, ConfirmKeeps
  <2>4. Truthful(c)'
    BY <1>1, <1>2, <2>3 DEF Sound, Truthful, True
  <2>5. confirmation'[c] \in {"none", "pending", "Closed"} => confirmation[c] \in {"none", "pending", "Closed"}
    BY <1>1, <2>1, ConfirmDoes
  <2>6. Heard(c)'
    BY <1>1, <1>2, <2>5 DEF Sound, Heard
  <2>7. QED
    BY <2>3, <2>4, <2>6 DEF Sound
<1>5. QED
  BY <1>3, <1>4

LEMMA AbortKeeps ==
  ASSUME IInv, NEW c \in Calls, Abort(c)
  PROVE  Sound(c)'
<1>1. Sound(c) /\ TypeOK
  BY DEF IInv
<1>2. /\ Confirm(c, "Aborted")
      /\ UNCHANGED <<adapter, ready, handshake, downlink, reads, emitted, post, outcome, fate, backlog>>
  BY DEF Abort, sockVars, peerVars
<1>3. True("Aborted")
  BY DEF True, Terminal
<1>4. Paced(c)' /\ Settled(c)' /\ True(confirmation[c])' /\ True(outcome[c])'
  BY <1>1, <1>2, <1>3, ConfirmKeeps
<1>5. Truthful(c)'
  BY <1>1, <1>2, <1>4 DEF Sound, Truthful, True
<1>6. confirmation'[c] \in {"none", "pending", "Closed"} => confirmation[c] = confirmation'[c]
  BY <1>1, <1>2, ConfirmDoes
<1>7. Heard(c)'
  BY <1>1, <1>2, <1>6 DEF Sound, Heard
<1>8. QED
  BY <1>4, <1>5, <1>7 DEF Sound

LEMMA PostKeeps ==
  ASSUME IInv, NEW c \in Calls, PostOk(c) \/ PostFails(c)
  PROVE  Sound(c)'
<1>1. Sound(c) /\ TypeOK /\ Shape
  BY Shapes DEF IInv
<1>2. /\ UNCHANGED <<adapter, ready, handshake, downlink, reads, emitted, confirmation, unhandled, fate, backlog>>
      /\ pc[c] \in {"plain", "posting"}
      /\ post'[c] \in {"ok", "failed"}
      /\ outcome'[c] \in {outcome[c], "Sent", "PostError"}
      /\ pc'[c] \in {"settled", "confirming", "stopping"}
      /\ pc'[c] = "confirming" => confirmation[c] = "pending"
      /\ pc'[c] = "stopping" => post'[c] = "failed" \/ (confirmation[c] # "pending" /\ pc[c] = "posting")
  BY <1>1 DEF PostOk, PostFails, sockVars, peerVars, Shape, Sound, Paced
<1>3. Paced(c)'
  BY <1>1, <1>2 DEF Sound, Paced, TypeOK, Sock!TypeOK
<1>4. Truthful(c)'
  BY <1>1, <1>2 DEF Sound, Truthful, True, Terminal
<1>5. Settled(c)' /\ Heard(c)'
  BY <1>1, <1>2 DEF Sound, Settled, Heard
<1>6. QED
  BY <1>3, <1>4, <1>5 DEF Sound

LEMMA FinishKeeps ==
  ASSUME IInv, NEW c \in Calls, Finish(c)
  PROVE  Sound(c)'
<1>1. Sound(c) /\ TypeOK /\ Shape
  BY Shapes DEF IInv
<1>2. /\ UNCHANGED <<adapter, handshake, downlink, reads, emitted, post, confirmation, unhandled, fate, backlog>>
      /\ ready[c] = "closed" => ready' = ready
      /\ pc'[c] = "settled" /\ handshake[c] = "accepted"
      /\ outcome'[c] = (IF post[c] = "failed" THEN "PostError" ELSE confirmation[c])
  BY <1>1 DEF Finish, Sock!CloseAsync, Shape, peerVars
<1>3. post[c] \notin {"sent", "accepted", "refused"}
  BY <1>1 DEF Finish, Sound, Paced
<1>4. Paced(c)'
  BY <1>1, <1>2, <1>3 DEF Sound, Paced
<1>5. Truthful(c)'
  BY <1>1, <1>2 DEF Sound, Truthful, True, Terminal
<1>6. Settled(c)' /\ Heard(c)'
  BY <1>1, <1>2 DEF Sound, Settled, Heard
<1>7. QED
  BY <1>4, <1>5, <1>6 DEF Sound

LEMMA PeerStreamKeeps ==
  ASSUME IInv, NEW c \in Calls, PeerSubscribes(c) \/ PeerSendsEvent(c) \/ PeerCloses(c)
  PROVE  Sound(c)'
<1>1. Sound(c) /\ TypeOK /\ Shape
  BY Shapes DEF IInv
<1>2. CallAlone(c) /\ fate' = fate
  BY DEF PeerSubscribes, PeerSendsEvent, PeerCloses, callVars, peerVars, CallAlone
<1>3. CASE PeerSubscribes(c) \/ PeerCloses(c)
  BY <1>1, <1>2, <1>3, AloneKeeps
     DEF PeerSubscribes, Sock!PeerReceives, PeerCloses, Sock!PeerCloses, peerVars, SocketAlone, PeerAlone
<1>4. CASE PeerSendsEvent(c)
  <2>1. /\ backlog[c] # <<>> /\ backlog'[c] = Tail(backlog[c])
        /\ downlink'[c] = Append(downlink[c], Head(backlog[c]))
        /\ UNCHANGED <<adapter, ready, handshake, reads, emitted>>
    BY <1>1, <1>4 DEF PeerSendsEvent, Sock!PeerSends, Shape
  <2>2. backlog[c] \in Seq(Statuses) /\ downlink[c] \in Seq(Statuses)
    BY <1>1 DEF TypeOK, Sock!TypeOK
  <2>3. /\ Head(backlog[c]) \in Statuses /\ Head(backlog[c]) = backlog[c][1]
        /\ Len(backlog[c]) \in Nat \ {0} /\ DOMAIN backlog[c] = 1 .. Len(backlog[c])
        /\ DOMAIN backlog'[c] = 1 .. Len(backlog[c]) - 1
        /\ \A i \in 1 .. Len(backlog[c]) - 1 : backlog'[c][i] = backlog[c][i + 1]
    BY <2>1, <2>2, HeadTailProperties, EmptySeq
  <2>4. /\ 1 \in DOMAIN backlog[c]
        /\ \A i \in DOMAIN backlog'[c] :
             i + 1 \in DOMAIN backlog[c] /\ backlog'[c][i] = backlog[c][i + 1]
    BY ONLY <2>3
  <2>5. /\ Len(downlink[c]) \in Nat /\ DOMAIN downlink[c] = 1 .. Len(downlink[c])
        /\ DOMAIN downlink'[c] = 1 .. Len(downlink[c]) + 1
        /\ \A i \in 1 .. Len(downlink[c]) : downlink'[c][i] = downlink[c][i]
        /\ downlink'[c][Len(downlink[c]) + 1] = Head(backlog[c])
    BY <2>1, <2>2, <2>3, AppendProperties
  <2>6. \A i \in DOMAIN downlink'[c] : i \in DOMAIN downlink[c] \/ i = Len(downlink[c]) + 1
    BY ONLY <2>5
  <2>7. True(Head(backlog[c]))
    BY <1>1, <2>3, <2>4 DEF Sound, Truthful
  <2>8. \A i \in DOMAIN downlink'[c] : True(downlink'[c][i])
    BY <1>1, <2>5, <2>6, <2>7 DEF Sound, Truthful
  <2>9. \A i \in DOMAIN backlog'[c] : True(backlog'[c][i])
    BY <1>1, <2>4 DEF Sound, Truthful
  <2>10. Truthful(c)'
    BY <1>1, <1>2, <2>1, <2>8, <2>9 DEF Sound, Truthful, True, CallAlone
  <2>11. Paced(c)' /\ Settled(c)' /\ Heard(c)'
    BY <1>1, <1>2, <2>1 DEF Sound, Paced, Settled, Heard, CallAlone
  <2>12. QED
    BY <2>10, <2>11 DEF Sound
<1>5. QED
  BY <1>3, <1>4

\* The peer queues or decides: until then no final status is under way.
LEMMA BroadcastKeeps ==
  ASSUME IInv, NEW status \in Statuses, fate \notin Terminal, fate' = status, Broadcast(status),
         UNCHANGED sockVars, NEW c \in Calls,
         UNCHANGED <<confirmation, outcome>>
  PROVE  Truthful(c)'
<1>1. Sound(c) /\ TypeOK
  BY DEF IInv
<1>2. \A x : True(x) => x \notin Terminal
  BY DEF True
<1>5. UNCHANGED <<downlink, reads>>
  BY DEF sockVars
<1>6. /\ \A i \in DOMAIN downlink'[c] : downlink'[c][i] \notin Terminal
      /\ \A x \in reads'[c] : x \notin Terminal
      /\ confirmation'[c] \notin Terminal /\ outcome'[c] \notin Terminal
  <2>1. /\ \A i \in DOMAIN downlink[c] : downlink[c][i] \notin Terminal
        /\ \A x \in reads[c] : x \notin Terminal
        /\ confirmation[c] \notin Terminal /\ outcome[c] \notin Terminal
    BY <1>1, <1>2 DEF Sound, Truthful
  <2>2. QED
    BY <1>5, <2>1
<1>7. \A i \in DOMAIN backlog'[c] : backlog'[c][i] \notin Terminal \/ backlog'[c][i] = fate'
  <2>1. \A i \in DOMAIN backlog[c] : backlog[c][i] \notin Terminal
    BY <1>1, <1>2 DEF Sound, Truthful
  <2>2. CASE backlog'[c] = backlog[c]
    BY <2>1, <2>2
  <2>3. CASE backlog'[c] = Append(backlog[c], status)
    <3>1. /\ Len(backlog[c]) \in Nat /\ DOMAIN backlog[c] = 1 .. Len(backlog[c])
          /\ DOMAIN backlog'[c] = 1 .. Len(backlog[c]) + 1
          /\ \A i \in 1 .. Len(backlog[c]) : backlog'[c][i] = backlog[c][i]
          /\ backlog'[c][Len(backlog[c]) + 1] = status
      BY <1>1, <2>3, AppendProperties DEF TypeOK
    <3>2. \A i \in DOMAIN backlog'[c] : i \in DOMAIN backlog[c] \/ i = Len(backlog[c]) + 1
      BY ONLY <3>1
    <3>3. QED
      BY <2>1, <3>1, <3>2
  <2>4. QED
    BY <2>2, <2>3 DEF Broadcast
<1>8. QED
  BY <1>6, <1>7 DEF Truthful, True

LEMMA PeerDecisionKeeps ==
  ASSUME IInv, NEW c \in Calls,
         (\E d \in Calls : PeerQueues(d) \/ PeerRefuses(d)) \/ (\E status \in Terminal : PeerDecides(status))
  PROVE  Sound(c)'
<1>1. Sound(c) /\ TypeOK /\ Shape
  BY Shapes DEF IInv
<1>2. ASSUME NEW status \in Terminal, PeerDecides(status) PROVE Sound(c)'
  <2>1. UNCHANGED <<sockVars, callVars>> /\ fate = "Queued" /\ fate' = status /\ Broadcast(status)
    BY <1>2 DEF PeerDecides
  <2>2. status \in Statuses /\ fate \notin Terminal /\ UNCHANGED <<confirmation, outcome>>
    BY <2>1 DEF Statuses, Terminal, callVars
  <2>3. Truthful(c)'
    BY <2>1, <2>2, BroadcastKeeps
  <2>4. Paced(c)' /\ Settled(c)' /\ Heard(c)'
    BY <1>1, <2>1 DEF Sound, Paced, Settled, Heard, sockVars, callVars
  <2>5. QED
    BY <2>3, <2>4 DEF Sound
<1>3. ASSUME NEW d \in Calls, PeerQueues(d) PROVE Sound(c)'
  <2>1. /\ UNCHANGED <<sockVars, pc, confirmation, outcome, unhandled>>
        /\ fate = "none" /\ fate' = "Queued" /\ Broadcast("Queued")
        /\ post[d] = "sent" /\ post' = [post EXCEPT ![d] = "accepted"]
    BY <1>3 DEF PeerQueues
  <2>2. "Queued" \in Statuses /\ fate \notin Terminal
    BY <2>1 DEF Statuses, Terminal
  <2>3. Truthful(c)'
    BY <2>1, <2>2, BroadcastKeeps
  <2>4. post'[c] = post[c] \/ (post[c] = "sent" /\ post'[c] = "accepted")
    BY <1>1, <2>1 DEF Shape
  <2>5. Paced(c)' /\ Settled(c)' /\ Heard(c)'
    BY <1>1, <2>1, <2>4 DEF Sound, Paced, Settled, Heard, sockVars
  <2>6. QED
    BY <2>3, <2>5 DEF Sound
<1>4. ASSUME NEW d \in Calls, PeerRefuses(d) PROVE Sound(c)'
  <2>1. /\ UNCHANGED <<sockVars, peerVars, pc, confirmation, outcome, unhandled>>
        /\ post[d] = "sent" /\ post' = [post EXCEPT ![d] = "refused"]
    BY <1>4 DEF PeerRefuses
  <2>2. post'[c] = post[c] \/ (post[c] = "sent" /\ post'[c] = "refused")
    BY <1>1, <2>1 DEF Shape
  <2>3. Paced(c)' /\ Settled(c)' /\ Heard(c)'
    BY <1>1, <2>1, <2>2 DEF Sound, Paced, Settled, Heard, sockVars
  <2>4. Truthful(c)'
    BY <1>1, <2>1 DEF Sound, Truthful, True, sockVars, peerVars
  <2>5. QED
    BY <2>3, <2>4 DEF Sound
<1>5. QED
  BY <1>2, <1>3, <1>4

\* All calls after a step: the one that moves, and the others.
LEMMA SoundStep ==
  ASSUME IInv, [Next]_vars, NEW d \in Calls
  PROVE  Sound(d)'
<1>1. Sound(d) /\ TypeOK
  BY DEF IInv
<1>2. ASSUME NEW c \in Calls, Client(c) \/ PeerSubscribes(c) \/ PeerSendsEvent(c) \/ PeerCloses(c)
      PROVE  Sound(d)'
  <2>1. CASE d # c
    BY <1>1, <1>2, <2>1, OthersAlone, AloneKeeps
  <2>2. Sound(c)'
    <3>1. ASSUME NEW status \in Statuses, OnEvent(c, status) PROVE Sound(c)'
      BY <3>1, OnEventKeeps
    <3>2. CASE SubmitPlain(c) \/ SubmitVerify(c)
      BY <3>2, SubmitKeeps
    <3>3. CASE Opened(c)
      BY <3>3, OpenedKeeps
    <3>4. CASE StartRead(c)
      BY <3>4, StartReadKeeps
    <3>5. CASE CleanClose(c) \/ ConnectionLost(c)
      BY <3>5, ClosedKeeps
    <3>6. CASE Abort(c)
      BY <3>6, AbortKeeps
    <3>7. CASE PostOk(c) \/ PostFails(c)
      BY <3>7, PostKeeps
    <3>8. CASE Finish(c)
      BY <3>8, FinishKeeps
    <3>9. CASE PeerSubscribes(c) \/ PeerSendsEvent(c) \/ PeerCloses(c)
      BY <3>9, PeerStreamKeeps
    <3>10. QED
      BY <1>2, <3>1, <3>2, <3>3, <3>4, <3>5, <3>6, <3>7, <3>8, <3>9 DEF Client
  <2>3. QED
    BY <2>1, <2>2
<1>3. CASE (\E c \in Calls : PeerQueues(c) \/ PeerRefuses(c)) \/ (\E status \in Terminal : PeerDecides(status))
  BY <1>3, PeerDecisionKeeps
<1>4. CASE UNCHANGED vars
  BY <1>1, <1>4, AloneKeeps
     DEF vars, sockVars, callVars, peerVars, SocketAlone, CallAlone, PeerAlone
<1>5. QED
  BY <1>2, <1>3, <1>4 DEF Next, Peer

-----------------------------------------------------------------------------
\* The types of the calls and of the peer.
CallTypes ==
  /\ pc \in [Calls -> Places]
  /\ post \in [Calls -> PostStates]
  /\ confirmation \in [Calls -> Confirmations]
  /\ outcome \in [Calls -> Outcomes]
  /\ aborted \in [Calls -> BOOLEAN]
  /\ unhandled \in [Calls -> BOOLEAN]

PeerTypes ==
  /\ fate \in Terminal \cup {"none", "Queued"}
  /\ subscribed \subseteq Calls
  /\ backlog \in [Calls -> Seq(Statuses)]

InOrder(c) ==
  /\ pc[c] = "settled" <=> outcome[c] # "none"
  /\ pc[c] = "confirming" => post[c] = "ok" /\ confirmation[c] = "pending"
  /\ pc[c] = "posting" => post[c] \in {"sent", "accepted", "refused"}
  /\ confirmation[c] # "none" => handshake[c] = "accepted"

LEMMA PeerTypesStep ==
  ASSUME TypeOK, [Next]_vars
  PROVE  PeerTypes'
<1>1. PeerTypes
  BY DEF TypeOK, PeerTypes
<1>2. ASSUME NEW status \in Statuses, Broadcast(status) PROVE backlog' \in [Calls -> Seq(Statuses)]
  <2>1. \A c \in Calls : Append(backlog[c], status) \in Seq(Statuses)
    BY <1>1, AppendProperties DEF PeerTypes
  <2>2. QED
    BY <1>1, <1>2, <2>1 DEF PeerTypes, Broadcast
<1>3. ASSUME NEW status \in Terminal, PeerDecides(status) PROVE PeerTypes'
  BY <1>1, <1>2, <1>3 DEF PeerTypes, PeerDecides, Statuses
<1>4. ASSUME NEW c \in Calls, PeerQueues(c) PROVE PeerTypes'
  BY <1>1, <1>2, <1>4 DEF PeerTypes, PeerQueues, Statuses
<1>5. ASSUME NEW c \in Calls, PeerSubscribes(c) PROVE PeerTypes'
  BY <1>1, <1>5 DEF PeerTypes, PeerSubscribes
<1>6. ASSUME NEW c \in Calls, PeerSendsEvent(c) PROVE PeerTypes'
  <2>1. backlog[c] # <<>> /\ backlog[c] \in Seq(Statuses)
    BY <1>1, <1>6 DEF PeerTypes, PeerSendsEvent
  <2>2. Tail(backlog[c]) \in Seq(Statuses)
    BY <2>1, HeadTailProperties
  <2>3. QED
    BY <1>1, <1>6, <2>2 DEF PeerTypes, PeerSendsEvent
<1>7. CASE UNCHANGED peerVars
  BY <1>1, <1>7 DEF PeerTypes, peerVars
<1>8. ASSUME NEW c \in Calls, Client(c) \/ PeerCloses(c) \/ PeerRefuses(c) PROVE UNCHANGED peerVars
  BY <1>8 DEF Client, SubmitPlain, SubmitVerify, Opened, OnEvent, StartRead, CleanClose, ConnectionLost,
       Disconnected, Abort, PostOk, PostFails, Finish, PeerCloses, PeerRefuses
<1>9. QED
  BY <1>3, <1>4, <1>5, <1>6, <1>7, <1>8 DEF Next, Peer, vars

LEMMA ConfirmTypes ==
  ASSUME CallTypes, NEW c \in Calls, NEW v \in Terminal \cup {"Closed", "Aborted"}, Confirm(c, v)
  PROVE  /\ pc' \in [Calls -> Places] /\ confirmation' \in [Calls -> Confirmations]
         /\ unhandled' \in [Calls -> BOOLEAN]
<1>1. CASE UNCHANGED <<pc, confirmation, unhandled>>
  BY <1>1 DEF CallTypes
<1>2. CASE /\ confirmation' = [confirmation EXCEPT ![c] = v]
           /\ pc' = [pc EXCEPT ![c] = IF @ = "confirming" THEN "stopping" ELSE @]
           /\ unhandled' = [unhandled EXCEPT ![c] = @ \/ (v # "Approved" /\ pc[c] # "confirming")]
  <2>1. v \in Confirmations /\ "stopping" \in Places
    BY DEF Confirmations, Places
  <2>2. unhandled' \in [Calls -> BOOLEAN]
    <3>1. unhandled[c] \/ (v # "Approved" /\ pc[c] # "confirming") \in BOOLEAN
      BY Zenon
    <3>2. QED
      BY <1>2, <3>1 DEF CallTypes
  <2>3. QED
    BY <1>2, <2>1, <2>2 DEF CallTypes
<1>3. QED
  BY <1>1, <1>2 DEF Confirm

LEMMA CallTypesStep ==
  ASSUME IInv, [Next]_vars
  PROVE  CallTypes'
<1>1. TypeOK /\ CallTypes /\ \A c \in Calls : Sound(c)
  BY DEF IInv, TypeOK, CallTypes
<1>2. CASE UNCHANGED callVars
  BY <1>1, <1>2 DEF CallTypes, callVars
<1>3. ASSUME NEW c \in Calls, SubmitPlain(c) \/ SubmitVerify(c) \/ Opened(c) PROVE CallTypes'
  BY <1>1, <1>3 DEF CallTypes, SubmitPlain, SubmitVerify, Opened, Places, PostStates, Confirmations
<1>4. ASSUME NEW c \in Calls, NEW status \in Statuses, OnEvent(c, status) PROVE CallTypes'
  <2>1. UNCHANGED <<post, outcome, aborted>>
    BY <1>4 DEF OnEvent
  <2>2. CASE status \in Terminal /\ Confirm(c, status)
    BY <1>1, <2>1, <2>2, ConfirmTypes DEF CallTypes
  <2>3. CASE UNCHANGED <<pc, confirmation, unhandled>>
    BY <1>1, <2>1, <2>3 DEF CallTypes
  <2>4. QED
    BY <1>4, <2>2, <2>3 DEF OnEvent
<1>5. ASSUME NEW c \in Calls, CleanClose(c) \/ ConnectionLost(c) PROVE CallTypes'
  <2>1. UNCHANGED <<post, aborted>> /\ Disconnected(c)
    BY <1>5 DEF CleanClose, ConnectionLost, Disconnected
  <2>2. CASE pc[c] = "subscribing"
    BY <1>1, <2>1, <2>2 DEF CallTypes, Disconnected, Places, Outcomes
  <2>3. CASE pc[c] # "subscribing"
    BY <1>1, <2>1, <2>3, ConfirmTypes DEF CallTypes, Disconnected
  <2>4. QED
    BY <2>2, <2>3
<1>6. ASSUME NEW c \in Calls, Abort(c) PROVE CallTypes'
  BY <1>1, <1>6, ConfirmTypes DEF CallTypes, Abort
<1>7. ASSUME NEW c \in Calls, PostOk(c) \/ PostFails(c) PROVE CallTypes'
  <2>1. CASE PostOk(c)
    BY <1>1, <2>1 DEF CallTypes, PostOk, Places, PostStates, Outcomes
  <2>2. CASE PostFails(c)
    BY <1>1, <2>2 DEF CallTypes, PostFails, Places, PostStates, Outcomes
  <2>3. QED
    BY <1>7, <2>1, <2>2
<1>8. ASSUME NEW c \in Calls, Finish(c) PROVE CallTypes'
  <2>1. post[c] = "failed" \/ confirmation[c] \in Outcomes
    <3>1. post[c] = "failed" \/ confirmation[c] \in Confirmations \ {"none", "pending"}
      BY <1>1, <1>8 DEF Finish, Sound, Paced, CallTypes
    <3>2. QED
      BY <3>1 DEF Confirmations, Outcomes
  <2>2. (IF post[c] = "failed" THEN "PostError" ELSE confirmation[c]) \in Outcomes
    BY <2>1 DEF Outcomes
  <2>3. /\ pc' = [pc EXCEPT ![c] = "settled"] /\ "settled" \in Places
        /\ outcome' = [outcome EXCEPT ![c] = IF post[c] = "failed" THEN "PostError" ELSE confirmation[c]]
        /\ UNCHANGED <<post, confirmation, aborted, unhandled>>
    BY <1>8 DEF Finish, Places
  <2>4. QED
    BY <1>1, <2>2, <2>3 DEF CallTypes
<1>9. ASSUME NEW c \in Calls, PeerQueues(c) \/ PeerRefuses(c) PROVE CallTypes'
  BY <1>1, <1>9 DEF CallTypes, PeerQueues, PeerRefuses, PostStates
<1>10. ASSUME NEW c \in Calls, StartRead(c) \/ PeerSubscribes(c) \/ PeerSendsEvent(c) \/ PeerCloses(c)
       PROVE  UNCHANGED callVars
  BY <1>10 DEF StartRead, PeerSubscribes, PeerSendsEvent, PeerCloses
<1>11. ASSUME NEW status \in Terminal, PeerDecides(status) PROVE UNCHANGED callVars
  BY <1>11 DEF PeerDecides
<1>12. QED
  BY <1>2, <1>3, <1>4, <1>5, <1>6, <1>7, <1>8, <1>9, <1>10, <1>11 DEF Next, Client, Peer, vars

\* The fields of one call.
LEMMA ConfirmInOrder ==
  ASSUME TypeOK, NEW c \in Calls, NEW v \in Terminal \cup {"Closed", "Aborted"}, Confirm(c, v),
         InOrder(c), post'[c] = post[c], outcome'[c] = outcome[c], handshake'[c] = handshake[c]
  PROVE  InOrder(c)'
<1>1. v \notin {"none", "pending"}
  BY DEF Terminal
<1>2. QED
  BY <1>1, ConfirmDoes DEF InOrder

LEMMA InOrderStep ==
  ASSUME IInv, [Next]_vars, NEW d \in Calls
  PROVE  InOrder(d)'
<1>1. TypeOK /\ Shape /\ InOrder(d) /\ Sound(d)
  BY Shapes DEF IInv, TypeOK, InOrder
<1>2. ASSUME SocketAlone(d), CallAlone(d) PROVE InOrder(d)'
  BY <1>1, <1>2 DEF InOrder, SocketAlone, CallAlone
<1>3. ASSUME NEW c \in Calls, Client(c) \/ PeerSubscribes(c) \/ PeerSendsEvent(c) \/ PeerCloses(c)
      PROVE  InOrder(d)'
  <2>1. CASE d # c
    BY <1>1, <1>2, <1>3, <2>1, OthersAlone
  <2>2. CASE d = c
    <3>1. CASE SubmitPlain(d)
      BY <1>1, <3>1 DEF SubmitPlain, InOrder, Shape, sockVars
    <3>2. CASE SubmitVerify(d)
      <4>1. /\ pc[d] = "idle" /\ pc'[d] = "subscribing" /\ handshake[d] = "none"
            /\ UNCHANGED <<post, confirmation, outcome>>
        BY <1>1, <3>2 DEF SubmitVerify, Sock!SetupWebSocket, Shape, TypeOK, Sock!TypeOK
      <4>2. QED
        BY <1>1, <4>1 DEF InOrder
    <3>3. CASE Opened(d)
      <4>1. pc[d] = "subscribing"
        BY <3>3, OpenedKeeps
      <4>2. QED
        BY <1>1, <3>3, <4>1 DEF Opened, Sock!OnOpen, InOrder, Shape
    <3>4. ASSUME NEW status \in Statuses, OnEvent(d, status) PROVE InOrder(d)'
      <4>1. UNCHANGED <<post, outcome, handshake>>
        BY <3>4 DEF OnEvent, Sock!OnMessage
      <4>2. CASE status \in Terminal /\ Confirm(d, status)
        BY <1>1, <4>1, <4>2, ConfirmInOrder
      <4>3. CASE UNCHANGED <<pc, confirmation, unhandled>>
        BY <1>1, <4>1, <4>3 DEF InOrder
      <4>4. QED
        BY <3>4, <4>2, <4>3 DEF OnEvent
    <3>5. CASE StartRead(d)
      BY <1>1, <3>5 DEF StartRead, Sock!StartRead, callVars, InOrder
    <3>6. CASE CleanClose(d) \/ ConnectionLost(d)
      <4>1. /\ Disconnected(d) /\ post' = post
            /\ handshake'[d] = (IF handshake[d] = "waiting" THEN "rejected" ELSE handshake[d])
        BY <1>1, <3>6 DEF CleanClose, ConnectionLost, Sock!CleanClose, Sock!ConnectionLost,
             Sock!OnClose, Disconnected, Shape
      <4>2. CASE pc[d] = "subscribing"
        BY <1>1, <4>1, <4>2 DEF Disconnected, InOrder, Shape
      <4>3. CASE pc[d] # "subscribing"
        <5>1. handshake'[d] = handshake[d] /\ outcome' = outcome /\ Confirm(d, "Closed")
          BY <1>1, <4>1, <4>3 DEF Disconnected, Sound, Paced
        <5>2. QED
          BY <1>1, <4>1, <5>1, ConfirmInOrder
      <4>4. QED
        BY <4>2, <4>3
    <3>7. CASE Abort(d)
      <4>1. Confirm(d, "Aborted") /\ UNCHANGED <<post, outcome, handshake>>
        BY <3>7 DEF Abort, sockVars
      <4>2. QED
        BY <1>1, <4>1, ConfirmInOrder
    <3>8. CASE PostOk(d)
      BY <1>1, <3>8 DEF PostOk, InOrder, Shape, sockVars, Sound, Paced
    <3>9. CASE PostFails(d)
      BY <1>1, <3>9 DEF PostFails, InOrder, Shape, sockVars, Sound, Paced
    <3>10. CASE Finish(d)
      <4>1. /\ pc'[d] = "settled" /\ UNCHANGED <<handshake, confirmation>>
            /\ outcome'[d] = (IF post[d] = "failed" THEN "PostError" ELSE confirmation[d])
            /\ pc[d] = "stopping"
        BY <1>1, <3>10 DEF Finish, Sock!CloseAsync, Shape
      <4>2. outcome'[d] # "none"
        BY <1>1, <4>1 DEF Sound, Paced
      <4>3. QED
        BY <1>1, <4>1, <4>2 DEF InOrder
    <3>11. CASE PeerSubscribes(d) \/ PeerSendsEvent(d) \/ PeerCloses(d)
      BY <1>1, <3>11 DEF PeerSubscribes, PeerSendsEvent, PeerCloses, Sock!PeerReceives, Sock!PeerSends,
           Sock!PeerCloses, callVars, InOrder
    <3>12. QED
      BY <1>3, <2>2, <3>1, <3>2, <3>3, <3>4, <3>5, <3>6, <3>7, <3>8, <3>9, <3>10, <3>11 DEF Client
  <2>3. QED
    BY <2>1, <2>2
<1>4. ASSUME NEW c \in Calls, PeerQueues(c) \/ PeerRefuses(c) PROVE InOrder(d)'
  <2>1. /\ UNCHANGED <<sockVars, pc, confirmation, outcome>>
        /\ post'[d] = post[d] \/ (post[d] = "sent" /\ post'[d] \in {"accepted", "refused"})
    BY <1>1, <1>4 DEF PeerQueues, PeerRefuses, Shape
  <2>2. QED
    BY <1>1, <2>1 DEF InOrder, sockVars
<1>5. CASE (\E status \in Terminal : PeerDecides(status)) \/ UNCHANGED vars
  BY <1>1, <1>5 DEF PeerDecides, vars, sockVars, callVars, InOrder
<1>6. QED
  BY <1>3, <1>4, <1>5 DEF Next, Peer

LEMMA IInvInit == Init => IInv
<1> SUFFICES ASSUME Init PROVE IInv
  OBVIOUS
<1>1. Sock!TypeOK
  BY DEF Init, Sock!Init, Sock!TypeOK, Sock!ReadyStates
<1>2. CallTypes /\ PeerTypes
  BY DEF Init, CallTypes, PeerTypes, Places, PostStates, Confirmations, Outcomes
<1>3. ASSUME NEW c \in Calls PROVE InOrder(c) /\ Sound(c)
  <2>1. /\ pc[c] = "idle" /\ post[c] = "none" /\ confirmation[c] = "none" /\ outcome[c] = "none"
        /\ unhandled[c] = FALSE /\ backlog[c] = <<>> /\ handshake[c] = "none"
        /\ downlink[c] = <<>> /\ reads[c] = {} /\ emitted[c] = <<>>
    BY DEF Init, Sock!Init
  <2>2. DOMAIN backlog[c] = {} /\ DOMAIN downlink[c] = {} /\ DOMAIN emitted[c] = {}
    BY <2>1
  <2>3. InOrder(c) /\ Paced(c) /\ Settled(c)
    BY <2>1 DEF InOrder, Paced, Settled
  <2>4. Truthful(c) /\ Heard(c)
    BY <2>1, <2>2 DEF Truthful, Heard, True, Terminal
  <2>5. QED
    BY <2>3, <2>4 DEF Sound
<1>4. TypeOK
  BY <1>1, <1>2, <1>3 DEF TypeOK, CallTypes, PeerTypes, InOrder
<1>5. QED
  BY <1>3, <1>4 DEF IInv

LEMMA IInvStep == IInv /\ [Next]_vars => IInv'
<1> SUFFICES ASSUME IInv, [Next]_vars PROVE IInv'
  OBVIOUS
<1>1. Sock!TypeOK' /\ CallTypes' /\ PeerTypes'
  BY SocketTypesStep, CallTypesStep, PeerTypesStep DEF IInv
<1>2. \A c \in Calls : InOrder(c)' /\ Sound(c)'
  BY InOrderStep, SoundStep
<1>3. TypeOK'
  BY <1>1, <1>2 DEF TypeOK, CallTypes, PeerTypes, InOrder
<1>4. QED
  BY <1>2, <1>3 DEF IInv

LEMMA SubmitInductive == Spec => []IInv
<1>1. QED
  BY IInvInit, IInvStep, PTL DEF Spec

-----------------------------------------------------------------------------
(* The theorems. *)

\* Every variable of the calls, of their sockets and of the peer keeps to its
\* type: a call is settled exactly when it has an outcome, and waits for its
\* confirmation only while that is pending, after a POST that succeeded.
THEOREM SubmitTypeCorrect == Spec => []TypeOK
<1>1. IInv => TypeOK
  BY DEF IInv
<1>2. QED
  BY <1>1, SubmitInductive, PTL

\* Every submit, its deferred, its POST and its abort included, does to its own
\* socket one step of EventSocket at a time, and never to another's.
THEOREM SubmitKeepsSocket == Spec => Sock!Spec
<1>1. Init => Sock!Init
  BY DEF Init
<1>2. TypeOK /\ [Next]_vars => [Sock!Next]_Sock!sockVars
  BY SocketStep
     DEF Sock!Next, Sock!sockVars, Sock!SetupWebSocket, Sock!OnOpen, Sock!Send, Sock!CloseAsync,
         Sock!StartRead, Sock!OnMessage, Sock!CleanClose, Sock!ConnectionLost, Sock!OnClose,
         Sock!PeerReceives, Sock!PeerSends, Sock!PeerCloses, Sock!Range,
         SockP!Next, SockP!sockVars, SockP!SetupWebSocket, SockP!OnOpen, SockP!Send, SockP!CloseAsync,
         SockP!StartRead, SockP!OnMessage, SockP!CleanClose, SockP!ConnectionLost, SockP!OnClose,
         SockP!PeerReceives, SockP!PeerSends, SockP!PeerCloses, SockP!Range
<1>3. QED
  BY <1>1, <1>2, SubmitTypeCorrect, PTL DEF Spec, Sock!Spec

\* So the events stream of each submit loses no status while it is open, hears
\* none twice, and under Node.js hears them in the order the peer sent them.
THEOREM SubmitSocketDelivers == Spec => [](Sock!NoMessageVanishes /\ Sock!InOrderDelivery)
<1>1. Init => SockP!Init
  BY DEF Init, Sock!Init, SockP!Init
<1>2. Spec => SockP!Spec
  BY <1>1, SocketStep, SubmitTypeCorrect, PTL DEF Spec, SockP!Spec
<1>3. SockP!FramesAssumption /\ SockP!BoundAssumption
  BY DEF SockP!FramesAssumption, SockP!BoundAssumption
<1>4. SockP!Spec => [](SockP!NoMessageVanishes /\ SockP!InOrderDelivery)
  BY <1>3, SockP!NothingVanishes, SockP!NodeDeliversInOrder, PTL
<1>5. /\ SockP!NoMessageVanishes => Sock!NoMessageVanishes
      /\ SockP!InOrderDelivery => Sock!InOrderDelivery
  BY DEF SockP!NoMessageVanishes, Sock!NoMessageVanishes, SockP!InOrderDelivery, Sock!InOrderDelivery,
         SockP!Range, Sock!Range, SockP!IsInjective, Sock!IsInjective
<1>6. QED
  BY <1>2, <1>4, <1>5, PTL

\* Approved, Rejected or Expired is reported only when the peer decided so,
\* with any number of submits of the transaction at once.
THEOREM OutcomeIsAlwaysFate == Spec => []OutcomeIsFate
<1>1. IInv => OutcomeIsFate
  BY DEF IInv, Sound, Truthful, True, OutcomeIsFate
<1>2. QED
  BY <1>1, SubmitInductive, PTL

\* With the adapter for Node.js, 'Events stream was unexpectedly closed' is
\* reported only by a call whose stream had given no verdict.
THEOREM ClosedMeansNoVerdict == Spec => []ClosedOnlyWithoutVerdict
<1>1. IInv => ClosedOnlyWithoutVerdict
  <2> SUFFICES ASSUME IInv, NEW c \in Calls, outcome[c] = "Closed", adapter = "node"
               PROVE  Range(emitted[c]) \cap Terminal = {}
    BY DEF ClosedOnlyWithoutVerdict
  <2>1. confirmation[c] = "Closed"
    BY DEF IInv, Sound, Settled
  <2>2. \A i \in DOMAIN emitted[c] : emitted[c][i] \notin Terminal
    BY <2>1 DEF IInv, Sound, Heard
  <2>3. QED
    BY <2>2 DEF Range
<1>2. QED
  BY <1>1, SubmitInductive, PTL

\* A submit that resolves has no rejected promise behind it.
THEOREM SuccessIsAlwaysQuiet == Spec => []SuccessIsQuiet
<1>1. IInv => SuccessIsQuiet
  BY DEF IInv, Sound, Settled, SuccessIsQuiet
<1>2. QED
  BY <1>1, SubmitInductive, PTL
=============================================================================
