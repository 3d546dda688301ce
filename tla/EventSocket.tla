----------------------------- MODULE EventSocket -----------------------------
(***************************************************************************)
(* The WebSocket layer of @iroha/client: `setupWebSocket` (util.ts), the   *)
(* two adapters it runs on (web-socket/native.ts for browsers and Deno,    *)
(* client-web-socket-node for Node.js) and, external, the connection and   *)
(* the peer at its other end.                                              *)
(*                                                                         *)
(* One action is one task of the JavaScript event loop: the socket         *)
(* callback, the `ee.emit` it makes and every listener that runs in the    *)
(* microtasks behind it.  Emittery takes the set of listeners when emit is *)
(* called, so a listener registered later does not see that event.         *)
(***************************************************************************)
EXTENDS Naturals, Sequences, Functions

CONSTANTS
  Conns,      \* the connections a client opens, one per setupWebSocket call
  Closers,    \* the callers of closeAsync()
  Messages,   \* what the peer may send; no message is sent twice
  Hello,      \* what the 'open' listener sends first
  Requests,   \* what the client may send afterwards
  Bye,        \* the close frame
  MaxUplink   \* bound: frames the client leaves unread by the peer

ASSUME FramesAssumption == Bye \notin Requests \cup {Hello}
ASSUME BoundAssumption  == MaxUplink \in Nat

VARIABLES
  adapter,    \* WebSocketAPI.adapter: nativeWS or the one for Node.js
  ready,      \* socket.readyState; "none" before initWebSocket
  handshake,  \* the promise accepted() returned
  stopCall,   \* the promises closeAsync() returned
  uplink,     \* frames on their way to the peer
  downlink,   \* frames on their way to the client
  reads,      \* native: messages whose Blob is being read
  peerUp,     \* the peer's end of the connection can send
  sent,       \* history: what the peer has sent
  emitted     \* history: the 'message' events, in order

sockVars == <<adapter, ready, handshake, stopCall, uplink, downlink, reads, peerUp, sent, emitted>>

ReadyStates == {"none", "connecting", "open", "closing", "closed"}

TypeOK ==
  /\ adapter \in {"native", "node"}
  /\ ready \in [Conns -> ReadyStates]
  /\ handshake \in [Conns -> {"none", "waiting", "accepted", "rejected"}]
  /\ stopCall \in [Conns -> [Closers -> {"idle", "waiting", "resolved"}]]
  /\ uplink \in [Conns -> Seq(Requests \cup {Hello, Bye})]
  /\ downlink \in [Conns -> Seq(Messages)]
  /\ reads \in [Conns -> SUBSET Messages]
  /\ peerUp \in [Conns -> BOOLEAN]
  /\ sent \in [Conns -> Seq(Messages)]
  /\ emitted \in [Conns -> Seq(Messages)]
  /\ \A c \in Conns :
       /\ ready[c] = "none" <=> handshake[c] = "none"
       /\ ready[c] = "connecting" <=> handshake[c] = "waiting"
       /\ handshake[c] = "rejected" => ready[c] = "closed"
       /\ peerUp[c] => ready[c] \in {"open", "closing"}
       /\ \A k \in Closers : stopCall[c][k] = "waiting" => ready[c] = "closing"
       /\ reads[c] # {} => adapter = "native"

Init ==
  /\ adapter \in {"native", "node"}
  /\ ready = [c \in Conns |-> "none"]
  /\ handshake = [c \in Conns |-> "none"]
  /\ stopCall = [c \in Conns |-> [k \in Closers |-> "idle"]]
  /\ uplink = [c \in Conns |-> <<>>]
  /\ downlink = [c \in Conns |-> <<>>]
  /\ reads = [c \in Conns |-> {}]
  /\ peerUp = [c \in Conns |-> FALSE]
  /\ sent = [c \in Conns |-> <<>>]
  /\ emitted = [c \in Conns |-> <<>>]

-----------------------------------------------------------------------------
(* The client's side. *)

\* setupWebSocket followed by `await accepted()`: both `once` listeners are
\* registered before initWebSocket, so no event can precede them.
SetupWebSocket(c) ==
  /\ ready[c] = "none"
  /\ ready' = [ready EXCEPT ![c] = "connecting"]
  /\ handshake' = [handshake EXCEPT ![c] = "waiting"]
  /\ UNCHANGED <<adapter, stopCall, uplink, downlink, reads, peerUp, sent, emitted>>

\* onopen -> emit('open'): onceOpened resolves accepted(), then the listener
\* of blocksStream/events sends its subscription.
OnOpen(c) ==
  /\ ready[c] = "connecting"
  /\ ready' = [ready EXCEPT ![c] = "open"]
  /\ handshake' = [handshake EXCEPT ![c] = "accepted"]
  /\ uplink' = [uplink EXCEPT ![c] = Append(@, Hello)]
  /\ peerUp' = [peerUp EXCEPT ![c] = TRUE]
  /\ UNCHANGED <<adapter, stopCall, downlink, reads, sent, emitted>>

\* socket.send: once the socket is closing or closed the data is discarded
\* without an error.
Send(c, r) ==
  /\ handshake[c] = "accepted"
  /\ ready[c] = "open" => Len(uplink[c]) < MaxUplink
  /\ uplink' = IF ready[c] = "open" THEN [uplink EXCEPT ![c] = Append(@, r)] ELSE uplink
  /\ UNCHANGED <<adapter, ready, handshake, stopCall, downlink, reads, peerUp, sent, emitted>>

\* Faulty variant: no `if (isClosed()) return`.
CloseAsyncUnchecked(c, k) ==
  /\ handshake[c] = "accepted"
  /\ stopCall[c][k] = "idle"
  /\ stopCall' = [stopCall EXCEPT ![c][k] = "waiting"]
  /\ ready' = IF ready[c] = "open" THEN [ready EXCEPT ![c] = "closing"] ELSE ready
  /\ uplink' = IF ready[c] = "open" THEN [uplink EXCEPT ![c] = Append(@, Bye)] ELSE uplink
  /\ UNCHANGED <<adapter, handshake, downlink, reads, peerUp, sent, emitted>>

\* closeAsync(): returns at once when the socket is closed; else socket.close()
\* (a no-op while closing) and a promise of the next 'close' event.
CloseAsync(c, k) ==
  /\ handshake[c] = "accepted"
  /\ stopCall[c][k] = "idle"
  /\ IF ready[c] = "closed"
     THEN /\ stopCall' = [stopCall EXCEPT ![c][k] = "resolved"]
          /\ UNCHANGED <<ready, uplink>>
     ELSE /\ stopCall' = [stopCall EXCEPT ![c][k] = "waiting"]
          /\ ready' = [ready EXCEPT ![c] = "closing"]
          /\ uplink' = IF ready[c] = "open" THEN [uplink EXCEPT ![c] = Append(@, Bye)]
                                            ELSE uplink
  /\ UNCHANGED <<adapter, handshake, downlink, reads, peerUp, sent, emitted>>

\* Faulty variants: the read fails (`data` is not a Blob); the adapter for
\* Node.js awaits a read too.
StartReadThrows(c) ==
  /\ adapter = "native"
  /\ ready[c] \in {"open", "closing"}
  /\ downlink[c] # <<>>
  /\ downlink' = [downlink EXCEPT ![c] = Tail(@)]
  /\ UNCHANGED <<adapter, ready, handshake, stopCall, uplink, reads, peerUp, sent, emitted>>

StartReadAlways(c) ==
  /\ ready[c] \in {"open", "closing"}
  /\ downlink[c] # <<>>
  /\ reads' = [reads EXCEPT ![c] = @ \cup {Head(downlink[c])}]
  /\ downlink' = [downlink EXCEPT ![c] = Tail(@)]
  /\ UNCHANGED <<adapter, ready, handshake, stopCall, uplink, peerUp, sent, emitted>>

\* native.ts: onmessage starts reading the Blob; a socket that is no longer
\* open drops the frame.
StartRead(c) ==
  /\ adapter = "native"
  /\ ready[c] \in {"open", "closing"}
  /\ downlink[c] # <<>>
  /\ reads' = IF ready[c] = "open" THEN [reads EXCEPT ![c] = @ \cup {Head(downlink[c])}]
                                   ELSE reads
  /\ downlink' = [downlink EXCEPT ![c] = Tail(@)]
  /\ UNCHANGED <<adapter, ready, handshake, stopCall, uplink, peerUp, sent, emitted>>

\* Faulty variant: a frame is handed over before and after its read.
OnMessageTwice(c, m) ==
  /\ ready[c] \in {"open", "closing"}
  /\ m \in reads[c] \cup {n \in Messages : downlink[c] # <<>> /\ n = Head(downlink[c])}
  /\ emitted' = [emitted EXCEPT ![c] = Append(@, m)]
  /\ reads' = [reads EXCEPT ![c] = @ \ {m}]
  /\ UNCHANGED <<adapter, ready, handshake, stopCall, uplink, downlink, peerUp, sent>>

\* The 'message' event.  node: synchronously, frame by frame, closing or not.
\* native: when that Blob's read ends, in any order, even after 'close'.
OnMessage(c, m) ==
  /\ \/ /\ adapter = "node"
        /\ ready[c] \in {"open", "closing"}
        /\ downlink[c] # <<>>
        /\ m = Head(downlink[c])
        /\ downlink' = [downlink EXCEPT ![c] = Tail(@)]
        /\ UNCHANGED reads
     \/ /\ adapter = "native"
        /\ m \in reads[c]
        /\ reads' = [reads EXCEPT ![c] = @ \ {m}]
        /\ UNCHANGED downlink
  /\ emitted' = [emitted EXCEPT ![c] = Append(@, m)]
  /\ UNCHANGED <<adapter, ready, handshake, stopCall, uplink, peerUp, sent>>

\* Faulty variant: accepted() only waits for 'open'.
OnCloseUnheard(c) ==
  /\ ready' = [ready EXCEPT ![c] = "closed"]
  /\ stopCall' = [stopCall EXCEPT ![c] =
                    [k \in Closers |-> IF @[k] = "waiting" THEN "resolved" ELSE @[k]]]
  /\ peerUp' = [peerUp EXCEPT ![c] = FALSE]
  /\ UNCHANGED <<adapter, handshake, uplink, downlink, reads, sent, emitted>>

\* onclose -> emit('close'): accepted() rejects if it is still waiting and
\* every closeAsync() that waits resolves.
OnClose(c) ==
  /\ ready' = [ready EXCEPT ![c] = "closed"]
  /\ handshake' = [handshake EXCEPT ![c] = IF @ = "waiting" THEN "rejected" ELSE @]
  /\ stopCall' = [stopCall EXCEPT ![c] =
                    [k \in Closers |-> IF @[k] = "waiting" THEN "resolved" ELSE @[k]]]
  /\ peerUp' = [peerUp EXCEPT ![c] = FALSE]
  /\ UNCHANGED <<adapter, uplink, downlink, reads, sent, emitted>>

\* The closing handshake ends after everything the peer had sent before it.
CleanClose(c) ==
  /\ ready[c] \in {"open", "closing"}
  /\ ~peerUp[c]
  /\ downlink[c] = <<>>
  /\ OnClose(c)

\* The connection cannot be made, or breaks: what is in flight never arrives.
ConnectionLost(c) ==
  /\ ready[c] \in {"connecting", "open", "closing"}
  /\ OnClose(c)

-----------------------------------------------------------------------------
(* The peer's side (external). *)

PeerReceives(c, r) ==
  /\ peerUp[c]
  /\ uplink[c] # <<>>
  /\ r = Head(uplink[c])
  /\ uplink' = [uplink EXCEPT ![c] = Tail(@)]
  /\ peerUp' = [peerUp EXCEPT ![c] = (r # Bye)]
  /\ UNCHANGED <<adapter, ready, handshake, stopCall, downlink, reads, sent, emitted>>

PeerSends(c, m) ==
  /\ peerUp[c]
  /\ m \notin Range(sent[c])
  /\ downlink' = [downlink EXCEPT ![c] = Append(@, m)]
  /\ sent' = [sent EXCEPT ![c] = Append(@, m)]
  /\ UNCHANGED <<adapter, ready, handshake, stopCall, uplink, reads, peerUp, emitted>>

PeerCloses(c) ==
  /\ peerUp[c]
  /\ peerUp' = [peerUp EXCEPT ![c] = FALSE]
  /\ UNCHANGED <<adapter, ready, handshake, stopCall, uplink, downlink, reads, sent, emitted>>

-----------------------------------------------------------------------------
Next ==
  \E c \in Conns :
    \/ SetupWebSocket(c)
    \/ OnOpen(c)
    \/ \E r \in Requests : Send(c, r)
    \/ \E k \in Closers : CloseAsync(c, k)
    \/ StartRead(c)
    \/ \E m \in Messages : OnMessage(c, m)
    \/ CleanClose(c)
    \/ ConnectionLost(c)
    \/ \E r \in Requests \cup {Hello, Bye} : PeerReceives(c, r)
    \/ \E m \in Messages : PeerSends(c, m)
    \/ PeerCloses(c)

Spec == Init /\ [][Next]_sockVars

HandshakeEnds(c) ==
  /\ ready[c] = "connecting"
  /\ OnOpen(c) \/ ConnectionLost(c)

\* What the event loop and the network owe: a handshake ends, a frame that has
\* arrived is handed over, a Blob read ends, the closing handshake ends.
\* Nobody owes a message, a stop or a failure.
Fairness ==
  \A c \in Conns :
    /\ WF_sockVars(HandshakeEnds(c))
    /\ WF_sockVars(StartRead(c))
    /\ \A m \in Messages : WF_sockVars(OnMessage(c, m))
    /\ WF_sockVars(\E r \in Requests \cup {Hello, Bye} : PeerReceives(c, r))
    /\ WF_sockVars(CleanClose(c))

FairSpec == Spec /\ Fairness

-----------------------------------------------------------------------------
\* With the node adapter the 'message' events are what the peer sent, in its
\* order, none lost and none twice; what is missing is still on the wire (or
\* was, when the connection broke).
InOrderDelivery ==
  adapter = "node" => \A c \in Conns : sent[c] = emitted[c] \o downlink[c]

\* Either adapter: no message is emitted twice, nor emitted while a read of it
\* is still pending; and until the client closes the socket or it breaks, each
\* message is on the wire, being read, or emitted.
NoMessageVanishes ==
  \A c \in Conns :
    /\ IsInjective(emitted[c] \o downlink[c])
    /\ reads[c] \cap Range(emitted[c] \o downlink[c]) = {}
    /\ ready[c] = "open" =>
         Range(sent[c]) = Range(emitted[c] \o downlink[c]) \cup reads[c]

\* stop() never hangs, however it races with the peer's close, another stop()
\* or a broken connection.
StopResolves ==
  \A c \in Conns : \A k \in Closers :
    stopCall[c][k] = "waiting" ~> stopCall[c][k] = "resolved"

\* Every message the peer sends reaches the listeners unless the socket leaves
\* the open state first; and even then it does if the native adapter had begun
\* to read its Blob.
MessagesReachListeners ==
  \A c \in Conns : \A m \in Messages :
    m \in Range(sent[c]) ~> \/ m \in Range(emitted[c])
                            \/ ready[c] # "open" /\ m \notin reads[c]
=============================================================================
