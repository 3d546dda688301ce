---------------------------- MODULE BlocksStream ----------------------------
(***************************************************************************)
(* `WebSocketAPI.blocksStream` and the generator `lazyBlocks` (api-ws.ts)  *)
(* over one EventSocket, with the peer that serves the blocks (external)   *)
(* and a consumer that calls next(), return() and stop() when it likes.    *)
(*                                                                         *)
(* The generator asks for one block per next(), by a Next frame, and waits *)
(* for whichever comes first of a 'block' and a 'close' event.             *)
(***************************************************************************)
EXTENDS Naturals, Sequences, FiniteSets, SequencesExt

CONSTANTS
  Stream,      \* the connection
  Closers,     \* the callers of stop()
  FromHeight,  \* params.fromBlockHeight, 1 when it is left out
  MaxHeight,   \* bound: the longest chain considered
  MaxCalls     \* bound: calls of next() and return() by the consumer

ASSUME BlocksStreamAssumption == /\ FromHeight \in Nat \ {0}
                                 /\ MaxHeight \in Nat
                                 /\ MaxCalls \in Nat

VARIABLES
  adapter, ready, handshake, stopCall, uplink, downlink, reads, peerUp, sent, emitted,
  chain,       \* the peer: height of the last committed block
  nextHeight,  \* the peer: the block it will send next, 0 before Subscribe
  credit,      \* the peer: Next frames received and not yet answered
  gen,         \* the generator's state
  calls,       \* the AsyncGenerator's queue of unsettled next()/return() calls
  results      \* what the settled calls gave: a block's height or Done

Done == 0
Heights == FromHeight .. MaxHeight

Sock == INSTANCE EventSocket WITH
          Conns <- {Stream}, Messages <- Heights,
          Hello <- "Subscribe", Requests <- {"Next"}, Bye <- "Close", MaxUplink <- 2

Feed == INSTANCE BlockFeed

sockVars == <<adapter, ready, handshake, stopCall, uplink, downlink, reads, peerUp, sent, emitted>>
genVars  == <<gen, calls, results>>
peerVars == <<chain, nextHeight, credit>>
vars     == <<sockVars, genVars, peerVars>>

\* "none": blocksStream() has not returned; "fresh": no next() yet;
\* "awaiting": at `await resultDeferred.promise`; "suspended": at the yield.
GenStates == {"none", "fresh", "awaiting", "suspended", "returned"}

TypeOK ==
  /\ Sock!TypeOK
  /\ chain \in 0 .. MaxHeight
  /\ nextHeight \in 0 .. MaxHeight + FromHeight
  /\ credit \in 0 .. MaxCalls
  /\ gen \in GenStates
  /\ calls \in Seq({"next", "return"})
  /\ results \in Seq(Heights \cup {Done})
  /\ Len(calls) + Len(results) <= MaxCalls
  /\ gen = "none" <=> handshake[Stream] # "accepted"
  /\ gen = "awaiting" => calls # <<>> /\ Head(calls) = "next"
  /\ gen = "returned" <=> results # <<>> /\ Last(results) = Done

Init ==
  /\ Sock!Init
  /\ chain = 0 /\ nextHeight = 0 /\ credit = 0
  /\ gen = "none" /\ calls = <<>> /\ results = <<>>

-----------------------------------------------------------------------------
(* The generator.  Resuming it is a microtask: no socket event and no call   *)
(* of the consumer comes before it.                                          *)

Busy == calls # <<>> /\ gen \in {"fresh", "suspended", "returned"}

Settle(r) ==
  /\ results' = Append(results, r)
  /\ calls' = Tail(calls)

\* A call while the generator runs waits in its queue.
Call(kind) ==
  /\ ~Busy
  /\ gen # "none"
  /\ Len(calls) + Len(results) < MaxCalls
  /\ calls' = Append(calls, kind)
  /\ UNCHANGED <<sockVars, gen, results, peerVars>>

\* Faulty variants: sendNext() hoisted out of the loop; called twice in it.
ResumeNextHoisted ==
  /\ Busy /\ gen # "returned" /\ Head(calls) = "next"
  /\ IF gen = "fresh" THEN Sock!Send(Stream, "Next") ELSE UNCHANGED sockVars
  /\ gen' = "awaiting"
  /\ UNCHANGED <<calls, results, peerVars>>

ResumeNextTwice ==
  /\ Busy /\ gen # "returned" /\ Head(calls) = "next"
  /\ uplink' = [uplink EXCEPT ![Stream] =
                  IF ready[Stream] = "open" THEN @ \o <<"Next", "Next">> ELSE @]
  /\ gen' = "awaiting"
  /\ UNCHANGED <<adapter, ready, handshake, stopCall, downlink, reads, peerUp, sent, emitted>>
  /\ UNCHANGED <<calls, results, peerVars>>

\* The loop's head: sendNext(), then both `once` listeners.
ResumeNext ==
  /\ Busy /\ gen # "returned" /\ Head(calls) = "next"
  /\ Sock!Send(Stream, "Next")
  /\ gen' = "awaiting"
  /\ UNCHANGED <<calls, results, peerVars>>

\* return() at the start or at the yield, and any call after the end.
ResumeEnd ==
  /\ Busy /\ (gen = "returned" \/ Head(calls) = "return")
  /\ Settle(Done)
  /\ gen' = "returned"
  /\ UNCHANGED <<sockVars, peerVars>>

\* Faulty variant: a block nobody waits for is kept for the consumer.
GotBlockKept(m) ==
  IF gen = "awaiting" THEN gen' = "suspended" /\ Settle(m)
                      ELSE results' = Append(results, m) /\ UNCHANGED <<gen, calls>>

\* 'block': the waiting iteration yields it; else nobody listens.
GotBlock(m) ==
  IF gen = "awaiting" THEN gen' = "suspended" /\ Settle(m)
                      ELSE UNCHANGED genVars

\* Faulty variant: the loop goes on to its next iteration.
HaltedNot == UNCHANGED genVars

\* 'close': the waiting iteration returns; else nobody listens.
Halted ==
  IF gen = "awaiting" THEN gen' = "returned" /\ Settle(Done)
                      ELSE UNCHANGED genVars

-----------------------------------------------------------------------------
(* Socket events and stop(). *)

\* Faulty variant: blocksStream() returns without `await accepted()`.
SetupUnawaited ==
  /\ Sock!SetupWebSocket(Stream)
  /\ gen' = "fresh"
  /\ UNCHANGED <<calls, results, peerVars>>

Setup ==
  /\ Sock!SetupWebSocket(Stream)
  /\ UNCHANGED <<genVars, peerVars>>

\* accepted() resolves and blocksStream() returns the generator.
Opened ==
  /\ Sock!OnOpen(Stream)
  /\ gen' = "fresh"
  /\ UNCHANGED <<calls, results, peerVars>>

StartRead ==
  /\ ~Busy
  /\ Sock!StartRead(Stream)
  /\ UNCHANGED <<genVars, peerVars>>

OnMessage(m) ==
  /\ ~Busy
  /\ Sock!OnMessage(Stream, m)
  /\ GotBlock(m)
  /\ UNCHANGED peerVars

CleanClose ==
  /\ ~Busy
  /\ Sock!CleanClose(Stream)
  /\ Halted
  /\ UNCHANGED peerVars

ConnectionLost ==
  /\ ~Busy
  /\ Sock!ConnectionLost(Stream)
  /\ Halted
  /\ UNCHANGED peerVars

Stop(k) ==
  /\ ~Busy
  /\ Sock!CloseAsync(Stream, k)
  /\ UNCHANGED <<genVars, peerVars>>

-----------------------------------------------------------------------------
(* The peer (external): one block per Next, in order, once it is committed.  *)

PeerReceives(r) ==
  /\ Sock!PeerReceives(Stream, r)
  /\ nextHeight' = IF r = "Subscribe" THEN FromHeight ELSE nextHeight
  /\ credit' = IF r = "Next" THEN credit + 1 ELSE credit
  /\ UNCHANGED <<genVars, chain>>

PeerSendsBlock ==
  /\ credit > 0
  /\ nextHeight \in FromHeight .. chain
  /\ Sock!PeerSends(Stream, nextHeight)
  /\ nextHeight' = nextHeight + 1
  /\ credit' = credit - 1
  /\ UNCHANGED <<genVars, chain>>

PeerCloses ==
  /\ Sock!PeerCloses(Stream)
  /\ UNCHANGED <<genVars, peerVars>>

Commit ==
  /\ chain < MaxHeight
  /\ chain' = chain + 1
  /\ UNCHANGED <<sockVars, genVars, nextHeight, credit>>

-----------------------------------------------------------------------------
Next ==
  \/ Setup \/ Opened \/ StartRead \/ CleanClose \/ ConnectionLost
  \/ \E m \in Heights : OnMessage(m)
  \/ \E k \in Closers : Stop(k)
  \/ \E kind \in {"next", "return"} : Call(kind)
  \/ ResumeNext \/ ResumeEnd
  \/ \E r \in {"Subscribe", "Next", "Close"} : PeerReceives(r)
  \/ PeerSendsBlock \/ PeerCloses \/ Commit

Spec == Init /\ [][Next]_vars

\* The event loop runs its microtasks and the tasks of the socket; the peer
\* reads its frames and sends a block it has and owes.  Nobody owes a commit,
\* a call or a close.
Fairness ==
  /\ WF_vars(ResumeNext) /\ WF_vars(ResumeEnd)
  /\ WF_vars(StartRead) /\ WF_vars(CleanClose)
  /\ \A m \in Heights : WF_vars(OnMessage(m))
  /\ WF_vars(\E r \in {"Subscribe", "Next", "Close"} : PeerReceives(r))
  /\ WF_vars(PeerSendsBlock)

FairSpec == Spec /\ Fairness

-----------------------------------------------------------------------------
Asked(q)  == {i \in DOMAIN q : q[i] = "Next"}
Requested == Cardinality(Asked(uplink[Stream])) + credit
InFlight  == Len(downlink[Stream]) + Cardinality(reads[Stream])

\* Demand and supply match over the whole loop client -> wire -> peer -> wire
\* -> client: while the socket is open there is exactly one Next or block under
\* way for a waiting next(), and none when no next() waits.  Hence no block can
\* arrive with nobody listening.
OneOutstanding ==
  /\ Requested + InFlight <= 1
  /\ ready[Stream] = "open" =>
       Requested + InFlight = (IF gen = "awaiting" THEN 1 ELSE 0)

\* Every block the socket emits is yielded, in order, though no block is ever
\* buffered; only the native adapter can lose one, to a close that overtakes it.
NoBlockDropped ==
  adapter = "node" \/ ready[Stream] = "open" =>
    /\ Len(emitted[Stream]) <= Len(results)
    /\ \A i \in DOMAIN results :
         results[i] = IF i <= Len(emitted[Stream]) THEN emitted[Stream][i] ELSE Done

\* The consumer sees the abstract feed: consecutive heights from FromHeight,
\* each committed, then Done for ever.
ImplementsFeed == Feed!Spec

\* A next() that waits when the socket closes ends at that very event.  (One
\* called after it waits for ever: 'close' is not emitted again.)
CloseReleasesWaiter ==
  [][ready[Stream]' = "closed" => gen' # "awaiting" \/ ready[Stream] = "closed"]_vars

\* A waiting next() whose block is committed settles, whatever stop(), the
\* peer and the network do meanwhile, unless it was called on a closed socket.
CommittedBlockArrives ==
  gen = "awaiting" /\ ready[Stream] # "closed" /\ chain >= FromHeight + Len(results)
    ~> gen # "awaiting"
=============================================================================
