------------------------------ MODULE TxSubmit ------------------------------
(***************************************************************************)
(* `TransactionHandle.submit` (client.ts): several calls of it for one     *)
(* signed transaction, each with `verify` or without.  A verifying call    *)
(* opens an events stream of its own (WebSocketAPI.events), then POSTs the *)
(* transaction, then waits for a promise, `confirmation`, that the         *)
(* stream's listeners and the abort signal settle, whoever comes first.    *)
(*                                                                         *)
(* The peer (external) queues a transaction once, decides it once, and     *)
(* tells the streams that are subscribed at that moment.  The POST and the *)
(* streams are different connections: nothing orders them.                 *)
(***************************************************************************)
EXTENDS Naturals, Sequences, Functions

CONSTANTS
  Calls,      \* calls of submit(); each names its own connection
  Verifying   \* those with params.verify

ASSUME VerifyingAssumption == Verifying \subseteq Calls

VARIABLES
  adapter, ready, handshake, stopCall, uplink, downlink, reads, peerUp, sent, emitted,
  pc,            \* where each call is
  post,          \* its POST /transaction
  confirmation,  \* its deferred, "none" before defer()
  outcome,       \* what its promise settled with
  aborted,       \* verifyAbort has fired
  unhandled,     \* `confirmation` was rejected with nobody awaiting it
  fate,          \* the peer: the transaction's status
  subscribed,    \* the peer: streams whose filters it has read
  backlog        \* the peer: events a stream's task has still to send

Terminal == {"Approved", "Rejected", "Expired"}
Statuses == Terminal \cup {"Queued"}

Sock == INSTANCE EventSocket WITH
          Conns <- Calls, Closers <- {"submit"}, Messages <- Statuses,
          Hello <- "Subscribe", Requests <- {}, Bye <- "Close", MaxUplink <- 0

sockVars == <<adapter, ready, handshake, stopCall, uplink, downlink, reads, peerUp, sent, emitted>>
callVars == <<pc, post, confirmation, outcome, aborted, unhandled>>
peerVars == <<fate, subscribed, backlog>>
vars     == <<sockVars, callVars, peerVars>>

\* "stopping": submit has resumed in a microtask and reaches `finally`.
Places        == {"idle", "plain", "subscribing", "posting", "confirming", "stopping", "settled"}
PostStates    == {"none", "sent", "accepted", "refused", "ok", "failed"}
Confirmations == Terminal \cup {"none", "pending", "Closed", "Aborted"}
Outcomes      == Terminal \cup {"none", "Sent", "Closed", "Aborted", "PostError", "HandshakeError"}

TypeOK ==
  /\ Sock!TypeOK
  /\ pc \in [Calls -> Places]
  /\ post \in [Calls -> PostStates]
  /\ confirmation \in [Calls -> Confirmations]
  /\ outcome \in [Calls -> Outcomes]
  /\ aborted \in [Calls -> BOOLEAN]
  /\ unhandled \in [Calls -> BOOLEAN]
  /\ fate \in Terminal \cup {"none", "Queued"}
  /\ subscribed \subseteq Calls
  /\ backlog \in [Calls -> Seq(Statuses)]
  /\ \A c \in Calls :
       /\ pc[c] = "settled" <=> outcome[c] # "none"
       /\ pc[c] = "confirming" => post[c] = "ok" /\ confirmation[c] = "pending"
       /\ pc[c] = "posting" => post[c] \in {"sent", "accepted", "refused"}
       /\ confirmation[c] # "none" => handshake[c] = "accepted"

Init ==
  /\ Sock!Init
  /\ pc = [c \in Calls |-> "idle"]
  /\ post = [c \in Calls |-> "none"]
  /\ confirmation = [c \in Calls |-> "none"]
  /\ outcome = [c \in Calls |-> "none"]
  /\ aborted = [c \in Calls |-> FALSE]
  /\ unhandled = [c \in Calls |-> FALSE]
  /\ fate = "none"
  /\ subscribed = {}
  /\ backlog = [c \in Calls |-> <<>>]

\* A call that resumes runs to its end before the next task of the event loop.
Busy == \E c \in Calls : pc[c] = "stopping"

-----------------------------------------------------------------------------
(* submit() *)

SubmitPlain(c) ==
  /\ ~Busy
  /\ pc[c] = "idle" /\ c \notin Verifying
  /\ pc' = [pc EXCEPT ![c] = "plain"]
  /\ post' = [post EXCEPT ![c] = "sent"]
  /\ UNCHANGED <<sockVars, peerVars, confirmation, outcome, aborted, unhandled>>

SubmitVerify(c) ==
  /\ ~Busy
  /\ pc[c] = "idle" /\ c \in Verifying
  /\ Sock!SetupWebSocket(c)
  /\ pc' = [pc EXCEPT ![c] = "subscribing"]
  /\ UNCHANGED <<peerVars, post, confirmation, outcome, aborted, unhandled>>

\* events() resolves: defer(), the listeners, and the POST, in one task.
Opened(c) ==
  /\ ~Busy
  /\ Sock!OnOpen(c)
  /\ pc' = [pc EXCEPT ![c] = "posting"]
  /\ confirmation' = [confirmation EXCEPT ![c] = "pending"]
  /\ post' = [post EXCEPT ![c] = "sent"]
  /\ UNCHANGED <<peerVars, outcome, aborted, unhandled>>

\* Faulty variants: the last verdict counts; each rejection is a promise of
\* its own.
ConfirmLast(c, v) ==
  IF confirmation[c] = "none" \/ pc[c] \in {"stopping", "settled"}
  THEN UNCHANGED <<pc, confirmation, unhandled>>
  ELSE /\ confirmation' = [confirmation EXCEPT ![c] = v]
       /\ pc' = [pc EXCEPT ![c] = IF @ = "confirming" THEN "stopping" ELSE @]
       /\ UNCHANGED unhandled

ConfirmEach(c, v) ==
  IF confirmation[c] = "none" THEN UNCHANGED <<pc, confirmation, unhandled>>
  ELSE /\ confirmation' = [confirmation EXCEPT ![c] = IF @ = "pending" THEN v ELSE @]
       /\ pc' = [pc EXCEPT ![c] = IF @ = "confirming" THEN "stopping" ELSE @]
       /\ unhandled' = [unhandled EXCEPT ![c] =
                          @ \/ (v # "Approved" /\ pc[c] # "confirming")]

\* confirmation.resolve / .reject: only the first one counts, and a rejection
\* is handled only if `await confirmation.promise` has been reached.
Confirm(c, v) ==
  IF confirmation[c] # "pending"
  THEN UNCHANGED <<pc, confirmation, unhandled>>
  ELSE /\ confirmation' = [confirmation EXCEPT ![c] = v]
       /\ pc' = [pc EXCEPT ![c] = IF @ = "confirming" THEN "stopping" ELSE @]
       /\ unhandled' = [unhandled EXCEPT ![c] =
                          @ \/ (v # "Approved" /\ pc[c] # "confirming")]

\* Faulty variants: every status but Rejected and Expired resolves; Expired is
\* not heard.
OnEventAny(c, status) ==
  /\ ~Busy
  /\ Sock!OnMessage(c, status)
  /\ Confirm(c, IF status = "Queued" THEN "Approved" ELSE status)
  /\ UNCHANGED <<peerVars, post, outcome, aborted>>

OnEventNoExpiry(c, status) ==
  /\ ~Busy
  /\ Sock!OnMessage(c, status)
  /\ IF status \in {"Approved", "Rejected"} THEN Confirm(c, status)
                            ELSE UNCHANGED <<pc, confirmation, unhandled>>
  /\ UNCHANGED <<peerVars, post, outcome, aborted>>

\* The 'event' listener: a status that is not terminal changes nothing.
OnEvent(c, status) ==
  /\ ~Busy
  /\ Sock!OnMessage(c, status)
  /\ IF status \in Terminal THEN Confirm(c, status)
                            ELSE UNCHANGED <<pc, confirmation, unhandled>>
  /\ UNCHANGED <<peerVars, post, outcome, aborted>>

StartRead(c) ==
  /\ ~Busy
  /\ Sock!StartRead(c)
  /\ UNCHANGED <<callVars, peerVars>>

\* 'close': before the handshake events() rejects, and so does submit, outside
\* its `try`; afterwards the listener rejects the confirmation.
Disconnected(c) ==
  /\ IF pc[c] = "subscribing"
     THEN /\ pc' = [pc EXCEPT ![c] = "settled"]
          /\ outcome' = [outcome EXCEPT ![c] = "HandshakeError"]
          /\ UNCHANGED <<confirmation, unhandled>>
     ELSE Confirm(c, "Closed") /\ UNCHANGED outcome
  /\ UNCHANGED <<peerVars, post, aborted>>

CleanClose(c)     == ~Busy /\ Sock!CleanClose(c) /\ Disconnected(c)
ConnectionLost(c) == ~Busy /\ Sock!ConnectionLost(c) /\ Disconnected(c)

\* The signal fires: heard only once its listener is there.
Abort(c) ==
  /\ ~Busy
  /\ ~aborted[c]
  /\ pc[c] \notin {"idle", "plain"}
  /\ aborted' = [aborted EXCEPT ![c] = TRUE]
  /\ Confirm(c, "Aborted")
  /\ UNCHANGED <<sockVars, peerVars, post, outcome>>

\* Faulty variant: the confirmation is an event, not a promise.
PostOkWaits(c) ==
  /\ ~Busy
  /\ post[c] = "accepted"
  /\ post' = [post EXCEPT ![c] = "ok"]
  /\ pc' = [pc EXCEPT ![c] = IF @ = "plain" THEN "settled" ELSE "confirming"]
  /\ outcome' = [outcome EXCEPT ![c] = IF pc[c] = "plain" THEN "Sent" ELSE @]
  /\ UNCHANGED <<sockVars, peerVars, confirmation, aborted, unhandled>>

\* `await api.transaction` returns: go on to the confirmation, settled or not.
PostOk(c) ==
  /\ ~Busy
  /\ post[c] = "accepted"
  /\ post' = [post EXCEPT ![c] = "ok"]
  /\ pc' = [pc EXCEPT ![c] = IF @ = "plain" THEN "settled"
                             ELSE IF confirmation[c] = "pending" THEN "confirming"
                             ELSE "stopping"]
  /\ outcome' = [outcome EXCEPT ![c] = IF pc[c] = "plain" THEN "Sent" ELSE @]
  /\ UNCHANGED <<sockVars, peerVars, confirmation, aborted, unhandled>>

\* It throws: a status other than 200, or the request or its answer is lost.
PostFails(c) ==
  /\ ~Busy
  /\ post[c] \in {"sent", "accepted", "refused"}
  /\ post' = [post EXCEPT ![c] = "failed"]
  /\ pc' = [pc EXCEPT ![c] = IF @ = "plain" THEN "settled" ELSE "stopping"]
  /\ outcome' = [outcome EXCEPT ![c] = IF pc[c] = "plain" THEN "PostError" ELSE @]
  /\ UNCHANGED <<sockVars, peerVars, confirmation, aborted, unhandled>>

\* Faulty variant: stop() only after success.
FinishWithoutFinally(c) ==
  /\ pc[c] = "stopping"
  /\ IF confirmation[c] = "Approved" THEN Sock!CloseAsync(c, "submit") ELSE UNCHANGED sockVars
  /\ pc' = [pc EXCEPT ![c] = "settled"]
  /\ outcome' = [outcome EXCEPT ![c] = IF post[c] = "failed" THEN "PostError"
                                                             ELSE confirmation[c]]
  /\ UNCHANGED <<peerVars, post, confirmation, aborted, unhandled>>

\* `finally { stream.stop() }`, not awaited; then submit's promise settles.
Finish(c) ==
  /\ pc[c] = "stopping"
  /\ Sock!CloseAsync(c, "submit")
  /\ pc' = [pc EXCEPT ![c] = "settled"]
  /\ outcome' = [outcome EXCEPT ![c] = IF post[c] = "failed" THEN "PostError"
                                                             ELSE confirmation[c]]
  /\ UNCHANGED <<peerVars, post, confirmation, aborted, unhandled>>

-----------------------------------------------------------------------------
(* The peer (external) *)

\* An event goes to the streams subscribed when it happens.
Broadcast(status) ==
  backlog' = [c \in Calls |-> IF c \in subscribed THEN Append(backlog[c], status)
                                                  ELSE backlog[c]]

PeerSubscribes(c) ==
  /\ \/ Sock!PeerReceives(c, "Subscribe") /\ subscribed' = subscribed \cup {c}
     \/ Sock!PeerReceives(c, "Close") /\ subscribed' = subscribed \ {c}
  /\ UNCHANGED <<callVars, fate, backlog>>

PeerSendsEvent(c) ==
  /\ backlog[c] # <<>>
  /\ Sock!PeerSends(c, Head(backlog[c]))
  /\ backlog' = [backlog EXCEPT ![c] = Tail(@)]
  /\ UNCHANGED <<callVars, fate, subscribed>>

PeerCloses(c) ==
  /\ Sock!PeerCloses(c)
  /\ UNCHANGED <<callVars, peerVars>>

\* A transaction is queued once; a repeated one is refused, as any may be.
PeerQueues(c) ==
  /\ post[c] = "sent"
  /\ fate = "none"
  /\ post' = [post EXCEPT ![c] = "accepted"]
  /\ fate' = "Queued"
  /\ Broadcast("Queued")
  /\ UNCHANGED <<sockVars, pc, confirmation, outcome, aborted, unhandled, subscribed>>

PeerRefuses(c) ==
  /\ post[c] = "sent"
  /\ post' = [post EXCEPT ![c] = "refused"]
  /\ UNCHANGED <<sockVars, peerVars, pc, confirmation, outcome, aborted, unhandled>>

PeerDecides(status) ==
  /\ fate = "Queued"
  /\ fate' = status
  /\ Broadcast(status)
  /\ UNCHANGED <<sockVars, callVars, subscribed>>

-----------------------------------------------------------------------------
Client(c) ==
  \/ SubmitPlain(c) \/ SubmitVerify(c) \/ Opened(c)
  \/ \E status \in Statuses : OnEvent(c, status)
  \/ StartRead(c) \/ CleanClose(c) \/ ConnectionLost(c)
  \/ Abort(c) \/ PostOk(c) \/ PostFails(c) \/ Finish(c)

Peer(c) ==
  \/ PeerSubscribes(c) \/ PeerSendsEvent(c) \/ PeerCloses(c)
  \/ PeerQueues(c) \/ PeerRefuses(c)

Next ==
  \/ \E c \in Calls : Client(c) \/ Peer(c)
  \/ \E status \in Terminal : PeerDecides(status)

Spec == Init /\ [][Next]_vars

\* A POST is answered or fails, the streams deliver, close and are served, and
\* microtasks run.  Nobody owes a decision, an abort or a loss.
Fairness ==
  \A c \in Calls :
    /\ WF_vars(Finish(c))
    /\ WF_vars(Opened(c))
    /\ WF_vars(PostOk(c) \/ PostFails(c))
    /\ WF_vars(StartRead(c)) /\ WF_vars(CleanClose(c))
    /\ \A status \in Statuses : WF_vars(OnEvent(c, status))
    /\ WF_vars(PeerSubscribes(c)) /\ WF_vars(PeerSendsEvent(c))

FairSpec == Spec /\ Fairness

-----------------------------------------------------------------------------
\* What submit reports about the transaction is what the peer decided, however
\* events, POST answer, close and abort interleave, and with several calls.
OutcomeIsFate ==
  \A c \in Calls : outcome[c] \in Terminal => outcome[c] = fate

\* 'Events stream was unexpectedly closed' is reported only when the stream
\* had given no verdict.  (A native Blob read may end after 'close'.)
ClosedOnlyWithoutVerdict ==
  \A c \in Calls :
    outcome[c] = "Closed" /\ adapter = "node" => Range(emitted[c]) \cap Terminal = {}

\* A submit that resolves leaves no rejected promise behind, before or after
\* its stream closes.
SuccessIsQuiet ==
  \A c \in Calls : outcome[c] = "Approved" => ~unhandled[c]

\* The streams that were not subscribed when the peer decided hear nothing.
Missed(c) ==
  /\ fate \in Terminal
  /\ fate \notin Range(sent[c]) \cup Range(backlog[c])

\* Once the peer has decided, a verifying submit settles, unless its own
\* subscription came too late to hear of it.
DecisionSettlesSubmit ==
  \A c \in Calls :
    fate \in Terminal /\ pc[c] \in {"subscribing", "posting", "confirming"}
      ~> pc[c] = "settled" \/ Missed(c)

\* However submit ends, its socket is closed in the end.
StreamIsReleased ==
  \A c \in Calls : pc[c] = "settled" ~> ready[c] \in {"none", "closed"}

\* client.ts:205, "do not throw on `POST /transaction` rejection": once submit
\* has failed with the POST's error, the close of the stream it stops itself
\* rejects nothing.
PostFailureIsQuiet ==
  [][\A c \in Calls :
       outcome[c] = "PostError" /\ confirmation'[c] = "Closed" =>
         unhandled'[c] = unhandled[c]]_vars
=============================================================================
