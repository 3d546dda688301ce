------------------------------- MODULE TestPeer -------------------------------
(***************************************************************************)
(* The peer that tests run against: startPeer of tests/support/test-peer,  *)
(* which spawns irohad and waits for its genesis, and the server of        *)
(* test-peer/api, whose /start and /kill handlers share one variable.      *)
(* A handler runs up to its await; what an event settles runs in the same  *)
(* step.  All the processes are given the same port; a child has the name  *)
(* of the request that spawned it.                                         *)
(***************************************************************************)
EXTENDS Naturals

CONSTANTS
  Starts, Kills,      \* requests to /start and to /kill
  Nobody              \* undefined

ASSUME NobodyAssumption == Nobody \notin Starts

VARIABLES
  peer,       \* the server's variable
  start,      \* where each /start is, or what it answered
  poll,       \* its waitForGenesis: asleep, or the status request it awaits
  late,       \* whether the deadline of its waitForGenesis has passed
  kill,       \* where each /kill is, or what it answered
  target,     \* the peer a /kill called kill() of
  child,      \* the process of each startPeer; "closed": isAlive is false
  blocks,     \* non-empty blocks in its storage, which is its own
  port,       \* the process that listens on the port
  server,     \* "down" after an exception nobody catches
  overlap     \* history: a /start began while another was under way

vars == <<peer, start, poll, late, kill, target, child, blocks, port, server, overlap>>

UnderWay == {"genesis", "race"}
Live == {"running", "stopping"}
MaxBlocks == 2      \* genesis, and what comes after it

Init ==
  /\ peer = Nobody /\ port = Nobody /\ server = "up" /\ overlap = FALSE
  /\ start = [s \in Starts |-> "new"] /\ poll = [s \in Starts |-> "asleep"]
  /\ late = [s \in Starts |-> FALSE]
  /\ kill = [k \in Kills |-> "new"] /\ target = [k \in Kills |-> Nobody]
  /\ child = [s \in Starts |-> "none"] /\ blocks = [s \in Starts |-> 0]

-----------------------------------------------------------------------------
(* /start *)

\* Faulty variant: does not look whether there is a peer.
StartUnguarded(s) ==
  /\ server = "up" /\ start[s] = "new"
  /\ start' = [start EXCEPT ![s] = "genesis"]
  /\ overlap' = (overlap \/ \E o \in Starts : start[o] \in UnderWay)
  /\ UNCHANGED <<peer, poll, late, kill, target, child, blocks, port, server>>

\* The handler up to `await createGenesis`.
StartCall(s) ==
  /\ server = "up" /\ start[s] = "new"
  /\ \/ /\ peer # Nobody
        /\ start' = [start EXCEPT ![s] = "refused"]      \* 400, Kill first
        /\ UNCHANGED overlap
     \/ /\ peer = Nobody
        /\ start' = [start EXCEPT ![s] = "genesis"]
        /\ overlap' = (overlap \/ \E o \in Starts : start[o] \in UnderWay)
  /\ UNCHANGED <<peer, poll, late, kill, target, child, blocks, port, server>>

\* createGenesis or a file that can not be written: nothing was spawned.
GenesisFails(s) ==
  /\ server = "up" /\ start[s] = "genesis"
  /\ start' = [start EXCEPT ![s] = "failed"]
  /\ UNCHANGED <<peer, poll, late, kill, target, child, blocks, port, server, overlap>>

\* spawn, and startPeer up to its race.  A binary that is not there is an
\* 'error' event of the child, to which nobody listens.
Spawn(s) ==
  /\ server = "up" /\ start[s] = "genesis"
  /\ start' = [start EXCEPT ![s] = "race"]
  /\ \/ child' = [child EXCEPT ![s] = "running"] /\ UNCHANGED server
     \/ server' = "down" /\ UNCHANGED child
  /\ UNCHANGED <<peer, poll, late, kill, target, blocks, port, overlap>>

DeadlinePasses(s) ==
  /\ server = "up" /\ start[s] = "race" /\ ~late[s]
  /\ late' = [late EXCEPT ![s] = TRUE]
  /\ UNCHANGED <<peer, start, poll, kill, target, child, blocks, port, server, overlap>>

\* Faulty variant: the deadline is not looked at.
LoopForever(s) ==
  /\ server = "up" /\ start[s] = "race" /\ poll[s] = "asleep"
  /\ poll' = [poll EXCEPT ![s] = "asking"]
  /\ UNCHANGED <<peer, start, late, kill, target, child, blocks, port, server, overlap>>

\* waitForGenesis: the head of the loop.  When it throws, startPeer does,
\* and leaves the process it spawned.
Loop(s) ==
  /\ server = "up" /\ start[s] = "race" /\ poll[s] = "asleep"
  /\ \/ late[s] /\ start' = [start EXCEPT ![s] = "timeout"] /\ UNCHANGED poll
     \/ ~late[s] /\ poll' = [poll EXCEPT ![s] = "asking"] /\ UNCHANGED start
  /\ UNCHANGED <<peer, late, kill, target, child, blocks, port, server, overlap>>

\* Whoever has the port answers the status request.
StatusAnswered(s) ==
  /\ start[s] = "race" /\ poll[s] = "asking"
  /\ poll' = [poll EXCEPT ![s] =
                IF port # Nobody /\ blocks[port] = 1 THEN "committed" ELSE "not yet"]
  /\ UNCHANGED <<peer, start, late, kill, target, child, blocks, port, server, overlap>>

\* The answer reaches the loop: out of it, out of the race and, in the
\* handler, to the assignment; or to sleep.
GotStatus(s) ==
  /\ server = "up" /\ start[s] = "race"
  /\ \/ /\ poll[s] = "committed"
        /\ start' = [start EXCEPT ![s] = "started"]
        /\ peer' = s
        /\ UNCHANGED poll
     \/ /\ poll[s] = "not yet"
        /\ poll' = [poll EXCEPT ![s] = "asleep"]
        /\ UNCHANGED <<start, peer>>
  /\ UNCHANGED <<late, kill, target, child, blocks, port, server, overlap>>

-----------------------------------------------------------------------------
(* /kill, and the process *)

\* Faulty variant: forgets the peer when it has asked it to stop.
KillAtOnce(k) ==
  /\ server = "up" /\ kill[k] = "new" /\ peer # Nobody /\ child[peer] # "closed"
  /\ kill' = [kill EXCEPT ![k] = "killed"] /\ target' = [target EXCEPT ![k] = peer]
  /\ child' = [child EXCEPT ![peer] = IF @ = "running" THEN "stopping" ELSE @]
  /\ peer' = Nobody
  /\ UNCHANGED <<start, poll, late, blocks, port, server, overlap>>

\* The handler and kill() up to `await exitPromise`.
KillCall(k) ==
  /\ server = "up" /\ kill[k] = "new"
  /\ \/ /\ peer = Nobody
        /\ kill' = [kill EXCEPT ![k] = "not alive"]
        /\ UNCHANGED <<target, child>>
     \/ /\ peer # Nobody /\ child[peer] = "closed"
        /\ kill' = [kill EXCEPT ![k] = "already dead"]      \* kill() throws
        /\ UNCHANGED <<target, child>>
     \/ /\ peer # Nobody /\ child[peer] # "closed"
        /\ kill' = [kill EXCEPT ![k] = "waiting"] /\ target' = [target EXCEPT ![k] = peer]
        /\ child' = [child EXCEPT ![peer] = IF @ = "running" THEN "stopping" ELSE @]
  /\ UNCHANGED <<peer, start, poll, late, blocks, port, server, overlap>>

Listens(c) ==
  /\ child[c] = "running" /\ port = Nobody
  /\ port' = c
  /\ UNCHANGED <<peer, start, poll, late, kill, target, child, blocks, server, overlap>>

Commits(c) ==
  /\ port = c /\ child[c] = "running" /\ blocks[c] < MaxBlocks
  /\ blocks' = [blocks EXCEPT ![c] = @ + 1]
  /\ UNCHANGED <<peer, start, poll, late, kill, target, child, port, server, overlap>>

\* With a code, or by a signal it does not handle.
Exits(c) ==
  /\ child[c] \in Live
  /\ \E how \in {"exited", "signalled"} : child' = [child EXCEPT ![c] = how]
  /\ port' = IF port = c THEN Nobody ELSE port
  /\ UNCHANGED <<peer, start, poll, late, kill, target, blocks, server, overlap>>

Waiting(c) == {k \in Kills : kill[k] = "waiting" /\ target[k] = c}

\* The 'close' event of a process that exited with a code: exitPromise
\* resolves; a startPeer that still races throws, and the /kill handlers that
\* wait set `peer`, whichever it is, to undefined.
Closes(c) ==
  /\ server = "up" /\ child[c] = "exited"
  /\ child' = [child EXCEPT ![c] = "closed"]
  /\ start' = [start EXCEPT ![c] = IF @ = "race" THEN "died" ELSE @]
  /\ kill' = [k \in Kills |-> IF k \in Waiting(c) THEN "killed" ELSE kill[k]]
  /\ peer' = IF Waiting(c) # {} THEN Nobody ELSE peer
  /\ UNCHANGED <<poll, late, target, blocks, port, server, overlap>>

\* Without a code: the assert in the listener throws.
ClosesWithoutCode(c) ==
  /\ server = "up" /\ child[c] = "signalled"
  /\ child' = [child EXCEPT ![c] = "closed"]
  /\ server' = "down"
  /\ UNCHANGED <<peer, start, poll, late, kill, target, blocks, port, overlap>>

Handler(s) == Spawn(s) \/ GenesisFails(s) \/ Loop(s) \/ StatusAnswered(s) \/ GotStatus(s)

Next ==
  \/ \E s \in Starts : \/ StartCall(s) \/ Handler(s) \/ DeadlinePasses(s)
                       \/ Listens(s) \/ Commits(s) \/ Exits(s)
                       \/ Closes(s) \/ ClosesWithoutCode(s)
  \/ \E k \in Kills : KillCall(k)

Spec == Init /\ [][Next]_vars

\* Timers fire, status requests and events are answered, and a process that
\* was sent SIGTERM stops.
Fairness ==
  \A s \in Starts :
    /\ WF_vars(Handler(s)) /\ WF_vars(DeadlinePasses(s))
    /\ WF_vars(Closes(s) \/ ClosesWithoutCode(s))
    /\ WF_vars(child[s] = "stopping" /\ Exits(s))

FairSpec == Spec /\ Fairness

-----------------------------------------------------------------------------
StartStates == UnderWay \cup {"new", "refused", "failed", "timeout", "started", "died"}
PollStates == {"asleep", "asking", "committed", "not yet"}
KillStates == {"new", "waiting", "not alive", "already dead", "killed"}
ChildStates == Live \cup {"none", "exited", "signalled", "closed"}

TypeOK ==
  /\ peer \in Starts \cup {Nobody} /\ port \in Starts \cup {Nobody}
  /\ start \in [Starts -> StartStates] /\ poll \in [Starts -> PollStates]
  /\ late \in [Starts -> BOOLEAN]
  /\ kill \in [Kills -> KillStates] /\ target \in [Kills -> Starts \cup {Nobody}]
  /\ child \in [Starts -> ChildStates] /\ blocks \in [Starts -> 0 .. MaxBlocks]
  /\ server \in {"up", "down"} /\ overlap \in BOOLEAN

TimedOut == \E s \in Starts : start[s] = "timeout"

\* A process that runs can be stopped: it is the server's peer or a /start is
\* waiting for it.  What escapes is what a deadline abandoned, or what two
\* /start requests at a time overwrote.
NothingEscapes ==
  server = "up" /\ ~overlap =>
    \A c \in Starts : child[c] \in Live => peer = c \/ start[c] \in {"race", "timeout"}

\* A peer that is reported as started is the one whose genesis was seen, as
\* long as no earlier process was left with the port.
SawItsOwnGenesis ==
  ~overlap /\ ~TimedOut => \A s \in Starts : start[s] = "started" => blocks[s] > 0

\* A /kill that says the peer is killed comes after its end, and the server
\* no longer takes it for its peer.
KilledIsGone ==
  \A k \in Kills : kill[k] = "killed" => child[target[k]] = "closed" /\ peer # target[k]

\* Every request is answered, as long as the server is up: a start that
\* nobody confirms meets its deadline, and a kill the end of the process.
EveryCallAnswered ==
  /\ \A s \in Starts : start[s] \in UnderWay ~> start[s] \notin UnderWay \/ server = "down"
  /\ \A k \in Kills : kill[k] = "waiting" ~> kill[k] # "waiting" \/ server = "down"
=============================================================================
