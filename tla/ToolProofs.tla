------------------------------ MODULE ToolProofs ------------------------------
(***************************************************************************)
(* Proofs about the tools around the packages, which have nothing to do    *)
(* with each other: the test peer, for any number of requests to /start    *)
(* and /kill, and then the preparation of Iroha, for any revisions and     *)
(* clones and any number of runs, each interrupted anywhere.               *)
(***************************************************************************)
EXTENDS TestPeer, PrepIroha, TLAPS

-----------------------------------------------------------------------------
(* The test peer *)


\* Who holds the variable `peer`, and whom a /kill has in hand: only what has
\* been started; and who has no process yet.
Agreement ==
  /\ peer # Nobody => start[peer] = "started"
  /\ port # Nobody => child[port] \in Live
  /\ \A k \in Kills : target[k] # Nobody => start[target[k]] = "started"
  /\ \A k \in Kills : kill[k] \in {"waiting", "killed"} => target[k] # Nobody
  /\ \A s \in Starts : start[s] \in {"new", "refused", "failed", "genesis"} => child[s] = "none"

\* A startPeer that has spawned nothing has not asked for the status.
NotAskedYet ==
  \A s \in Starts : start[s] \in {"new", "genesis"} => poll[s] = "asleep"

\* One /start at a time, none beside a peer, and a /kill that waits has the
\* server's peer in hand: so it is while no two /start requests overlap.
Apart ==
  /\ \A s, t \in Starts : start[s] \in UnderWay /\ start[t] \in UnderWay => s = t
  /\ \A s \in Starts : start[s] \in UnderWay => peer = Nobody
  /\ \A k \in Kills : kill[k] = "waiting" => peer = target[k]

OneAtATime == ~overlap => Apart

\* NothingEscapes, which does not need the server to be up.
Reachable ==
  ~overlap =>
    \A c \in Starts : child[c] \in Live => peer = c \/ start[c] \in {"race", "timeout"}

\* The answer that ends waitForGenesis came from the process it waits for.
OwnGenesis ==
  ~overlap /\ ~TimedOut =>
    \A s \in Starts :
      start[s] = "started" \/ (start[s] = "race" /\ poll[s] = "committed") => blocks[s] > 0

IInv ==
  TypeOK /\ Agreement /\ NotAskedYet /\ OneAtATime /\ Reachable /\ OwnGenesis /\ KilledIsGone

\* TypeOK at the start, and after every step.
LEMMA PeerInitTypeOK ==
  ASSUME Init
  PROVE  TypeOK
<1>1. /\ peer = Nobody /\ port = Nobody /\ server = "up" /\ overlap = FALSE
      /\ late = [s \in Starts |-> FALSE] /\ blocks = [s \in Starts |-> 0]
  BY DEF Init
<1>2. 0 \in 0 .. MaxBlocks
  BY DEF MaxBlocks
<1>3. /\ start \in [Starts -> StartStates] /\ poll \in [Starts -> PollStates]
      /\ kill \in [Kills -> KillStates] /\ target \in [Kills -> Starts \cup {Nobody}]
      /\ child \in [Starts -> ChildStates]
  BY DEF Init, StartStates, PollStates, KillStates, ChildStates
<1>4. QED
  BY <1>1, <1>2, <1>3 DEF TypeOK

LEMMA PeerTypeStep ==
  ASSUME TypeOK, [Next]_vars
  PROVE  TypeOK'
<1> USE DEF TypeOK, UnderWay, Live, MaxBlocks, StartStates, PollStates, KillStates, ChildStates
<1>1. ASSUME NEW s \in Starts, StartCall(s) PROVE TypeOK'
  BY <1>1 DEF StartCall
<1>2. ASSUME NEW s \in Starts, Spawn(s) PROVE TypeOK'
  BY <1>2 DEF Spawn
<1>3. ASSUME NEW s \in Starts, GenesisFails(s) PROVE TypeOK'
  BY <1>3 DEF GenesisFails
<1>4. ASSUME NEW s \in Starts, Loop(s) PROVE TypeOK'
  BY <1>4 DEF Loop
<1>5. ASSUME NEW s \in Starts, StatusAnswered(s) PROVE TypeOK'
  BY <1>5 DEF StatusAnswered
<1>6. ASSUME NEW s \in Starts, GotStatus(s) PROVE TypeOK'
  BY <1>6 DEF GotStatus
<1>7. ASSUME NEW s \in Starts, DeadlinePasses(s) PROVE TypeOK'
  BY <1>7 DEF DeadlinePasses
<1>8. ASSUME NEW c \in Starts, Listens(c) \/ Commits(c) PROVE TypeOK'
  <2>1. CASE Listens(c)
    BY <2>1 DEF Listens
  <2>2. CASE Commits(c)
    <3>1. blocks[c] + 1 \in 0 .. MaxBlocks
      <4>1. blocks[c] \in 0 .. 2 /\ blocks[c] < 2
        BY <2>2 DEF Commits
      <4>2. QED
        BY ONLY <4>1 DEF MaxBlocks
    <3>2. blocks' \in [Starts -> 0 .. MaxBlocks]
      BY <2>2, <3>1 DEF Commits
    <3>3. QED
      BY <2>2, <3>2 DEF Commits
  <2>3. QED
    BY <1>8, <2>1, <2>2
<1>9. ASSUME NEW c \in Starts, Exits(c) PROVE TypeOK'
  BY <1>9 DEF Exits
<1>10. ASSUME NEW c \in Starts, Closes(c) PROVE TypeOK'
  BY <1>10 DEF Closes
<1>11. ASSUME NEW c \in Starts, ClosesWithoutCode(c) PROVE TypeOK'
  BY <1>11 DEF ClosesWithoutCode
<1>12. ASSUME NEW k \in Kills, KillCall(k) PROVE TypeOK'
  BY <1>12 DEF KillCall
<1>13. CASE UNCHANGED vars
  BY <1>13 DEF vars
<1>14. QED
  BY <1>1, <1>2, <1>3, <1>4, <1>5, <1>6, <1>7, <1>8, <1>9, <1>10, <1>11, <1>12, <1>13
     DEF Next, Handler

\* The state of the server, of its handlers and of its processes has its type.
THEOREM PeerTypeCorrect == Spec => []TypeOK
<1>1. Init => TypeOK
  BY PeerInitTypeOK
<1>2. TypeOK /\ [Next]_vars => TypeOK'
  BY PeerTypeStep
<1>3. QED
  BY <1>1, <1>2, PTL DEF Spec

\* The agreement of the fields after every step.
LEMMA AgreementStep ==
  ASSUME TypeOK, Agreement, [Next]_vars
  PROVE  Agreement'
<1> USE NobodyAssumption DEF TypeOK, Agreement, UnderWay, Live
<1>1. ASSUME NEW s \in Starts, StartCall(s) PROVE Agreement'
  BY <1>1 DEF StartCall
<1>2. ASSUME NEW s \in Starts, Spawn(s) PROVE Agreement'
  BY <1>2 DEF Spawn
<1>3. ASSUME NEW s \in Starts, GenesisFails(s) PROVE Agreement'
  BY <1>3 DEF GenesisFails
<1>4. ASSUME NEW s \in Starts, Loop(s) PROVE Agreement'
  BY <1>4 DEF Loop
<1>5. ASSUME NEW s \in Starts, StatusAnswered(s) PROVE Agreement'
  BY <1>5 DEF StatusAnswered
<1>6. ASSUME NEW s \in Starts, GotStatus(s) PROVE Agreement'
  BY <1>6 DEF GotStatus
<1>7. ASSUME NEW s \in Starts, DeadlinePasses(s) PROVE Agreement'
  BY <1>7 DEF DeadlinePasses
<1>8. ASSUME NEW c \in Starts, Listens(c) \/ Commits(c) PROVE Agreement'
  BY <1>8 DEF Listens, Commits
<1>9. ASSUME NEW c \in Starts, Exits(c) PROVE Agreement'
  BY <1>9 DEF Exits
<1>10. ASSUME NEW c \in Starts, Closes(c) PROVE Agreement'
  BY <1>10 DEF Closes, Waiting
<1>11. ASSUME NEW c \in Starts, ClosesWithoutCode(c) PROVE Agreement'
  BY <1>11 DEF ClosesWithoutCode
<1>12. ASSUME NEW k \in Kills, KillCall(k) PROVE Agreement'
  <2>1. CASE UNCHANGED <<target, child>>
    BY <1>12, <2>1 DEF KillCall
  <2>2. CASE /\ peer # Nobody /\ child[peer] # "closed"
             /\ kill' = [kill EXCEPT ![k] = "waiting"]
             /\ target' = [target EXCEPT ![k] = peer]
             /\ child' = [child EXCEPT ![peer] = IF @ = "running" THEN "stopping" ELSE @]
    <3>1. UNCHANGED <<peer, port, start>>
      BY <1>12 DEF KillCall
    <3>2. \A c \in Starts : child'[c] \in Live <=> child[c] \in Live
      BY <2>2
    <3>3. \A c \in Starts : child[c] = "none" => child'[c] = "none"
      BY <2>2
    <3>4. QED
      BY <2>2, <3>1, <3>2, <3>3
  <2>3. QED
    BY <1>12, <2>1, <2>2 DEF KillCall
<1>13. CASE UNCHANGED vars
  BY <1>13 DEF vars
<1>14. QED
  BY <1>1, <1>2, <1>3, <1>4, <1>5, <1>6, <1>7, <1>8, <1>9, <1>10, <1>11, <1>12, <1>13
     DEF Next, Handler

\* Asking begins after spawning.
LEMMA NotAskedStep ==
  ASSUME TypeOK, NotAskedYet, [Next]_vars
  PROVE  NotAskedYet'
<1> SUFFICES ASSUME NEW q \in Starts, start'[q] \in {"new", "genesis"} PROVE poll'[q] = "asleep"
  BY DEF NotAskedYet
<1>1. start[q] \in {"new", "genesis"} /\ poll'[q] = poll[q]
  <2>1. ASSUME NEW s \in Starts, StartCall(s) \/ Spawn(s) \/ GenesisFails(s)
        PROVE  start[q] \in {"new", "genesis"} /\ poll'[q] = poll[q]
    <3>1. /\ poll' = poll /\ start[s] \in {"new", "genesis"}
          /\ \E a \in {"refused", "genesis", "failed", "race"} : start' = [start EXCEPT ![s] = a]
      BY <2>1 DEF StartCall, Spawn, GenesisFails
    <3>2. QED
      BY ONLY <3>1, TypeOK, start'[q] \in {"new", "genesis"} DEF TypeOK
  <2>2. ASSUME NEW s \in Starts, Loop(s) \/ StatusAnswered(s) \/ GotStatus(s)
        PROVE  start[q] \in {"new", "genesis"} /\ poll'[q] = poll[q]
    <3>1. /\ start[s] = "race"
          /\ start' = start \/ \E a \in {"timeout", "started"} : start' = [start EXCEPT ![s] = a]
          /\ poll' = poll \/ \E b \in {"asking", "committed", "not yet", "asleep"} : poll' = [poll EXCEPT ![s] = b]
      BY <2>2 DEF Loop, StatusAnswered, GotStatus
    <3>2. q # s
      BY ONLY <3>1, TypeOK, start'[q] \in {"new", "genesis"} DEF TypeOK
    <3>3. QED
      BY ONLY <3>1, <3>2, TypeOK, start'[q] \in {"new", "genesis"} DEF TypeOK
  <2>3. ASSUME NEW s \in Starts, Closes(s)
        PROVE  start[q] \in {"new", "genesis"} /\ poll'[q] = poll[q]
    BY ONLY <2>3, TypeOK, start'[q] \in {"new", "genesis"} DEF Closes, TypeOK
  <2>4. QED
    BY <2>1, <2>2, <2>3
       DEF Next, vars, Handler, DeadlinePasses, Listens, Commits, Exits, ClosesWithoutCode, KillCall
<1>2. QED
  BY <1>1 DEF NotAskedYet

\* A /kill that is answered leaves its process closed and its peer forgotten.
LEMMA KilledStep ==
  ASSUME TypeOK, Agreement, KilledIsGone, [Next]_vars
  PROVE  KilledIsGone'
<1> USE NobodyAssumption DEF TypeOK, Agreement, KilledIsGone, UnderWay, Live
<1>1. ASSUME NEW s \in Starts, StartCall(s) PROVE KilledIsGone'
  BY <1>1 DEF StartCall
<1>2. ASSUME NEW s \in Starts, Spawn(s) PROVE KilledIsGone'
  BY <1>2 DEF Spawn
<1>3. ASSUME NEW s \in Starts, GenesisFails(s) PROVE KilledIsGone'
  BY <1>3 DEF GenesisFails
<1>4. ASSUME NEW s \in Starts, Loop(s) PROVE KilledIsGone'
  BY <1>4 DEF Loop
<1>5. ASSUME NEW s \in Starts, StatusAnswered(s) PROVE KilledIsGone'
  BY <1>5 DEF StatusAnswered
<1>6. ASSUME NEW s \in Starts, GotStatus(s) PROVE KilledIsGone'
  BY <1>6 DEF GotStatus
<1>7. ASSUME NEW s \in Starts, DeadlinePasses(s) PROVE KilledIsGone'
  BY <1>7 DEF DeadlinePasses
<1>8. ASSUME NEW c \in Starts, Listens(c) \/ Commits(c) PROVE KilledIsGone'
  BY <1>8 DEF Listens, Commits
<1>9. ASSUME NEW c \in Starts, Exits(c) PROVE KilledIsGone'
  BY <1>9 DEF Exits
<1>10. ASSUME NEW c \in Starts, Closes(c) PROVE KilledIsGone'
  BY <1>10 DEF Closes, Waiting
<1>11. ASSUME NEW c \in Starts, ClosesWithoutCode(c) PROVE KilledIsGone'
  BY <1>11 DEF ClosesWithoutCode
<1>12. ASSUME NEW k \in Kills, KillCall(k) PROVE KilledIsGone'
  <2>1. \A c \in Starts : child[c] = "closed" => child'[c] = "closed"
    BY <1>12 DEF KillCall
  <2>2. \A j \in Kills : kill'[j] = "killed" => kill[j] = "killed" /\ target'[j] = target[j]
    BY <1>12 DEF KillCall
  <2>3. peer' = peer
    BY <1>12 DEF KillCall
  <2>4. \A j \in Kills : kill[j] = "killed" => target[j] \in Starts
    OBVIOUS
  <2>5. ASSUME NEW j \in Kills, kill'[j] = "killed"
        PROVE  child'[target'[j]] = "closed" /\ peer' # target'[j]
    BY ONLY <2>1, <2>2, <2>3, <2>4, <2>5, KilledIsGone DEF KilledIsGone
  <2>6. QED
    BY <2>5
<1>13. CASE UNCHANGED vars
  BY <1>13 DEF vars
<1>14. QED
  BY <1>1, <1>2, <1>3, <1>4, <1>5, <1>6,
     <1>7, <1>8, <1>9, <1>10, <1>11, <1>12, <1>13
     DEF Next, Handler

\* Requests that do not overlap stay apart.
LEMMA OneAtATimeStep ==
  ASSUME TypeOK, Agreement, OneAtATime, [Next]_vars
  PROVE  OneAtATime'
<1> USE NobodyAssumption DEF TypeOK, Agreement, OneAtATime, Apart, UnderWay, Live
<1>1. ASSUME NEW s \in Starts, StartCall(s) PROVE OneAtATime'
  <2> SUFFICES ASSUME ~overlap' PROVE Apart'
    BY DEF OneAtATime
  <2>1. ~overlap /\ UNCHANGED <<peer, kill, target>>
    BY <1>1 DEF StartCall
  <2>2. CASE start' = [start EXCEPT ![s] = "refused"]
    BY <2>1, <2>2
  <2>3. CASE /\ peer = Nobody
             /\ start' = [start EXCEPT ![s] = "genesis"]
             /\ ~\E o \in Starts : start[o] \in UnderWay
    BY <2>1, <2>3
  <2>4. QED
    BY <1>1, <2>2, <2>3 DEF StartCall
<1>2. ASSUME NEW s \in Starts, Spawn(s) PROVE OneAtATime'
  BY <1>2 DEF Spawn
<1>3. ASSUME NEW s \in Starts, GenesisFails(s) PROVE OneAtATime'
  BY <1>3 DEF GenesisFails
<1>4. ASSUME NEW s \in Starts, Loop(s) PROVE OneAtATime'
  BY <1>4 DEF Loop
<1>5. ASSUME NEW s \in Starts, StatusAnswered(s) PROVE OneAtATime'
  BY <1>5 DEF StatusAnswered
<1>6. ASSUME NEW s \in Starts, GotStatus(s) PROVE OneAtATime'
  <2>1. CASE UNCHANGED <<start, peer>>
    BY <1>6, <2>1 DEF GotStatus
  <2>2. CASE start' = [start EXCEPT ![s] = "started"] /\ peer' = s
    <3>1. start[s] \in UnderWay /\ UNCHANGED <<kill, target, overlap>>
      BY <1>6 DEF GotStatus
    <3>2. ~overlap => \A k \in Kills : kill[k] # "waiting"
      <4>1. ~overlap => peer = Nobody
        BY <3>1
      <4>2. ~overlap => \A k \in Kills : kill[k] = "waiting" => peer = target[k] /\ target[k] # Nobody
        OBVIOUS
      <4>3. QED
        BY <4>1, <4>2
    <3>3. ~overlap => \A t \in Starts : start'[t] \notin UnderWay
      BY <2>2, <3>1
    <3>4. QED
      BY <3>1, <3>2, <3>3
  <2>3. QED
    BY <1>6, <2>1, <2>2 DEF GotStatus
<1>7. ASSUME NEW s \in Starts, DeadlinePasses(s) PROVE OneAtATime'
  BY <1>7 DEF DeadlinePasses
<1>8. ASSUME NEW c \in Starts, Listens(c) \/ Commits(c) PROVE OneAtATime'
  BY <1>8 DEF Listens, Commits
<1>9. ASSUME NEW c \in Starts, Exits(c) PROVE OneAtATime'
  BY <1>9 DEF Exits
<1>10. ASSUME NEW c \in Starts, Closes(c) PROVE OneAtATime'
  <2>1. /\ start' = [start EXCEPT ![c] = IF @ = "race" THEN "died" ELSE @]
        /\ UNCHANGED <<target, overlap>>
    BY <1>10 DEF Closes
  <2>2. \A t \in Starts : start'[t] \in UnderWay => start[t] \in UnderWay
    BY <2>1
  <2>3. \A k \in Kills : kill'[k] = "waiting" => kill[k] = "waiting" /\ target[k] # c
    BY <1>10 DEF Closes, Waiting
  <2>4. CASE Waiting(c) = {}
    <3>1. peer' = peer
      BY <1>10, <2>4 DEF Closes
    <3>2. QED
      BY <2>1, <2>2, <2>3, <3>1
  <2>5. CASE Waiting(c) # {}
    <3>1. PICK j \in Kills : kill[j] = "waiting" /\ target[j] = c
      BY <2>5 DEF Waiting
    <3>2. peer' = Nobody
      BY <1>10, <2>5 DEF Closes
    <3>3. ~overlap => \A k \in Kills : kill'[k] # "waiting"
      BY <2>3, <3>1
    <3>4. QED
      BY <2>1, <2>2, <3>2, <3>3
  <2>6. QED
    BY <2>4, <2>5
<1>11. ASSUME NEW c \in Starts, ClosesWithoutCode(c) PROVE OneAtATime'
  BY <1>11 DEF ClosesWithoutCode
<1>12. ASSUME NEW k \in Kills, KillCall(k) PROVE OneAtATime'
  <2>1. UNCHANGED <<peer, start, overlap>>
    BY <1>12 DEF KillCall
  <2>2. \A j \in Kills : kill'[j] = "waiting" =>
          (kill[j] = "waiting" /\ target'[j] = target[j]) \/ target'[j] = peer
    BY <1>12 DEF KillCall
  <2>3. QED
    BY <2>1, <2>2
<1>13. CASE UNCHANGED vars
  BY <1>13 DEF vars
<1>14. QED
  BY <1>1, <1>2, <1>3, <1>4, <1>5, <1>6,
     <1>7, <1>8, <1>9, <1>10, <1>11, <1>12, <1>13
     DEF Next, Handler

\* A process leaves the hands of its startPeer only for those of the server.
LEMMA ReachableStep ==
  ASSUME TypeOK, Agreement, OneAtATime, Reachable, [Next]_vars
  PROVE  Reachable'
<1> USE NobodyAssumption DEF TypeOK, Agreement, OneAtATime, Apart, Reachable, UnderWay, Live
<1>1. ASSUME NEW s \in Starts, StartCall(s) PROVE Reachable'
  BY <1>1 DEF StartCall
<1>2. ASSUME NEW s \in Starts, Spawn(s) PROVE Reachable'
  BY <1>2 DEF Spawn
<1>3. ASSUME NEW s \in Starts, GenesisFails(s) PROVE Reachable'
  BY <1>3 DEF GenesisFails
<1>4. ASSUME NEW s \in Starts, Loop(s) PROVE Reachable'
  <2>1. \A t \in Starts : start[t] \in {"race", "timeout"} => start'[t] \in {"race", "timeout"}
    <3>1. start' = [start EXCEPT ![s] = "timeout"] \/ start' = start
      BY <1>4 DEF Loop
    <3>2. CASE start' = [start EXCEPT ![s] = "timeout"]
      BY ONLY TypeOK, <3>2 DEF TypeOK, UnderWay
    <3>3. CASE start' = start
      BY <3>3
    <3>4. QED
      BY <3>1, <3>2, <3>3
  <2>2. UNCHANGED <<peer, child, overlap>>
    BY <1>4 DEF Loop
  <2>3. QED
    BY <2>1, <2>2
<1>5. ASSUME NEW s \in Starts, StatusAnswered(s) PROVE Reachable'
  BY <1>5 DEF StatusAnswered
<1>6. ASSUME NEW s \in Starts, GotStatus(s) PROVE Reachable'
  <2>1. CASE UNCHANGED <<start, peer>>
    BY <1>6, <2>1 DEF GotStatus
  <2>2. CASE start' = [start EXCEPT ![s] = "started"] /\ peer' = s
    <3>1. start[s] \in UnderWay /\ UNCHANGED <<child, overlap>>
      BY <1>6 DEF GotStatus
    <3>2. ~overlap => peer = Nobody
      BY <3>1
    <3>3. \A c \in Starts : c # s => start'[c] = start[c]
      BY ONLY TypeOK, <2>2 DEF TypeOK
    <3>4. SUFFICES ASSUME ~overlap, NEW c \in Starts, child[c] \in Live, c # s
                   PROVE  start'[c] \in {"race", "timeout"}
      BY <2>2, <3>1
    <3>5. start[c] \in {"race", "timeout"}
      BY <3>2, <3>4
    <3>6. QED
      BY <3>3, <3>4, <3>5
  <2>3. QED
    BY <1>6, <2>1, <2>2 DEF GotStatus
<1>7. ASSUME NEW s \in Starts, DeadlinePasses(s) PROVE Reachable'
  BY <1>7 DEF DeadlinePasses
<1>8. ASSUME NEW c \in Starts, Listens(c) \/ Commits(c) PROVE Reachable'
  BY <1>8 DEF Listens, Commits
<1>9. ASSUME NEW c \in Starts, Exits(c) PROVE Reachable'
  BY <1>9 DEF Exits
<1>10. ASSUME NEW c \in Starts, Closes(c) PROVE Reachable'
  <2>1. /\ start' = [start EXCEPT ![c] = IF @ = "race" THEN "died" ELSE @]
        /\ child' = [child EXCEPT ![c] = "closed"]
        /\ overlap' = overlap
    BY <1>10 DEF Closes
  <2>2. \A d \in Starts : child'[d] \in Live => d # c /\ child[d] \in Live /\ start'[d] = start[d]
    BY <2>1
  <2>3. CASE Waiting(c) = {}
    <3>1. peer' = peer
      BY <1>10, <2>3 DEF Closes
    <3>2. QED
      BY <2>1, <2>2, <3>1
  <2>4. CASE Waiting(c) # {}
    <3>1. PICK j \in Kills : kill[j] = "waiting" /\ target[j] = c
      BY <2>4 DEF Waiting
    <3>2. ~overlap => peer = c
      BY <3>1
    <3>3. QED
      BY <2>1, <2>2, <3>2
  <2>5. QED
    BY <2>3, <2>4
<1>11. ASSUME NEW c \in Starts, ClosesWithoutCode(c) PROVE Reachable'
  BY <1>11 DEF ClosesWithoutCode
<1>12. ASSUME NEW k \in Kills, KillCall(k) PROVE Reachable'
  BY <1>12 DEF KillCall
<1>13. CASE UNCHANGED vars
  BY <1>13 DEF vars
<1>14. QED
  BY <1>1, <1>2, <1>3, <1>4, <1>5, <1>6,
     <1>7, <1>8, <1>9, <1>10, <1>11, <1>12, <1>13
     DEF Next, Handler

\* The deadline and the overlap are for ever: without them now, there were none
\* before.
LEMMA QuietBefore ==
  ASSUME TypeOK, [Next]_vars, ~overlap', ~TimedOut'
  PROVE  ~overlap /\ ~TimedOut
<1>1. overlap => overlap'
  BY DEF TypeOK, Next, vars, Handler, StartCall, Spawn, GenesisFails, Loop, StatusAnswered, GotStatus,
         DeadlinePasses, Listens, Commits, Exits, Closes, ClosesWithoutCode, KillCall
<1>2. ASSUME NEW s \in Starts, start[s] = "timeout" PROVE start'[s] = "timeout"
  <2>1. ASSUME NEW t \in Starts, StartCall(t) \/ Handler(t) PROVE start'[s] = "timeout"
    <3>1. start' = start \/ \E a \in {"refused", "genesis", "failed", "race", "timeout", "started"} :
            start[t] \in {"new", "genesis", "race"} /\ start' = [start EXCEPT ![t] = a]
      BY <2>1 DEF StartCall, Handler, Spawn, GenesisFails, Loop, StatusAnswered, GotStatus
    <3>2. QED
      BY ONLY <1>2, <3>1, TypeOK DEF TypeOK
  <2>2. ASSUME NEW t \in Starts, Closes(t) PROVE start'[s] = "timeout"
    BY ONLY <1>2, <2>2, TypeOK DEF Closes, TypeOK
  <2>3. QED
    BY <1>2, <2>1, <2>2
       DEF Next, vars, DeadlinePasses, Listens, Commits, Exits, ClosesWithoutCode, KillCall
<1>3. TimedOut => TimedOut'
  BY <1>2 DEF TimedOut
<1>4. QED
  BY <1>1, <1>3

\* As long as nothing was abandoned, the process that has the port is the one
\* a startPeer that asks for the status has spawned.
LEMMA PortIsOwn ==
  ASSUME TypeOK, Agreement, OneAtATime, Reachable, ~overlap, ~TimedOut,
         NEW s \in Starts, start[s] = "race", port # Nobody
  PROVE  port = s
<1>1. peer = Nobody
  BY DEF OneAtATime, Apart, UnderWay
<1>2. port \in Starts /\ child[port] \in Live
  BY DEF TypeOK, Agreement
<1>3. start[port] = "race"
  BY <1>1, <1>2, NobodyAssumption DEF Reachable, TimedOut
<1>4. QED
  BY <1>2, <1>3 DEF OneAtATime, Apart, UnderWay

\* A started peer, and one whose genesis has just been seen.
Seen(s) == start[s] = "started" \/ (start[s] = "race" /\ poll[s] = "committed")

\* waitForGenesis, while nothing was abandoned, ends with its own peer's genesis.
LEMMA OwnGenesisStep ==
  ASSUME TypeOK, Agreement, NotAskedYet, OneAtATime, Reachable, OwnGenesis, [Next]_vars
  PROVE  OwnGenesis'
<1> SUFFICES ASSUME ~overlap', ~TimedOut', NEW q \in Starts, Seen(q)' PROVE blocks'[q] > 0
  BY DEF OwnGenesis, Seen
<1>1. ~overlap /\ ~TimedOut
  BY QuietBefore
<1>2. Seen(q) => blocks[q] > 0
  BY <1>1 DEF OwnGenesis, Seen
<1>3. blocks[q] \in Nat
  <2>1. blocks[q] \in 0 .. MaxBlocks /\ MaxBlocks = 2
    BY DEF TypeOK, MaxBlocks
  <2>2. QED
    BY ONLY <2>1
<1>4. blocks'[q] = blocks[q] \/ blocks'[q] = blocks[q] + 1
  <2>1. blocks' = blocks \/ \E c \in Starts : blocks' = [blocks EXCEPT ![c] = @ + 1]
    BY DEF Next, vars, Handler, StartCall, Spawn, GenesisFails, Loop, StatusAnswered, GotStatus,
           DeadlinePasses, Listens, Commits, Exits, Closes, ClosesWithoutCode, KillCall
  <2>2. QED
    BY ONLY <2>1, TypeOK DEF TypeOK
<1>5. CASE Seen(q)
  BY <1>2, <1>3, <1>4, <1>5
<1>6. CASE ~Seen(q)
  <2>1. StatusAnswered(q)
    <3>1. ASSUME NEW s \in Starts, StartCall(s) \/ Spawn(s) \/ GenesisFails(s) \/ Loop(s) \/ GotStatus(s)
                                     \/ Closes(s)
          PROVE  FALSE
      <4>1. CASE StartCall(s) \/ GenesisFails(s)
        <5>1. /\ poll' = poll
              /\ \E a \in {"refused", "genesis", "failed"} : start' = [start EXCEPT ![s] = a]
          BY <4>1 DEF StartCall, GenesisFails
        <5>2. QED
          BY ONLY <5>1, <1>6, Seen(q)', TypeOK DEF Seen, TypeOK
      <4>2. CASE Spawn(s)
        <5>1. start[s] = "genesis" /\ start' = [start EXCEPT ![s] = "race"] /\ poll' = poll
          BY <4>2 DEF Spawn
        <5>2. poll[s] = "asleep"
          BY <5>1 DEF NotAskedYet
        <5>3. QED
          BY ONLY <5>1, <5>2, <1>6, Seen(q)', TypeOK DEF Seen, TypeOK
      <4>3. CASE Loop(s)
        <5>1. CASE start' = [start EXCEPT ![s] = "timeout"] /\ poll' = poll
          BY ONLY <5>1, <1>6, Seen(q)', TypeOK DEF Seen, TypeOK
        <5>2. CASE poll' = [poll EXCEPT ![s] = "asking"] /\ start' = start
          BY ONLY <5>2, <1>6, Seen(q)', TypeOK DEF Seen, TypeOK
        <5>3. QED
          BY <4>3, <5>1, <5>2 DEF Loop
      <4>4. CASE GotStatus(s)
        BY ONLY <4>4, <1>6, Seen(q)', TypeOK DEF Seen, GotStatus, TypeOK
      <4>5. CASE Closes(s)
        BY ONLY <4>5, <1>6, Seen(q)', TypeOK DEF Seen, Closes, TypeOK
      <4>6. QED
        BY <3>1, <4>1, <4>2, <4>3, <4>4, <4>5
    <3>2. ~UNCHANGED <<start, poll>>
      BY <1>6 DEF Seen
    <3>3. PICK s \in Starts : StatusAnswered(s)
      BY <3>1, <3>2
         DEF Next, vars, Handler, DeadlinePasses, Listens, Commits, Exits, ClosesWithoutCode, KillCall
    <3>4. s = q
      BY ONLY <3>3, <1>6, Seen(q)', TypeOK DEF Seen, StatusAnswered, TypeOK
    <3>5. QED
      BY <3>3, <3>4
  <2>2. start[q] = "race" /\ blocks' = blocks
    BY <2>1 DEF StatusAnswered
  <2>3. poll'[q] = "committed"
    BY <2>1, <2>2 DEF Seen, StatusAnswered
  <2>4. port # Nobody /\ blocks[port] = 1
    BY ONLY <2>1, <2>3, TypeOK DEF StatusAnswered, TypeOK
  <2>5. port = q
    BY <1>1, <2>2, <2>4, PortIsOwn
  <2>6. QED
    BY <2>2, <2>4, <2>5
<1>7. QED
  BY <1>5, <1>6

\* The invariant the results below come from.
THEOREM PeerInductive == Spec => []IInv
<1>1. Init => IInv
  <2> SUFFICES ASSUME Init PROVE IInv
    OBVIOUS
  <2>1. TypeOK
    BY PeerInitTypeOK
  <2>2. Agreement /\ OneAtATime
    BY DEF Init, Agreement, OneAtATime, Apart, UnderWay
  <2>3. NotAskedYet
    BY DEF Init, NotAskedYet
  <2>4. Reachable /\ OwnGenesis /\ KilledIsGone
    BY DEF Init, Reachable, OwnGenesis, KilledIsGone, Live
  <2>5. QED
    BY <2>1, <2>2, <2>3, <2>4 DEF IInv
<1>2. IInv /\ [Next]_vars => IInv'
  BY PeerTypeStep, AgreementStep, NotAskedStep, KilledStep, OneAtATimeStep, ReachableStep, OwnGenesisStep DEF IInv
<1>3. QED
  BY <1>1, <1>2, PTL DEF Spec

\* While requests to /start do not overlap, a process that runs is the server's
\* peer, or startPeer is waiting for it, or its deadline abandoned it.
THEOREM NothingEscapesAlways == Spec => []NothingEscapes
<1>1. IInv => NothingEscapes
  BY DEF IInv, Reachable, NothingEscapes
<1>2. QED
  BY <1>1, PeerInductive, PTL

\* Without overlap and abandoned processes, a peer that is reported as started
\* has committed its own genesis.
THEOREM StartedHasGenesis == Spec => []SawItsOwnGenesis
<1>1. IInv => SawItsOwnGenesis
  BY DEF IInv, OwnGenesis, SawItsOwnGenesis
<1>2. QED
  BY <1>1, PeerInductive, PTL

\* A /kill that reports success comes after the end of its process, which the
\* server has forgotten.
THEOREM KilledIsGoneAlways == Spec => []KilledIsGone
<1>1. IInv => KilledIsGone
  BY DEF IInv
<1>2. QED
  BY <1>1, PeerInductive, PTL

-----------------------------------------------------------------------------
(* The preparation of Iroha *)

\* The artifacts that are there after n copies.
Upto(n) == {Artifacts[i] : i \in 1 .. n}

\* Whatever was interrupted, the artifacts are of one source ...
OneSource == \A a, b \in DOMAIN prep : prep[a].of = prep[b].of

\* ... and one that is incomplete is followed by none.
LastIncomplete ==
  \A i, j \in 1 .. 4 :
    i < j /\ Artifacts[i] \in DOMAIN prep /\ Artifacts[j] \in DOMAIN prep =>
      prep[Artifacts[i]].whole

\* Copying goes from an empty directory to a full one, from a whole repository.
Copying ==
  /\ repo.whole => repo.of # Nothing
  /\ step \notin Ended \cup {"copy", "copying", "schema", "writing"} => copied = 0
  /\ step \in {"emptyForCopy", "copy", "copying"} => repo.whole
  /\ step \in {"copy", "copying"} =>
       copied < 4 /\ \A i \in 1 .. copied : prep[Artifacts[i]] = repo
  /\ step = "copy" => DOMAIN prep = Upto(copied)
  /\ step = "copying" => DOMAIN prep = Upto(copied + 1) /\ prep[Artifacts[copied + 1]].of = repo.of

\* The repository is the one the run was given, once that has been set up.
Origin ==
  /\ step = "remove" => args.source # Nothing
  /\ step = "link" => args.source \in Clones
  /\ step \in {"init", "fetch", "empty"} => args.source \in Revisions
  /\ step = "fetch" => repo.of = args.source
  /\ step = "empty" => repo = File(args.source, TRUE)
  /\ step \in {"check", "build", "emptyForCopy", "copy", "copying", "schema", "writing", "done"}
       /\ args.source # Nothing => repo = File(args.source, TRUE)
  /\ step = "check" /\ args.source \in Revisions => DOMAIN prep = {}

\* A run that may not reuse what it finds.
Fresh == args.force \/ args.source \in Revisions

Delivered ==
  /\ step \in {"schema", "writing"} => ArtifactsReady
  /\ step \in {"schema", "writing", "done"} /\ Fresh =>
       ArtifactsReady /\ repo.whole /\ \A a \in DOMAIN prep : prep[a] = repo
  /\ step = "done" /\ Fresh => schema = repo

PrepIInv == PrepTypeOK /\ OneSource /\ LastIncomplete /\ Copying /\ Origin /\ Delivered

-----------------------------------------------------------------------------
\* What the proofs need of the four names.
LEMMA ArtifactNames ==
  /\ Len(Artifacts) = 4
  /\ ToSet(Artifacts) = Upto(4)
  /\ Last(Artifacts) = Artifacts[4]
  /\ Artifacts[4] = "schema.json"
  /\ \A i, j \in 1 .. 4 : Artifacts[i] = Artifacts[j] => i = j
<1>1. Len(Artifacts) = 4 /\ DOMAIN Artifacts = 1 .. 4
  BY DEF Artifacts
<1>2. ToSet(Artifacts) = Upto(4)
  BY <1>1 DEF ToSet, Upto
<1>3. Last(Artifacts) = Artifacts[4]
  BY <1>1 DEF Last
<1>4. Artifacts[4] = "schema.json" /\ \A i, j \in 1 .. 4 : Artifacts[i] = Artifacts[j] => i = j
  BY DEF Artifacts
<1>5. QED
  BY <1>1, <1>2, <1>3, <1>4

\* A file's record is its two fields.
LEMMA FileOf ==
  ASSUME NEW f \in Files
  PROVE  /\ f.of \in Sources \cup {Nothing} /\ f.whole \in BOOLEAN
         /\ f.whole => f = File(f.of, TRUE)
  BY DEF Files, File

LEMMA MakeFile ==
  ASSUME NEW o \in Sources \cup {Nothing}, NEW w \in BOOLEAN
  PROVE  File(o, w) \in Files /\ File(o, w).of = o /\ File(o, w).whole = w
  BY DEF Files, File

-----------------------------------------------------------------------------
\* Emptying the directory only takes files away.
LEMMA Shrinks ==
  ASSUME EmptyPrep \/ EmptyForCopy
  PROVE  DOMAIN prep' \subseteq DOMAIN prep /\ \A a \in DOMAIN prep' : prep'[a] = prep[a]
<1>1. CASE prep' = prep
  BY <1>1
<1>2. ASSUME NEW a \in DOMAIN prep, prep' = [b \in DOMAIN prep \ {a} |-> prep[b]]
      PROVE  DOMAIN prep' \subseteq DOMAIN prep /\ \A b \in DOMAIN prep' : prep'[b] = prep[b]
  BY <1>2
<1>3. QED
  BY <1>1, <1>2 DEF EmptyPrep, EmptyForCopy

\* Where a step of copying starts from.
LEMMA WhileCopying ==
  ASSUME PrepTypeOK, Copying, CopyStarts \/ CopyEnds
  PROVE  /\ copied \in 0 .. 3
         /\ repo.whole /\ repo.of # Nothing
         /\ \A i \in 1 .. copied : prep[Artifacts[i]] = repo
         /\ DOMAIN prep \subseteq Upto(copied + 1)
         /\ \E w \in BOOLEAN : Put(Artifacts[copied + 1], File(repo.of, w))
<1>1. step \in {"copy", "copying"} /\ \E w \in BOOLEAN : Put(Artifacts[copied + 1], File(repo.of, w))
  BY DEF CopyStarts, CopyEnds
<1>2. copied < 4 /\ repo.whole /\ repo.of # Nothing /\ \A i \in 1 .. copied : prep[Artifacts[i]] = repo
  BY <1>1 DEF Copying
<1>3. copied \in 0 .. 3
  <2>1. copied \in 0 .. 4
    BY ArtifactNames DEF PrepTypeOK
  <2>2. QED
    BY ONLY <1>2, <2>1
<1>4. DOMAIN prep \subseteq Upto(copied + 1)
  <2>1. DOMAIN prep = Upto(copied) \/ DOMAIN prep = Upto(copied + 1)
    BY <1>1 DEF Copying
  <2>2. Upto(copied) \subseteq Upto(copied + 1)
    BY ONLY <1>3 DEF Upto
  <2>3. QED
    BY <2>1, <2>2
<1>5. QED
  BY <1>1, <1>2, <1>3, <1>4

\* PrepTypeOK after every step that is taken with the artifacts the invariant
\* promises.
LEMMA PrepTypeStep ==
  ASSUME PrepTypeOK, Copying, Delivered, [PrepNext]_prepVars
  PROVE  PrepTypeOK'
<1>1. ASSUME NEW new \in Args, Run(new) PROVE PrepTypeOK'
  BY <1>1 DEF PrepTypeOK, Run, Steps
<1>2. CASE RemoveIroha
  <2>1. repo' \in Files
    <3>1. PICK o \in Sources \cup {Nothing} : repo' = File(o, FALSE)
      BY <1>2 DEF RemoveIroha, Sources
    <3>2. File(o, FALSE) \in Files
      BY MakeFile
    <3>3. QED
      BY <3>1, <3>2
  <2>2. step' \in Steps
    BY <1>2 DEF RemoveIroha, PrepTypeOK, Steps
  <2>3. QED
    BY <1>2, <2>1, <2>2 DEF PrepTypeOK, RemoveIroha
<1>3. CASE LinkPath
  <2>1. args.source \in Sources \cup {Nothing}
    BY DEF PrepTypeOK, Args
  <2>2. QED
    BY <1>3, <2>1, MakeFile DEF PrepTypeOK, LinkPath, Steps
<1>4. CASE GitInit \/ GitFetch
  <2>1. args.source \in Sources \cup {Nothing}
    BY DEF PrepTypeOK, Args
  <2>2. File(args.source, TRUE) \in Files /\ File(args.source, FALSE) \in Files
    BY <2>1, MakeFile
  <2>3. CASE GitInit
    BY <2>2, <2>3 DEF PrepTypeOK, GitInit, Steps
  <2>4. CASE GitFetch
    BY <2>2, <2>4 DEF PrepTypeOK, GitFetch, Steps, Ended
  <2>5. QED
    BY <1>4, <2>3, <2>4
<1>5. CASE EmptyPrep \/ EmptyForCopy
  BY <1>5 DEF PrepTypeOK, EmptyPrep, EmptyForCopy, Steps
<1>6. CASE Check \/ Build \/ Interrupted
  BY <1>6 DEF PrepTypeOK, Check, Build, Interrupted, Steps, Ended
<1>7. CASE CopyStarts \/ CopyEnds
  <2>1. copied \in 0 .. 3 /\ repo.whole /\ repo.of # Nothing
    BY <1>7, WhileCopying
  <2>2. \A w \in BOOLEAN : File(repo.of, w) \in Files /\ File(repo.of, w).of # Nothing
    BY <2>1, FileOf, MakeFile DEF PrepTypeOK
  <2>3. Artifacts[copied + 1] \in ToSet(Artifacts)
    BY <2>1, ArtifactNames DEF Upto
  <2>4. PICK w \in BOOLEAN : Put(Artifacts[copied + 1], File(repo.of, w))
    BY <1>7 DEF CopyStarts, CopyEnds
  <2>5. /\ DOMAIN prep' \subseteq ToSet(Artifacts)
        /\ \A a \in DOMAIN prep' : prep'[a] \in Files /\ prep'[a].of # Nothing
    BY <2>2, <2>3, <2>4 DEF PrepTypeOK, Put
  <2>6. step' \in Steps /\ copied' \in 0 .. Len(Artifacts)
    <3>1. copied \in 0 .. 4 /\ copied + 1 \in 0 .. 4
      BY ONLY <2>1
    <3>2. step' \in {"copy", "copying", "schema"} /\ copied' \in {copied, copied + 1}
      BY <1>7 DEF CopyStarts, CopyEnds
    <3>3. QED
      BY <3>1, <3>2, ArtifactNames DEF Steps
  <2>7. UNCHANGED <<args, repo, schema>>
    BY <1>7 DEF CopyStarts, CopyEnds
  <2>8. QED
    BY <2>5, <2>6, <2>7 DEF PrepTypeOK
<1>8. CASE SchemaStarts \/ SchemaEnds
  <2>1. "schema.json" \in DOMAIN prep
    <3>1. DOMAIN prep = ToSet(Artifacts)
      BY <1>8 DEF Delivered, ArtifactsReady, SchemaStarts, SchemaEnds
    <3>2. Artifacts[4] \in Upto(4)
      BY DEF Upto
    <3>3. QED
      BY <3>1, <3>2, ArtifactNames
  <2>2. prep["schema.json"] \in Files /\ prep["schema.json"].of \in Sources \cup {Nothing}
    BY <2>1, FileOf DEF PrepTypeOK
  <2>3. schema' \in Files
    BY <1>8, <2>2, MakeFile DEF SchemaStarts, SchemaEnds
  <2>4. QED
    BY <1>8, <2>3 DEF PrepTypeOK, SchemaStarts, SchemaEnds, Steps, Ended
<1>9. CASE UNCHANGED prepVars
  BY <1>9 DEF PrepTypeOK, prepVars
<1>10. QED
  BY <1>1, <1>2, <1>3, <1>4, <1>5, <1>6, <1>7, <1>8, <1>9 DEF PrepNext

\* Files are removed, or copied from one repository to an empty directory.
LEMMA OneSourceStep ==
  ASSUME PrepTypeOK, Copying, OneSource, [PrepNext]_prepVars
  PROVE  OneSource'
<1>1. CASE EmptyPrep \/ EmptyForCopy
  BY <1>1, Shrinks DEF OneSource
<1>2. CASE CopyStarts
  <2>1. \A a \in DOMAIN prep : prep[a].of = repo.of
    BY <1>2 DEF Copying, CopyStarts, Upto
  <2>2. QED
    BY <1>2, <2>1, MakeFile DEF OneSource, CopyStarts, Put, File
<1>3. CASE CopyEnds
  <2>1. copied \in 0 .. 3
    BY <1>3, WhileCopying
  <2>2. \A i \in 1 .. copied + 1 : prep[Artifacts[i]].of = repo.of
    BY <1>3, <2>1 DEF Copying, CopyEnds
  <2>3. \A a \in DOMAIN prep : prep[a].of = repo.of
    BY <1>3, <2>2 DEF Copying, CopyEnds, Upto
  <2>4. QED
    BY <1>3, <2>3 DEF OneSource, CopyEnds, Put, File
<1>4. CASE UNCHANGED prep
  BY <1>4 DEF OneSource
<1>5. QED
  BY <1>1, <1>2, <1>3, <1>4
     DEF PrepNext, prepVars, Run, RemoveIroha, LinkPath, GitInit, GitFetch, Check, Build, SchemaStarts,
         SchemaEnds, Interrupted

\* Artifacts are copied one after the other.
LEMMA LastIncompleteStep ==
  ASSUME PrepTypeOK, Copying, LastIncomplete, [PrepNext]_prepVars
  PROVE  LastIncomplete'
<1>1. CASE EmptyPrep \/ EmptyForCopy
  BY <1>1, Shrinks DEF LastIncomplete
<1>2. CASE CopyStarts \/ CopyEnds
  <2>1. copied \in 0 .. 3 /\ repo.whole
    BY <1>2, WhileCopying
  <2>2. PICK w \in BOOLEAN : Put(Artifacts[copied + 1], File(repo.of, w))
    BY <1>2 DEF CopyStarts, CopyEnds
  <2>3. DOMAIN prep \subseteq Upto(copied + 1)
    BY <1>2, WhileCopying
  <2>4. DOMAIN prep' \subseteq Upto(copied + 1)
    BY <2>1, <2>2, <2>3 DEF Put, Upto
  <2>5. ASSUME NEW i \in 1 .. 4, NEW j \in 1 .. 4, i < j,
               Artifacts[i] \in DOMAIN prep', Artifacts[j] \in DOMAIN prep'
        PROVE  prep'[Artifacts[i]].whole
    <3>1. i \in 1 .. copied
      BY <2>1, <2>4, <2>5, ArtifactNames DEF Upto
    <3>2. prep[Artifacts[i]] = repo
      BY <1>2, <3>1 DEF Copying, CopyStarts, CopyEnds
    <3>3. Artifacts[i] # Artifacts[copied + 1]
      BY <2>1, <3>1, ArtifactNames
    <3>4. QED
      BY <2>1, <2>2, <2>5, <3>2, <3>3 DEF Put
  <2>6. QED
    BY <2>5 DEF LastIncomplete
<1>3. CASE UNCHANGED prep
  BY <1>3 DEF LastIncomplete
<1>4. QED
  BY <1>1, <1>2, <1>3
     DEF PrepNext, prepVars, Run, RemoveIroha, LinkPath, GitInit, GitFetch, Check, Build, SchemaStarts,
         SchemaEnds, Interrupted

\* Copying starts from nothing and ends with everything, all of one repository.
LEMMA CopyingStep ==
  ASSUME PrepTypeOK, Copying, Origin, [PrepNext]_prepVars
  PROVE  Copying'
<1>1. ASSUME NEW new \in Args, Run(new) PROVE Copying'
  BY <1>1 DEF Copying, Run, Ended
<1>2. CASE RemoveIroha
  <2>1. ~repo'.whole
    <3>1. PICK o \in Sources \cup {Nothing} : repo' = File(o, FALSE)
      BY <1>2 DEF RemoveIroha, Sources
    <3>2. File(o, FALSE).whole = FALSE
      BY MakeFile
    <3>3. QED
      BY <3>1, <3>2
  <2>2. step' \in {"remove", "link", "init"} /\ copied' = copied /\ step = "remove"
    BY <1>2 DEF RemoveIroha
  <2>3. copied = 0
    BY <2>2 DEF Copying, Ended
  <2>4. QED
    BY <2>1, <2>2, <2>3 DEF Copying
<1>3. CASE LinkPath \/ GitInit \/ GitFetch
  <2>1. args.source \in Sources /\ args.source # Nothing
    BY <1>3, NothingAssumption DEF Origin, LinkPath, GitInit, GitFetch, Sources
  <2>2. /\ File(args.source, FALSE).whole = FALSE
        /\ File(args.source, TRUE).of # Nothing
    BY <2>1, MakeFile
  <2>3. CASE LinkPath
    BY <2>2, <2>3 DEF Copying, LinkPath, Ended
  <2>4. CASE GitInit
    BY <2>2, <2>4 DEF Copying, GitInit, Ended
  <2>5. CASE GitFetch
    BY <2>2, <2>5 DEF Copying, GitFetch, Ended
  <2>6. QED
    BY <1>3, <2>3, <2>4, <2>5
<1>4. CASE EmptyPrep
  BY <1>4 DEF Copying, EmptyPrep, Ended
<1>5. CASE Check \/ Build \/ Interrupted
  BY <1>5 DEF Copying, Check, Build, Interrupted, Ended
<1>6. CASE EmptyForCopy
  <2>1. copied = 0 /\ repo.whole /\ UNCHANGED <<copied, repo>>
    BY <1>6 DEF Copying, EmptyForCopy, Ended
  <2>2. CASE prep = <<>> /\ step' = "copy" /\ prep' = prep
    <3>1. DOMAIN prep' = {} /\ Upto(0) = {}
      BY <2>2 DEF Upto
    <3>2. QED
      BY <2>1, <2>2, <3>1 DEF Copying, Ended
  <2>3. CASE step' = step
    BY <1>6, <2>1, <2>3 DEF Copying, EmptyForCopy, Ended
  <2>4. QED
    BY <1>6, <2>2, <2>3 DEF EmptyForCopy
<1>7. CASE CopyStarts
  <2>1. copied \in 0 .. 3 /\ repo.whole /\ repo.of # Nothing
    BY <1>7, WhileCopying
  <2>2. step = "copy" /\ step' = "copying" /\ UNCHANGED <<copied, repo>>
    BY <1>7 DEF CopyStarts
  <2>3. /\ DOMAIN prep' = DOMAIN prep \cup {Artifacts[copied + 1]}
        /\ prep'[Artifacts[copied + 1]].of = repo.of
        /\ \A a \in DOMAIN prep : a # Artifacts[copied + 1] => prep'[a] = prep[a]
    BY <1>7 DEF CopyStarts, Put, File
  <2>4. DOMAIN prep = Upto(copied) /\ \A i \in 1 .. copied : prep[Artifacts[i]] = repo
    BY <2>2 DEF Copying
  <2>5. DOMAIN prep' = Upto(copied + 1)
    BY <2>1, <2>3, <2>4 DEF Upto
  <2>6. ASSUME NEW i \in 1 .. copied PROVE prep'[Artifacts[i]] = repo
    <3>1. Artifacts[i] \in DOMAIN prep /\ Artifacts[i] # Artifacts[copied + 1]
      BY <2>1, <2>4, ArtifactNames DEF Upto
    <3>2. QED
      BY <2>3, <2>4, <3>1
  <2>7. QED
    BY <2>1, <2>2, <2>3, <2>5, <2>6 DEF Copying, Ended
<1>8. CASE CopyEnds
  <2>1. copied \in 0 .. 3 /\ repo.whole /\ repo.of # Nothing
    BY <1>8, WhileCopying
  <2>2. /\ step = "copying" /\ copied' = copied + 1 /\ repo' = repo
        /\ step' = IF copied + 1 = 4 THEN "schema" ELSE "copy"
    BY <1>8, ArtifactNames DEF CopyEnds
  <2>3. DOMAIN prep = Upto(copied + 1) /\ \A i \in 1 .. copied : prep[Artifacts[i]] = repo
    BY <2>2 DEF Copying
  <2>4. File(repo.of, TRUE) = repo
    BY <2>1, FileOf DEF PrepTypeOK
  <2>5. prep' = [b \in DOMAIN prep \cup {Artifacts[copied + 1]} |->
                   IF b = Artifacts[copied + 1] THEN repo ELSE prep[b]]
    BY <1>8, <2>4 DEF CopyEnds, Put
  <2>6. Artifacts[copied + 1] \in DOMAIN prep
    BY <2>1, <2>3 DEF Upto
  <2>7. DOMAIN prep' = Upto(copied')
    BY <2>2, <2>3, <2>5, <2>6
  <2>8. ASSUME NEW i \in 1 .. copied' PROVE prep'[Artifacts[i]] = repo
    <3>1. CASE i = copied + 1
      BY <2>5, <2>6, <3>1
    <3>2. CASE i # copied + 1
      <4>1. i \in 1 .. copied
        BY <2>1, <2>2, <3>2
      <4>2. Artifacts[i] \in DOMAIN prep
        BY <2>3, <2>1, <4>1 DEF Upto
      <4>3. QED
        BY <2>3, <2>5, <4>1, <4>2
    <3>3. QED
      BY <3>1, <3>2
  <2>9. step' = "copy" => copied' < 4
    BY <2>1, <2>2
  <2>10. QED
    BY <2>1, <2>2, <2>7, <2>8, <2>9 DEF Copying, Ended
<1>9. CASE SchemaStarts \/ SchemaEnds
  BY <1>9 DEF Copying, SchemaStarts, SchemaEnds, Ended
<1>10. CASE UNCHANGED prepVars
  BY <1>10 DEF Copying, prepVars
<1>11. QED
  BY <1>1, <1>2, <1>3, <1>4, <1>5, <1>6, <1>7, <1>8, <1>9, <1>10 DEF PrepNext

\* Once it has been set up, the repository is the one the run was given.
LEMMA OriginStep ==
  ASSUME PrepTypeOK, Origin, [PrepNext]_prepVars
  PROVE  Origin'
<1>1. ASSUME NEW new \in Args, Run(new) PROVE Origin'
  BY <1>1, NothingAssumption DEF Origin, Run, Ended, Sources
<1>2. CASE RemoveIroha
  BY <1>2 DEF Origin, PrepTypeOK, Args, Sources, RemoveIroha
<1>3. CASE LinkPath
  BY <1>3, NothingAssumption DEF Origin, LinkPath
<1>4. CASE GitInit \/ GitFetch
  BY <1>4 DEF Origin, GitInit, GitFetch, File
<1>5. CASE EmptyPrep
  <2>1. step = "empty" /\ UNCHANGED <<args, repo>> /\ (step' = step \/ (step' = "check" /\ prep = <<>> /\ prep' = prep))
    BY <1>5 DEF EmptyPrep
  <2>2. step' = "check" => DOMAIN prep' = {}
    BY <2>1
  <2>3. QED
    BY <2>1, <2>2 DEF Origin
<1>6. CASE Check \/ Build \/ Interrupted
  BY <1>6 DEF Origin, Check, Build, Interrupted
<1>7. CASE EmptyForCopy \/ CopyStarts \/ CopyEnds
  BY <1>7 DEF Origin, EmptyForCopy, CopyStarts, CopyEnds
<1>8. CASE SchemaStarts \/ SchemaEnds
  BY <1>8 DEF Origin, SchemaStarts, SchemaEnds
<1>9. CASE UNCHANGED prepVars
  BY <1>9 DEF Origin, prepVars
<1>10. QED
  BY <1>1, <1>2, <1>3, <1>4, <1>5, <1>6, <1>7, <1>8, <1>9 DEF PrepNext

\* What a run leaves when it may not reuse what it finds.
LEMMA DeliveredStep ==
  ASSUME PrepTypeOK, Copying, Origin, Delivered, [PrepNext]_prepVars
  PROVE  Delivered'
<1>1. CASE Check
  <2>1. step' = "schema" => ~args.force /\ ArtifactsReady
    BY <1>1 DEF Check
  <2>2. ArtifactsReady => DOMAIN prep # {}
    <3>1. Artifacts[1] \in Upto(4)
      BY DEF Upto
    <3>2. QED
      BY <3>1, ArtifactNames DEF ArtifactsReady
  <2>3. step' = "schema" => ~Fresh
    BY <1>1, <2>1, <2>2 DEF Fresh, Origin, Check
  <2>4. step' \in {"schema", "failed", "build"} /\ UNCHANGED <<args, prep, repo>>
    BY <1>1 DEF Check
  <2>5. ArtifactsReady' = ArtifactsReady /\ Fresh' = Fresh
    BY <2>4 DEF ArtifactsReady, Fresh
  <2>6. QED
    BY <2>1, <2>3, <2>4, <2>5 DEF Delivered
<1>2. CASE CopyEnds
  <2>1. CASE step' = "schema"
    <3>1. copied \in 0 .. 3 /\ copied + 1 = 4 /\ repo.whole /\ repo.of # Nothing /\ step = "copying"
      BY <1>2, <2>1, WhileCopying, ArtifactNames DEF CopyEnds
    <3>2. /\ DOMAIN prep = Upto(4) /\ Artifacts[4] \in Upto(4)
          /\ \A i \in 1 .. 3 : prep[Artifacts[i]] = repo
      BY <3>1 DEF Copying, Upto
    <3>3. File(repo.of, TRUE) = repo
      BY <3>1, FileOf DEF PrepTypeOK
    <3>4. prep' = [b \in Upto(4) |-> IF b = Artifacts[4] THEN repo ELSE prep[b]] /\ repo' = repo
      BY <1>2, <3>1, <3>2, <3>3 DEF CopyEnds, Put
    <3>5. \A a \in DOMAIN prep' : prep'[a] = repo
      BY <3>2, <3>4 DEF Upto
    <3>6. ArtifactsReady'
      BY <3>4, ArtifactNames DEF ArtifactsReady
    <3>7. QED
      BY <2>1, <3>1, <3>4, <3>5, <3>6 DEF Delivered
  <2>2. CASE step' = "copy"
    BY <2>2 DEF Delivered
  <2>3. QED
    BY <1>2, <2>1, <2>2 DEF CopyEnds
<1>3. CASE SchemaStarts \/ SchemaEnds
  <2>1. ArtifactsReady' = ArtifactsReady /\ Fresh' = Fresh /\ UNCHANGED <<prep, repo>>
    BY <1>3 DEF SchemaStarts, SchemaEnds, ArtifactsReady, Fresh
  <2>2. CASE SchemaStarts
    BY <2>1, <2>2 DEF Delivered, SchemaStarts
  <2>3. CASE SchemaEnds
    <3>1. ArtifactsReady /\ schema' = prep["schema.json"] /\ step = "writing" /\ step' = "done"
      BY <2>3 DEF Delivered, SchemaEnds
    <3>2. Artifacts[4] \in Upto(4)
      BY DEF Upto
    <3>3. "schema.json" \in DOMAIN prep
      BY <3>1, <3>2, ArtifactNames DEF ArtifactsReady
    <3>4. Fresh => schema' = repo /\ repo.whole /\ \A a \in DOMAIN prep : prep[a] = repo
      BY <3>1, <3>3 DEF Delivered
    <3>5. QED
      BY <2>1, <3>1, <3>4 DEF Delivered
  <2>4. QED
    BY <1>3, <2>2, <2>3
<1>4. CASE step' \notin {"schema", "writing", "done"}
  BY <1>4 DEF Delivered
<1>5. CASE UNCHANGED prepVars
  BY <1>5 DEF Delivered, ArtifactsReady, Fresh, prepVars
<1>6. QED
  BY <1>1, <1>2, <1>3, <1>4, <1>5
     DEF PrepNext, Run, RemoveIroha, LinkPath, GitInit, GitFetch, EmptyPrep, Build, EmptyForCopy,
         CopyStarts, Interrupted

-----------------------------------------------------------------------------
\* The invariant the results below come from.
THEOREM PrepInductive == PrepSpec => []PrepIInv
<1>1. PrepInit => PrepIInv
  <2> SUFFICES ASSUME PrepInit PROVE PrepIInv
    OBVIOUS
  <2>1. DOMAIN prep = {} /\ step = "done" /\ copied = 0 /\ ~args.force /\ args.source = Nothing
    BY DEF PrepInit
  <2>2. PrepTypeOK
    <3>1. args \in Args /\ step \in Steps /\ copied \in 0 .. Len(Artifacts)
      BY ArtifactNames DEF PrepInit, Args, Steps, Ended
    <3>2. repo \in Files /\ schema \in Files
      BY MakeFile DEF PrepInit
    <3>3. QED
      BY <2>1, <3>1, <3>2 DEF PrepTypeOK
  <2>3. OneSource /\ LastIncomplete
    BY <2>1 DEF OneSource, LastIncomplete
  <2>4. Copying
    BY <2>1, MakeFile DEF PrepInit, Copying, Ended
  <2>5. Nothing \notin Revisions
    BY NothingAssumption
  <2>6. Origin /\ Delivered
    BY <2>1, <2>5 DEF Origin, Delivered, Fresh
  <2>7. QED
    BY <2>2, <2>3, <2>4, <2>6 DEF PrepIInv
<1>2. PrepIInv /\ [PrepNext]_prepVars => PrepIInv'
  BY PrepTypeStep, OneSourceStep, LastIncompleteStep, CopyingStep, OriginStep, DeliveredStep DEF PrepIInv
<1>3. QED
  BY <1>1, <1>2, PTL DEF PrepSpec

\* The variables of the task and of the disk have their types; in particular a
\* schema is only ever copied from an artifact that is there.
THEOREM PrepTypeCorrect == PrepSpec => []PrepTypeOK
<1>1. PrepIInv => PrepTypeOK
  BY DEF PrepIInv
<1>2. QED
  BY <1>1, PrepInductive, PTL

\* The artifacts that artifactsReady accepts are of one source, and all but the
\* last one copied are complete.
THEOREM AcceptedAlwaysOfOneSource == PrepSpec => []AcceptedIsOfOneSource
<1>1. PrepIInv => AcceptedIsOfOneSource
  <2> SUFFICES ASSUME PrepIInv, ArtifactsReady PROVE AcceptedIsOfOneSource
    BY DEF AcceptedIsOfOneSource
  <2>1. DOMAIN prep = Upto(4)
    BY ArtifactNames DEF ArtifactsReady
  <2>2. ASSUME NEW a \in DOMAIN prep, a # Last(Artifacts) PROVE prep[a].whole
    <3>1. PICK i \in 1 .. 4 : a = Artifacts[i]
      BY <2>1 DEF Upto
    <3>2. i < 4
      BY <2>2, <3>1, ArtifactNames
    <3>3. Artifacts[4] \in DOMAIN prep
      BY <2>1 DEF Upto
    <3>4. QED
      BY <3>1, <3>2, <3>3 DEF PrepIInv, LastIncomplete
  <2>3. QED
    BY <2>2 DEF PrepIInv, OneSource, AcceptedIsOfOneSource
<1>2. QED
  BY <1>1, PrepInductive, PTL

\* A run with --git or --force that ends well leaves the artifacts and the
\* schema of its repository, complete, whatever was interrupted before.
THEOREM FreshRunAlwaysDelivers == PrepSpec => []FreshRunDelivers
<1>1. PrepIInv => FreshRunDelivers
  <2> SUFFICES ASSUME PrepIInv, step = "done", Fresh PROVE FreshRunDelivers
    BY DEF FreshRunDelivers, Fresh
  <2>1. ArtifactsReady /\ repo.whole /\ schema = repo /\ \A a \in DOMAIN prep : prep[a] = repo
    BY DEF PrepIInv, Delivered
  <2>2. args.source # Nothing => repo.of = args.source
    BY DEF PrepIInv, Origin, File
  <2>3. QED
    BY <2>1, <2>2 DEF FreshRunDelivers
<1>2. QED
  BY <1>1, PrepInductive, PTL
=============================================================================
