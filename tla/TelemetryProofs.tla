-------------------------- MODULE TelemetryProofs --------------------------
(***************************************************************************)
(* Proofs about Telemetry: what the agent and the hub promise each other   *)
(* over the wire, for any set of senders, batches and requests, any limits *)
(* and any faults.                                                         *)
(*                                                                         *)
(* The invariant EndToEnd joins those of AgentClientProofs and             *)
(* HubIngestProofs by what only the composition knows: which request of    *)
(* the hub answers which exchange of the agent.  The steps of Telemetry    *)
(* are first shown to be steps of the two components, whose invariants     *)
(* they then keep; what is left to prove is the wire.                      *)
(***************************************************************************)
EXTENDS Telemetry, TLAPS

\* The components as their proofs see them.  Agent and Hub of Telemetry are
\* the same modules without the theorems.
A == INSTANCE AgentClientProofs
H == INSTANCE HubIngestProofs

USE TelemetryAssumption DEF Agent!Free, A!Free

-----------------------------------------------------------------------------
(* The steps of the hub *)

\* Both instances count the requests that hold a slot alike.
LEMMA SameSlots == Hub!SlotsTaken = H!SlotsTaken
<1>1. \A q \in Request : Hub!InSlot(q) = H!InSlot(q)
  BY DEF Hub!InSlot, H!InSlot
<1>2. {q \in Request : Hub!InSlot(q)} = {q \in Request : H!InSlot(q)}
  BY <1>1
<1> QED
  BY <1>2 DEF Hub!SlotsTaken, H!SlotsTaken, H!Cardinality, Hub!Cardinality

\* A step of a handler is a step of the handler in HubIngest.
LEMMA SameServe == ASSUME NEW r, Hub!Serve(r) PROVE H!Serve(r)
<1>1. Hub!TakeSlot(r) => H!TakeSlot(r)
  BY SameSlots DEF Hub!TakeSlot, H!TakeSlot, Hub!Go, H!Go, Hub!dbVars, H!dbVars, Hub!patternVars,
         H!patternVars
<1>2. Hub!HubBusy(r) => H!HubBusy(r)
  BY SameSlots DEF Hub!HubBusy, H!HubBusy, Hub!Go, H!Go, Hub!dbVars, H!dbVars, Hub!patternVars,
         H!patternVars, Hub!AnswerWith, H!AnswerWith
<1>3. Hub!LeaveQueue(r) => H!LeaveQueue(r)
  BY DEF Hub!LeaveQueue, H!LeaveQueue, Hub!Go, H!Go, Hub!dbVars, H!dbVars, Hub!patternVars,
         H!patternVars, Hub!End, H!End
<1>4. Hub!Refuse(r) => H!Refuse(r)
  BY DEF Hub!Refuse, H!Refuse, Hub!Go, H!Go, Hub!AnswerWith, H!AnswerWith, Hub!dbVars, H!dbVars,
         Hub!patternVars, H!patternVars
<1>5. Hub!Decode(r) => H!Decode(r)
  BY DEF Hub!Decode, H!Decode, Hub!Go, H!Go, Hub!dbVars, H!dbVars, Hub!patternVars,
         H!patternVars
<1>6. Hub!Claim(r) => H!Claim(r)
  BY DEF Hub!Claim, H!Claim, Hub!ClaimFree, H!ClaimFree, Hub!HoldsClaim, H!HoldsClaim, Hub!Go,
         H!Go, Hub!dbVars, H!dbVars, Hub!patternVars, H!patternVars
<1>7. Hub!Repeat(r) => H!Repeat(r)
  BY DEF Hub!Repeat, H!Repeat, Hub!ClaimFree, H!ClaimFree, Hub!HoldsClaim, H!HoldsClaim, Hub!Go,
         H!Go, Hub!AnswerWith, H!AnswerWith, Hub!dbVars, H!dbVars, Hub!patternVars,
         H!patternVars
<1>8. Hub!WriteInTx(r) => H!WriteInTx(r)
  BY DEF Hub!WriteInTx, H!WriteInTx, Hub!FnStep, H!FnStep, Hub!Go, H!Go, Hub!WriteCount,
         H!WriteCount, Hub!WritesOf, H!WritesOf, Hub!patternVars, H!patternVars
<1>9. Hub!WriteAlone(r) => H!WriteAlone(r)
  BY DEF Hub!WriteAlone, H!WriteAlone, Hub!FnStep, H!FnStep, Hub!NextWrite, H!NextWrite, Hub!Go,
         H!Go, Hub!WriteCount, H!WriteCount, Hub!WritesOf, H!WritesOf, Hub!patternVars,
         H!patternVars
<1>10. Hub!Commit(r) => H!Commit(r)
  BY DEF Hub!Commit, H!Commit, Hub!Stored, H!Stored, Hub!Go, H!Go, Hub!Write, H!Write,
         Hub!WritesSet, H!WritesSet, Hub!WritesOf, H!WritesOf, Hub!patternVars, H!patternVars
<1>11. Hub!CommitUnknown(r) => H!CommitUnknown(r)
  BY DEF Hub!CommitUnknown, H!CommitUnknown, Hub!Stored, H!Stored, Hub!Go, H!Go, Hub!AnswerWith,
         H!AnswerWith, Hub!Write, H!Write, Hub!WritesSet, H!WritesSet, Hub!WritesOf, H!WritesOf,
         Hub!patternVars, H!patternVars
<1>12. Hub!StoreError(r) => H!StoreError(r)
  BY DEF Hub!StoreError, H!StoreError, Hub!Go, H!Go, Hub!AnswerWith, H!AnswerWith, Hub!dbVars,
         H!dbVars, Hub!patternVars, H!patternVars
<1>13. Hub!Effect(r) => H!Effect(r)
  BY DEF Hub!Effect, H!Effect, Hub!QueueHasRoom, H!QueueHasRoom, Hub!Go, H!Go, Hub!AnswerWith,
         H!AnswerWith, Hub!dbVars, H!dbVars
<1> QED
  BY <1>1, <1>2, <1>3, <1>4, <1>5, <1>6, <1>7, <1>8, <1>9, <1>10, <1>11, <1>12, <1>13 DEF Hub!Serve, H!Serve

\* The pattern worker runs as its component does.
LEMMA SameHubWork == Hub!Work => H!Work
<1>1. Hub!WorkerTakes => H!WorkerTakes
  BY DEF Hub!WorkerTakes, H!WorkerTakes, Hub!Idle, H!Idle, Hub!dbVars, H!dbVars
<1>2. Hub!WorkerPatterns => H!WorkerPatterns
  BY DEF Hub!WorkerPatterns, H!WorkerPatterns, Hub!dbVars, H!dbVars
<1>3. Hub!WorkerEdges => H!WorkerEdges
  BY DEF Hub!WorkerEdges, H!WorkerEdges, Hub!Idle, H!Idle, Hub!dbVars, H!dbVars
<1> QED
  BY <1>1, <1>2, <1>3 DEF Hub!Work, H!Work

\* So are a request's arrival,
LEMMA SameArrive == \A r, b : Hub!Arrive(r, b) => H!Arrive(r, b)
BY DEF Hub!Arrive, H!Arrive, Hub!Go, H!Go, Hub!Write, H!Write, Hub!dbVars, H!dbVars,
       Hub!patternVars, H!patternVars

\* its answer,
LEMMA SameAnswer == \A r : Hub!Answer(r) => H!Answer(r)
BY DEF Hub!Answer, H!Answer, Hub!Go, H!Go, Hub!End, H!End, Hub!dbVars, H!dbVars,
       Hub!patternVars, H!patternVars

\* the end of its connection
LEMMA SameHangup == \A r : Hub!Hangup(r) => H!Hangup(r)
BY DEF Hub!Hangup, H!Hangup, Hub!dbVars, H!dbVars, Hub!patternVars, H!patternVars

\* and the end of the hub's process.
LEMMA SameCrash == Hub!Crash => H!Crash
BY DEF Hub!Crash, H!Crash, Hub!Idle, H!Idle, Hub!dbVars, H!dbVars

-----------------------------------------------------------------------------
(* The steps of the agent *)

\* Both instances read the spool directory alike: its size, its oldest file
\* and the name of the next.
LEMMA SameDirectory ==
  \A d : /\ Agent!Used(d) = A!Used(d) /\ Agent!Oldest(d) = A!Oldest(d)
         /\ Agent!NextName(d) = A!NextName(d)
<1>1. \A d : Agent!Used(d) = A!Used(d)
  BY DEF A!Used, Agent!Used, A!MapThenSumSet, Agent!MapThenSumSet, A!MapThenFoldSet,
         Agent!MapThenFoldSet
<1>2. \A d : Agent!Oldest(d) = A!Oldest(d) /\ Agent!NextName(d) = A!NextName(d)
  BY DEF A!Oldest, Agent!Oldest, A!Min, Agent!Min, A!Max, Agent!Max, A!Newest, Agent!Newest,
         A!NextName, Agent!NextName
<1> QED
  BY <1>1, <1>2

\* And they see the same exchange of a sender.
LEMMA SameCall == \A s : Agent!CallCtx(s) = A!CallCtx(s) /\ Agent!CallBatch(s) = A!CallBatch(s)
BY DEF Agent!CallCtx, A!CallCtx, Agent!CallBatch, A!CallBatch, Agent!InDrain, A!InDrain

\* What a sender does between two exchanges is a step of AgentClient,
LEMMA SameAgentWork == ASSUME NEW s, Agent!Work(s) PROVE A!Work(s)
<1>1. Agent!Lock(s) => A!Lock(s)
  BY DEF Agent!Lock, A!Lock, Agent!MuIsFree, A!MuIsFree, Agent!DrainsFirst, A!DrainsFirst,
         Agent!Free, A!Free, Agent!diskVars, A!diskVars, Agent!replayVars, A!replayVars
<1>2. Agent!DrainEmpty(s) => A!DrainEmpty(s)
  BY DEF Agent!DrainEmpty, A!DrainEmpty, Agent!EmptyDirectory, A!EmptyDirectory, Agent!EndDrain,
         A!EndDrain, Agent!NoItem, A!NoItem, Agent!diskVars, A!diskVars, Agent!replayVars,
         A!replayVars
<1>3. Agent!DrainFront(s) => A!DrainFront(s)
  BY SameDirectory DEF Agent!DrainFront, A!DrainFront, Agent!EmptyDirectory, A!EmptyDirectory, Agent!diskVars,
         A!diskVars, Agent!replayVars, A!replayVars
<1>4. Agent!DrainCorrupt(s) => A!DrainCorrupt(s)
  BY SameDirectory DEF Agent!DrainCorrupt, A!DrainCorrupt, Agent!EmptyDirectory, A!EmptyDirectory,
         Agent!Without, A!Without, Agent!diskVars, A!diskVars, Agent!replayVars, A!replayVars
<1>5. Agent!DrainUnreadable(s) => A!DrainUnreadable(s)
  BY DEF Agent!DrainUnreadable, A!DrainUnreadable, Agent!EndDrain, A!EndDrain, Agent!NoItem,
         A!NoItem, Agent!diskVars, A!diskVars, Agent!replayVars, A!replayVars
<1>6. Agent!RemoveItem(s) => A!RemoveItem(s)
  BY DEF Agent!RemoveItem, A!RemoveItem, Agent!Without, A!Without, Agent!NoItem, A!NoItem,
         Agent!diskVars, A!diskVars, Agent!replayVars, A!replayVars
<1>7. Agent!RemoveFails(s) => A!RemoveFails(s)
  BY DEF Agent!RemoveFails, A!RemoveFails, Agent!EndDrain, A!EndDrain, Agent!NoItem, A!NoItem,
         Agent!diskVars, A!diskVars, Agent!replayVars, A!replayVars
<1>8. Agent!GiveUp(s) => A!GiveUp(s)
  BY SameCall DEF Agent!GiveUp, A!GiveUp, Agent!ReturnTransient, A!ReturnTransient, Agent!EndDrain,
         A!EndDrain, Agent!NoItem, A!NoItem, Agent!diskVars, A!diskVars, Agent!replayVars,
         A!replayVars
<1>9. Agent!GiveUpCancelled(s) => A!GiveUpCancelled(s)
  BY SameCall DEF Agent!GiveUpCancelled, A!GiveUpCancelled, Agent!ReturnFinal, A!ReturnFinal,
         Agent!Return, A!Return, Agent!Free, A!Free, Agent!diskVars, A!diskVars,
         Agent!replayVars, A!replayVars
<1>10. Agent!PutDropOldest(s) => A!PutDropOldest(s)
  BY SameDirectory DEF Agent!PutDropOldest, A!PutDropOldest, Agent!TooLarge, A!TooLarge, Agent!NoRoomFor,
         A!NoRoomFor, Agent!EmptyDirectory, A!EmptyDirectory, Agent!Without, A!Without,
         Agent!diskVars, A!diskVars, Agent!replayVars, A!replayVars
<1>11. Agent!PutFile(s) => A!PutFile(s)
  BY SameDirectory DEF Agent!PutFile, A!PutFile, Agent!TooLarge, A!TooLarge, Agent!NoRoomFor, A!NoRoomFor,
         Agent!EmptyDirectory, A!EmptyDirectory, Agent!With, A!With, Agent!Name, A!Name,
         Agent!Return, A!Return, Agent!Free, A!Free, Agent!diskVars, A!diskVars,
         Agent!replayVars, A!replayVars
<1>12. Agent!PutFails(s) => A!PutFails(s)
  BY DEF Agent!PutFails, A!PutFails, Agent!TooLarge, A!TooLarge, Agent!Return, A!Return,
         Agent!Free, A!Free, Agent!diskVars, A!diskVars, Agent!replayVars, A!replayVars
<1> QED
  BY <1>1, <1>2, <1>3, <1>4, <1>5, <1>6, <1>7, <1>8, <1>9, <1>10, <1>11, <1>12 DEF Agent!Work, A!Work

\* and so are the start of an exchange and the end of its context,
LEMMA SameAgentCall ==
  ASSUME NEW s
  PROVE  /\ Agent!Attempt(s) => A!Attempt(s)
         /\ Agent!Expire(s) => A!Expire(s)
         /\ \A b : Agent!Begin(s, b) => A!Begin(s, b)
BY SameCall DEF Agent!Attempt, A!Attempt, Agent!AttemptsLeft, A!AttemptsLeft, Agent!Expire, A!Expire,
       Agent!Begin, A!Begin, Agent!Kept, A!Kept, Agent!InHand, A!InHand, Agent!Stored, A!Stored,
       Agent!diskVars, A!diskVars, Agent!replayVars, A!replayVars

\* the outcomes of an exchange,
LEMMA SameAnswered ==
  ASSUME NEW s
  PROVE  /\ Agent!AnswerOK(s) => A!AnswerOK(s)
         /\ Agent!AnswerRefused(s) => A!AnswerRefused(s)
         /\ Agent!AnswerTransient(s) => A!AnswerTransient(s)
         /\ Agent!AnswerCancelled(s) => A!AnswerCancelled(s)
BY SameCall DEF Agent!AnswerOK, A!AnswerOK, Agent!AnswerRefused, A!AnswerRefused, Agent!AnswerTransient,
       A!AnswerTransient, Agent!AnswerCancelled, A!AnswerCancelled, Agent!ReturnFinal,
       A!ReturnFinal, Agent!Return, A!Return, Agent!Free, A!Free, Agent!diskVars, A!diskVars,
       Agent!replayVars, A!replayVars

\* the ways to lose a batch that NamedLoss lists, here from the component to
\* the composition,
LEMMA SameLosses ==
  ASSUME NEW s
  PROVE  /\ A!PutDropOldest(s) => Agent!PutDropOldest(s)
         /\ A!PutFails(s) => Agent!PutFails(s)
         /\ A!DrainCorrupt(s) => Agent!DrainCorrupt(s)
         /\ A!GiveUpCancelled(s) => Agent!GiveUpCancelled(s)
         /\ A!OutOfNames(s) => Agent!PutFile(s) /\ Agent!NextName(dir) \notin Agent!Name
<1>1. A!PutDropOldest(s) => Agent!PutDropOldest(s)
  BY SameDirectory DEF Agent!PutDropOldest, A!PutDropOldest, Agent!TooLarge, A!TooLarge,
     Agent!NoRoomFor, A!NoRoomFor, Agent!EmptyDirectory, A!EmptyDirectory, Agent!Without,
     A!Without, Agent!diskVars, A!diskVars, Agent!replayVars, A!replayVars
<1>2. A!PutFails(s) => Agent!PutFails(s)
  BY DEF Agent!PutFails, A!PutFails, Agent!TooLarge, A!TooLarge, Agent!Return, A!Return,
         Agent!Free, A!Free, Agent!diskVars, A!diskVars, Agent!replayVars, A!replayVars
<1>3. A!DrainCorrupt(s) => Agent!DrainCorrupt(s)
  BY SameDirectory DEF Agent!DrainCorrupt, A!DrainCorrupt, Agent!EmptyDirectory,
     A!EmptyDirectory, Agent!Without, A!Without, Agent!diskVars, A!diskVars,
     Agent!replayVars, A!replayVars
<1>4. A!GiveUpCancelled(s) => Agent!GiveUpCancelled(s)
  BY SameCall DEF Agent!GiveUpCancelled, A!GiveUpCancelled, Agent!ReturnFinal, A!ReturnFinal,
     Agent!Return, A!Return, Agent!Free, A!Free, Agent!diskVars, A!diskVars,
     Agent!replayVars, A!replayVars
<1>5. A!PutFile(s) => Agent!PutFile(s)
  BY SameDirectory DEF Agent!PutFile, A!PutFile, Agent!TooLarge, A!TooLarge, Agent!NoRoomFor,
     A!NoRoomFor, Agent!EmptyDirectory, A!EmptyDirectory, Agent!With, A!With, Agent!Name,
     A!Name, Agent!Return, A!Return, Agent!Free, A!Free, Agent!diskVars, A!diskVars,
     Agent!replayVars, A!replayVars
<1>6. A!OutOfNames(s) => Agent!PutFile(s) /\ Agent!NextName(dir) \notin Agent!Name
  BY <1>5, SameDirectory DEF A!OutOfNames, A!Name, Agent!Name
<1> QED
  BY <1>1, <1>2, <1>3, <1>4, <1>6

\* and what ends the process.
LEMMA SameProcess ==
  /\ Agent!Stop => A!Stop
  /\ Agent!Exit => A!Exit
  /\ Agent!Kill => A!Kill
BY DEF Agent!Stop, A!Stop, Agent!Exit, A!Exit, Agent!Kill, A!Kill, Agent!Restart, A!Restart,
       Agent!NoItem, A!NoItem, Agent!Free, A!Free, Agent!diskVars, A!diskVars, Agent!replayVars,
       A!replayVars

-----------------------------------------------------------------------------
(* The invariant *)

\* A request the hub knows to be abandoned is nobody's exchange.
GoneIsOrphan == \A r \in gone : Orphan(r)

\* A replayed item whose file is about to go is stored or refused: the verdict
\* of replayItem stands until SpoolQueue.Remove acts on it.
Removal == \A s \in Sender : pc[s] = "remove" => item[s].batch \in claimed \cup Invalid

\* WireOK alone is not inductive: that an answer is the exchange's own needs
\* the states of both ends, that the rows are stored needs HubIngest's claims,
\* and that a file may go needs the verdict, which the wire no longer carries.
EndToEnd ==
  /\ A!ClientInv /\ H!TypeInv /\ H!ClaimInv /\ H!AnswerInv
  /\ WireOK /\ GoneIsOrphan /\ Removal

\* Every step of Telemetry is a step of the agent or leaves it alone.
LEMMA AgentStep == [Next]_vars => [A!Next]_(A!agentVars)
<1> SUFFICES ASSUME [Next]_vars
             PROVE  A!Next \/ UNCHANGED A!agentVars
    OBVIOUS
<1>1. UNCHANGED agentVars => UNCHANGED A!agentVars
  BY DEF agentVars, A!agentVars
<1>2. ASSUME NEW s \in Sender, NEW b \in Batch, Collect(s, b)
      PROVE  A!Next
  BY <1>2, SameAgentCall DEF Collect, A!Next
<1>3. ASSUME NEW s \in Sender, AgentWorks(s)
      PROVE  A!Next
  BY <1>3, SameAgentCall, SameAgentWork DEF AgentWorks, A!Next
<1>4. ASSUME NEW s \in Sender, Send(s)
      PROVE  A!Next
  BY <1>4, SameAgentCall DEF Send, A!Next
<1>5. ASSUME NEW s \in Sender, Receive(s) \/ NoAnswer(s)
      PROVE  A!Next
  <2>1. A!Answered(s)
    BY <1>5, SameAnswered DEF Receive, NoAnswer, A!Answered
  <2> QED
    BY <2>1 DEF A!Next
<1>6. CASE AgentStops \/ AgentDies
  BY <1>6, SameProcess DEF AgentStops, AgentDies, A!Next
<1>7. CASE HubWorks \/ HubDies \/ \E r \in Request : HubMissesClient(r)
  BY <1>1, <1>7 DEF HubWorks, HubDies, HubMissesClient
<1>8. CASE UNCHANGED vars
  BY <1>1, <1>8 DEF vars
<1> QED
  BY <1>2, <1>3, <1>4, <1>5, <1>6, <1>7, <1>8 DEF Next

\* Every step of Telemetry is a step of the hub or leaves it alone.  A request
\* the agent sends arrives as a batch of the hub.
LEMMA HubStep == A!ClientInv /\ [Next]_vars => [H!Next]_(H!hubVars)
<1> SUFFICES ASSUME A!ClientInv, [Next]_vars
             PROVE  H!Next \/ UNCHANGED H!hubVars
    OBVIOUS
<1>1. UNCHANGED hubVars => UNCHANGED H!hubVars
  BY DEF hubVars, H!hubVars
<1>2. ASSUME NEW s \in Sender, Send(s)
      PROVE  H!Next \/ UNCHANGED H!hubVars
  <2>1. A!CallBatch(s) \in Batch
    BY <1>2, SameAgentCall, A!AttemptHasBatch DEF Send
  <2>2. CASE UNCHANGED hubVars
    BY <1>1, <2>2
  <2>3. ASSUME NEW r \in Request, Hub!Arrive(r, Agent!CallBatch(s))
        PROVE  H!Next
    BY <2>1, <2>3, SameCall, SameArrive DEF H!Next
  <2> QED
    BY <1>2, <2>2, <2>3 DEF Send
<1>3. ASSUME NEW s \in Sender, Receive(s)
      PROVE  H!Next
  BY <1>3, SameAnswer DEF Receive, H!Next
<1>4. CASE HubWorks
  BY <1>4, SameHubWork, SameServe DEF HubWorks, H!Next
<1>5. ASSUME NEW r \in Request, HubMissesClient(r)
      PROVE  H!Next
  BY <1>5, SameHangup, SameAnswer DEF HubMissesClient, H!Next
<1>6. CASE HubDies
  BY <1>6, SameCrash DEF HubDies, H!Next
<1>7. ASSUME NEW s \in Sender, AgentWorks(s) \/ NoAnswer(s) \/ \E b \in Batch : Collect(s, b)
      PROVE  UNCHANGED H!hubVars
  BY <1>1, <1>7 DEF AgentWorks, NoAnswer, Collect
<1>8. CASE AgentStops \/ AgentDies \/ UNCHANGED vars
  BY <1>1, <1>8 DEF AgentStops, AgentDies, vars
<1> QED
  BY <1>2, <1>3, <1>4, <1>5, <1>6, <1>7, <1>8 DEF Next

\* So the two components keep their invariants, and the hub forgets no claim.
LEMMA PartsKeep ==
  ASSUME A!ClientInv, H!TypeInv, H!ClaimInv, H!AnswerInv, [Next]_vars
  PROVE  A!ClientInv' /\ H!TypeInv' /\ H!ClaimInv' /\ H!AnswerInv' /\ claimed \subseteq claimed'
<1>1. [A!Next]_(A!agentVars)
  BY AgentStep
<1>2. [H!Next]_(H!hubVars)
  BY HubStep
<1>3. A!ClientInv'
  BY <1>1, A!ClientNext
<1>4. H!TypeInv' /\ claimed \subseteq claimed'
  BY <1>2, H!TypeNext, H!ClaimedStays
<1>5. H!ClaimInv' /\ H!AnswerInv'
  BY <1>2, H!ClaimNext, H!AnswerNext
<1> QED
  BY <1>3, <1>4, <1>5

-----------------------------------------------------------------------------
(* The wire *)

\* A step that starts no exchange keeps WireOK when it leaves the sender and
\* the request of every exchange that stays on the wire as they were.
LEMMA WireKept ==
  ASSUME WireOK, wire' \in [Sender -> Request \cup {NoRequest}], used' \subseteq Batch,
         \A t \in Sender : wire'[t] # NoRequest =>
            /\ wire'[t] = wire[t]
            /\ UNCHANGED <<pc[t], batch[t], item[t]>>
            /\ at'[wire[t]] # "none" /\ req'[wire[t]] = req[wire[t]],
         \A r \in gone' : r \in Request /\ Orphan(r)
  PROVE  WireOK' /\ GoneIsOrphan'
<1>1. ASSUME NEW t \in Sender, wire'[t] # NoRequest
      PROVE  /\ pc'[t] \in {"replaying", "posting"}
             /\ at'[wire'[t]] # "none" /\ req'[wire'[t]] = Agent!CallBatch(t)'
             /\ \A u \in Sender : u # t => wire'[u] # wire'[t]
  <2>1. wire'[t] = wire[t] /\ wire[t] # NoRequest
    BY <1>1
  <2>2. Agent!CallBatch(t)' = Agent!CallBatch(t)
    BY <1>1 DEF Agent!CallBatch, Agent!InDrain
  <2>3. \A u \in Sender : wire'[u] = wire[t] => wire[u] = wire[t]
    BY <2>1
  <2>4. /\ pc[t] \in {"replaying", "posting"} /\ req[wire[t]] = Agent!CallBatch(t)
        /\ \A u \in Sender : u # t => wire[u] # wire[t]
    BY <2>1 DEF WireOK
  <2> QED
    BY <1>1, <2>1, <2>2, <2>3, <2>4
<1>2. WireOK'
  BY <1>1 DEF WireOK
<1>3. GoneIsOrphan'
  <2>1. ASSUME NEW r \in gone', NEW t \in Sender
        PROVE  wire'[t] # r
    BY DEF Orphan
  <2> QED
    BY <2>1 DEF GoneIsOrphan, Orphan
<1> QED
  BY <1>2, <1>3

\* Nothing is on the wire at the start.
LEMMA WireInit == Init => WireOK /\ GoneIsOrphan /\ Removal
BY DEF Init, WireOK, GoneIsOrphan, Removal, Hub!Init, Agent!Init

\* A sender outside of an exchange has no request.
LEMMA Unattached ==
  ASSUME WireOK, NEW s \in Sender, pc[s] \notin {"replaying", "posting"}
  PROVE  wire[s] = NoRequest
BY DEF WireOK

\* Every step keeps the wire: an exchange begins on a request no one had, its
\* request changes only in its handler, and it leaves the wire with its end.
LEMMA WireNext == EndToEnd /\ [Next]_vars => WireOK' /\ GoneIsOrphan'
<1> SUFFICES ASSUME EndToEnd, [Next]_vars
             PROVE  WireOK' /\ GoneIsOrphan'
    OBVIOUS
<1>a. /\ A!ClientInv /\ H!TypeInv /\ WireOK /\ GoneIsOrphan
      /\ wire \in [Sender -> Request \cup {NoRequest}] /\ used \subseteq Batch
      /\ \A t \in Sender : wire[t] # NoRequest => at[wire[t]] # "none"
      /\ gone \subseteq Request
  BY DEF EndToEnd, WireOK, H!TypeInv, H!TypeOK
<1>b. \A r \in gone : r \in Request /\ Orphan(r)
  BY <1>a DEF GoneIsOrphan
<1>1. ASSUME NEW s \in Sender, NEW b \in Batch, Collect(s, b)
      PROVE  WireOK' /\ GoneIsOrphan'
  <2>1. A!Begin(s, b) /\ used' = used \cup {b} /\ UNCHANGED <<at, req, gone, wire>>
    BY <1>1, SameAgentCall DEF Collect, hubVars
  <2>2. A!MovesOnly(s) /\ wire[s] = NoRequest
    BY <1>a, <2>1, A!CallMovesOne, A!WorksAlone, Unattached
  <2> QED
    BY <1>a, <1>b, <2>1, <2>2, WireKept DEF A!MovesOnly
<1>2. ASSUME NEW s \in Sender, AgentWorks(s)
      PROVE  WireOK' /\ GoneIsOrphan'
  <2>1. UNCHANGED <<at, req, gone, wire, used>>
    BY <1>2 DEF AgentWorks, hubVars
  <2>2. CASE Agent!Work(s)
    <3>1. A!MovesOnly(s) /\ wire[s] = NoRequest
      BY <1>a, <2>2, SameAgentWork, A!WorkMovesOne, A!WorksAlone, Unattached
    <3> QED
      BY <1>a, <1>b, <2>1, <3>1, WireKept DEF A!MovesOnly
  <2>3. CASE Agent!Expire(s)
    <3>1. UNCHANGED <<pc, batch, item>>
      BY <2>3 DEF Agent!Expire
    <3> QED
      BY <1>a, <1>b, <2>1, <3>1, WireKept
  <2> QED
    BY <1>2, <2>2, <2>3 DEF AgentWorks
<1>3. ASSUME NEW s \in Sender, Receive(s) \/ NoAnswer(s)
      PROVE  WireOK' /\ GoneIsOrphan'
  <2>1. /\ A!MovesOnly(s) /\ used' = used
        /\ wire' = [wire EXCEPT ![s] = NoRequest]
    <3>1. A!Answered(s)
      BY <1>3, SameAnswered DEF Receive, NoAnswer, A!Answered
    <3>2. A!MovesOnly(s)
      BY <1>a, <3>1, A!CallMovesOne
    <3> QED
      BY <1>3, <3>2 DEF Receive, NoAnswer, Detach
  <2>2. CASE NoAnswer(s)
    <3>1. UNCHANGED <<at, req, gone>>
      BY <2>2 DEF NoAnswer, hubVars
    <3> QED
      BY <1>a, <1>b, <2>1, <3>1, WireKept DEF A!MovesOnly, Orphan
  <2>3. CASE Receive(s)
    <3>1. PICK r \in Request : wire[s] = r /\ Hub!Answer(r)
      BY <2>3 DEF Receive
    <3>2. /\ at' = [at EXCEPT ![r] = "none"] /\ req' = [req EXCEPT ![r] = NoBatch]
          /\ gone' = gone \ {r}
      BY <3>1 DEF Hub!Answer, Hub!End, Hub!Go
    <3>3. \A t \in Sender : t # s => wire[t] # r
      BY <3>1 DEF EndToEnd, WireOK
    <3> QED
      BY <1>a, <1>b, <2>1, <3>1, <3>2, <3>3, WireKept DEF A!MovesOnly, Orphan
  <2> QED
    BY <1>3, <2>2, <2>3
<1>4. ASSUME NEW s \in Sender, Send(s)
      PROVE  WireOK' /\ GoneIsOrphan'
  <2>1. Agent!Attempt(s) /\ A!Attempt(s) /\ used' = used
    BY <1>4, SameAgentCall DEF Send
  <2>2. A!MovesOnly(s)
    BY <1>a, <2>1, A!CallMovesOne
  <2>3. /\ wire[s] = NoRequest
        /\ pc'[s] \in {"replaying", "posting"} /\ A!CallBatch(s)' = A!CallBatch(s)
    BY <1>a, <2>1, A!AttemptHasBatch, Unattached
  <2>4. CASE UNCHANGED <<hubVars, wire>>
    <3>1. UNCHANGED <<at, req, gone, wire>>
      BY <2>4 DEF hubVars
    <3> QED
      BY <1>a, <1>b, <2>1, <2>2, <2>3, <3>1, WireKept DEF A!MovesOnly, Orphan
  <2>5. ASSUME NEW r \in Request, Hub!Arrive(r, Agent!CallBatch(s)),
               wire' = [wire EXCEPT ![s] = r]
        PROVE  WireOK' /\ GoneIsOrphan'
    <3>1. /\ at[r] = "none" /\ at' = [at EXCEPT ![r] = "slot"]
          /\ req' = [req EXCEPT ![r] = Agent!CallBatch(s)] /\ gone' = gone
      BY <2>5 DEF Hub!Arrive, Hub!Go
    <3>2. at \in [Request -> H!At] /\ DOMAIN req = Request
      BY <1>a DEF H!TypeInv, H!TypeOK
    <3>3. \A t \in Sender : wire[t] # r
      BY <1>a, <3>1
    <3>5. ASSUME NEW t \in Sender, wire'[t] # NoRequest
          PROVE  /\ pc'[t] \in {"replaying", "posting"}
                 /\ at'[wire'[t]] # "none" /\ req'[wire'[t]] = Agent!CallBatch(t)'
                 /\ \A u \in Sender : u # t => wire'[u] # wire'[t]
      <4>1. CASE t = s
        <5>1. wire'[t] = r /\ at'[r] = "slot" /\ req'[r] = Agent!CallBatch(s)
          BY <1>a, <2>5, <3>1, <3>2, <4>1
        <5>2. \A u \in Sender : u # t => wire'[u] # r
          BY <1>a, <2>5, <3>3, <4>1
        <5>3. Agent!CallBatch(s)' = Agent!CallBatch(s)
          <6>1. Agent!CallBatch(s) = A!CallBatch(s)
            BY SameCall
          <6>2. Agent!CallBatch(s)' = A!CallBatch(s)'
            BY DEF Agent!CallBatch, A!CallBatch, Agent!InDrain, A!InDrain
          <6> QED
            BY <2>3, <6>1, <6>2
        <5> QED
          BY <2>3, <4>1, <5>1, <5>2, <5>3
      <4>2. CASE t # s
        <5>1. wire'[t] = wire[t] /\ wire[t] # r /\ UNCHANGED <<pc[t], batch[t], item[t]>>
          BY <1>a, <2>2, <2>5, <3>3, <4>2 DEF A!MovesOnly
        <5>2. wire[t] \in Request /\ at'[wire[t]] = at[wire[t]] /\ req'[wire[t]] = req[wire[t]]
          BY <1>a, <3>1, <3>2, <3>5, <5>1
        <5>3. Agent!CallBatch(t)' = Agent!CallBatch(t)
          BY <5>1 DEF Agent!CallBatch, Agent!InDrain
        <5>4. \A u \in Sender : u # t => wire'[u] # wire[t]
          BY <1>a, <2>5, <3>5, <5>1 DEF WireOK
        <5> QED
          BY <1>a, <3>5, <5>1, <5>2, <5>3, <5>4 DEF WireOK
      <4> QED
        BY <4>1, <4>2
    <3>6. WireOK'
      BY <1>a, <2>1, <2>5, <3>5 DEF WireOK
    <3>7. GoneIsOrphan'
      <4>1. H!AnswerInv /\ r \notin gone
        BY <3>1 DEF EndToEnd, H!AnswerInv, H!AnswerOf
      <4>2. \A q \in gone' : \A t \in Sender : wire'[t] # q
        BY <1>a, <1>b, <2>5, <3>1, <4>1 DEF Orphan
      <4> QED
        BY <4>2 DEF GoneIsOrphan, Orphan
    <3> QED
      BY <3>6, <3>7
  <2> QED
    BY <1>4, <2>4, <2>5 DEF Send
<1>5. CASE HubWorks
  <2>1. UNCHANGED <<pc, batch, item, wire, used>>
    BY <1>5 DEF HubWorks, agentVars
  <2>2. CASE Hub!Work
    <3>1. UNCHANGED <<at, req, gone>>
      BY <2>2 DEF Hub!Work, Hub!WorkerTakes, Hub!WorkerPatterns, Hub!WorkerEdges
    <3> QED
      BY <1>a, <1>b, <2>1, <3>1, WireKept DEF Orphan
  <2>3. ASSUME NEW r \in Request, Hub!Serve(r)
        PROVE  WireOK' /\ GoneIsOrphan'
    <3>1. H!OnlyServes(r)
      BY <1>a, <2>3, SameServe, H!ServesOne
    <3>2. ASSUME NEW t \in Sender, wire[t] # NoRequest
          PROVE  at'[wire[t]] # "none" /\ req'[wire[t]] = req[wire[t]]
      <4>1. wire[t] \in Request /\ wire[t] \notin gone
        BY <1>a, <1>b, <3>2 DEF Orphan
      <4> QED
        BY <1>a, <3>1, <3>2, <4>1 DEF H!OnlyServes
    <3>3. \A q \in gone' : q \in Request /\ Orphan(q)
      BY <1>b, <3>1 DEF H!OnlyServes
    <3> QED
      BY <1>a, <2>1, <3>2, <3>3, WireKept
  <2> QED
    BY <1>5, <2>2, <2>3 DEF HubWorks
<1>6. ASSUME NEW r \in Request, HubMissesClient(r)
      PROVE  WireOK' /\ GoneIsOrphan'
  <2>1. UNCHANGED <<pc, batch, item, wire, used>> /\ Orphan(r)
    BY <1>6 DEF HubMissesClient, agentVars
  <2>2. CASE Hub!Hangup(r)
    <3>1. UNCHANGED <<at, req>> /\ gone' = gone \cup {r}
      BY <2>2 DEF Hub!Hangup
    <3> QED
      BY <1>a, <1>b, <2>1, <3>1, WireKept
  <2>3. CASE Hub!Answer(r)
    <3>1. /\ at' = [at EXCEPT ![r] = "none"] /\ req' = [req EXCEPT ![r] = NoBatch]
          /\ gone' = gone \ {r}
      BY <2>3 DEF Hub!Answer, Hub!End, Hub!Go
    <3>2. \A t \in Sender : wire[t] # r
      BY <2>1 DEF Orphan
    <3> QED
      BY <1>a, <1>b, <2>1, <3>1, <3>2, WireKept
  <2> QED
    BY <1>6, <2>2, <2>3 DEF HubMissesClient
<1>7. CASE AgentStops
  <2>1. UNCHANGED <<pc, batch, item, at, req, gone, wire, used>>
    BY <1>7 DEF AgentStops, Agent!Stop, Agent!replayVars, hubVars
  <2> QED
    BY <1>a, <1>b, <2>1, WireKept
<1>8. CASE AgentDies \/ HubDies
  <2>1. wire' = [t \in Sender |-> NoRequest] /\ used' = used /\ gone' \subseteq gone
    BY <1>8 DEF AgentDies, HubDies, Hub!Crash, hubVars
  <2> QED
    BY <1>a, <1>b, <2>1, WireKept
<1>9. CASE UNCHANGED vars
  <2>1. UNCHANGED <<pc, batch, item, at, req, gone, wire, used>>
    BY <1>9 DEF vars, agentVars, hubVars
  <2> QED
    BY <1>a, <1>b, <2>1, WireKept
<1> QED
  BY <1>1, <1>2, <1>3, <1>4, <1>5, <1>6, <1>7, <1>8, <1>9 DEF Next

-----------------------------------------------------------------------------
(* Verdicts *)

\* A step of one sender keeps Removal when the item it comes to remove is
\* stored or refused.
LEMMA RemovalKept ==
  ASSUME Removal, claimed \subseteq claimed', NEW s \in Sender, A!MovesOnly(s),
         A!ComesToRemove(s) => item'[s].batch \in claimed' \cup Invalid
  PROVE  Removal'
<1> SUFFICES ASSUME NEW t \in Sender, pc'[t] = "remove"
             PROVE  item'[t].batch \in claimed' \cup Invalid
    BY DEF Removal
<1>1. CASE UNCHANGED <<pc[t], item[t]>>
  BY <1>1 DEF Removal
<1>2. CASE ~UNCHANGED <<pc[t], item[t]>>
  <2>1. t = s
    BY <1>2 DEF A!MovesOnly
  <2> QED
    BY <1>2, <2>1 DEF A!ComesToRemove
<1> QED
  BY <1>1, <1>2

\* A 202 or a 400 the agent reads is the hub's verdict on the very batch the
\* agent has sent: 202 only after the claim, 400 only for a batch the hub
\* cannot accept.
LEMMA VerdictIsEarned ==
  ASSUME EndToEnd, NEW s \in Sender, Receive(s), ~A!AnswerTransient(s)
  PROVE  /\ A!AnswerOK(s) \/ A!AnswerRefused(s)
         /\ A!CallBatch(s) \in claimed \cup Invalid
<1>1. PICK r \in Request :
        /\ wire[s] = r /\ Hub!Answer(r)
        /\ \/ code[r] = 202 /\ A!AnswerOK(s)
           \/ code[r] = 400 /\ A!AnswerRefused(s)
  BY SameAnswered DEF Receive
<1>2. req[r] = A!CallBatch(s) /\ at[r] = "answer"
  BY <1>1, SameCall DEF EndToEnd, WireOK, Hub!Answer
<1>3. H!AnswerOf(r)
  BY DEF EndToEnd, H!AnswerInv
<1> QED
  BY <1>1, <1>2, <1>3 DEF H!AnswerOf, H!Acknowledges

\* Only such a verdict brings a sender to remove an item.
LEMMA RemovalNext == EndToEnd /\ claimed \subseteq claimed' /\ [Next]_vars => Removal'
<1> SUFFICES ASSUME EndToEnd, claimed \subseteq claimed', [Next]_vars
             PROVE  Removal'
    OBVIOUS
<1>a. A!ClientInv /\ Removal
  BY DEF EndToEnd
<1>1. ASSUME NEW s \in Sender,
             A!Work(s) \/ A!Attempt(s) \/ A!AnswerTransient(s) \/ A!AnswerCancelled(s)
             \/ A!Expire(s) \/ \E b \in Batch : A!Begin(s, b)
      PROVE  Removal'
  <2>1. A!MovesOnly(s)
    BY <1>a, <1>1, A!WorkMovesOne, A!CallMovesOne DEF A!Answered
  <2>2. ~A!ComesToRemove(s)
    BY <1>a, <1>1, A!RemovesAnswered
  <2> QED
    BY <1>a, <2>1, <2>2, RemovalKept
<1>2. ASSUME NEW s \in Sender, AgentWorks(s) \/ Send(s) \/ NoAnswer(s)
                               \/ \E b \in Batch : Collect(s, b)
      PROVE  Removal'
  BY <1>1, <1>2, SameAgentWork, SameAgentCall, SameAnswered
  DEF AgentWorks, Send, NoAnswer, Collect
<1>3. ASSUME NEW s \in Sender, Receive(s), ~A!AnswerTransient(s)
      PROVE  Removal'
  <2>1. /\ A!AnswerOK(s) \/ A!AnswerRefused(s)
        /\ A!CallBatch(s) \in claimed' \cup Invalid
    BY <1>3, VerdictIsEarned
  <2>2. A!MovesOnly(s)
    BY <1>a, <2>1, A!CallMovesOne DEF A!Answered
  <2>3. A!ComesToRemove(s) => item'[s].batch = A!CallBatch(s)
    BY <1>a, <2>1, A!VerdictForgets
  <2> QED
    BY <1>a, <2>1, <2>2, <2>3, RemovalKept
<1>4. CASE UNCHANGED <<pc, item>>
  BY <1>a, <1>4 DEF Removal
<1>5. AgentStops \/ HubWorks \/ HubDies \/ UNCHANGED vars
      \/ (\E r \in Request : HubMissesClient(r)) => UNCHANGED <<pc, item>>
  BY DEF AgentStops, Agent!Stop, Agent!replayVars, HubWorks, HubDies, HubMissesClient,
         vars, agentVars
<1>6. CASE AgentDies
  <2>1. pc' = [s \in Sender |-> "idle"]
    BY <1>6 DEF AgentDies, Agent!Exit, Agent!Kill, Agent!Restart
  <2> QED
    BY <2>1 DEF Removal
<1> QED
  BY <1>1, <1>2, <1>3, <1>4, <1>5, <1>6 DEF Next

\* The invariant holds at the start
LEMMA EndToEndInit == Init => EndToEnd
<1>1. Agent!Init => A!Init
  BY DEF Agent!Init, A!Init, Agent!EmptyDirectory, A!EmptyDirectory, Agent!NoItem, A!NoItem
<1>2. Hub!Init => H!Init
  BY DEF Hub!Init, H!Init, Hub!Write, H!Write, Hub!Idle, H!Idle
<1> QED
  BY <1>1, <1>2, A!ClientInit, H!TypeInit, H!ClaimInit, H!AnswerInit, WireInit
  DEF Init, EndToEnd

\* and every step keeps it.
LEMMA EndToEndNext == EndToEnd /\ [Next]_vars => EndToEnd'
<1> SUFFICES ASSUME EndToEnd, [Next]_vars
             PROVE  EndToEnd'
    OBVIOUS
<1>1. A!ClientInv' /\ H!TypeInv' /\ H!ClaimInv' /\ H!AnswerInv' /\ claimed \subseteq claimed'
  BY PartsKeep DEF EndToEnd
<1>2. WireOK' /\ GoneIsOrphan'
  BY WireNext
<1>3. Removal'
  BY <1>1, RemovalNext
<1> QED
  BY <1>1, <1>2, <1>3 DEF EndToEnd

-----------------------------------------------------------------------------
(* The theorems *)

\* The two ends never disagree on an exchange: every request of post is read
\* by one handler of the hub, for the batch that send or replayItem holds, and
\* a late handler of an abandoned exchange never answers another one.
THEOREM WireAgrees == Spec => []WireOK
<1>1. EndToEnd => WireOK
  BY DEF EndToEnd
<1> QED
  BY <1>1, EndToEndInit, EndToEndNext, PTL DEF Spec

\* However often send retries a batch and replay repeats it, across crashes of
\* both processes and lost answers, its rows are stored at most once, exactly
\* when IngestOnce has claimed its id, and never when the hub refuses it.
THEOREM RowsStoredOnce == Spec => []StoredOnce
<1>1. EndToEnd => StoredOnce
  <2> SUFFICES ASSUME EndToEnd, NEW b \in Batch
               PROVE  /\ copies[b]["rows"] <= 1
                      /\ b \in claimed <=> copies[b]["rows"] = 1
                      /\ b \in Invalid => b \notin claimed
      BY DEF StoredOnce
  <2>1. b \in H!Named /\ "rows" \in H!Write
    BY DEF H!Named, H!Write
  <2>2. "rows" \in H!WritesSet(b)
    <3>1. DOMAIN H!WritesOf(b) \in {1..1, 1..2} /\ H!WritesOf(b)[1] = "rows"
      BY DEF H!WritesOf
    <3> QED
      BY <3>1 DEF H!WritesSet
  <2>3. copies[b]["rows"] = IF b \in claimed /\ "rows" \in H!WritesSet(b) THEN 1 ELSE 0
    BY <2>1 DEF EndToEnd, H!ClaimInv, H!BatchIsAtomic
  <2>4. claimed \cap Invalid = {}
    BY DEF EndToEnd, H!AnswerInv
  <2> QED
    BY <2>2, <2>3, <2>4
<1> QED
  BY <1>1, EndToEndInit, EndToEndNext, PTL DEF Spec

\* Both instances know the same batches of the agent,
LEMMA SameKept == Agent!Kept = A!Kept
BY DEF Agent!Kept, A!Kept, Agent!InHand, A!InHand, Agent!Stored, A!Stored

\* after a step too.
LEMMA SameKeptNext == Agent!Kept' = A!Kept'
BY DEF Agent!Kept, A!Kept, Agent!InHand, A!InHand, Agent!Stored, A!Stored

\* The agent forgets none but bs in this step.
Forgets(bs) == \A b \in A!Kept \ A!Kept' : b \in bs

\* Only a verdict, or a named loss, makes the agent forget.
LEMMA ForgetsStored ==
  ASSUME EndToEnd, claimed \subseteq claimed', [Next]_vars, ~NamedLoss
  PROVE  Forgets(claimed' \cup Invalid)
<1>a. A!ClientInv /\ Removal
  BY DEF EndToEnd
<1>1. ASSUME A!Kept \subseteq A!Kept'
      PROVE  Forgets(claimed' \cup Invalid)
  BY <1>1 DEF Forgets
<1>2. ASSUME NEW s \in Sender, AgentWorks(s)
      PROVE  Forgets(claimed' \cup Invalid)
  <2>1. CASE Agent!Work(s)
    <3>1. ~A!PutDropOldest(s) /\ ~A!PutFails(s) /\ ~A!OutOfNames(s)
          /\ ~A!DrainCorrupt(s) /\ ~A!GiveUpCancelled(s)
      BY SameLosses DEF NamedLoss
    <3>2. \/ A!Kept \subseteq A!Kept'
          \/ pc[s] = "remove" /\ A!Kept \ A!Kept' \subseteq {item[s].batch}
      BY <1>a, <2>1, <3>1, SameAgentWork, A!WorkForgets
    <3> QED
      BY <1>1, <1>a, <3>2 DEF Forgets, Removal
  <2>2. CASE Agent!Expire(s)
    BY <1>1, <1>a, <2>2, SameAgentCall, A!CallKeeps
  <2> QED
    BY <1>2, <2>1, <2>2 DEF AgentWorks
<1>3. ASSUME NEW s \in Sender, Send(s) \/ \E b \in Batch : Collect(s, b)
      PROVE  Forgets(claimed' \cup Invalid)
  <2>1. A!Attempt(s) \/ \E b \in Batch : A!Begin(s, b)
    BY <1>3, SameAgentCall DEF Send, Collect
  <2> QED
    BY <1>1, <1>a, <2>1, A!CallKeeps
<1>4. ASSUME NEW s \in Sender, A!AnswerTransient(s)
      PROVE  Forgets(claimed' \cup Invalid)
  BY <1>1, <1>a, <1>4, A!CallKeeps
<1>5. ASSUME NEW s \in Sender, NoAnswer(s)
      PROVE  Forgets(claimed' \cup Invalid)
  BY <1>4, <1>5, SameAnswered DEF NoAnswer, NamedLoss
<1>6. ASSUME NEW s \in Sender, Receive(s), ~A!AnswerTransient(s)
      PROVE  Forgets(claimed' \cup Invalid)
  <2>1. /\ A!AnswerOK(s) \/ A!AnswerRefused(s)
        /\ A!CallBatch(s) \in claimed' \cup Invalid
    BY <1>6, VerdictIsEarned
  <2>2. A!Kept \ A!Kept' \subseteq {A!CallBatch(s)}
    BY <1>a, <2>1, A!VerdictForgets
  <2> QED
    BY <2>1, <2>2 DEF Forgets
<1>7. CASE AgentStops \/ HubWorks \/ HubDies \/ UNCHANGED vars
           \/ \E r \in Request : HubMissesClient(r)
  <2>1. UNCHANGED <<dir, batch>>
    BY <1>7 DEF AgentStops, Agent!Stop, Agent!replayVars, Agent!diskVars, HubWorks, HubDies,
                HubMissesClient, vars, agentVars
  <2> QED
    BY <1>1, <2>1, A!SameKept
<1>8. ~AgentDies
  BY DEF AgentDies, NamedLoss
<1> QED
  BY <1>2, <1>3, <1>4, <1>5, <1>6, <1>7, <1>8 DEF Next

\* The agent lets go of a batch, in its memory and on its disk, only when the
\* hub has its rows or has refused it, or by a loss the code names: Enqueue
\* that drops the oldest file or fails, a corrupt file, a cancelled exchange,
\* the end of the process.
THEOREM ForgottenIsStored == Spec => ForgottenMeansStored
<1>1. ASSUME EndToEnd, [Next]_vars
      PROVE  NamedLoss \/ \A b \in Agent!Kept \ Agent!Kept' : b \in claimed' \cup Invalid
  <2>1. claimed \subseteq claimed'
    BY <1>1, PartsKeep DEF EndToEnd
  <2> QED
    BY <1>1, <2>1, ForgetsStored, SameKept, SameKeptNext DEF Forgets
<1>2. EndToEnd /\ [Next]_vars
      => [NamedLoss \/ \A b \in Agent!Kept \ Agent!Kept' : b \in claimed' \cup Invalid]_vars
  BY <1>1
<1> QED
  BY <1>2, EndToEndInit, EndToEndNext, PTL DEF Spec, ForgottenMeansStored
=============================================================================
