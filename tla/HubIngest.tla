----------------------------- MODULE HubIngest -----------------------------
(***************************************************************************)
(* The hub's ingest path: the handlers of internal/hub/server.go behind    *)
(* the ingest slots, ApplyBatch of internal/store/postgres/batch.go, and   *)
(* what a handler does once its batch is committed.                        *)
(*                                                                         *)
(* Each request is served by a goroutine of its own.  The same batch may   *)
(* be in several requests at once: an agent that timed out sends it again  *)
(* while the first handler is still at work.  The database is Postgres at  *)
(* its default isolation, used as batch.go uses it: an INSERT of an id     *)
(* that another open transaction has inserted waits for that transaction.  *)
(***************************************************************************)
EXTENDS Naturals, Sequences, FiniteSets

CONSTANTS
  Request,    \* the requests the hub may be serving at one time
  Batch,      \* the batches clients send
  Anonymous,  \* those sent without X-Argus-Batch-Id
  Invalid,    \* those whose body the handler rejects: not JSON, or too long
  Logs,       \* those of log entries; the others write once and queue nothing
  Slots,      \* IngestConcurrency
  QueueCap,   \* the capacity of patternQueue
  MaxCopies,  \* bound: how often the rows of an anonymous batch are stored
  NoBatch

ASSUME HubAssumption ==
  /\ Anonymous \subseteq Batch /\ Invalid \subseteq Batch /\ Logs \subseteq Batch
  /\ Slots \in Nat \ {0} /\ QueueCap \in Nat \ {0} /\ MaxCopies \in Nat
  /\ NoBatch \notin Batch

VARIABLES
  at,        \* where the handler of each request is
  req,       \* the batch of each request
  gone,      \* the requests whose client has closed the connection
  done,      \* how many of fn's writes the handler has made
  code,      \* the status it is about to answer
  claimed,   \* the ids in ingest_batches
  copies,    \* how many committed copies there are of each batch's writes
  queue,     \* patternQueue
  worker,    \* what patternWorker is doing, and with which batch
  effects,   \* how often a handler went past applyIngest with the batch
  patterns   \* how often RecordLogPatterns counted the batch

hubVars == <<at, req, gone, done, code, claimed, copies, queue, worker,
             effects, patterns>>

At == {"none",    \* no such request
       "slot",    \* in ingest, waiting for a slot
       "decode",  \* reading the body
       "claim",   \* in ApplyBatch, at the INSERT into ingest_batches
       "write",   \* in fn
       "commit",  \* at tx.Commit
       "effect",  \* past applyIngest, applied
       "answer"}  \* the status is written

\* What fn writes: the log rows and then the metrics derived from them, or
\* the rows of any other batch.
Write == {"rows", "derived"}
WritesOf(b) == IF b \in Logs THEN <<"rows", "derived">> ELSE <<"rows">>

WriteCount(b) == Len(WritesOf(b))
WritesSet(b) == {WritesOf(b)[i] : i \in DOMAIN WritesOf(b)}

\* A request told that the hub is busy never had a slot.
InSlot(r) == at[r] \notin {"none", "slot"} /\ code[r] # 503
SlotsTaken == Cardinality({r \in Request : InSlot(r)})

\* The transaction of r has inserted its id and is still open.
HoldsClaim(r) == at[r] \in {"write", "commit"} /\ req[r] \notin Anonymous

Idle == [step |-> "idle", batch |-> NoBatch]
-----------------------------------------------------------------------------
Init ==
  /\ at = [r \in Request |-> "none"]
  /\ req = [r \in Request |-> NoBatch]
  /\ gone = {}
  /\ done = [r \in Request |-> 0]
  /\ code = [r \in Request |-> 0]
  /\ claimed = {}
  /\ copies = [b \in Batch |-> [w \in Write |-> 0]]
  /\ queue = <<>>
  /\ worker = Idle
  /\ effects = [b \in Batch |-> 0]
  /\ patterns = [b \in Batch |-> 0]

dbVars == <<claimed, copies>>
patternVars == <<queue, worker, patterns>>

Go(r, place) == at' = [at EXCEPT ![r] = place]

AnswerWith(r, status) ==
  /\ Go(r, "answer")
  /\ code' = [code EXCEPT ![r] = status]

\* A request arrives with the batch.
Arrive(r, b) ==
  /\ at[r] = "none"
  /\ b \in Anonymous => \A w \in Write : copies[b][w] < MaxCopies
  /\ Go(r, "slot")
  /\ req' = [req EXCEPT ![r] = b]
  /\ done' = [done EXCEPT ![r] = 0]
  /\ UNCHANGED <<gone, code, dbVars, effects, patternVars>>

\* The client closes the connection: the request's context is done.
Hangup(r) ==
  /\ at[r] # "none" /\ r \notin gone
  /\ gone' = gone \cup {r}
  /\ UNCHANGED <<at, req, done, code, dbVars, effects, patternVars>>

\* The handler is over.
End(r) ==
  /\ Go(r, "none")
  /\ req' = [req EXCEPT ![r] = NoBatch]
  /\ code' = [code EXCEPT ![r] = 0]
  /\ done' = [done EXCEPT ![r] = 0]
  /\ gone' = gone \ {r}
-----------------------------------------------------------------------------
(* ingest *)

TakeSlot(r) ==
  /\ at[r] = "slot"
  /\ SlotsTaken < Slots
  /\ Go(r, "decode")
  /\ UNCHANGED <<req, gone, done, code, dbVars, effects, patternVars>>

\* Faulty: a request waits for a slot for ever.
NeverBusy(r) == FALSE

\* IngestWait passes while every slot is taken: 503 with Retry-After.
HubBusy(r) ==
  /\ at[r] = "slot"
  /\ SlotsTaken >= Slots
  /\ AnswerWith(r, 503)
  /\ UNCHANGED <<req, gone, done, dbVars, effects, patternVars>>

\* The client is gone while the handler waits: nothing is answered.
LeaveQueue(r) ==
  /\ at[r] = "slot" /\ r \in gone
  /\ End(r)
  /\ UNCHANGED <<dbVars, effects, patternVars>>
-----------------------------------------------------------------------------
(* A handler, applyIngest and ApplyBatch *)

\* The body is not what it should be.
Refuse(r) ==
  /\ at[r] = "decode"
  /\ req[r] \in Invalid
  /\ AnswerWith(r, 400)
  /\ UNCHANGED <<req, gone, done, dbVars, effects, patternVars>>

\* The body is decoded; without an id ApplyBatch goes straight to fn.
Decode(r) ==
  /\ at[r] = "decode"
  /\ req[r] \notin Invalid
  /\ Go(r, IF req[r] \in Anonymous THEN "write" ELSE "claim")
  /\ UNCHANGED <<req, gone, done, code, dbVars, effects, patternVars>>

\* Faulty: an id in an open transaction is taken for a free one.
ClaimUnseen(r) == TRUE

\* INSERT ... ON CONFLICT DO NOTHING, once no open transaction holds the id.
ClaimFree(r) == \A other \in Request : HoldsClaim(other) => req[other] # req[r]

Claim(r) ==
  /\ at[r] = "claim"
  /\ ClaimFree(r)
  /\ req[r] \notin claimed
  /\ Go(r, "write")
  /\ UNCHANGED <<req, gone, done, code, dbVars, effects, patternVars>>

\* Faulty: a batch that another request is still storing is acknowledged.
RepeatEarly(r) ==
  /\ at[r] = "claim"
  /\ ClaimFree(r) => req[r] \in claimed
  /\ AnswerWith(r, 202)
  /\ UNCHANGED <<req, gone, done, dbVars, effects, patternVars>>

\* Faulty: the handler goes on as if a repeat were applied.
RepeatApplies(r) ==
  /\ at[r] = "claim"
  /\ ClaimFree(r)
  /\ req[r] \in claimed
  /\ Go(r, "effect")
  /\ UNCHANGED <<req, gone, done, code, dbVars, effects, patternVars>>

\* No row is inserted: a repeat, acknowledged without running fn.
Repeat(r) ==
  /\ at[r] = "claim"
  /\ ClaimFree(r)
  /\ req[r] \in claimed
  /\ AnswerWith(r, 202)
  /\ UNCHANGED <<req, gone, done, dbVars, effects, patternVars>>

\* The next write of fn, which ends after its last.
NextWrite(r) == WritesOf(req[r])[done[r] + 1]

FnStep(r, after) ==
  /\ at[r] = "write"
  /\ done' = [done EXCEPT ![r] = @ + 1]
  /\ Go(r, IF done[r] + 1 < WriteCount(req[r]) THEN "write" ELSE after)
  /\ UNCHANGED <<req, gone, code, claimed, effects, patternVars>>

\* Faulty: a write of fn that does not find the transaction in its context.
WriteOutsideTx(r) ==
  /\ req[r] \notin Anonymous
  /\ FnStep(r, "commit")
  /\ copies' = [copies EXCEPT ![req[r]][NextWrite(r)] = 1]

\* In the transaction of a claim a write is not visible yet.
WriteInTx(r) ==
  /\ req[r] \notin Anonymous
  /\ FnStep(r, "commit")
  /\ UNCHANGED copies

\* Without an id each write commits by itself.
WriteAlone(r) ==
  /\ req[r] \in Anonymous
  /\ FnStep(r, "effect")
  /\ copies' = [copies EXCEPT ![req[r]][NextWrite(r)] = @ + 1]

\* The commit makes the id and every write of fn visible at once.
Stored(b) ==
  /\ claimed' = claimed \cup {b}
  /\ copies' = [copies EXCEPT ![b] =
       [w \in Write |-> copies[b][w] + (IF w \in WritesSet(b) THEN 1 ELSE 0)]]

Commit(r) ==
  /\ at[r] = "commit"
  /\ r \notin gone
  /\ Stored(req[r])
  /\ Go(r, "effect")
  /\ UNCHANGED <<req, gone, done, code, effects, patternVars>>

\* The connection to the database breaks during the commit, which took
\* place: ApplyBatch returns the error of a batch that is stored.
CommitUnknown(r) ==
  /\ at[r] = "commit"
  /\ r \notin gone
  /\ Stored(req[r])
  /\ AnswerWith(r, 500)
  /\ UNCHANGED <<req, gone, done, effects, patternVars>>

\* Faulty: the error of ApplyBatch is not looked at.
StoreErrorIgnored(r) ==
  /\ at[r] \in {"claim", "write", "commit"}
  /\ AnswerWith(r, 202)
  /\ UNCHANGED <<req, gone, done, dbVars, effects, patternVars>>

\* A statement fails, of itself or because the client is gone; the deferred
\* Rollback undoes the claim with the writes.
StoreError(r) ==
  /\ at[r] \in {"claim", "write", "commit"}
  /\ AnswerWith(r, 500)
  /\ UNCHANGED <<req, gone, done, dbVars, effects, patternVars>>

\* Faulty: one batch more than the channel holds.
RoomForOneMore == Len(queue) <= QueueCap

QueueHasRoom == Len(queue) < QueueCap

\* What follows an applied batch.  Log entries go to the pattern worker if
\* its queue has room and are left out of the patterns otherwise; an event is
\* published and a metrics batch is checked for pressure.
Effect(r) ==
  /\ at[r] = "effect"
  /\ effects' = [effects EXCEPT ![req[r]] = @ + 1]
  /\ queue' = IF req[r] \in Logs /\ QueueHasRoom
              THEN Append(queue, req[r]) ELSE queue
  /\ AnswerWith(r, 202)
  /\ UNCHANGED <<req, gone, done, dbVars, worker, patterns>>

\* The answer leaves the hub.
Answer(r) ==
  /\ at[r] = "answer"
  /\ End(r)
  /\ UNCHANGED <<dbVars, effects, patternVars>>
-----------------------------------------------------------------------------
(* patternWorker: one goroutine, RecordLogPatterns and RecordTopologyEdges *)

WorkerTakes ==
  /\ worker = Idle /\ queue # <<>>
  /\ worker' = [step |-> "patterns", batch |-> Head(queue)]
  /\ queue' = Tail(queue)
  /\ UNCHANGED <<at, req, gone, done, code, dbVars, effects, patterns>>

\* Either call may fail on its own or for the 10s they share; the failure is
\* logged and the batch is not tried again.
WorkerPatterns ==
  /\ worker.step = "patterns"
  /\ \/ patterns' = [patterns EXCEPT ![worker.batch] = @ + 1]
     \/ UNCHANGED patterns
  /\ worker' = [worker EXCEPT !.step = "edges"]
  /\ UNCHANGED <<at, req, gone, done, code, dbVars, effects, queue>>

WorkerEdges ==
  /\ worker.step = "edges"
  /\ worker' = Idle
  /\ UNCHANGED <<at, req, gone, done, code, dbVars, effects, queue, patterns>>
-----------------------------------------------------------------------------
\* The hub dies and starts again: handlers, open transactions, the queue and
\* the worker are gone, the database keeps what was committed.
Crash ==
  /\ at' = [r \in Request |-> "none"]
  /\ req' = [r \in Request |-> NoBatch]
  /\ gone' = {}
  /\ done' = [r \in Request |-> 0]
  /\ code' = [r \in Request |-> 0]
  /\ queue' = <<>>
  /\ worker' = Idle
  /\ UNCHANGED <<dbVars, effects, patterns>>

Serve(r) ==
  \/ TakeSlot(r) \/ HubBusy(r) \/ LeaveQueue(r)
  \/ Refuse(r) \/ Decode(r) \/ Claim(r) \/ Repeat(r) \/ WriteInTx(r) \/ WriteAlone(r)
  \/ Commit(r) \/ CommitUnknown(r) \/ StoreError(r) \/ Effect(r)

Work == WorkerTakes \/ WorkerPatterns \/ WorkerEdges

Next ==
  \/ \E r \in Request :
       Serve(r) \/ Answer(r) \/ Hangup(r) \/ \E b \in Batch : Arrive(r, b)
  \/ Work \/ Crash

HubSpec == Init /\ [][Next]_hubVars

(***************************************************************************)
(* Fairness.  A handler that can go on does; a statement whose context is  *)
(* done returns; an INSERT that waits for another transaction's claim is   *)
(* woken when that transaction ends, whatever other claims come between.   *)
(* No error, hangup or crash is assumed to come to the rescue.             *)
(***************************************************************************)
HandlersRun ==
  \A r \in Request :
    /\ WF_hubVars(TakeSlot(r) \/ HubBusy(r) \/ Refuse(r) \/ Decode(r))
    /\ WF_hubVars(WriteInTx(r) \/ WriteAlone(r) \/ Commit(r) \/ Effect(r) \/ Answer(r))
    /\ WF_hubVars(r \in gone /\ StoreError(r))
    /\ SF_hubVars(Claim(r) \/ Repeat(r))

FairHubSpec == HubSpec /\ HandlersRun /\ WF_hubVars(Work)
-----------------------------------------------------------------------------
(* Properties *)

Named == Batch \ Anonymous

\* The values the variables take.
TypeOK ==
  /\ at \in [Request -> At]
  /\ req \in [Request -> Batch \cup {NoBatch}]
  /\ gone \subseteq Request
  /\ done \in [Request -> 0..2]
  /\ code \in [Request -> {0, 202, 400, 500, 503}]
  /\ claimed \subseteq Batch
  /\ copies \in [Batch -> [Write -> Nat]]
  /\ queue \in Seq(Logs) /\ Len(queue) <= QueueCap
  /\ worker \in [step : {"idle", "patterns", "edges"}, batch : Logs \cup {NoBatch}]
  /\ effects \in [Batch -> Nat]
  /\ patterns \in [Batch -> Nat]

\* batch.go: the id and the writes of fn are one transaction.  A batch with
\* an id has each of its writes committed exactly once if the id is recorded
\* and none otherwise, whatever the number of concurrent and repeated
\* requests, hangups, failed statements and restarts.
BatchIsAtomic ==
  \A b \in Named : \A w \in Write :
    copies[b][w] = IF b \in claimed /\ w \in WritesSet(b) THEN 1 ELSE 0

\* docs/flows/agent-connection.md: "A lost 202 is safe".  So is one that
\* arrives: no request is about to be acknowledged, as applied or as a
\* repeat, unless every write of its batch is committed.
AckMeansStored ==
  \A r \in Request :
    at[r] = "answer" /\ code[r] = 202 =>
      \A w \in WritesSet(req[r]) : copies[req[r]][w] > 0

\* What follows a batch follows at most once, and log patterns are never
\* counted more often than the batch was applied: "A repeat is acknowledged
\* and fn does not run" (server.go on applyIngest).
FollowsAtMostOnce ==
  /\ \A b \in Named : effects[b] <= 1
  /\ \A b \in Batch : patterns[b] <= effects[b]

\* The ingest path implements BatchStore for the batches that carry an id.
Store == INSTANCE BatchStore WITH
           Batch    <- Named,
           stored   <- claimed,
           rowsOf   <- {b \in Named : \E w \in Write : copies[b][w] > 0},
           followed <- {b \in Named : effects[b] > 0}
IngestIsBatchStore == Store!Spec

\* Every request gets its handler to the end: no set of handlers waits for
\* slots and for each other's claims for ever.
RequestEnds == \A r \in Request : (at[r] # "none") ~> (at[r] = "none")
=============================================================================
