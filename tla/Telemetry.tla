----------------------------- MODULE Telemetry -----------------------------
(***************************************************************************)
(* One agent and the hub, end to end: AgentClient's exchanges are carried  *)
(* by HubIngest's requests over HTTP.                                      *)
(*                                                                         *)
(* A request may never reach the hub; an answer may never reach the agent. *)
(* An exchange the agent has given up on leaves a handler behind that      *)
(* still runs, so that the hub may be applying a batch, or may yet apply   *)
(* it, while the agent sends it again, stores it or has dropped it.  Each  *)
(* side may stop or die without the other.                                 *)
(***************************************************************************)
EXTENDS Naturals, Sequences, FiniteSets

CONSTANTS
  Batch, NoBatch,
  Weight, MaxBytes, MaxName,
  Sender, Main, RetryAttempts, DiskFaults, PowerLoss, Kills,
  Request, Anonymous, Invalid, Logs, Slots, QueueCap, MaxCopies,
  NoRequest     \* the exchange has no request at the hub

VARIABLES
  dir, torn, bad, mu, pc, batch, ctx, item, itemctx, verdict, tries, stopping,
  at, req, gone, done, code, claimed, copies, queue, worker, effects, patterns,
  wire,         \* the request that carries each sender's exchange
  used          \* the batches collected so far: their ids are never reused

Agent == INSTANCE AgentClient
Hub == INSTANCE HubIngest

ASSUME TelemetryAssumption ==
  /\ Agent!SpoolAssumption /\ Agent!ClientAssumption /\ Hub!HubAssumption
  /\ NoRequest \notin Request
  /\ Anonymous = {}   \* sendBatch always sets a batch id

agentVars == <<dir, torn, bad, mu, pc, batch, ctx, item, itemctx, verdict,
               tries, stopping>>
hubVars == <<at, req, gone, done, code, claimed, copies, queue, worker,
             effects, patterns>>
vars == <<agentVars, hubVars, wire, used>>

Init ==
  /\ Agent!Init /\ Hub!Init
  /\ wire = [s \in Sender |-> NoRequest]
  /\ used = {}

\* No agent is waiting for the answer to r any more.
Orphan(r) == \A s \in Sender : wire[s] # r

\* Faulty: the connection of a finished exchange is kept for the next one.
Linger(s) == UNCHANGED wire

Detach(s) == wire' = [wire EXCEPT ![s] = NoRequest]
-----------------------------------------------------------------------------
(* The agent by itself *)

Collect(s, b) ==
  /\ b \notin used
  /\ Agent!Begin(s, b)
  /\ used' = used \cup {b}
  /\ UNCHANGED <<hubVars, wire>>

AgentWorks(s) ==
  /\ Agent!Work(s) \/ Agent!Expire(s)
  /\ UNCHANGED <<hubVars, wire, used>>

AgentStops ==
  /\ Agent!Stop
  /\ UNCHANGED <<hubVars, wire, used>>

\* A process that ends takes its connections with it.
AgentDies ==
  /\ Agent!Exit \/ Agent!Kill
  /\ wire' = [s \in Sender |-> NoRequest]
  /\ UNCHANGED <<hubVars, used>>
-----------------------------------------------------------------------------
(* The exchange *)

\* The request reaches the hub or is lost on the way.
Send(s) ==
  /\ Agent!Attempt(s)
  /\ \/ \E r \in Request :
          /\ Hub!Arrive(r, Agent!CallBatch(s))
          /\ wire' = [wire EXCEPT ![s] = r]
     \/ UNCHANGED <<hubVars, wire>>
  /\ UNCHANGED used

\* The hub's answer reaches the agent: retryable() sorts the status codes.
Receive(s) ==
  /\ \E r \in Request :
       /\ wire[s] = r
       /\ Hub!Answer(r)
       /\ \/ code[r] = 202 /\ Agent!AnswerOK(s)
          \/ code[r] = 400 /\ Agent!AnswerRefused(s)
          \/ code[r] \in {500, 503} /\ Agent!AnswerTransient(s)
  /\ Detach(s)
  /\ UNCHANGED used

\* The exchange ends without an answer, by a network error, a timeout or the
\* cancelled context; the handler at the hub, if any, goes on.
NoAnswer(s) ==
  /\ Agent!AnswerTransient(s) \/ Agent!AnswerCancelled(s)
  /\ Detach(s)
  /\ UNCHANGED <<hubVars, used>>
-----------------------------------------------------------------------------
(* The hub by itself *)

HubWorks ==
  /\ Hub!Work \/ \E r \in Request : Hub!Serve(r)
  /\ UNCHANGED <<agentVars, wire, used>>

\* The hub notices a client that is gone, or answers it in vain.
HubMissesClient(r) ==
  /\ Orphan(r)
  /\ Hub!Hangup(r) \/ Hub!Answer(r)
  /\ UNCHANGED <<agentVars, wire, used>>

\* The hub's connections die with it; the agent is still to notice.
HubDies ==
  /\ Hub!Crash
  /\ wire' = [s \in Sender |-> NoRequest]
  /\ UNCHANGED <<agentVars, used>>
-----------------------------------------------------------------------------
Next ==
  \/ \E s \in Sender :
       \/ \E b \in Batch : Collect(s, b)
       \/ AgentWorks(s) \/ Send(s) \/ Receive(s) \/ NoAnswer(s)
  \/ \E r \in Request : HubMissesClient(r)
  \/ AgentStops \/ AgentDies \/ HubWorks \/ HubDies

Spec == Init /\ [][Next]_vars
-----------------------------------------------------------------------------
(* Properties *)

\* The two ends agree on what an exchange carries: the request a sender waits
\* for is for the batch its call of post is sending.
WireOK ==
  /\ wire \in [Sender -> Request \cup {NoRequest}]
  /\ used \subseteq Batch
  /\ \A s \in Sender : wire[s] # NoRequest =>
       /\ pc[s] \in {"replaying", "posting"}
       /\ at[wire[s]] # "none" /\ req[wire[s]] = Agent!CallBatch(s)
       /\ \A t \in Sender : t # s => wire[t] # wire[s]

\* The ways to lose a batch that the code names: no room or no disk in the
\* spool, a file that came out of a power loss corrupt, the end of the process,
\* and a shutdown that cancels an exchange.  The last disjunct is a loss no spool
\* has lived to see: Put has no number of bufferNameWidth digits left.
NamedLoss ==
  \/ Agent!Exit \/ Agent!Kill
  \/ \E s \in Sender :
       \/ Agent!PutDropOldest(s) \/ Agent!PutFails(s) \/ Agent!DrainCorrupt(s)
       \/ Agent!AnswerCancelled(s) \/ Agent!GiveUpCancelled(s)
       \/ Agent!PutFile(s) /\ Agent!NextName(dir) \notin Agent!Name

\* The agent lets go of a batch only when the hub has it, for good and
\* exactly once, or has refused it: neither retries, replays, restarts of the
\* hub, late handlers nor lost answers lose a batch.  What else is lost is
\* lost in a way the code names.
ForgottenMeansStored ==
  [][ NamedLoss \/ \A b \in Agent!Kept \ Agent!Kept' : b \in claimed' \cup Invalid ]_vars

\* However often a batch is sent, its rows are stored once, and a batch the
\* hub refuses leaves nothing behind.
StoredOnce ==
  \A b \in Batch :
    /\ copies[b]["rows"] <= 1
    /\ b \in claimed <=> copies[b]["rows"] = 1
    /\ b \in Invalid => b \notin claimed
=============================================================================
