---------------------------- MODULE AgentClient ----------------------------
(***************************************************************************)
(* The telemetry transport of one Argus agent: internal/agent/client.go    *)
(* and retry.go over the spool of buffer.go, driven by the loops of        *)
(* cmd/agent/main.go.                                                      *)
(*                                                                         *)
(* Several goroutines (metrics, logs, fleet, events, kernel) send batches  *)
(* through one Client.  sendBatch takes batchMu, replays the spool oldest  *)
(* first (drain), posts its own batch with up to retryAttempts attempts    *)
(* (post) and spools it when the failure was transient (Put).  Every file  *)
(* operation and every HTTP exchange is a step of its own, so that a kill, *)
(* a power loss, a deadline or a shutdown can fall between any two.        *)
(*                                                                         *)
(* What the hub answers is left open here; module Telemetry composes this  *)
(* module with the hub.                                                    *)
(***************************************************************************)
EXTENDS Spool

CONSTANTS
  Sender,         \* the goroutines that call sendBatch
  Main,           \* the one main() runs itself: the metrics loop
  RetryAttempts,  \* retryAttempts in retry.go
  DiskFaults,     \* may a file operation return an error?
  PowerLoss,      \* may the machine fail, leaving renamed files unwritten?
  Kills,          \* may the process be killed?
  NoBatch         \* no batch in hand

Free == "free"   \* nobody holds batchMu

ASSUME ClientAssumption ==
  /\ Main \in Sender /\ Free \notin Sender
  /\ RetryAttempts \in Nat \ {0}
  /\ DiskFaults \in BOOLEAN /\ PowerLoss \in BOOLEAN /\ Kills \in BOOLEAN
  /\ NoBatch \notin Batch

VARIABLES
  dir,       \* the batch files of the spool directory
  torn,      \* the names of those whose content is not a batch
  bad,       \* the files Front moved aside as <name>.bad
  mu,        \* who holds batchMu: a sender, or Free
  pc,        \* where each sender is in sendBatch
  batch,     \* the batch each sender was called with
  ctx,       \* the caller's context: "live", "expired" or "cancelled"
  item,      \* the spoolItem drain read: its file name and its batch
  itemctx,   \* the context of the replay, which cannot be cancelled
  verdict,   \* what post returned for the item being removed
  tries,     \* attempts made by the current call of post
  stopping   \* has the agent received SIGTERM?

agentVars == <<dir, torn, bad, mu, pc, batch, ctx, item, itemctx, verdict,
               tries, stopping>>

NoItem == [name |-> 0, batch |-> NoBatch]

\* The steps of sendBatch, in the order the code reaches them.
PC == {"idle",      \* between two ticks of the sender's loop
       "lock",      \* at c.batchMu.Lock()
       "front",     \* in drain, at the head of its loop
       "replay",    \* in the post of a spooled item, at the head of its loop
       "replaying", \* in the exchange of a replay
       "remove",    \* in drain, about to remove the item's file
       "post",      \* in the post of the sender's own batch, at the loop's head
       "posting",   \* in the exchange of that post
       "store"}     \* in Put

InDrain == {"front", "replay", "replaying", "remove"}
Holding(s) == pc[s] \notin {"idle", "lock"}

\* The batches the agent still answers for: in a sender's hands or on disk.
InHand == {batch[s] : s \in Sender} \ {NoBatch}
Kept == InHand \cup Stored(dir)
-----------------------------------------------------------------------------
Init ==
  /\ dir = EmptyDirectory /\ torn = {} /\ bad = EmptyDirectory
  /\ mu = Free
  /\ pc = [s \in Sender |-> "idle"]
  /\ batch = [s \in Sender |-> NoBatch]
  /\ ctx = [s \in Sender |-> "live"]
  /\ item = [s \in Sender |-> NoItem]
  /\ itemctx = [s \in Sender |-> "live"]
  /\ verdict = [s \in Sender |-> "none"]
  /\ tries = [s \in Sender |-> 0]
  /\ stopping = FALSE

diskVars == <<dir, torn, bad>>
replayVars == <<item, itemctx, verdict>>

\* sendBatch is called with a batch that has a fresh id.  A loop that is
\* past its select when SIGTERM comes calls it with a cancelled context;
\* main's loop does not, its Collect fails first.
Begin(s, b) ==
  /\ pc[s] = "idle"
  /\ b \notin Kept
  /\ stopping => s # Main
  /\ pc' = [pc EXCEPT ![s] = "lock"]
  /\ batch' = [batch EXCEPT ![s] = b]
  /\ ctx' = [ctx EXCEPT ![s] = IF stopping THEN "cancelled" ELSE "live"]
  /\ UNCHANGED <<diskVars, replayVars, mu, tries, stopping>>

\* Faulty: sendBatch without batchMu.
Unlocked == TRUE

\* Another sender is not between its Lock and its Unlock.
MuIsFree == mu = Free

\* Faulty: the condition on the context is negated.
DrainsLate(s) == ctx[s] # "live"

\* drain returns at once under a context that is over.
DrainsFirst(s) == ctx[s] = "live"

\* The mutex is taken whatever the context is by then.
Lock(s) ==
  /\ pc[s] = "lock"
  /\ MuIsFree
  /\ mu' = s
  /\ pc' = [pc EXCEPT ![s] = IF DrainsFirst(s) THEN "front" ELSE "post"]
  /\ tries' = [tries EXCEPT ![s] = 0]
  /\ UNCHANGED <<diskVars, replayVars, batch, ctx, stopping>>

\* sendBatch returns: its deferred Unlock runs and the batch leaves memory.
Return(s) ==
  /\ pc' = [pc EXCEPT ![s] = "idle"]
  /\ batch' = [batch EXCEPT ![s] = NoBatch]
  /\ ctx' = [ctx EXCEPT ![s] = "live"]
  /\ mu' = Free

\* drain returns: sendBatch goes on to post its own batch.
EndDrain(s) ==
  /\ pc' = [pc EXCEPT ![s] = "post"]
  /\ tries' = [tries EXCEPT ![s] = 0]
  /\ item' = [item EXCEPT ![s] = NoItem]
  /\ itemctx' = [itemctx EXCEPT ![s] = "live"]
  /\ verdict' = [verdict EXCEPT ![s] = "none"]
-----------------------------------------------------------------------------
(* drain and the spool methods it calls *)

\* Front on an empty directory.
DrainEmpty(s) ==
  /\ pc[s] = "front"
  /\ dir = EmptyDirectory
  /\ EndDrain(s)
  /\ UNCHANGED <<diskVars, mu, batch, ctx, stopping>>

\* Front on a readable oldest file: the replay starts under its own timeout.
DrainFront(s) ==
  /\ pc[s] = "front"
  /\ dir # EmptyDirectory
  /\ Oldest(dir) \notin torn
  /\ item' = [item EXCEPT ![s] = [name |-> Oldest(dir), batch |-> dir[Oldest(dir)]]]
  /\ itemctx' = [itemctx EXCEPT ![s] = "live"]
  /\ pc' = [pc EXCEPT ![s] = "replay"]
  /\ tries' = [tries EXCEPT ![s] = 0]
  /\ UNCHANGED <<diskVars, mu, batch, ctx, verdict, stopping>>

\* Front on a corrupt oldest file: it is moved aside and Front looks again.
DrainCorrupt(s) ==
  /\ pc[s] = "front"
  /\ dir # EmptyDirectory
  /\ Oldest(dir) \in torn
  /\ bad' = [n \in DOMAIN bad \cup {Oldest(dir)} |->
               IF n = Oldest(dir) THEN dir[n] ELSE bad[n]]
  /\ dir' = Without(dir, Oldest(dir))
  /\ torn' = torn \ {Oldest(dir)}
  /\ UNCHANGED <<replayVars, mu, pc, batch, ctx, tries, stopping>>

\* Front returns an error: drain gives up.
DrainUnreadable(s) ==
  /\ DiskFaults
  /\ pc[s] = "front"
  /\ EndDrain(s)
  /\ UNCHANGED <<diskVars, mu, batch, ctx, stopping>>

\* Remove after a verdict of the hub, then the next round of the loop.
RemoveItem(s) ==
  /\ pc[s] = "remove"
  /\ dir' = Without(dir, item[s].name)
  /\ torn' = torn \ {item[s].name}
  /\ item' = [item EXCEPT ![s] = NoItem]
  /\ verdict' = [verdict EXCEPT ![s] = "none"]
  /\ pc' = [pc EXCEPT ![s] = "front"]
  /\ UNCHANGED <<bad, mu, batch, ctx, itemctx, tries, stopping>>

\* Remove fails.  After a 2xx drain returns; after a permanent failure the
\* error is only logged and the loop continues.
RemoveFails(s) ==
  /\ DiskFaults
  /\ pc[s] = "remove"
  /\ \/ /\ verdict[s] = "ok"
        /\ EndDrain(s)
     \/ /\ verdict[s] = "permanent"
        /\ pc' = [pc EXCEPT ![s] = "front"]
        /\ item' = [item EXCEPT ![s] = NoItem]
        /\ verdict' = [verdict EXCEPT ![s] = "none"]
        /\ UNCHANGED <<itemctx, tries>>
  /\ UNCHANGED <<diskVars, mu, batch, ctx, stopping>>
-----------------------------------------------------------------------------
(* post, for a spooled item and for the sender's own batch *)

\* The context the current call of post runs under, and the batch it sends.
CallCtx(s) == IF pc[s] \in InDrain THEN itemctx[s] ELSE ctx[s]
CallBatch(s) == IF pc[s] \in InDrain THEN item[s].batch ELSE batch[s]

\* Faulty: one attempt too many.
OneMoreLeft(s) == tries[s] <= RetryAttempts

\* The condition of post's loop.
AttemptsLeft(s) == tries[s] < RetryAttempts

\* The head of the loop, then the wait before a retry, then postOnce.
Attempt(s) ==
  /\ pc[s] \in {"replay", "post"}
  /\ AttemptsLeft(s)
  /\ CallCtx(s) = "live"
  /\ tries' = [tries EXCEPT ![s] = @ + 1]
  /\ pc' = [pc EXCEPT ![s] = IF pc[s] = "replay" THEN "replaying" ELSE "posting"]
  /\ UNCHANGED <<diskVars, replayVars, mu, batch, ctx, stopping>>

\* Faulty: drain goes on to the next round instead of returning.
DrainGoesOn(s) ==
  \/ /\ pc[s] \in {"replay", "replaying"}
     /\ pc' = [pc EXCEPT ![s] = "front"]
     /\ UNCHANGED <<replayVars, tries, mu, batch, ctx>>
  \/ /\ pc[s] \in {"post", "posting"}
     /\ pc' = [pc EXCEPT ![s] = "store"]
     /\ UNCHANGED <<replayVars, tries, mu, batch, ctx>>

\* post returns a retryable error: a replay keeps its item and ends the
\* drain, a batch of the sender's own is spooled.
ReturnTransient(s) ==
  \/ /\ pc[s] \in {"replay", "replaying"}
     /\ EndDrain(s)
     /\ UNCHANGED <<mu, batch, ctx>>
  \/ /\ pc[s] \in {"post", "posting"}
     /\ pc' = [pc EXCEPT ![s] = "store"]
     /\ UNCHANGED <<replayVars, tries, mu, batch, ctx>>

\* post returns nil or an error that is not retryable.
ReturnFinal(s, v) ==
  \/ /\ pc[s] \in {"replay", "replaying"}
     /\ pc' = [pc EXCEPT ![s] = "remove"]
     /\ verdict' = [verdict EXCEPT ![s] = v]
     /\ UNCHANGED <<item, itemctx, tries, mu, batch, ctx>>
  \/ /\ pc[s] \in {"post", "posting"}
     /\ Return(s)
     /\ UNCHANGED <<replayVars, tries>>

\* The attempts are used up, or the context is over before another one: the
\* last error is returned, which is always retryable here.  Before any
\* attempt it is the context's own error: a deadline is retryable too.
GiveUp(s) ==
  /\ pc[s] \in {"replay", "post"}
  /\ \/ tries[s] = RetryAttempts
     \/ CallCtx(s) # "live" /\ tries[s] > 0
     \/ CallCtx(s) = "expired"
  /\ ReturnTransient(s)
  /\ UNCHANGED <<diskVars, stopping>>

\* Cancelled before any attempt: context.Canceled is not retryable.
GiveUpCancelled(s) ==
  /\ pc[s] \in {"replay", "post"}
  /\ CallCtx(s) = "cancelled" /\ tries[s] = 0
  /\ ReturnFinal(s, "permanent")
  /\ UNCHANGED <<diskVars, stopping>>

\* The hub answers an exchange: 2xx, a 4xx other than 429, or 429 and 5xx.
AnswerOK(s) ==
  /\ pc[s] \in {"replaying", "posting"}
  /\ ReturnFinal(s, "ok")
  /\ UNCHANGED <<diskVars, stopping>>

AnswerRefused(s) ==
  /\ pc[s] \in {"replaying", "posting"}
  /\ ReturnFinal(s, "permanent")
  /\ UNCHANGED <<diskVars, stopping>>

\* The exchange ends with a retryable error: 429, 5xx, a network error, the
\* client's timeout or the context's deadline.  post goes round its loop.
AnswerTransient(s) ==
  /\ pc[s] \in {"replaying", "posting"}
  /\ pc' = [pc EXCEPT ![s] = IF pc[s] = "replaying" THEN "replay" ELSE "post"]
  /\ UNCHANGED <<diskVars, replayVars, mu, batch, ctx, tries, stopping>>

\* Cancelling the context aborts the exchange, and that error is not
\* retryable: the batch is neither sent nor stored.
AnswerCancelled(s) ==
  /\ pc[s] \in {"replaying", "posting"}
  /\ CallCtx(s) = "cancelled"
  /\ ReturnFinal(s, "permanent")
  /\ UNCHANGED <<diskVars, stopping>>

\* A deadline passes: the caller's, from the moment it calls, or a replay's.
Expire(s) ==
  /\ \/ /\ pc[s] # "idle" /\ ctx[s] = "live"
        /\ ctx' = [ctx EXCEPT ![s] = "expired"]
        /\ UNCHANGED itemctx
     \/ /\ pc[s] \in {"replay", "replaying"} /\ itemctx[s] = "live"
        /\ itemctx' = [itemctx EXCEPT ![s] = "expired"]
        /\ UNCHANGED ctx
  /\ UNCHANGED <<diskVars, item, verdict, mu, pc, batch, tries, stopping>>
-----------------------------------------------------------------------------
(* Put *)

\* One round of makeRoom: the oldest file is dropped.
PutDropOldest(s) ==
  /\ pc[s] = "store"
  /\ ~TooLarge(batch[s]) /\ NoRoomFor(dir, batch[s])
  /\ torn' = torn \ {Oldest(dir)}
  /\ dir' = Without(dir, Oldest(dir))
  /\ UNCHANGED <<replayVars, bad, mu, pc, batch, ctx, tries, stopping>>

\* The rename that makes the file a batch file, and sendBatch's return.
PutFile(s) ==
  /\ pc[s] = "store"
  /\ ~TooLarge(batch[s]) /\ ~NoRoomFor(dir, batch[s])
  /\ dir' = With(dir, batch[s])
  /\ Return(s)
  /\ UNCHANGED <<replayVars, torn, bad, tries, stopping>>

\* Put returns an error: it is logged and the batch is gone.
PutFails(s) ==
  /\ pc[s] = "store"
  /\ DiskFaults \/ TooLarge(batch[s])
  /\ Return(s)
  /\ UNCHANGED <<replayVars, diskVars, tries, stopping>>
-----------------------------------------------------------------------------
(* The process *)

\* SIGTERM cancels the context every caller's context is derived from.
Stop ==
  /\ ~stopping
  /\ stopping' = TRUE
  /\ ctx' = [s \in Sender |->
               IF pc[s] # "idle" /\ ctx[s] = "live" THEN "cancelled" ELSE ctx[s]]
  /\ UNCHANGED <<diskVars, replayVars, mu, pc, batch, tries>>

\* The process is gone and a new one has opened the same directory.
Restart ==
  /\ mu' = Free
  /\ pc' = [s \in Sender |-> "idle"]
  /\ batch' = [s \in Sender |-> NoBatch]
  /\ ctx' = [s \in Sender |-> "live"]
  /\ item' = [s \in Sender |-> NoItem]
  /\ itemctx' = [s \in Sender |-> "live"]
  /\ verdict' = [s \in Sender |-> "none"]
  /\ tries' = [s \in Sender |-> 0]
  /\ stopping' = FALSE

\* main returns from its select; it waits for no other goroutine.
Exit ==
  /\ stopping /\ pc[Main] = "idle"
  /\ Restart
  /\ UNCHANGED diskVars

\* A kill loses what is in memory.  A power loss may also leave any file of
\* the directory without its content: Put renames without a sync.
Kill ==
  /\ Kills
  /\ \/ UNCHANGED torn
     \/ PowerLoss /\ \E lost \in SUBSET (DOMAIN dir \ torn) : torn' = torn \cup lost
  /\ Restart
  /\ UNCHANGED <<dir, bad>>
-----------------------------------------------------------------------------
\* What a sender does without the hub once it has been called.
Work(s) ==
  \/ Lock(s)
  \/ DrainEmpty(s) \/ DrainFront(s) \/ DrainCorrupt(s) \/ DrainUnreadable(s)
  \/ RemoveItem(s) \/ RemoveFails(s)
  \/ GiveUp(s) \/ GiveUpCancelled(s)
  \/ PutDropOldest(s) \/ PutFile(s) \/ PutFails(s)

\* How an exchange with the hub can end.
Answered(s) ==
  AnswerOK(s) \/ AnswerRefused(s) \/ AnswerTransient(s) \/ AnswerCancelled(s)

Next ==
  \/ \E s \in Sender :
       Work(s) \/ Attempt(s) \/ Answered(s) \/ Expire(s) \/ \E b \in Batch : Begin(s, b)
  \/ Stop \/ Exit \/ Kill

AgentSpec == Init /\ [][Next]_agentVars

(***************************************************************************)
(* Fairness.  A goroutine past its call runs, an exchange ends because the *)
(* HTTP client has a timeout, and Go's mutex hands over to a waiter that   *)
(* has starved.  The loops of main.go tick for as long as the process is   *)
(* up, and main returns from its select after SIGTERM.  Nothing is assumed *)
(* of deadlines, of signals or of the answers.                             *)
(***************************************************************************)
SendersRun ==
  \A s \in Sender :
    /\ WF_agentVars(Work(s) \/ Attempt(s))
    /\ WF_agentVars(Answered(s))
    /\ SF_agentVars(Lock(s))

TickersRun ==
  /\ \A s \in Sender : WF_agentVars(\E b \in Batch : Begin(s, b))
  /\ WF_agentVars(Exit)

FairAgentSpec == AgentSpec /\ SendersRun /\ TickersRun
-----------------------------------------------------------------------------
(* Properties *)

\* The values the variables take.
TypeOK ==
  /\ dir \in Directory /\ bad \in Directory
  /\ torn \subseteq DOMAIN dir
  /\ mu \in Sender \cup {Free}
  /\ pc \in [Sender -> PC]
  /\ batch \in [Sender -> Batch \cup {NoBatch}]
  /\ ctx \in [Sender -> {"live", "expired", "cancelled"}]
  /\ item \in [Sender -> [name : Name \cup {0}, batch : Batch \cup {NoBatch}]]
  /\ itemctx \in [Sender -> {"live", "expired"}]
  /\ verdict \in [Sender -> {"none", "ok", "permanent"}]
  /\ tries \in [Sender -> 0..RetryAttempts]
  /\ stopping \in BOOLEAN

\* From the moment drain has read an item until it removes the item's file,
\* that file stays in place and holds that very batch: no other sender's Put,
\* which reuses the numbers of removed files, changes it.  Otherwise Remove
\* would delete a batch the hub has never seen.
ReplayedFileIsStable ==
  \A s \in Sender :
    pc[s] \in {"replay", "replaying", "remove"} =>
      item[s].name \in DOMAIN dir /\ dir[item[s].name] = item[s].batch

\* A batch leaves the spool, or is replaced there, only while it is the
\* oldest one: no removal and no reuse of a number hits a younger batch.
DropsOnlyOldest ==
  [][\A n \in DOMAIN dir :
       \/ n \in DOMAIN dir' /\ dir'[n] = dir[n]
       \/ n = Oldest(dir)]_agentVars

\* The batch files never take more than ARGUS_BUFFER_MAX_BYTES, whatever was
\* dropped, replayed or left behind by an earlier process.
SpoolWithinLimit == Used(dir) <= MaxBytes

\* Every call of sendBatch returns: replaying what others have spooled ends,
\* and so does the wait for batchMu.
EveryCallReturns == \A s \in Sender : (pc[s] # "idle") ~> (pc[s] = "idle")

\* What keeps the spool from draining: an answer that asks for a retry, a
\* context that ends, a stop.
Trouble ==
  (\E s \in Sender : AnswerTransient(s) \/ Expire(s)) \/ Stop \/ Kill

\* Once the hub settles every exchange for good and in time, the spool is
\* empty again and again: no stored batch waits forever behind new ones.
SpoolDrains == <>[][~Trouble]_agentVars => []<>(dir = EmptyDirectory)
-----------------------------------------------------------------------------
(* What the documents say and the code does not do *)

\* docs/flows/agent-connection.md: a stored batch is "sent before newer
\* batches".  No sender posts its own batch while the spool holds another.
StoredBeforeNewer ==
  [][\A s \in Sender :
       pc[s] = "post" /\ pc'[s] = "posting" => dir = EmptyDirectory]_agentVars

\* docs/api/configuration.md: ARGUS_BUFFER_MAX_BYTES is the "Max size of that
\* directory".
DirectoryWithinLimit == Used(dir) + Used(bad) <= MaxBytes
=============================================================================
