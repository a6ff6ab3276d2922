--------------------------- MODULE HubIngestProofs ---------------------------
(***************************************************************************)
(* Proofs about HubIngest, for any sets of requests and batches, any       *)
(* number of slots and any capacity of patternQueue.                       *)
(***************************************************************************)
EXTENDS HubIngest, FiniteSetTheorems, TLAPS

USE HubAssumption

\* fn makes one or two writes.
LEMMA WritesOfBatch ==
  ASSUME NEW b
  PROVE  /\ WriteCount(b) \in 1..2
         /\ \A i \in 1..WriteCount(b) : WritesOf(b)[i] \in Write
         /\ WritesSet(b) = {WritesOf(b)[i] : i \in 1..WriteCount(b)}
<1>1. CASE b \in Logs
  <2>1. WritesOf(b) = <<"rows", "derived">>
    BY <1>1 DEF WritesOf
  <2> QED
    BY <2>1 DEF Write, WriteCount, WritesSet
<1>2. CASE b \notin Logs
  <2>1. WritesOf(b) = <<"rows">>
    BY <1>2 DEF WritesOf
  <2> QED
    BY <2>1 DEF Write, WriteCount, WritesSet
<1> QED
  BY <1>1, <1>2

\* The type invariant cannot stand alone: done stays within fn's writes
\* because a handler leaves fn with the last of them, and what a handler
\* works on is a batch.
HandlerOK ==
  /\ \A r \in Request : at[r] # "none" => req[r] \in Batch
  /\ \A r \in Request : at[r] = "write" => done[r] < WriteCount(req[r])
  /\ \A r \in Request : at[r] \in {"slot", "decode", "claim"} => done[r] = 0
  /\ worker.step # "idle" => worker.batch \in Logs

TypeInv == TypeOK /\ HandlerOK

\* The hub starts well typed.
LEMMA TypeInit == Init => TypeInv
BY DEF Init, TypeInv, TypeOK, HandlerOK, At, Write, Idle

\* Every step keeps the types and the handlers' progress in range.
LEMMA TypeNext == TypeInv /\ [Next]_hubVars => TypeInv'
<1> SUFFICES ASSUME TypeInv, [Next]_hubVars
             PROVE  TypeInv'
    OBVIOUS
<1> USE DEF TypeInv, TypeOK, HandlerOK, At, dbVars, patternVars, Go, AnswerWith
<1>1. ASSUME NEW r \in Request, NEW b \in Batch, Arrive(r, b)
      PROVE  TypeInv'
  BY <1>1 DEF Arrive
<1>2. ASSUME NEW r \in Request, Hangup(r)
      PROVE  TypeInv'
  <2>1. TypeOK'
    BY <1>2 DEF Hangup
  <2>2. HandlerOK'
    BY <1>2 DEF Hangup
  <2> QED
    BY <2>1, <2>2
<1>3. ASSUME NEW r \in Request, TakeSlot(r)
      PROVE  TypeInv'
  <2>1. TypeOK'
    BY <1>3 DEF TakeSlot
  <2>2. HandlerOK'
    BY <1>3 DEF TakeSlot
  <2> QED
    BY <2>1, <2>2
<1>4. ASSUME NEW r \in Request, HubBusy(r)
      PROVE  TypeInv'
  <2>1. TypeOK'
    BY <1>4 DEF HubBusy
  <2>2. HandlerOK'
    BY <1>4 DEF HubBusy
  <2> QED
    BY <2>1, <2>2
<1>5. ASSUME NEW r \in Request, LeaveQueue(r)
      PROVE  TypeInv'
  <2>1. TypeOK'
    BY <1>5 DEF LeaveQueue, End
  <2>2. HandlerOK'
    BY <1>5 DEF LeaveQueue, End
  <2> QED
    BY <2>1, <2>2
<1>6. ASSUME NEW r \in Request, Answer(r)
      PROVE  TypeInv'
  <2>1. TypeOK'
    BY <1>6 DEF Answer, End
  <2>2. HandlerOK'
    BY <1>6 DEF Answer, End
  <2> QED
    BY <2>1, <2>2
<1>7. ASSUME NEW r \in Request, Refuse(r)
      PROVE  TypeInv'
  <2>1. TypeOK'
    BY <1>7 DEF Refuse
  <2>2. HandlerOK'
    BY <1>7 DEF Refuse
  <2> QED
    BY <2>1, <2>2
<1>8. ASSUME NEW r \in Request, Decode(r)
      PROVE  TypeInv'
  <2>0. done[r] < WriteCount(req[r]) /\ done[r] = 0 /\ req[r] \in Batch
    <3>1. WriteCount(req[r]) \in 1..2
      BY WritesOfBatch
    <3>2. at[r] = "decode"
      BY <1>8 DEF Decode
    <3>3. done[r] = 0 /\ req[r] \in Batch
      BY <3>2
    <3> QED
      BY <3>1, <3>3
  <2>1. TypeOK'
    BY <1>8 DEF Decode
  <2>2. CASE req[r] \in Anonymous
    <3>1. at' = [at EXCEPT ![r] = "write"] /\ UNCHANGED <<req, done, worker>>
      BY <1>8, <2>2 DEF Decode
    <3>2. HandlerOK'
      BY <3>1, <2>0
    <3> QED
      BY <2>1, <3>2
  <2>3. CASE req[r] \notin Anonymous
    <3>1. HandlerOK'
      BY <1>8, <2>0, <2>3 DEF Decode
    <3> QED
      BY <2>1, <3>1
  <2> QED
    BY <2>2, <2>3
<1>9. ASSUME NEW r \in Request, Claim(r)
      PROVE  TypeInv'
  <2>0. done[r] < WriteCount(req[r]) /\ done[r] = 0 /\ req[r] \in Batch
    <3>1. WriteCount(req[r]) \in 1..2
      BY WritesOfBatch
    <3>2. at[r] = "claim"
      BY <1>9 DEF Claim
    <3>3. done[r] = 0 /\ req[r] \in Batch
      BY <3>2
    <3> QED
      BY <3>1, <3>3
  <2>1. TypeOK'
    BY <1>9 DEF Claim
  <2>2. HandlerOK'
    <3>1. at' = [at EXCEPT ![r] = "write"] /\ UNCHANGED <<req, done, worker>>
      BY <1>9 DEF Claim
    <3> QED
      BY <3>1, <2>0
  <2> QED
    BY <2>1, <2>2
<1>10. ASSUME NEW r \in Request, Repeat(r)
       PROVE  TypeInv'
  <2>1. TypeOK'
    BY <1>10 DEF Repeat
  <2>2. HandlerOK'
    BY <1>10 DEF Repeat
  <2> QED
    BY <2>1, <2>2
<1>11. ASSUME NEW r \in Request, WriteInTx(r)
       PROVE  TypeInv'
  <2>0. /\ done[r] + 1 \in 1..WriteCount(req[r])
        /\ done[r] + 1 \in 1..2
        /\ req[r] \in Batch
    <3>1. WriteCount(req[r]) \in 1..2
      BY WritesOfBatch
    <3>2. at[r] = "write"
      BY <1>11 DEF WriteInTx, FnStep
    <3>3. done[r] < WriteCount(req[r]) /\ req[r] \in Batch /\ done[r] \in 0..2
      BY <3>2
    <3> QED
      BY <3>1, <3>3
  <2>1. done' \in [Request -> 0..2]
    BY <1>11, <2>0 DEF WriteInTx, FnStep
  <2>2. at' \in [Request -> At]
    BY <1>11 DEF WriteInTx, FnStep
  <2>3. HandlerOK'
    BY <1>11, <2>0 DEF WriteInTx, FnStep
  <2> QED
    BY <1>11, <2>1, <2>2, <2>3 DEF WriteInTx, FnStep
<1>12. ASSUME NEW r \in Request, WriteAlone(r)
       PROVE  TypeInv'
  <2>0. /\ done[r] + 1 \in 1..WriteCount(req[r])
        /\ done[r] + 1 \in 1..2
        /\ req[r] \in Batch
    <3>1. WriteCount(req[r]) \in 1..2
      BY WritesOfBatch
    <3>2. at[r] = "write"
      BY <1>12 DEF WriteAlone, FnStep
    <3>3. done[r] < WriteCount(req[r]) /\ req[r] \in Batch /\ done[r] \in 0..2
      BY <3>2
    <3> QED
      BY <3>1, <3>3
  <2>1. done' \in [Request -> 0..2]
    BY <1>12, <2>0 DEF WriteAlone, FnStep
  <2>2. at' \in [Request -> At]
    BY <1>12 DEF WriteAlone, FnStep
  <2>3. HandlerOK'
    BY <1>12, <2>0 DEF WriteAlone, FnStep
  <2>4. copies' \in [Batch -> [Write -> Nat]]
    <3>1. NextWrite(r) \in Write
      BY <2>0, WritesOfBatch DEF NextWrite
    <3> QED
      BY <1>12, <2>0, <3>1 DEF WriteAlone, FnStep
  <2> QED
    BY <1>12, <2>1, <2>2, <2>3, <2>4 DEF WriteAlone, FnStep
<1>13. ASSUME NEW r \in Request, Commit(r)
       PROVE  TypeInv'
  <2>1. TypeOK'
    BY <1>13 DEF Commit, Stored
  <2>2. HandlerOK'
    BY <1>13 DEF Commit, Stored
  <2> QED
    BY <2>1, <2>2
<1>14. ASSUME NEW r \in Request, CommitUnknown(r)
       PROVE  TypeInv'
  <2>1. TypeOK'
    BY <1>14 DEF CommitUnknown, Stored
  <2>2. HandlerOK'
    BY <1>14 DEF CommitUnknown, Stored
  <2> QED
    BY <2>1, <2>2
<1>15. ASSUME NEW r \in Request, StoreError(r)
       PROVE  TypeInv'
  <2>1. TypeOK'
    BY <1>15 DEF StoreError
  <2>2. HandlerOK'
    BY <1>15 DEF StoreError
  <2> QED
    BY <2>1, <2>2
<1>16. ASSUME NEW r \in Request, Effect(r)
       PROVE  TypeInv'
  <2>1. TypeOK'
    BY <1>16 DEF Effect, QueueHasRoom
  <2>2. HandlerOK'
    BY <1>16 DEF Effect, QueueHasRoom
  <2> QED
    BY <2>1, <2>2
<1>17. CASE Work
  <2>1. CASE WorkerTakes
    BY <2>1 DEF WorkerTakes, Idle
  <2>2. CASE WorkerPatterns
    <3>1. patterns' \in [Batch -> Nat]
      <4>1. CASE UNCHANGED patterns
        BY <4>1
      <4>2. CASE patterns' = [patterns EXCEPT ![worker.batch] = @ + 1]
        BY <4>2, <2>2 DEF WorkerPatterns
      <4> QED
        BY <2>2, <4>1, <4>2 DEF WorkerPatterns
    <3>2. worker' \in [step : {"idle", "patterns", "edges"}, batch : Logs \cup {NoBatch}]
      BY <2>2 DEF WorkerPatterns
    <3>3. worker'.batch \in Logs
      BY <2>2 DEF WorkerPatterns
    <3> QED
      BY <2>2, <3>1, <3>2, <3>3 DEF WorkerPatterns
  <2>3. CASE WorkerEdges
    BY <2>3 DEF WorkerEdges, Idle
  <2> QED
    BY <1>17, <2>1, <2>2, <2>3 DEF Work
<1>18. CASE Crash
  BY <1>18 DEF Crash, Idle
<1>19. CASE UNCHANGED hubVars
  BY <1>19 DEF hubVars
<1> QED
  BY <1>1, <1>2, <1>3, <1>4, <1>5, <1>6, <1>7, <1>8, <1>9, <1>10, <1>11,
     <1>12, <1>13, <1>14, <1>15, <1>16, <1>17, <1>18, <1>19 DEF Next, Serve

\* HubIngest keeps its types in every reachable state, whatever the number of
\* requests, slots and batches.
THEOREM TypeCorrect == HubSpec => []TypeOK
<1>1. TypeInv => TypeOK
  BY DEF TypeInv
<1> QED
  BY <1>1, TypeInit, TypeNext, PTL DEF HubSpec
-----------------------------------------------------------------------------
(***************************************************************************)
(* One transaction per batch.  BatchIsAtomic is inductive only together    *)
(* with what the claim is for: of all handlers, at most one has an id's    *)
(* row inserted and not committed, and no such id is committed.            *)
(***************************************************************************)

OneHolder ==
  \A r, q \in Request :
    HoldsClaim(r) /\ HoldsClaim(q) /\ req[r] = req[q] => r = q

HeldIsUnclaimed == \A r \in Request : HoldsClaim(r) => req[r] \notin claimed

OnlyNamedClaim ==
  \A r \in Request : at[r] \in {"claim", "commit"} => req[r] \notin Anonymous

ClaimInv == OneHolder /\ HeldIsUnclaimed /\ OnlyNamedClaim /\ BatchIsAtomic

\* A step that stores nothing and claims nothing keeps all of it.
LEMMA QuietStep ==
  ASSUME ClaimInv, UNCHANGED dbVars,
         \A q \in Request : HoldsClaim(q)' => HoldsClaim(q) /\ req'[q] = req[q],
         OnlyNamedClaim'
  PROVE  ClaimInv'
<1>1. OneHolder'
  BY DEF ClaimInv, OneHolder
<1>2. HeldIsUnclaimed'
  BY DEF ClaimInv, HeldIsUnclaimed, dbVars
<1>3. BatchIsAtomic'
  BY DEF ClaimInv, BatchIsAtomic, dbVars
<1> QED
  BY <1>1, <1>2, <1>3 DEF ClaimInv

\* No id is claimed at the start.
LEMMA ClaimInit == Init => ClaimInv
BY DEF Init, ClaimInv, OneHolder, HeldIsUnclaimed, OnlyNamedClaim, HoldsClaim,
       BatchIsAtomic, Named

\* A commit turns an uncommitted claim into one copy of every write.
LEMMA CommitStores ==
  ASSUME TypeInv, ClaimInv, NEW r \in Request, at[r] = "commit", Stored(req[r])
  PROVE  /\ BatchIsAtomic'
         /\ claimed' = claimed \cup {req[r]}
<1>1. req[r] \in Named /\ req[r] \notin claimed
  BY DEF ClaimInv, OnlyNamedClaim, HeldIsUnclaimed, HoldsClaim, TypeInv, HandlerOK, Named
<1>2. claimed' = claimed \cup {req[r]}
  BY DEF Stored
<1>3. ASSUME NEW b \in Named, NEW w \in Write
      PROVE  copies'[b][w] = IF b \in claimed' /\ w \in WritesSet(b) THEN 1 ELSE 0
  <2>1. copies[b][w] = IF b \in claimed /\ w \in WritesSet(b) THEN 1 ELSE 0
    BY DEF ClaimInv, BatchIsAtomic
  <2>2. CASE b = req[r]
    <3>1. copies'[b][w] = copies[b][w] + (IF w \in WritesSet(b) THEN 1 ELSE 0)
      BY <2>2, <1>1 DEF Stored, TypeInv, TypeOK, Named
    <3> QED
      BY <3>1, <2>1, <2>2, <1>1, <1>2
  <2>3. CASE b # req[r]
    <3>1. copies'[b] = copies[b]
      BY <2>3 DEF Stored, TypeInv, TypeOK, Named
    <3> QED
      BY <3>1, <2>1, <2>3, <1>2
  <2> QED
    BY <2>2, <2>3
<1>4. BatchIsAtomic'
  BY <1>3 DEF BatchIsAtomic, Named
<1> QED
  BY <1>2, <1>4

\* Every step keeps one holder per claim and the atomicity of batches.
LEMMA ClaimNext == TypeInv /\ ClaimInv /\ [Next]_hubVars => ClaimInv'
<1> SUFFICES ASSUME TypeInv, ClaimInv, [Next]_hubVars
             PROVE  ClaimInv'
    OBVIOUS
<1>a. at \in [Request -> At] /\ req \in [Request -> Batch \cup {NoBatch}]
  BY DEF TypeInv, TypeOK
<1>b. OnlyNamedClaim
  BY DEF ClaimInv
<1>1. ASSUME NEW r \in Request, NEW b \in Batch, Arrive(r, b)
      PROVE  ClaimInv'
  <2>1. /\ UNCHANGED dbVars /\ OnlyNamedClaim'
        /\ \A q \in Request : HoldsClaim(q)' => HoldsClaim(q) /\ req'[q] = req[q]
    BY <1>1, <1>a, <1>b DEF Arrive, Go, HoldsClaim, OnlyNamedClaim, dbVars
  <2> QED
    BY <2>1, QuietStep
<1>2. ASSUME NEW r \in Request, Hangup(r)
      PROVE  ClaimInv'
  <2>1. UNCHANGED dbVars /\ OnlyNamedClaim'
    BY <1>2, <1>a, <1>b DEF Hangup, OnlyNamedClaim, dbVars
  <2>2. \A q \in Request : HoldsClaim(q)' => HoldsClaim(q) /\ req'[q] = req[q]
    BY <1>2, <1>a, <1>b DEF Hangup, OnlyNamedClaim, HoldsClaim
  <2> QED
    BY <2>1, <2>2, QuietStep
<1>3. ASSUME NEW r \in Request, TakeSlot(r)
      PROVE  ClaimInv'
  <2>1. UNCHANGED dbVars /\ OnlyNamedClaim'
    BY <1>3, <1>a, <1>b DEF TakeSlot, Go, OnlyNamedClaim, dbVars
  <2>2. \A q \in Request : HoldsClaim(q)' => HoldsClaim(q) /\ req'[q] = req[q]
    BY <1>3, <1>a, <1>b DEF TakeSlot, Go, OnlyNamedClaim, HoldsClaim
  <2> QED
    BY <2>1, <2>2, QuietStep
<1>4. ASSUME NEW r \in Request, HubBusy(r)
      PROVE  ClaimInv'
  <2>1. UNCHANGED dbVars /\ OnlyNamedClaim'
    BY <1>4, <1>a, <1>b DEF HubBusy, AnswerWith, Go, OnlyNamedClaim, dbVars
  <2>2. \A q \in Request : HoldsClaim(q)' => HoldsClaim(q) /\ req'[q] = req[q]
    BY <1>4, <1>a, <1>b DEF HubBusy, AnswerWith, Go, OnlyNamedClaim, HoldsClaim
  <2> QED
    BY <2>1, <2>2, QuietStep
<1>5. ASSUME NEW r \in Request, LeaveQueue(r)
      PROVE  ClaimInv'
  <2>1. UNCHANGED dbVars /\ OnlyNamedClaim'
    BY <1>5, <1>a, <1>b DEF LeaveQueue, End, Go, OnlyNamedClaim, dbVars
  <2>2. \A q \in Request : HoldsClaim(q)' => HoldsClaim(q) /\ req'[q] = req[q]
    BY <1>5, <1>a, <1>b DEF LeaveQueue, End, Go, OnlyNamedClaim, HoldsClaim
  <2> QED
    BY <2>1, <2>2, QuietStep
<1>6. ASSUME NEW r \in Request, Refuse(r)
      PROVE  ClaimInv'
  <2>1. UNCHANGED dbVars /\ OnlyNamedClaim'
    BY <1>6, <1>a, <1>b DEF Refuse, AnswerWith, Go, OnlyNamedClaim, dbVars
  <2>2. \A q \in Request : HoldsClaim(q)' => HoldsClaim(q) /\ req'[q] = req[q]
    BY <1>6, <1>a, <1>b DEF Refuse, AnswerWith, Go, OnlyNamedClaim, HoldsClaim
  <2> QED
    BY <2>1, <2>2, QuietStep
<1>7. ASSUME NEW r \in Request, Decode(r)
      PROVE  ClaimInv'
  <2>1. UNCHANGED dbVars /\ OnlyNamedClaim'
    BY <1>7, <1>a, <1>b DEF Decode, Go, OnlyNamedClaim, dbVars
  <2>2. \A q \in Request : HoldsClaim(q)' => HoldsClaim(q) /\ req'[q] = req[q]
    BY <1>7, <1>a, <1>b DEF Decode, Go, OnlyNamedClaim, HoldsClaim
  <2> QED
    BY <2>1, <2>2, QuietStep
<1>8. ASSUME NEW r \in Request, Repeat(r)
      PROVE  ClaimInv'
  <2>1. UNCHANGED dbVars /\ OnlyNamedClaim'
    BY <1>8, <1>a, <1>b DEF Repeat, AnswerWith, Go, OnlyNamedClaim, dbVars
  <2>2. \A q \in Request : HoldsClaim(q)' => HoldsClaim(q) /\ req'[q] = req[q]
    BY <1>8, <1>a, <1>b DEF Repeat, AnswerWith, Go, OnlyNamedClaim, HoldsClaim
  <2> QED
    BY <2>1, <2>2, QuietStep
<1>9. ASSUME NEW r \in Request, StoreError(r)
      PROVE  ClaimInv'
  <2>1. UNCHANGED dbVars /\ OnlyNamedClaim'
    BY <1>9, <1>a, <1>b DEF StoreError, AnswerWith, Go, OnlyNamedClaim, dbVars
  <2>2. \A q \in Request : HoldsClaim(q)' => HoldsClaim(q) /\ req'[q] = req[q]
    BY <1>9, <1>a, <1>b DEF StoreError, AnswerWith, Go, OnlyNamedClaim, HoldsClaim
  <2> QED
    BY <2>1, <2>2, QuietStep
<1>10. ASSUME NEW r \in Request, Effect(r)
       PROVE  ClaimInv'
  <2>1. UNCHANGED dbVars /\ OnlyNamedClaim'
    BY <1>10, <1>a, <1>b DEF Effect, QueueHasRoom, AnswerWith, Go, OnlyNamedClaim, dbVars
  <2>2. \A q \in Request : HoldsClaim(q)' => HoldsClaim(q) /\ req'[q] = req[q]
    BY <1>10, <1>a, <1>b DEF Effect, QueueHasRoom, AnswerWith, Go, OnlyNamedClaim, HoldsClaim
  <2> QED
    BY <2>1, <2>2, QuietStep
<1>11. ASSUME NEW r \in Request, Answer(r)
       PROVE  ClaimInv'
  <2>1. UNCHANGED dbVars /\ OnlyNamedClaim'
    BY <1>11, <1>a, <1>b DEF Answer, End, Go, OnlyNamedClaim, dbVars
  <2>2. \A q \in Request : HoldsClaim(q)' => HoldsClaim(q) /\ req'[q] = req[q]
    BY <1>11, <1>a, <1>b DEF Answer, End, Go, OnlyNamedClaim, HoldsClaim
  <2> QED
    BY <2>1, <2>2, QuietStep
<1>12. ASSUME NEW r \in Request, WriteInTx(r)
       PROVE  ClaimInv'
  <2>1. UNCHANGED dbVars /\ OnlyNamedClaim'
    BY <1>12, <1>a, <1>b DEF WriteInTx, FnStep, Go, OnlyNamedClaim, dbVars
  <2>2. \A q \in Request : HoldsClaim(q)' => HoldsClaim(q) /\ req'[q] = req[q]
    BY <1>12, <1>a, <1>b DEF WriteInTx, FnStep, Go, OnlyNamedClaim, HoldsClaim
  <2> QED
    BY <2>1, <2>2, QuietStep
<1>13. ASSUME NEW r \in Request, Claim(r)
       PROVE  ClaimInv'
  <2>1. /\ at' = [at EXCEPT ![r] = "write"] /\ UNCHANGED <<req, dbVars>>
        /\ ClaimFree(r) /\ req[r] \notin claimed
    BY <1>13 DEF Claim, Go
  <2>2. \A q \in Request : HoldsClaim(q)' => HoldsClaim(q) \/ q = r
    BY <2>1, <1>a DEF HoldsClaim
  <2>3. OneHolder'
    BY <2>1, <2>2 DEF ClaimInv, OneHolder, ClaimFree
  <2>4. HeldIsUnclaimed'
    BY <2>1, <2>2 DEF ClaimInv, HeldIsUnclaimed, dbVars
  <2>5. OnlyNamedClaim'
    BY <2>1, <1>a, <1>b DEF OnlyNamedClaim
  <2>6. BatchIsAtomic'
    BY <2>1 DEF ClaimInv, BatchIsAtomic, dbVars
  <2> QED
    BY <2>3, <2>4, <2>5, <2>6 DEF ClaimInv
<1>14. ASSUME NEW r \in Request, WriteAlone(r)
       PROVE  ClaimInv'
  <2>1. /\ at[r] = "write" /\ req[r] \in Anonymous /\ UNCHANGED <<req, claimed>>
        /\ at' = [at EXCEPT ![r] = IF done[r] + 1 < WriteCount(req[r])
                                   THEN "write" ELSE "effect"]
    BY <1>14 DEF WriteAlone, FnStep, Go
  <2>2. \A q \in Request : HoldsClaim(q)' => HoldsClaim(q)
    BY <2>1, <1>a DEF HoldsClaim
  <2>3. OneHolder' /\ HeldIsUnclaimed'
    BY <2>1, <2>2 DEF ClaimInv, OneHolder, HeldIsUnclaimed
  <2>4. OnlyNamedClaim'
    BY <2>1, <1>a, <1>b DEF OnlyNamedClaim
  <2>5. \A b \in Named : copies'[b] = copies[b]
    BY <2>1, <1>14 DEF WriteAlone, Named, TypeInv, TypeOK
  <2>6. BatchIsAtomic'
    BY <2>1, <2>5 DEF ClaimInv, BatchIsAtomic
  <2> QED
    BY <2>3, <2>4, <2>6 DEF ClaimInv
<1>15. ASSUME NEW r \in Request, Commit(r)
       PROVE  ClaimInv'
  <2>1. /\ at[r] = "commit" /\ Stored(req[r]) /\ UNCHANGED req
        /\ at' = [at EXCEPT ![r] = "effect"]
    BY <1>15 DEF Commit, Go, AnswerWith
  <2>2. BatchIsAtomic' /\ claimed' = claimed \cup {req[r]}
    BY <2>1, CommitStores
  <2>3. \A q \in Request : HoldsClaim(q)' => HoldsClaim(q) /\ q # r
    BY <2>1, <1>a DEF HoldsClaim
  <2>4. HoldsClaim(r)
    BY <2>1, <1>b DEF HoldsClaim, OnlyNamedClaim
  <2>5. OneHolder'
    BY <2>1, <2>3 DEF ClaimInv, OneHolder
  <2>6. HeldIsUnclaimed'
    BY <2>1, <2>2, <2>3, <2>4 DEF ClaimInv, HeldIsUnclaimed, OneHolder
  <2>7. OnlyNamedClaim'
    BY <2>1, <1>a, <1>b DEF OnlyNamedClaim
  <2> QED
    BY <2>2, <2>5, <2>6, <2>7 DEF ClaimInv
<1>16. ASSUME NEW r \in Request, CommitUnknown(r)
       PROVE  ClaimInv'
  <2>1. /\ at[r] = "commit" /\ Stored(req[r]) /\ UNCHANGED req
        /\ at' = [at EXCEPT ![r] = "answer"]
    BY <1>16 DEF CommitUnknown, Go, AnswerWith
  <2>2. BatchIsAtomic' /\ claimed' = claimed \cup {req[r]}
    BY <2>1, CommitStores
  <2>3. \A q \in Request : HoldsClaim(q)' => HoldsClaim(q) /\ q # r
    BY <2>1, <1>a DEF HoldsClaim
  <2>4. HoldsClaim(r)
    BY <2>1, <1>b DEF HoldsClaim, OnlyNamedClaim
  <2>5. OneHolder'
    BY <2>1, <2>3 DEF ClaimInv, OneHolder
  <2>6. HeldIsUnclaimed'
    BY <2>1, <2>2, <2>3, <2>4 DEF ClaimInv, HeldIsUnclaimed, OneHolder
  <2>7. OnlyNamedClaim'
    BY <2>1, <1>a, <1>b DEF OnlyNamedClaim
  <2> QED
    BY <2>2, <2>5, <2>6, <2>7 DEF ClaimInv
<1>17. CASE Work
  <2>1. UNCHANGED <<at, req, dbVars>>
    BY <1>17 DEF Work, WorkerTakes, WorkerPatterns, WorkerEdges
  <2>2. /\ OnlyNamedClaim'
        /\ \A q \in Request : HoldsClaim(q)' => HoldsClaim(q) /\ req'[q] = req[q]
    BY <2>1, <1>b DEF OnlyNamedClaim, HoldsClaim
  <2> QED
    BY <2>1, <2>2, QuietStep
<1>18. CASE Crash
  <2>1. UNCHANGED dbVars /\ at' = [r \in Request |-> "none"]
    BY <1>18 DEF Crash
  <2>2. /\ OnlyNamedClaim'
        /\ \A q \in Request : HoldsClaim(q)' => HoldsClaim(q) /\ req'[q] = req[q]
    BY <2>1 DEF OnlyNamedClaim, HoldsClaim
  <2> QED
    BY <2>1, <2>2, QuietStep
<1>19. CASE UNCHANGED hubVars
  <2>1. UNCHANGED <<at, req, dbVars>>
    BY <1>19 DEF hubVars, dbVars
  <2>2. /\ OnlyNamedClaim'
        /\ \A q \in Request : HoldsClaim(q)' => HoldsClaim(q) /\ req'[q] = req[q]
    BY <2>1, <1>b DEF OnlyNamedClaim, HoldsClaim
  <2> QED
    BY <2>1, <2>2, QuietStep
<1> QED
  BY <1>1, <1>2, <1>3, <1>4, <1>5, <1>6, <1>7, <1>8, <1>9, <1>10, <1>11,
     <1>12, <1>13, <1>14, <1>15, <1>16, <1>17, <1>18, <1>19 DEF Next, Serve

\* batch.go's promise, for any number of concurrent and repeated requests: an
\* id and the writes of its batch become visible together and once.
THEOREM StoredAtomically == HubSpec => []BatchIsAtomic
<1>1. ClaimInv => BatchIsAtomic
  BY DEF ClaimInv
<1>2. Init => TypeInv /\ ClaimInv
  BY TypeInit, ClaimInit
<1>3. TypeInv /\ ClaimInv /\ [Next]_hubVars => (TypeInv /\ ClaimInv)'
  BY TypeNext, ClaimNext
<1> QED
  BY <1>1, <1>2, <1>3, PTL DEF HubSpec
-----------------------------------------------------------------------------
(***************************************************************************)
(* An acknowledgement means that the batch is stored.  On the way there a  *)
(* handler without an id has made the writes it has counted, and nothing   *)
(* committed is ever taken back.                                           *)
(***************************************************************************)

Acknowledges(r) == at[r] = "effect" \/ (at[r] = "answer" /\ code[r] = 202)

WrittenSoFar(r) ==
  \A i \in 1..done[r] : copies[req[r]][WritesOf(req[r])[i]] > 0

AllWritten(r) == \A w \in WritesSet(req[r]) : copies[req[r]][w] > 0

AckOf(r) ==
  /\ at[r] = "write" /\ req[r] \in Anonymous => WrittenSoFar(r)
  /\ Acknowledges(r) => AllWritten(r)

AckInv == \A r \in Request : AckOf(r)

CopiesGrow ==
  \A b \in Batch : \A w \in Write : copies'[b][w] >= copies[b][w]

\* No step removes a committed row.
LEMMA NothingIsTakenBack == TypeInv /\ [Next]_hubVars => CopiesGrow
<1> SUFFICES ASSUME TypeInv, [Next]_hubVars
             PROVE  CopiesGrow
    OBVIOUS
<1>a. copies \in [Batch -> [Write -> Nat]]
  BY DEF TypeInv, TypeOK
<1>1. CASE UNCHANGED copies
  BY <1>1, <1>a DEF CopiesGrow
<1>2. ASSUME NEW r \in Request, Stored(req[r])
      PROVE  CopiesGrow
  <2> SUFFICES ASSUME NEW b \in Batch, NEW w \in Write
               PROVE  copies'[b][w] >= copies[b][w]
      BY DEF CopiesGrow
  <2>1. CASE b = req[r]
    <3>1. copies'[b][w] = copies[b][w] + (IF w \in WritesSet(b) THEN 1 ELSE 0)
      BY <1>2, <1>a, <2>1 DEF Stored
    <3> QED
      BY <1>a, <3>1
  <2>2. CASE b # req[r]
    BY <1>2, <1>a, <2>2 DEF Stored
  <2> QED
    BY <2>1, <2>2
<1>3. ASSUME NEW r \in Request, WriteAlone(r)
      PROVE  CopiesGrow
  <2>1. copies' = [copies EXCEPT ![req[r]][NextWrite(r)] = @ + 1]
    BY <1>3 DEF WriteAlone
  <2> QED
    BY <1>a, <2>1 DEF CopiesGrow
<1> QED
  BY <1>1, <1>2, <1>3
  DEF Next, Serve, Arrive, Hangup, TakeSlot, HubBusy, LeaveQueue, Refuse, Decode,
      Claim, Repeat, WriteInTx, FnStep, Commit, CommitUnknown, StoreError, Effect,
      Answer, Work, WorkerTakes, WorkerPatterns, WorkerEdges, Crash, dbVars, hubVars

\* What a handler has written stays written.
LEMMA StillWritten ==
  ASSUME TypeInv, TypeInv', CopiesGrow, NEW r \in Request, UNCHANGED <<req[r], done[r]>>,
         at[r] # "none"
  PROVE  /\ at[r] = "write" /\ WrittenSoFar(r) => WrittenSoFar(r)'
         /\ AllWritten(r) => AllWritten(r)'
<1>0. req[r] \in Batch
  BY DEF TypeInv, HandlerOK
<1>1. \A w \in Write : copies'[req[r]][w] >= copies[req[r]][w]
  BY <1>0 DEF CopiesGrow
<1>2. \A w \in Write : copies[req[r]][w] \in Nat /\ copies'[req[r]][w] \in Nat
  BY <1>0 DEF TypeInv, TypeOK
<1>3. /\ WritesSet(req[r]) \subseteq Write
      /\ \A i \in 1..WriteCount(req[r]) : WritesOf(req[r])[i] \in Write
  BY WritesOfBatch
<1>4. ASSUME at[r] = "write", WrittenSoFar(r)
      PROVE  WrittenSoFar(r)'
  <2>1. \A i \in 1..done[r] : WritesOf(req[r])[i] \in Write
    <3>1. \A i \in 1..done[r] : i \in 1..WriteCount(req[r])
      <4>1. WriteCount(req[r]) \in 1..2
        BY WritesOfBatch
      <4>2. done[r] < WriteCount(req[r]) /\ done[r] \in 0..2
        BY <1>4 DEF TypeInv, TypeOK, HandlerOK
      <4> QED
        BY <4>1, <4>2
    <3> QED
      BY <3>1, <1>3
  <2>2. SUFFICES ASSUME NEW i \in 1..done[r]
                 PROVE  copies'[req[r]][WritesOf(req[r])[i]] > 0
    BY DEF WrittenSoFar
  <2>3. copies[req[r]][WritesOf(req[r])[i]] > 0
    BY <1>4 DEF WrittenSoFar
  <2> QED
    BY <1>1, <1>2, <2>1, <2>3
<1>5. ASSUME AllWritten(r)
      PROVE  AllWritten(r)'
  <2>1. SUFFICES ASSUME NEW w \in WritesSet(req[r])
                 PROVE  copies'[req[r]][w] > 0
    BY DEF AllWritten
  <2>2. w \in Write /\ copies[req[r]][w] > 0
    BY <1>3, <1>5 DEF AllWritten
  <2> QED
    BY <1>1, <1>2, <2>2
<1> QED
  BY <1>4, <1>5

\* A request whose handler does not move keeps what it is owed.
LEMMA KeepAck ==
  ASSUME TypeInv, TypeInv', CopiesGrow, NEW r \in Request, AckOf(r),
         UNCHANGED <<at[r], req[r], done[r], code[r]>>
  PROVE  AckOf(r)'
<1>1. CASE at[r] = "none"
  BY <1>1 DEF AckOf, Acknowledges
<1>2. CASE at[r] # "none"
  BY <1>2, StillWritten DEF AckOf, Acknowledges
<1> QED
  BY <1>1, <1>2

\* Nor is anything owed where a handler has not begun to write or fails.
LEMMA NothingOwed ==
  ASSUME NEW r \in Request, done'[r] = 0 \/ at'[r] # "write",
         at'[r] # "effect", at'[r] = "answer" => code'[r] # 202
  PROVE  AckOf(r)'
BY DEF AckOf, Acknowledges, WrittenSoFar

\* Nothing is answered at the start.
LEMMA AckInit == Init => AckInv
BY DEF Init, AckInv, AckOf, Acknowledges

\* A handler that acknowledges, or is bound to, has its writes committed.
LEMMA AckNext == TypeInv /\ TypeInv' /\ ClaimInv /\ AckInv /\ [Next]_hubVars => AckInv'
<1> SUFFICES ASSUME TypeInv, TypeInv', ClaimInv, AckInv, [Next]_hubVars,
                    NEW q \in Request
             PROVE  AckOf(q)'
    BY DEF AckInv
<1>a. /\ at \in [Request -> At] /\ req \in [Request -> Batch \cup {NoBatch}]
      /\ done \in [Request -> 0..2]
      /\ code \in [Request -> {0, 202, 400, 500, 503}]
  BY DEF TypeInv, TypeOK
<1>b. CopiesGrow
  BY NothingIsTakenBack
<1>c. AckOf(q)
  BY DEF AckInv
<1>d. ASSUME UNCHANGED <<at[q], req[q], done[q], code[q]>>
      PROVE  AckOf(q)'
  BY <1>b, <1>c, <1>d, KeepAck
<1>1. ASSUME NEW r \in Request, NEW b \in Batch, Arrive(r, b)
      PROVE  AckOf(q)'
  <2>1. CASE q = r
    BY <1>1, <1>a, <2>1, NothingOwed DEF Arrive, Go
  <2>2. CASE q # r
    BY <1>1, <1>a, <1>d, <2>2 DEF Arrive, Go
  <2> QED
    BY <2>1, <2>2
<1>2. ASSUME NEW r \in Request, Hangup(r)
      PROVE  AckOf(q)'
  BY <1>2, <1>d DEF Hangup
<1>3. ASSUME NEW r \in Request, TakeSlot(r)
      PROVE  AckOf(q)'
  <2>1. CASE q = r
    BY <1>3, <1>a, <2>1, NothingOwed DEF TakeSlot, Go
  <2>2. CASE q # r
    BY <1>3, <1>a, <1>d, <2>2 DEF TakeSlot, Go
  <2> QED
    BY <2>1, <2>2
<1>4. ASSUME NEW r \in Request, HubBusy(r)
      PROVE  AckOf(q)'
  <2>1. CASE q = r
    BY <1>4, <1>a, <2>1, NothingOwed DEF HubBusy, AnswerWith, Go
  <2>2. CASE q # r
    BY <1>4, <1>a, <1>d, <2>2 DEF HubBusy, AnswerWith, Go
  <2> QED
    BY <2>1, <2>2
<1>5. ASSUME NEW r \in Request, LeaveQueue(r)
      PROVE  AckOf(q)'
  <2>1. CASE q = r
    BY <1>5, <1>a, <2>1, NothingOwed DEF LeaveQueue, End, Go
  <2>2. CASE q # r
    BY <1>5, <1>a, <1>d, <2>2 DEF LeaveQueue, End, Go
  <2> QED
    BY <2>1, <2>2
<1>6. ASSUME NEW r \in Request, Answer(r)
      PROVE  AckOf(q)'
  <2>1. CASE q = r
    BY <1>6, <1>a, <2>1, NothingOwed DEF Answer, End, Go
  <2>2. CASE q # r
    BY <1>6, <1>a, <1>d, <2>2 DEF Answer, End, Go
  <2> QED
    BY <2>1, <2>2
<1>7. ASSUME NEW r \in Request, Refuse(r)
      PROVE  AckOf(q)'
  <2>1. CASE q = r
    BY <1>7, <1>a, <2>1, NothingOwed DEF Refuse, AnswerWith, Go
  <2>2. CASE q # r
    BY <1>7, <1>a, <1>d, <2>2 DEF Refuse, AnswerWith, Go
  <2> QED
    BY <2>1, <2>2
<1>8. ASSUME NEW r \in Request, Claim(r)
      PROVE  AckOf(q)'
  <2>1. CASE q = r
    <3>1. at[q] = "claim" /\ done'[q] = done[q] /\ at'[q] \in {"claim", "write"}
      BY <1>8, <1>a, <2>1 DEF Claim, Go
    <3>2. done[q] = 0
      BY <3>1 DEF TypeInv, HandlerOK
    <3> QED
      BY <3>1, <3>2, NothingOwed
  <2>2. CASE q # r
    BY <1>8, <1>a, <1>d, <2>2 DEF Claim, Go
  <2> QED
    BY <2>1, <2>2
<1>9. ASSUME NEW r \in Request, Decode(r)
      PROVE  AckOf(q)'
  <2>1. CASE q = r
    <3>1. at[q] = "decode" /\ done'[q] = done[q] /\ at'[q] \in {"claim", "write"}
      BY <1>9, <1>a, <2>1 DEF Decode, Go
    <3>2. done[q] = 0
      BY <3>1 DEF TypeInv, HandlerOK
    <3> QED
      BY <3>1, <3>2, NothingOwed
  <2>2. CASE q # r
    BY <1>9, <1>a, <1>d, <2>2 DEF Decode, Go
  <2> QED
    BY <2>1, <2>2
<1>10. ASSUME NEW r \in Request, WriteInTx(r)
       PROVE  AckOf(q)'
  <2>1. CASE q = r
    <3>1. req'[q] \notin Anonymous /\ at'[q] \in {"write", "commit"}
      BY <1>10, <1>a, <2>1 DEF WriteInTx, FnStep, Go
    <3> QED
      BY <3>1 DEF AckOf, Acknowledges
  <2>2. CASE q # r
    BY <1>10, <1>a, <1>d, <2>2 DEF WriteInTx, FnStep, Go
  <2> QED
    BY <2>1, <2>2
<1>11. ASSUME NEW r \in Request, CommitUnknown(r)
       PROVE  AckOf(q)'
  <2>1. CASE q = r
    BY <1>11, <1>a, <2>1, NothingOwed DEF CommitUnknown, AnswerWith, Go
  <2>2. CASE q # r
    BY <1>11, <1>a, <1>d, <2>2 DEF CommitUnknown, AnswerWith, Go
  <2> QED
    BY <2>1, <2>2
<1>12. ASSUME NEW r \in Request, StoreError(r)
       PROVE  AckOf(q)'
  <2>1. CASE q = r
    BY <1>12, <1>a, <2>1, NothingOwed DEF StoreError, AnswerWith, Go
  <2>2. CASE q # r
    BY <1>12, <1>a, <1>d, <2>2 DEF StoreError, AnswerWith, Go
  <2> QED
    BY <2>1, <2>2
<1>13. ASSUME NEW r \in Request, Repeat(r)
       PROVE  AckOf(q)'
  <2>1. CASE q = r
    <3>1. /\ at[q] = "claim" /\ at'[q] = "answer"
          /\ req[q] \in claimed /\ UNCHANGED <<req, copies>>
      BY <1>13, <1>a, <2>1 DEF Repeat, AnswerWith, Go, dbVars
    <3>2. req[q] \in Named /\ WritesSet(req[q]) \subseteq Write
      BY <3>1, WritesOfBatch
      DEF ClaimInv, OnlyNamedClaim, Named, TypeInv, HandlerOK
    <3>3. AllWritten(q)
      BY <3>1, <3>2 DEF ClaimInv, BatchIsAtomic, AllWritten
    <3> QED
      BY <3>1, <3>3 DEF AckOf, AllWritten
  <2>2. CASE q # r
    BY <1>13, <1>a, <1>d, <2>2 DEF Repeat, AnswerWith, Go
  <2> QED
    BY <2>1, <2>2
<1>14. ASSUME NEW r \in Request, Commit(r)
       PROVE  AckOf(q)'
  <2>1. CASE q = r
    <3>1. /\ at[q] = "commit" /\ at'[q] = "effect"
          /\ Stored(req[q]) /\ UNCHANGED req
      BY <1>14, <1>a, <2>1 DEF Commit, Go
    <3>2. req[q] \in Named /\ WritesSet(req[q]) \subseteq Write
      BY <3>1, WritesOfBatch
      DEF ClaimInv, OnlyNamedClaim, Named, TypeInv, HandlerOK
    <3>3. BatchIsAtomic' /\ req[q] \in claimed'
      BY <3>1, CommitStores
    <3>4. AllWritten(q)'
      BY <3>1, <3>2, <3>3 DEF BatchIsAtomic, AllWritten
    <3> QED
      BY <3>1, <3>4 DEF AckOf
  <2>2. CASE q # r
    BY <1>14, <1>a, <1>d, <2>2 DEF Commit, Go
  <2> QED
    BY <2>1, <2>2
<1>15. ASSUME NEW r \in Request, Effect(r)
       PROVE  AckOf(q)'
  <2>1. CASE q = r
    <3>1. at[q] = "effect" /\ at'[q] = "answer" /\ UNCHANGED <<req, copies>>
      BY <1>15, <1>a, <2>1 DEF Effect, QueueHasRoom, AnswerWith, Go, dbVars
    <3> QED
      BY <1>c, <3>1 DEF AckOf, Acknowledges, AllWritten
  <2>2. CASE q # r
    BY <1>15, <1>a, <1>d, <2>2 DEF Effect, QueueHasRoom, AnswerWith, Go
  <2> QED
    BY <2>1, <2>2
<1>16. ASSUME NEW r \in Request, WriteAlone(r)
       PROVE  AckOf(q)'
  <2>1. CASE q = r
    <3>1. /\ at[q] = "write" /\ req[q] \in Anonymous /\ UNCHANGED req
          /\ done'[q] = done[q] + 1
          /\ at'[q] = IF done[q] + 1 < WriteCount(req[q]) THEN "write" ELSE "effect"
          /\ copies' = [copies EXCEPT ![req[q]][NextWrite(q)] = @ + 1]
      BY <1>16, <1>a, <2>1 DEF WriteAlone, FnStep, Go
    <3>2. req[q] \in Batch /\ done[q] < WriteCount(req[q]) /\ done[q] \in 0..2
      BY <3>1 DEF TypeInv, TypeOK, HandlerOK
    <3>3. WriteCount(req[q]) \in 1..2
      BY WritesOfBatch
    <3>4. \A i \in 1..WriteCount(req[q]) : WritesOf(req[q])[i] \in Write
      BY WritesOfBatch
    <3>5. done[q] + 1 \in 1..WriteCount(req[q])
      BY <3>2, <3>3
    <3>6. NextWrite(q) \in Write
      BY <3>4, <3>5 DEF NextWrite
    <3>7. \A w \in Write : /\ copies[req[q]][w] \in Nat /\ copies'[req[q]][w] \in Nat
                          /\ copies'[req[q]][w] >= copies[req[q]][w]
      BY <3>2, <1>b DEF CopiesGrow, TypeInv, TypeOK
    <3>8. copies'[req[q]][NextWrite(q)] = copies[req[q]][NextWrite(q)] + 1
      BY <3>1, <3>2, <3>6 DEF TypeInv, TypeOK
    <3>9. ASSUME NEW i \in 1..done[q] + 1
          PROVE  copies'[req[q]][WritesOf(req[q])[i]] > 0
      <4>1. CASE i = done[q] + 1
        BY <3>6, <3>7, <3>8, <4>1 DEF NextWrite
      <4>2. CASE i # done[q] + 1
        <5>1. i \in 1..done[q] /\ i \in 1..WriteCount(req[q])
          BY <3>2, <3>3, <4>2
        <5>2. copies[req[q]][WritesOf(req[q])[i]] > 0
          BY <1>c, <3>1, <5>1 DEF AckOf, WrittenSoFar
        <5>3. WritesOf(req[q])[i] \in Write
          BY <3>4, <5>1
        <5> QED
          BY <3>7, <5>2, <5>3
      <4> QED
        BY <4>1, <4>2
    <3>10. WrittenSoFar(q)'
      BY <3>1, <3>9 DEF WrittenSoFar
    <3>11. CASE done[q] + 1 < WriteCount(req[q])
      BY <3>1, <3>10, <3>11 DEF AckOf, Acknowledges
    <3>12. CASE ~(done[q] + 1 < WriteCount(req[q]))
      <4>1. \A i \in 1..WriteCount(req[q]) : i \in 1..done[q] + 1
        BY <3>2, <3>3, <3>12
      <4>2. \A w \in WritesSet(req[q]) :
              \E i \in 1..WriteCount(req[q]) : w = WritesOf(req[q])[i]
        BY WritesOfBatch
      <4>3. AllWritten(q)'
        BY <3>1, <3>9, <4>1, <4>2 DEF AllWritten
      <4>4. at'[q] = "effect"
        BY <3>1, <3>12
      <4> QED
        BY <4>3, <4>4 DEF AckOf
    <3> QED
      BY <3>11, <3>12
  <2>2. CASE q # r
    BY <1>16, <1>a, <1>d, <2>2 DEF WriteAlone, FnStep, Go
  <2> QED
    BY <2>1, <2>2
<1>17. CASE Work
  BY <1>17, <1>d DEF Work, WorkerTakes, WorkerPatterns, WorkerEdges
<1>18. CASE Crash
  BY <1>18, NothingOwed DEF Crash
<1>19. CASE UNCHANGED hubVars
  BY <1>19, <1>d DEF hubVars
<1> QED
  BY <1>1, <1>2, <1>3, <1>4, <1>5, <1>6, <1>7, <1>8, <1>9, <1>10, <1>11,
     <1>12, <1>13, <1>14, <1>15, <1>16, <1>17, <1>18, <1>19 DEF Next, Serve

\* A 202, for a batch applied or for a repeat, with an id or without, is only
\* ever answered when every write of the batch is committed.
THEOREM AcknowledgedIsStored == HubSpec => []AckMeansStored
<1>1. AckInv => AckMeansStored
  BY DEF AckInv, AckOf, AckMeansStored, Acknowledges, AllWritten
<1>2. Init => TypeInv /\ ClaimInv /\ AckInv
  BY TypeInit, ClaimInit, AckInit
<1>3. TypeInv /\ ClaimInv /\ AckInv /\ [Next]_hubVars
      => (TypeInv /\ ClaimInv /\ AckInv)'
  BY TypeNext, ClaimNext, AckNext
<1> QED
  BY <1>1, <1>2, <1>3, PTL DEF HubSpec
-----------------------------------------------------------------------------
(***************************************************************************)
(* The ingest path implements BatchStore: Commit and CommitUnknown of a    *)
(* batch accept it, Effect of a batch with an id draws its consequences,   *)
(* and every other step stutters.  For that a batch with an id reaches     *)
(* Effect once.                                                            *)
(***************************************************************************)

AtEffect(r) == at[r] = "effect" /\ req[r] \in Named

EffectInv ==
  /\ \A r \in Request : AtEffect(r) => req[r] \in claimed /\ effects[req[r]] = 0
  /\ \A r, q \in Request : AtEffect(r) /\ AtEffect(q) /\ req[r] = req[q] => r = q
  /\ \A b \in Named : effects[b] > 0 => b \in claimed

\* The mapping's rowsOf and followed.
RowsOf == {b \in Named : \E w \in Write : copies[b][w] > 0}
Followed == {b \in Named : effects[b] > 0}

\* The batches with rows are those whose ids are recorded.
LEMMA RowsAreClaimed == TypeInv /\ ClaimInv => RowsOf = claimed \cap Named
<1> SUFFICES ASSUME TypeInv, ClaimInv, NEW b \in Named
             PROVE  (\E w \in Write : copies[b][w] > 0) <=> b \in claimed
    BY DEF RowsOf
<1>1. \A w \in Write :
        copies[b][w] = IF b \in claimed /\ w \in WritesSet(b) THEN 1 ELSE 0
  BY DEF ClaimInv, BatchIsAtomic
<1>2. \E w \in Write : w \in WritesSet(b)
  <2>1. WriteCount(b) \in 1..2
    BY WritesOfBatch
  <2>2. 1 \in 1..WriteCount(b)
    BY <2>1
  <2>3. WritesOf(b)[1] \in Write /\ WritesOf(b)[1] \in WritesSet(b)
    BY <2>2, WritesOfBatch
  <2> QED
    BY <2>3
<1> QED
  BY <1>1, <1>2

\* A step that accepts nothing and draws no consequence.
LEMMA StoreStutters ==
  ASSUME TypeInv, ClaimInv, ClaimInv', TypeInv', EffectInv, UNCHANGED <<claimed, effects>>,
         \A q \in Request : AtEffect(q)' => AtEffect(q) /\ req'[q] = req[q]
  PROVE  EffectInv' /\ UNCHANGED <<claimed, RowsOf, Followed>>
<1>1. EffectInv'
  BY DEF EffectInv
<1>2. RowsOf' = RowsOf
  <2>1. (RowsOf = claimed \cap Named)'
    BY RowsAreClaimed, PTL
  <2> QED
    BY <2>1, RowsAreClaimed
<1>3. Followed' = Followed
  BY DEF Followed
<1> QED
  BY <1>1, <1>2, <1>3

\* The abstract store starts empty.
LEMMA EffectInit == Init => EffectInv /\ RowsOf = {} /\ Followed = {}
BY DEF Init, EffectInv, AtEffect, RowsOf, Followed, Named

\* The commit of a batch with an id accepts it.
LEMMA CommitAccepts ==
  ASSUME TypeInv, ClaimInv, TypeInv', ClaimInv', EffectInv, NEW r \in Request,
         at[r] = "commit", Stored(req[r]), UNCHANGED <<req, effects>>,
         \A q \in Request : at'[q] = "effect" => at[q] = "effect" \/ q = r
  PROVE  EffectInv' /\ \E b \in Named : Store!Accept(b)
<1>1. req[r] \in Named /\ req[r] \notin claimed
  BY DEF ClaimInv, OnlyNamedClaim, HeldIsUnclaimed, HoldsClaim, TypeInv, HandlerOK, Named
<1>2. claimed' = claimed \cup {req[r]}
  BY CommitStores
<1>3. effects[req[r]] = 0
  BY <1>1 DEF EffectInv, TypeInv, TypeOK, Named
<1>4. \A q \in Request : AtEffect(q)' => AtEffect(q) \/ q = r
  BY DEF AtEffect
<1>5. EffectInv'
  <2>1. \A q \in Request : AtEffect(q)' => req'[q] \in claimed' /\ effects'[req'[q]] = 0
    BY <1>2, <1>3, <1>4 DEF EffectInv
  <2>2. \A q, p \in Request : AtEffect(q)' /\ AtEffect(p)' /\ req'[q] = req'[p] => q = p
    BY <1>1, <1>4 DEF EffectInv
  <2>3. \A b \in Named : effects'[b] > 0 => b \in claimed'
    BY <1>2 DEF EffectInv
  <2> QED
    BY <2>1, <2>2, <2>3 DEF EffectInv
<1>6. RowsOf' = RowsOf \cup {req[r]}
  <2>1. (RowsOf = claimed \cap Named)'
    BY RowsAreClaimed, PTL
  <2> QED
    BY <1>1, <1>2, <2>1, RowsAreClaimed
<1>7. Followed' = Followed
  BY DEF Followed
<1> QED
  BY <1>1, <1>2, <1>5, <1>6, <1>7 DEF Store!Accept, RowsOf, Followed

\* Every step of the ingest path is one of the store or leaves it alone.
LEMMA StoreStep ==
  TypeInv /\ TypeInv' /\ ClaimInv /\ ClaimInv' /\ EffectInv /\ [Next]_hubVars
  => EffectInv' /\ [Store!Next]_<<claimed, RowsOf, Followed>>
<1> SUFFICES ASSUME TypeInv, TypeInv', ClaimInv, ClaimInv', EffectInv, [Next]_hubVars
             PROVE  EffectInv' /\ [Store!Next]_<<claimed, RowsOf, Followed>>
    OBVIOUS
<1>a. at \in [Request -> At] /\ req \in [Request -> Batch \cup {NoBatch}]
  BY DEF TypeInv, TypeOK
<1>1. ASSUME NEW r \in Request, NEW b \in Batch, Arrive(r, b)
      PROVE  EffectInv' /\ [Store!Next]_<<claimed, RowsOf, Followed>>
  <2>1. /\ UNCHANGED <<claimed, effects>>
        /\ \A q \in Request : AtEffect(q)' => AtEffect(q) /\ req'[q] = req[q]
    BY <1>1, <1>a DEF Arrive, Go, AtEffect, dbVars
  <2> QED
    BY <2>1, StoreStutters
<1>2. ASSUME NEW r \in Request, Hangup(r)
      PROVE  EffectInv' /\ [Store!Next]_<<claimed, RowsOf, Followed>>
  <2>1. UNCHANGED <<claimed, effects>>
    BY <1>2 DEF Hangup, dbVars
  <2>2. \A q \in Request : AtEffect(q)' => AtEffect(q) /\ req'[q] = req[q]
    BY <1>2, <1>a DEF Hangup, AtEffect
  <2> QED
    BY <2>1, <2>2, StoreStutters
<1>3. ASSUME NEW r \in Request, TakeSlot(r)
      PROVE  EffectInv' /\ [Store!Next]_<<claimed, RowsOf, Followed>>
  <2>1. UNCHANGED <<claimed, effects>>
    BY <1>3 DEF TakeSlot, Go, dbVars
  <2>2. \A q \in Request : AtEffect(q)' => AtEffect(q) /\ req'[q] = req[q]
    BY <1>3, <1>a DEF TakeSlot, Go, AtEffect
  <2> QED
    BY <2>1, <2>2, StoreStutters
<1>4. ASSUME NEW r \in Request, HubBusy(r)
      PROVE  EffectInv' /\ [Store!Next]_<<claimed, RowsOf, Followed>>
  <2>1. UNCHANGED <<claimed, effects>>
    BY <1>4 DEF HubBusy, AnswerWith, Go, dbVars
  <2>2. \A q \in Request : AtEffect(q)' => AtEffect(q) /\ req'[q] = req[q]
    BY <1>4, <1>a DEF HubBusy, AnswerWith, Go, AtEffect
  <2> QED
    BY <2>1, <2>2, StoreStutters
<1>5. ASSUME NEW r \in Request, LeaveQueue(r)
      PROVE  EffectInv' /\ [Store!Next]_<<claimed, RowsOf, Followed>>
  <2>1. UNCHANGED <<claimed, effects>>
    BY <1>5 DEF LeaveQueue, End, Go, dbVars
  <2>2. \A q \in Request : AtEffect(q)' => AtEffect(q) /\ req'[q] = req[q]
    BY <1>5, <1>a DEF LeaveQueue, End, Go, AtEffect
  <2> QED
    BY <2>1, <2>2, StoreStutters
<1>6. ASSUME NEW r \in Request, Answer(r)
      PROVE  EffectInv' /\ [Store!Next]_<<claimed, RowsOf, Followed>>
  <2>1. UNCHANGED <<claimed, effects>>
    BY <1>6 DEF Answer, End, Go, dbVars
  <2>2. \A q \in Request : AtEffect(q)' => AtEffect(q) /\ req'[q] = req[q]
    BY <1>6, <1>a DEF Answer, End, Go, AtEffect
  <2> QED
    BY <2>1, <2>2, StoreStutters
<1>7. ASSUME NEW r \in Request, Refuse(r)
      PROVE  EffectInv' /\ [Store!Next]_<<claimed, RowsOf, Followed>>
  <2>1. UNCHANGED <<claimed, effects>>
    BY <1>7 DEF Refuse, AnswerWith, Go, dbVars
  <2>2. \A q \in Request : AtEffect(q)' => AtEffect(q) /\ req'[q] = req[q]
    BY <1>7, <1>a DEF Refuse, AnswerWith, Go, AtEffect
  <2> QED
    BY <2>1, <2>2, StoreStutters
<1>8. ASSUME NEW r \in Request, Decode(r)
      PROVE  EffectInv' /\ [Store!Next]_<<claimed, RowsOf, Followed>>
  <2>1. UNCHANGED <<claimed, effects>>
    BY <1>8 DEF Decode, Go, dbVars
  <2>2. \A q \in Request : AtEffect(q)' => AtEffect(q) /\ req'[q] = req[q]
    BY <1>8, <1>a DEF Decode, Go, AtEffect
  <2> QED
    BY <2>1, <2>2, StoreStutters
<1>9. ASSUME NEW r \in Request, Claim(r)
      PROVE  EffectInv' /\ [Store!Next]_<<claimed, RowsOf, Followed>>
  <2>1. UNCHANGED <<claimed, effects>>
    BY <1>9 DEF Claim, Go, dbVars
  <2>2. \A q \in Request : AtEffect(q)' => AtEffect(q) /\ req'[q] = req[q]
    BY <1>9, <1>a DEF Claim, Go, AtEffect
  <2> QED
    BY <2>1, <2>2, StoreStutters
<1>10. ASSUME NEW r \in Request, Repeat(r)
       PROVE  EffectInv' /\ [Store!Next]_<<claimed, RowsOf, Followed>>
  <2>1. UNCHANGED <<claimed, effects>>
    BY <1>10 DEF Repeat, AnswerWith, Go, dbVars
  <2>2. \A q \in Request : AtEffect(q)' => AtEffect(q) /\ req'[q] = req[q]
    BY <1>10, <1>a DEF Repeat, AnswerWith, Go, AtEffect
  <2> QED
    BY <2>1, <2>2, StoreStutters
<1>11. ASSUME NEW r \in Request, WriteInTx(r)
       PROVE  EffectInv' /\ [Store!Next]_<<claimed, RowsOf, Followed>>
  <2>1. UNCHANGED <<claimed, effects>>
    BY <1>11 DEF WriteInTx, FnStep, Go, dbVars
  <2>2. \A q \in Request : AtEffect(q)' => AtEffect(q) /\ req'[q] = req[q]
    BY <1>11, <1>a DEF WriteInTx, FnStep, Go, AtEffect
  <2> QED
    BY <2>1, <2>2, StoreStutters
<1>12. ASSUME NEW r \in Request, WriteAlone(r)
       PROVE  EffectInv' /\ [Store!Next]_<<claimed, RowsOf, Followed>>
  <2>1. UNCHANGED <<claimed, effects>>
    BY <1>12 DEF WriteAlone, FnStep, Go, Named, dbVars
  <2>2. \A q \in Request : AtEffect(q)' => AtEffect(q) /\ req'[q] = req[q]
    BY <1>12, <1>a DEF WriteAlone, FnStep, Go, Named, AtEffect
  <2> QED
    BY <2>1, <2>2, StoreStutters
<1>13. ASSUME NEW r \in Request, StoreError(r)
       PROVE  EffectInv' /\ [Store!Next]_<<claimed, RowsOf, Followed>>
  <2>1. UNCHANGED <<claimed, effects>>
    BY <1>13 DEF StoreError, AnswerWith, Go, dbVars
  <2>2. \A q \in Request : AtEffect(q)' => AtEffect(q) /\ req'[q] = req[q]
    BY <1>13, <1>a DEF StoreError, AnswerWith, Go, AtEffect
  <2> QED
    BY <2>1, <2>2, StoreStutters
<1>14. ASSUME NEW r \in Request, Commit(r)
       PROVE  EffectInv' /\ [Store!Next]_<<claimed, RowsOf, Followed>>
  <2>1. /\ at[r] = "commit" /\ Stored(req[r]) /\ UNCHANGED <<req, effects>>
        /\ at' = [at EXCEPT ![r] = "effect"]
    BY <1>14 DEF Commit, Go
  <2>2. \A q \in Request : at'[q] = "effect" => at[q] = "effect" \/ q = r
    BY <2>1, <1>a
  <2>3. EffectInv' /\ \E b \in Named : Store!Accept(b)
    BY <2>1, <2>2, CommitAccepts
  <2> QED
    BY <2>3 DEF Store!Next
<1>15. ASSUME NEW r \in Request, CommitUnknown(r)
       PROVE  EffectInv' /\ [Store!Next]_<<claimed, RowsOf, Followed>>
  <2>1. /\ at[r] = "commit" /\ Stored(req[r]) /\ UNCHANGED <<req, effects>>
        /\ at' = [at EXCEPT ![r] = "answer"]
    BY <1>15 DEF CommitUnknown, AnswerWith, Go
  <2>2. \A q \in Request : at'[q] = "effect" => at[q] = "effect" \/ q = r
    BY <2>1, <1>a
  <2>3. EffectInv' /\ \E b \in Named : Store!Accept(b)
    BY <2>1, <2>2, CommitAccepts
  <2> QED
    BY <2>3 DEF Store!Next
<1>16. ASSUME NEW r \in Request, Effect(r)
       PROVE  EffectInv' /\ [Store!Next]_<<claimed, RowsOf, Followed>>
  <2>1. /\ at[r] = "effect" /\ at' = [at EXCEPT ![r] = "answer"]
        /\ UNCHANGED <<req, claimed, copies>>
        /\ effects' = [effects EXCEPT ![req[r]] = @ + 1]
    BY <1>16 DEF Effect, QueueHasRoom, AnswerWith, Go, dbVars
  <2>2. req[r] \in Batch /\ effects \in [Batch -> Nat]
    BY <2>1 DEF TypeInv, TypeOK, HandlerOK
  <2>3. \A q \in Request : AtEffect(q)' => AtEffect(q) /\ q # r
    BY <2>1, <1>a DEF AtEffect
  <2>4. RowsOf' = RowsOf
    BY <2>1 DEF RowsOf
  <2>5. CASE req[r] \in Anonymous
    <3>1. \A b \in Named : effects'[b] = effects[b]
      BY <2>1, <2>2, <2>5 DEF Named
    <3>2. EffectInv'
      BY <2>1, <2>3, <3>1 DEF EffectInv, AtEffect
    <3>3. Followed' = Followed
      BY <3>1 DEF Followed
    <3> QED
      BY <2>1, <2>4, <3>2, <3>3
  <2>6. CASE req[r] \notin Anonymous
    <3>1. AtEffect(r) /\ req[r] \in Named
      BY <2>1, <2>2, <2>6 DEF AtEffect, Named
    <3>2. req[r] \in claimed /\ effects[req[r]] = 0
      BY <3>1 DEF EffectInv
    <3>3. \A b \in Batch : effects'[b] = IF b = req[r] THEN 1 ELSE effects[b]
      BY <2>1, <2>2, <3>2
    <3>4. \A q \in Request : AtEffect(q)' => req'[q] \in claimed' /\ effects'[req'[q]] = 0
      BY <2>1, <2>3, <3>1, <3>3 DEF EffectInv, AtEffect, Named
    <3>5. EffectInv'
      BY <2>1, <2>3, <3>2, <3>3, <3>4 DEF EffectInv, Named
    <3>6. Followed' = Followed \cup {req[r]} /\ req[r] \notin Followed
      BY <3>1, <3>2, <3>3 DEF Followed, Named
    <3>7. \E b \in Named : Store!Follow(b)
      BY <3>1, <2>1, <2>4, <3>2, <3>6 DEF Store!Follow, RowsOf, Followed
    <3> QED
      BY <3>1, <3>5, <3>7 DEF Store!Next
  <2> QED
    BY <2>5, <2>6
<1>17. CASE Work
  <2>1. UNCHANGED <<at, req, claimed, effects>>
    BY <1>17 DEF Work, WorkerTakes, WorkerPatterns, WorkerEdges, dbVars
  <2>2. \A q \in Request : AtEffect(q)' => AtEffect(q) /\ req'[q] = req[q]
    BY <2>1 DEF AtEffect
  <2> QED
    BY <2>1, <2>2, StoreStutters
<1>18. CASE Crash
  <2>1. UNCHANGED <<claimed, effects>> /\ at' = [r \in Request |-> "none"]
    BY <1>18 DEF Crash, dbVars
  <2>2. \A q \in Request : AtEffect(q)' => AtEffect(q) /\ req'[q] = req[q]
    BY <2>1 DEF AtEffect
  <2> QED
    BY <2>1, <2>2, StoreStutters
<1>19. CASE UNCHANGED hubVars
  <2>1. UNCHANGED <<at, req, claimed, effects>>
    BY <1>19 DEF hubVars
  <2>2. \A q \in Request : AtEffect(q)' => AtEffect(q) /\ req'[q] = req[q]
    BY <2>1 DEF AtEffect
  <2> QED
    BY <2>1, <2>2, StoreStutters
<1> QED
  BY <1>1, <1>2, <1>3, <1>4, <1>5, <1>6, <1>7, <1>8, <1>9, <1>10, <1>11,
     <1>12, <1>13, <1>14, <1>15, <1>16, <1>17, <1>18, <1>19 DEF Next, Serve

\* The ingest path implements BatchStore: what it shows to agents and readers
\* is a store that accepts each batch with an id once and whole.
THEOREM ImplementsBatchStore == HubSpec => IngestIsBatchStore
<1>1. Init => Store!Init
  BY EffectInit DEF Init, Store!Init, RowsOf, Followed
<1>2. Init => TypeInv /\ ClaimInv /\ EffectInv
  BY TypeInit, ClaimInit, EffectInit
<1>3. TypeInv /\ ClaimInv /\ EffectInv /\ [Next]_hubVars
      => (TypeInv /\ ClaimInv /\ EffectInv)' /\ [Store!Next]_<<claimed, RowsOf, Followed>>
  BY TypeNext, ClaimNext, StoreStep
<1> QED
  BY <1>1, <1>2, <1>3, PTL DEF HubSpec, IngestIsBatchStore, Store!Spec, RowsOf, Followed
-----------------------------------------------------------------------------
(***************************************************************************)
(* What follows a batch follows at most once: a batch in patternQueue, or  *)
(* in the worker's hands, is one that a handler has taken past the commit  *)
(* and that has not been counted for it.                                   *)
(***************************************************************************)

\* Where b is in a queue.
Places(q, b) == {i \in 1..Len(q) : q[i] = b}
Queued(b) == Cardinality(Places(queue, b))

\* The worker is about to count b.
Held(b) == IF worker.step = "patterns" /\ worker.batch = b THEN 1 ELSE 0

CountInv ==
  /\ \A b \in Batch : patterns[b] + Queued(b) + Held(b) <= effects[b]
  /\ \A b \in Named : effects[b] <= 1

-----------------------------------------------------------------------------
\* A batch put at the end has one more place, one taken from the front one less.
LEMMA PlacesFinite ==
  ASSUME NEW S, NEW q \in Seq(S), NEW b
  PROVE  IsFiniteSet(Places(q, b)) /\ Cardinality(Places(q, b)) \in Nat
<1>1. IsFiniteSet(1..Len(q))
  BY FS_Interval
<1>2. Places(q, b) \in SUBSET (1..Len(q))
  BY DEF Places
<1> QED BY <1>1, <1>2, FS_Subset, FS_CardinalityType

\* A batch that enters the queue takes one place more of it,
LEMMA PlacesAppend ==
  ASSUME NEW S, NEW q \in Seq(S), NEW x \in S, NEW b
  PROVE  Cardinality(Places(Append(q, x), b))
           = Cardinality(Places(q, b)) + (IF x = b THEN 1 ELSE 0)
<1>1. /\ Len(Append(q, x)) = Len(q) + 1
      /\ \A i \in 1..Len(q) : Append(q, x)[i] = q[i]
      /\ Append(q, x)[Len(q) + 1] = x
      /\ Len(q) \in Nat
  OBVIOUS
<1>2. CASE x = b
  <2>1. Places(Append(q, x), b) = Places(q, b) \cup {Len(q) + 1}
    BY <1>1, <1>2 DEF Places
  <2>2. Len(q) + 1 \notin Places(q, b)
    BY <1>1 DEF Places
  <2> QED BY <1>2, <2>1, <2>2, PlacesFinite, FS_AddElement
<1>3. CASE x # b
  <2>1. Places(Append(q, x), b) = Places(q, b)
    BY <1>1, <1>3 DEF Places
  <2> QED BY <1>3, <2>1, PlacesFinite
<1> QED BY <1>2, <1>3

\* the batch that leaves it one less,
LEMMA PlacesTail ==
  ASSUME NEW S, NEW q \in Seq(S), q # <<>>, NEW b
  PROVE  Cardinality(Places(Tail(q), b))
           = Cardinality(Places(q, b)) - (IF Head(q) = b THEN 1 ELSE 0)
<1>1. /\ Len(q) \in Nat \ {0} /\ Len(Tail(q)) = Len(q) - 1
      /\ \A i \in 1..Len(q) - 1 : Tail(q)[i] = q[i + 1]
      /\ Head(q) = q[1] /\ Tail(q) \in Seq(S)
  OBVIOUS
<1> DEFINE A == Places(Tail(q), b)
           B == Places(q, b) \ {1}
           f == [i \in A |-> i + 1]
<1>2. \A i \in A : i \in 1..Len(q) - 1 /\ i + 1 \in B
  BY <1>1 DEF Places
<1>3. \A j \in B : j - 1 \in A /\ f[j - 1] = j
  BY <1>1 DEF Places
<1>4. f \in [A -> B]
  BY <1>2
<1>5. \A i, j \in A : f[i] = f[j] => i = j
  BY <1>2
<1>6. f \in Bijection(A, B)
  <2>1. \A j \in B : \E i \in A : f[i] = j
    BY <1>3
  <2> HIDE DEF A, B, f
  <2> QED BY <1>4, <1>5, <2>1 DEF Bijection, Injection, Surjection, IsInjective
<1>7. Cardinality(B) = Cardinality(A)
  <2>1. IsFiniteSet(A)
    BY <1>1, PlacesFinite
  <2> HIDE DEF A, B, f
  <2> QED BY <1>6, <2>1, FS_Bijection DEF ExistsBijection
<1>8. 1 \in Places(q, b) <=> Head(q) = b
  BY <1>1 DEF Places
<1>9. Cardinality(B) = IF 1 \in Places(q, b) THEN Cardinality(Places(q, b)) - 1
                       ELSE Cardinality(Places(q, b))
  BY PlacesFinite, FS_RemoveElement
<1>10. Cardinality(Places(q, b)) \in Nat
  BY PlacesFinite
<1> QED BY <1>7, <1>8, <1>9, <1>10

\* and an empty queue has none.
LEMMA PlacesEmpty == \A b : Cardinality(Places(<<>>, b)) = 0
<1>1. \A b : Places(<<>>, b) = {}
  BY DEF Places
<1> QED BY <1>1, FS_EmptySet

-----------------------------------------------------------------------------
\* What is counted are numbers.
LEMMA CountsAreNumbers ==
  ASSUME TypeInv, NEW b \in Batch
  PROVE  /\ patterns[b] \in Nat /\ effects[b] \in Nat
         /\ Queued(b) \in Nat /\ Held(b) \in 0..1
<1>1. queue \in Seq(Logs)
  BY DEF TypeInv, TypeOK
<1>2. Queued(b) \in Nat
  BY <1>1, PlacesFinite DEF Queued
<1> QED BY <1>2 DEF TypeInv, TypeOK, Held

\* Nothing is counted at the start.
LEMMA CountInit == Init => CountInv
BY PlacesEmpty DEF Init, CountInv, Queued, Held, Idle, Named

\* A handler past the commit adds one to the effects and at most one to the queue.
LEMMA EffectCounts ==
  ASSUME TypeInv, TypeInv', EffectInv, CountInv, NEW r \in Request, Effect(r)
  PROVE  CountInv'
<1>1. /\ at[r] = "effect" /\ effects' = [effects EXCEPT ![req[r]] = @ + 1]
      /\ queue' = IF req[r] \in Logs /\ QueueHasRoom THEN Append(queue, req[r]) ELSE queue
      /\ UNCHANGED <<worker, patterns>>
  BY DEF Effect
<1>2. req[r] \in Batch /\ effects \in [Batch -> Nat] /\ queue \in Seq(Logs)
  BY <1>1 DEF TypeInv, TypeOK, HandlerOK
<1>3. \A b \in Batch : effects'[b] = effects[b] + (IF b = req[r] THEN 1 ELSE 0)
  BY <1>1, <1>2
<1>4. ASSUME NEW b \in Batch
      PROVE  Queued(b)' <= Queued(b) + (IF b = req[r] THEN 1 ELSE 0)
  <2>1. Queued(b) \in Nat
    BY CountsAreNumbers
  <2>2. CASE queue' = queue
    BY <2>1, <2>2 DEF Queued
  <2>3. CASE queue' = Append(queue, req[r]) /\ req[r] \in Logs
    BY <1>2, <2>1, <2>3, PlacesAppend DEF Queued
  <2> QED BY <1>1, <2>2, <2>3
<1>5. ASSUME NEW b \in Batch
      PROVE  patterns'[b] + Queued(b)' + Held(b)' <= effects'[b]
  <2>1. patterns'[b] = patterns[b] /\ Held(b)' = Held(b)
    BY <1>1 DEF Held
  <2>2. patterns[b] + Queued(b) + Held(b) <= effects[b]
    BY DEF CountInv
  <2>3. Queued(b)' \in Nat
    BY CountsAreNumbers, PlacesFinite DEF Queued, TypeInv, TypeOK
  <2> QED BY <1>3, <1>4, <2>1, <2>2, <2>3, CountsAreNumbers
<1>6. ASSUME NEW b \in Named
      PROVE  effects'[b] <= 1
  <2>1. b \in Batch /\ effects[b] <= 1
    BY DEF Named, CountInv
  <2>2. b = req[r] => effects[b] = 0
    BY <1>1 DEF EffectInv, AtEffect
  <2> QED BY <1>2, <1>3, <2>1, <2>2
<1> QED BY <1>5, <1>6 DEF CountInv

\* The worker takes a batch from the queue, and counts it or fails to.
LEMMA WorkCounts ==
  ASSUME TypeInv, CountInv, Work
  PROVE  CountInv'
<1>1. effects' = effects
  BY DEF Work, WorkerTakes, WorkerPatterns, WorkerEdges
<1> SUFFICES ASSUME NEW b \in Batch
             PROVE  patterns'[b] + Queued(b)' + Held(b)' <= effects[b]
  BY <1>1 DEF CountInv, Named
<1>2. /\ patterns[b] + Queued(b) + Held(b) <= effects[b]
      /\ queue \in Seq(Logs)
  BY DEF CountInv, TypeInv, TypeOK
<1>3. CASE WorkerTakes
  <2>1. /\ queue # <<>> /\ queue' = Tail(queue) /\ patterns' = patterns
        /\ Held(b) = 0 /\ Held(b)' = IF Head(queue) = b THEN 1 ELSE 0
    BY <1>3 DEF WorkerTakes, Held, Idle
  <2>2. Queued(b)' = Queued(b) - (IF Head(queue) = b THEN 1 ELSE 0)
    BY <1>2, <2>1, PlacesTail DEF Queued
  <2> QED BY <1>2, <2>1, <2>2, CountsAreNumbers
<1>4. CASE WorkerPatterns
  <2>1. queue' = queue /\ worker.step = "patterns" /\ Held(b)' = 0
    BY <1>4 DEF WorkerPatterns, Held, TypeInv, TypeOK
  <2>2. Queued(b)' = Queued(b)
    BY <2>1 DEF Queued
  <2>3. worker.batch \in Batch /\ patterns \in [Batch -> Nat]
    BY <1>4, HubAssumption DEF WorkerPatterns, TypeInv, TypeOK, HandlerOK
  <2>4. patterns'[b] \in Nat /\ patterns'[b] <= patterns[b] + Held(b)
    <3>1. CASE patterns' = [patterns EXCEPT ![worker.batch] = @ + 1]
      BY <2>1, <2>3, <3>1 DEF Held
    <3>2. CASE patterns' = patterns
      BY <2>3, <3>2 DEF Held
    <3> QED BY <1>4, <3>1, <3>2 DEF WorkerPatterns
  <2> QED BY <1>2, <2>1, <2>2, <2>4, CountsAreNumbers
<1>5. CASE WorkerEdges
  <2>1. queue' = queue /\ patterns' = patterns /\ Held(b)' = 0
    BY <1>5 DEF WorkerEdges, Held, Idle
  <2>2. Queued(b)' = Queued(b)
    BY <2>1 DEF Queued
  <2> QED BY <1>2, <2>1, <2>2, CountsAreNumbers
<1> QED BY <1>3, <1>4, <1>5 DEF Work

\* A crash takes what is queued and in hand, never the effects.
LEMMA CrashCounts ==
  ASSUME TypeInv, CountInv, Crash
  PROVE  CountInv'
<1>1. effects' = effects /\ patterns' = patterns /\ queue' = <<>> /\ worker' = Idle
  BY DEF Crash
<1> SUFFICES ASSUME NEW b \in Batch
             PROVE  patterns[b] + Queued(b)' + Held(b)' <= effects[b]
  BY <1>1 DEF CountInv, Named
<1>2. Queued(b)' = 0 /\ Held(b)' = 0
  BY <1>1, PlacesEmpty DEF Queued, Held, Idle
<1>3. patterns[b] + Queued(b) + Held(b) <= effects[b]
  BY DEF CountInv
<1> QED BY <1>2, <1>3, CountsAreNumbers

\* Steps that touch none of the counts keep them.
LEMMA OthersCount ==
  ASSUME CountInv, UNCHANGED <<effects, queue, worker, patterns>>
  PROVE  CountInv'
BY DEF CountInv, Queued, Held

\* Every step keeps the counts.
LEMMA CountNext ==
  TypeInv /\ TypeInv' /\ EffectInv /\ CountInv /\ [Next]_hubVars => CountInv'
<1> SUFFICES ASSUME TypeInv, TypeInv', EffectInv, CountInv, [Next]_hubVars PROVE CountInv'
  OBVIOUS
<1>1. ASSUME NEW r \in Request,
             Answer(r) \/ Hangup(r) \/ \E b \in Batch : Arrive(r, b)
      PROVE  UNCHANGED <<effects, queue, worker, patterns>>
  BY <1>1 DEF Answer, Hangup, Arrive, patternVars
<1>2. ASSUME NEW r \in Request, Serve(r), ~ Effect(r)
      PROVE  UNCHANGED <<effects, queue, worker, patterns>>
  <2>1. CASE TakeSlot(r) \/ HubBusy(r) \/ LeaveQueue(r) \/ Refuse(r) \/ Decode(r)
    BY <2>1 DEF TakeSlot, HubBusy, LeaveQueue, Refuse, Decode, patternVars
  <2>2. CASE Claim(r) \/ Repeat(r) \/ WriteInTx(r) \/ WriteAlone(r)
    BY <2>2 DEF Claim, Repeat, WriteInTx, WriteAlone, FnStep, patternVars
  <2>3. CASE Commit(r) \/ CommitUnknown(r) \/ StoreError(r)
    BY <2>3 DEF Commit, CommitUnknown, StoreError, patternVars
  <2> QED BY <1>2, <2>1, <2>2, <2>3 DEF Serve
<1>3. CASE UNCHANGED hubVars
  BY <1>3, OthersCount DEF hubVars
<1> QED BY <1>1, <1>2, <1>3, OthersCount, EffectCounts, WorkCounts, CrashCounts DEF Next

-----------------------------------------------------------------------------
\* A batch with an id has its event published and its pressure checked at most
\* once, and the patterns of no batch are counted more often than a handler took
\* it past the commit, whatever is repeated, lost or crashes (server.go:293-349).
THEOREM FollowedAtMostOnce == HubSpec => []FollowsAtMostOnce
<1>1. Init => TypeInv /\ ClaimInv /\ EffectInv /\ CountInv
  BY TypeInit, ClaimInit, EffectInit, CountInit
<1>2. TypeInv /\ ClaimInv /\ EffectInv /\ CountInv /\ [Next]_hubVars
      => (TypeInv /\ ClaimInv /\ EffectInv /\ CountInv)'
  BY TypeNext, ClaimNext, StoreStep, CountNext
<1>3. TypeInv /\ CountInv => FollowsAtMostOnce
  <2> SUFFICES ASSUME TypeInv, CountInv PROVE FollowsAtMostOnce
    OBVIOUS
  <2>1. \A b \in Batch : patterns[b] <= effects[b]
    BY CountsAreNumbers DEF CountInv
  <2> QED BY <2>1 DEF CountInv, FollowsAtMostOnce
<1> QED BY <1>1, <1>2, <1>3, PTL DEF HubSpec
-----------------------------------------------------------------------------
(***************************************************************************)
(* What a client may conclude from the status it receives: a 202 is for a  *)
(* batch whose id is recorded, a 400 for one the hub will never take.      *)
(***************************************************************************)

AnswerOf(r) ==
  /\ at[r] \in {"claim", "write", "commit", "effect"} => req[r] \notin Invalid
  /\ at[r] = "answer" /\ code[r] = 400 => req[r] \in Invalid
  /\ Acknowledges(r) /\ req[r] \notin Anonymous => req[r] \in claimed
  /\ r \in gone => at[r] # "none"

AnswerInv == (\A r \in Request : AnswerOf(r)) /\ claimed \cap Invalid = {}

\* A step of one handler leaves the others where they are, and ends a request
\* only when its client is gone.
OnlyServes(r) ==
  /\ \A q \in Request \ {r} : UNCHANGED <<at[q], req[q], code[q]>>
  /\ at[r] # "none"
  /\ r \notin gone => at'[r] # "none" /\ req'[r] = req[r]
  /\ gone' \in {gone, gone \ {r}}
  /\ claimed \subseteq claimed'

\* A handler's step is about its own request.
LEMMA ServesOne == ASSUME TypeInv, NEW r \in Request, Serve(r) PROVE OnlyServes(r)
<1> USE DEF TypeInv, TypeOK, dbVars, patternVars, Go, AnswerWith, OnlyServes
<1>1. CASE TakeSlot(r)
  BY <1>1 DEF TakeSlot
<1>2. CASE HubBusy(r)
  BY <1>2 DEF HubBusy
<1>3. CASE LeaveQueue(r)
  BY <1>3 DEF LeaveQueue, End
<1>4. CASE Refuse(r)
  BY <1>4 DEF Refuse
<1>5. CASE Decode(r)
  BY <1>5 DEF Decode
<1>6. CASE Claim(r)
  BY <1>6 DEF Claim
<1>7. CASE Repeat(r)
  BY <1>7 DEF Repeat
<1>8. CASE WriteInTx(r)
  BY <1>8 DEF WriteInTx, FnStep
<1>9. CASE WriteAlone(r)
  BY <1>9 DEF WriteAlone, FnStep
<1>10. CASE Commit(r)
  BY <1>10 DEF Commit, Stored
<1>11. CASE CommitUnknown(r)
  BY <1>11 DEF CommitUnknown, Stored
<1>12. CASE StoreError(r)
  BY <1>12 DEF StoreError
<1>13. CASE Effect(r)
  BY <1>13 DEF Effect, QueueHasRoom
<1> QED
  BY <1>1, <1>2, <1>3, <1>4, <1>5, <1>6, <1>7, <1>8, <1>9, <1>10, <1>11, <1>12, <1>13 DEF Serve

\* A request that no step of its own moves keeps what was said of it.
LEMMA KeepAnswer ==
  ASSUME NEW q \in Request, AnswerOf(q), UNCHANGED <<at[q], req[q], code[q]>>,
         claimed \subseteq claimed', q \in gone' => q \in gone
  PROVE  AnswerOf(q)'
BY DEF AnswerOf, Acknowledges

\* What a handler's step makes of the request it serves.
LEMMA ServeAnswers ==
  ASSUME TypeInv, ClaimInv, AnswerInv, NEW r \in Request, Serve(r)
  PROVE  AnswerOf(r)' /\ (claimed \cap Invalid = {})'
<1> USE DEF TypeInv, TypeOK, dbVars, patternVars, Go, AnswerWith, AnswerOf, Acknowledges
<1>a. AnswerOf(r) /\ claimed \cap Invalid = {}
  BY DEF AnswerInv
<1>1. CASE TakeSlot(r)
  BY <1>1, <1>a DEF TakeSlot
<1>2. CASE HubBusy(r)
  BY <1>2, <1>a DEF HubBusy
<1>3. CASE LeaveQueue(r)
  BY <1>3, <1>a DEF LeaveQueue, End
<1>4. CASE Refuse(r)
  BY <1>4, <1>a DEF Refuse
<1>5. CASE Decode(r)
  BY <1>5, <1>a DEF Decode
<1>6. CASE Claim(r)
  BY <1>6, <1>a DEF Claim
<1>7. CASE Repeat(r)
  BY <1>7, <1>a DEF Repeat
<1>8. CASE WriteInTx(r)
  BY <1>8, <1>a DEF WriteInTx, FnStep
<1>9. CASE WriteAlone(r)
  BY <1>9, <1>a DEF WriteAlone, FnStep
<1>10. CASE Commit(r)
  BY <1>10, <1>a DEF Commit, Stored
<1>11. CASE CommitUnknown(r)
  BY <1>11, <1>a DEF CommitUnknown, Stored
<1>12. CASE StoreError(r)
  BY <1>12, <1>a DEF StoreError
<1>13. CASE Effect(r)
  BY <1>13, <1>a DEF Effect, QueueHasRoom
<1> QED
  BY <1>1, <1>2, <1>3, <1>4, <1>5, <1>6, <1>7, <1>8, <1>9, <1>10, <1>11, <1>12, <1>13 DEF Serve

\* Nothing is answered, and no id recorded, at the start.
LEMMA AnswerInit == Init => AnswerInv
BY DEF Init, AnswerInv, AnswerOf, Acknowledges

\* Every step keeps what the answers say.
LEMMA AnswerNext == TypeInv /\ ClaimInv /\ AnswerInv /\ [Next]_hubVars => AnswerInv'
<1> SUFFICES ASSUME TypeInv, ClaimInv, AnswerInv, [Next]_hubVars
             PROVE  AnswerInv'
    OBVIOUS
<1>a. /\ \A q \in Request : AnswerOf(q)
      /\ claimed \cap Invalid = {}
  BY DEF AnswerInv
<1>b. /\ at \in [Request -> At] /\ req \in [Request -> Batch \cup {NoBatch}]
      /\ code \in [Request -> {0, 202, 400, 500, 503}] /\ gone \subseteq Request
  BY DEF TypeInv, TypeOK
<1>1. ASSUME NEW r \in Request, Serve(r)
      PROVE  AnswerInv'
  <2>1. \A q \in Request \ {r} : AnswerOf(q)'
    BY <1>1, <1>a, ServesOne, KeepAnswer DEF OnlyServes
  <2>2. AnswerOf(r)' /\ (claimed \cap Invalid = {})'
    BY <1>1, ServeAnswers
  <2> QED
    BY <2>1, <2>2 DEF AnswerInv
<1>2. ASSUME NEW r \in Request, NEW b \in Batch, Arrive(r, b)
      PROVE  AnswerInv'
  <2>1. \A q \in Request : AnswerOf(q)'
    BY <1>2, <1>a, <1>b DEF Arrive, Go, dbVars, AnswerOf, Acknowledges
  <2> QED
    BY <1>2, <1>a, <2>1 DEF Arrive, dbVars, AnswerInv
<1>3. ASSUME NEW r \in Request, Answer(r)
      PROVE  AnswerInv'
  <2>1. \A q \in Request : AnswerOf(q)'
    BY <1>3, <1>a, <1>b DEF Answer, End, Go, dbVars, AnswerOf, Acknowledges
  <2> QED
    BY <1>3, <1>a, <2>1 DEF Answer, dbVars, AnswerInv
<1>4. ASSUME NEW r \in Request, Hangup(r)
      PROVE  AnswerInv'
  <2>1. \A q \in Request : AnswerOf(q)'
    BY <1>4, <1>a DEF Hangup, dbVars, AnswerOf, Acknowledges
  <2> QED
    BY <1>4, <1>a, <2>1 DEF Hangup, dbVars, AnswerInv
<1>5. CASE Work \/ UNCHANGED hubVars
  <2>1. UNCHANGED <<at, req, gone, code, claimed>>
    BY <1>5 DEF Work, WorkerTakes, WorkerPatterns, WorkerEdges, dbVars, hubVars
  <2> QED
    BY <1>a, <2>1 DEF AnswerInv, AnswerOf, Acknowledges
<1>6. CASE Crash
  BY <1>6, <1>a DEF Crash, dbVars, AnswerInv, AnswerOf, Acknowledges
<1> QED
  BY <1>1, <1>2, <1>3, <1>4, <1>5, <1>6 DEF Next

\* An id once recorded stays recorded.
LEMMA ClaimedStays == TypeInv /\ [Next]_hubVars => claimed \subseteq claimed'
<1> SUFFICES ASSUME TypeInv, [Next]_hubVars
             PROVE  claimed \subseteq claimed'
    OBVIOUS
<1>1. ASSUME NEW r \in Request, Serve(r)
      PROVE  claimed \subseteq claimed'
  BY <1>1, ServesOne DEF OnlyServes
<1>2. ASSUME NEW r \in Request, Answer(r) \/ Hangup(r) \/ \E b \in Batch : Arrive(r, b)
      PROVE  claimed \subseteq claimed'
  BY <1>2 DEF Answer, Hangup, Arrive, dbVars
<1>3. CASE Work \/ Crash \/ UNCHANGED hubVars
  BY <1>3 DEF Work, WorkerTakes, WorkerPatterns, WorkerEdges, Crash, dbVars, hubVars
<1> QED
  BY <1>1, <1>2, <1>3 DEF Next
=============================================================================
