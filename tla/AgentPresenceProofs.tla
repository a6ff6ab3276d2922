------------------------- MODULE AgentPresenceProofs -------------------------
(***************************************************************************)
(* Theorems about presence, for any agents and requests served at once: a  *)
(* mark is answered with a reconnect once.                                 *)
(***************************************************************************)
EXTENDS AgentPresence, TLAPS

\* A handler has an agent, and one past its first write an agent with a row; a
\* heartbeat comes from an agent that has registered.
HandlerOK ==
  \A r \in Request :
    /\ at[r] # "none" => who[r] \in AgentID
    /\ at[r] \notin {"none", "upsert"} => who[r] \in known

IInv == TypeOK /\ HandlerOK /\ OneReconnectPerDisconnect

-----------------------------------------------------------------------------
LEMMA InitHolds == Init => IInv
BY PresenceAssumption DEF Init, IInv, TypeOK, At, HandlerOK, OneReconnectPerDisconnect

\* The types and the invariant of the handlers.
HandlerType == at \in [Request -> At] /\ who \in [Request -> AgentID \cup {NoAgent}]

\* The step of one handler leaves the others where they are.
LEMMA MoveKeeps ==
  ASSUME TypeOK, HandlerOK, NEW r \in Request,
         NEW place \in {"forget", "registered", "check", "reconnected"}, Go(r, place),
         who' = who, known \subseteq known', who[r] \in AgentID, who[r] \in known'
  PROVE  HandlerOK' /\ HandlerType'
<1>1. at' = [at EXCEPT ![r] = place] /\ place \in At
  BY DEF Go, At
<1>2. HandlerType'
  BY <1>1 DEF TypeOK, HandlerType
<1>3. \A q \in Request : q # r => at'[q] = at[q]
  BY <1>1 DEF TypeOK
<1>4. HandlerOK'
  BY <1>3 DEF HandlerOK
<1> QED BY <1>2, <1>4

LEMMA EndKeeps ==
  ASSUME TypeOK, HandlerOK, NEW r \in Request, Go(r, "none"),
         who' = [who EXCEPT ![r] = NoAgent], known' = known
  PROVE  HandlerOK' /\ HandlerType'
<1>1. at' = [at EXCEPT ![r] = "none"]
  BY DEF Go
<1>2. HandlerType'
  BY <1>1 DEF TypeOK, HandlerType, At
<1>3. at'[r] = "none" /\ \A q \in Request : q # r => at'[q] = at[q] /\ who'[q] = who[q]
  BY <1>1 DEF TypeOK
<1>4. HandlerOK'
  BY <1>3 DEF HandlerOK
<1> QED BY <1>2, <1>4

\* Where no mark is set and none is answered, none is answered twice.
LEMMA CountsKeep ==
  ASSUME OneReconnectPerDisconnect, TypeOK, stale' \subseteq stale,
         UNCHANGED answered
  PROVE  OneReconnectPerDisconnect'
<1> SUFFICES ASSUME NEW a \in AgentID
             PROVE  answered[a] + (IF a \in stale' THEN 1 ELSE 0) <= 1
  BY DEF OneReconnectPerDisconnect
<1>1. answered[a] \in Nat
  BY DEF TypeOK
<1>2. answered[a] + (IF a \in stale THEN 1 ELSE 0) <= 1
  BY DEF OneReconnectPerDisconnect
<1>3. CASE a \in stale
  BY <1>1, <1>2, <1>3
<1>4. CASE a \notin stale
  BY <1>2, <1>4
<1> QED BY <1>3, <1>4

-----------------------------------------------------------------------------
\* The agents and the time.
LEMMA ArrivalKeeps ==
  ASSUME IInv, NEW a \in AgentID, NEW r \in Request, Start(a, r) \/ Beat(a, r)
  PROVE  IInv'
<1>1. PICK place \in {"upsert", "touch"} :
        /\ Go(r, place) /\ who' = [who EXCEPT ![r] = a]
        /\ place = "touch" => a \in known
        /\ alive' \subseteq AgentID
  <2>1. CASE Start(a, r)
    BY <2>1 DEF Start, IInv, TypeOK
  <2>2. CASE Beat(a, r)
    BY <2>2 DEF Beat, agentVars, IInv, TypeOK
  <2> QED BY <2>1, <2>2
<1>2. UNCHANGED <<known, fresh, stale, loop, todo, last, answered, late>>
  BY DEF Start, Beat, rowVars, loopVars, historyVars
<1>3. at' = [at EXCEPT ![r] = place]
  BY <1>1 DEF Go
<1>4. TypeOK'
  BY <1>1, <1>2, <1>3 DEF IInv, TypeOK, At
<1>5. HandlerOK'
  BY <1>1, <1>2, <1>3 DEF IInv, TypeOK, HandlerOK
<1>6. OneReconnectPerDisconnect'
  BY <1>2, CountsKeep DEF IInv
<1> QED BY <1>4, <1>5, <1>6 DEF IInv

LEMMA AgentKeeps ==
  ASSUME IInv, NEW a \in AgentID, Die(a) \/ FallSilent(a)
  PROVE  IInv'
<1>1. UNCHANGED <<known, stale, at, who, loop, todo, last, answered, late>>
  BY DEF Die, FallSilent, rowVars, loopVars, historyVars, agentVars
<1>2. alive' \subseteq AgentID /\ fresh' \subseteq known
  BY DEF Die, FallSilent, rowVars, agentVars, IInv, TypeOK
<1> QED BY <1>1, <1>2, CountsKeep DEF IInv, TypeOK, HandlerOK

-----------------------------------------------------------------------------
\* An event is stored or lost.
LEMMA PublishedType ==
  ASSUME TypeOK, NEW a, NEW type \in {"register", "reconnect", "disconnect"}, Publish(a, type)
  PROVE  last' \in [AgentID -> {"none", "register", "reconnect", "disconnect", "lost"}]
BY DEF Publish, TypeOK

LEMMA HandleKeeps == ASSUME IInv, NEW r \in Request, Handle(r) \/ StoreError(r) PROVE IInv'
<1>1. CASE UpsertAgent(r)
  <2>1. /\ Go(r, "forget") /\ who[r] \in AgentID
        /\ known' = known \cup {who[r]} /\ fresh' = fresh \cup {who[r]}
        /\ UNCHANGED <<alive, stale, who, loop, todo, last, answered, late>>
    BY <1>1 DEF UpsertAgent, agentVars, loopVars, historyVars, IInv, HandlerOK
  <2>2. HandlerOK' /\ HandlerType'
    BY <2>1, MoveKeeps DEF IInv
  <2>3. TypeOK'
    BY <2>1, <2>2 DEF IInv, TypeOK, HandlerType
  <2>4. OneReconnectPerDisconnect'
    BY <2>1, CountsKeep DEF IInv
  <2> QED BY <2>2, <2>3, <2>4 DEF IInv
<1>2. CASE ForgetMark(r)
  <2>1. /\ Go(r, "registered") /\ stale' = stale \ {who[r]}
        /\ who[r] \in AgentID /\ who[r] \in known
        /\ UNCHANGED <<alive, known, fresh, who, loop, todo, last, answered, late>>
    BY <1>2 DEF ForgetMark, agentVars, rowVars, loopVars, historyVars, IInv, HandlerOK
  <2>2. HandlerOK' /\ HandlerType'
    BY <2>1, MoveKeeps DEF IInv
  <2>3. TypeOK'
    BY <2>1, <2>2 DEF IInv, TypeOK, HandlerType
  <2>4. OneReconnectPerDisconnect'
    BY <2>1, CountsKeep DEF IInv
  <2> QED BY <2>2, <2>3, <2>4 DEF IInv
<1>3. CASE PublishRegister(r) \/ PublishReconnect(r)
  <2>1. /\ Go(r, "none") /\ who' = [who EXCEPT ![r] = NoAgent]
        /\ UNCHANGED <<alive, known, fresh, stale, loop, todo, answered, late>>
    BY <1>3 DEF PublishRegister, PublishReconnect, End, agentVars, rowVars, loopVars, historyVars
  <2>2. last' \in [AgentID -> {"none", "register", "reconnect", "disconnect", "lost"}]
    BY <1>3, PublishedType DEF PublishRegister, PublishReconnect, IInv
  <2>3. HandlerOK' /\ HandlerType'
    BY <2>1, EndKeeps DEF IInv
  <2>4. TypeOK'
    BY <2>1, <2>2, <2>3 DEF IInv, TypeOK, HandlerType
  <2>5. OneReconnectPerDisconnect'
    BY <2>1, CountsKeep DEF IInv
  <2> QED BY <2>3, <2>4, <2>5 DEF IInv
<1>4. CASE TouchAgent(r)
  <2>1. /\ Go(r, "check") /\ fresh' = fresh \cup {who[r]}
        /\ who[r] \in AgentID /\ who[r] \in known
        /\ UNCHANGED <<alive, known, stale, who, loop, todo, last, answered, late>>
    BY <1>4 DEF TouchAgent, agentVars, loopVars, historyVars, IInv, HandlerOK
  <2>2. HandlerOK' /\ HandlerType'
    BY <2>1, MoveKeeps DEF IInv
  <2>3. TypeOK'
    BY <2>1, <2>2 DEF IInv, TypeOK, HandlerType
  <2>4. OneReconnectPerDisconnect'
    BY <2>1, CountsKeep DEF IInv
  <2> QED BY <2>2, <2>3, <2>4 DEF IInv
<1>5. CASE TakeMark(r)
  <2>1. /\ at[r] = "check" /\ who[r] \in AgentID /\ who[r] \in known
        /\ stale' = stale \ {who[r]}
        /\ UNCHANGED <<alive, known, fresh, loop, todo, last, late>>
    BY <1>5 DEF TakeMark, agentVars, rowVars, loopVars, historyVars, IInv, HandlerOK
  <2>2. CASE who[r] \in stale
    <3>1. Go(r, "reconnected") /\ answered' = [answered EXCEPT ![who[r]] = @ + 1]
            /\ who' = who
      BY <1>5, <2>2 DEF TakeMark
    <3>2. HandlerOK' /\ HandlerType'
      BY <2>1, <3>1, MoveKeeps DEF IInv
    <3>3. TypeOK'
      BY <2>1, <3>1, <3>2 DEF IInv, TypeOK, HandlerType
    <3>4. OneReconnectPerDisconnect'
      BY <2>1, <2>2, <3>1 DEF IInv, TypeOK, OneReconnectPerDisconnect
    <3> QED BY <3>2, <3>3, <3>4 DEF IInv
  <2>3. CASE who[r] \notin stale
    <3>1. Go(r, "none") /\ who' = [who EXCEPT ![r] = NoAgent] /\ answered' = answered
      BY <1>5, <2>3 DEF TakeMark, End
    <3>2. HandlerOK' /\ HandlerType'
      BY <2>1, <3>1, EndKeeps DEF IInv
    <3>3. TypeOK'
      BY <2>1, <3>1, <3>2 DEF IInv, TypeOK, HandlerType
    <3>4. OneReconnectPerDisconnect'
      BY <2>1, <3>1, CountsKeep DEF IInv
    <3> QED BY <3>2, <3>3, <3>4 DEF IInv
  <2> QED BY <2>2, <2>3
<1>6. CASE StoreError(r)
  <2>1. /\ Go(r, "none") /\ who' = [who EXCEPT ![r] = NoAgent]
        /\ UNCHANGED <<alive, known, fresh, stale, loop, todo, last, answered, late>>
    BY <1>6 DEF StoreError, End, agentVars, rowVars, loopVars, historyVars
  <2>2. HandlerOK' /\ HandlerType'
    BY <2>1, EndKeeps DEF IInv
  <2>3. TypeOK'
    BY <2>1, <2>2 DEF IInv, TypeOK, HandlerType
  <2>4. OneReconnectPerDisconnect'
    BY <2>1, CountsKeep DEF IInv
  <2> QED BY <2>2, <2>3, <2>4 DEF IInv
<1> QED BY <1>1, <1>2, <1>3, <1>4, <1>5, <1>6 DEF Handle

-----------------------------------------------------------------------------
\* A mark is set and counts as not answered, under the lock that takes it.
LEMMA MarkKeeps == ASSUME IInv, NEW a \in AgentID, Mark(a) PROVE IInv'
<1>1. /\ a \in todo /\ todo' = todo \ {a}
      /\ UNCHANGED <<alive, known, fresh, at, who, last>>
  BY DEF Mark, agentVars, rowVars, historyVars
<1>2. CASE a \in stale
  BY <1>1, <1>2, CountsKeep DEF Mark, historyVars, IInv, TypeOK, HandlerOK
<1>3. CASE a \notin stale
  <2>1. /\ stale' = stale \cup {a} /\ loop' = a
        /\ answered' = [answered EXCEPT ![a] = 0]
        /\ late' \subseteq late \cup {a}
    BY <1>3 DEF Mark
  <2>2. TypeOK' /\ HandlerOK'
    BY <1>1, <2>1 DEF IInv, TypeOK, HandlerOK
  <2>3. OneReconnectPerDisconnect'
    BY <1>1, <1>3, <2>1 DEF IInv, TypeOK, OneReconnectPerDisconnect
  <2> QED BY <2>2, <2>3 DEF IInv
<1> QED BY <1>2, <1>3

LEMMA LoopKeeps == ASSUME IInv, Scan \/ PublishDisconnect PROVE IInv'
<1>1. CASE Scan
  BY <1>1, CountsKeep DEF Scan, agentVars, rowVars, historyVars, IInv, TypeOK, HandlerOK
<1>2. CASE PublishDisconnect
  <2>1. /\ loop' = NoAgent
        /\ UNCHANGED <<alive, known, fresh, stale, at, who, todo, answered, late>>
    BY <1>2 DEF PublishDisconnect, agentVars, rowVars, historyVars
  <2>2. last' \in [AgentID -> {"none", "register", "reconnect", "disconnect", "lost"}]
    BY <1>2, PublishedType DEF PublishDisconnect, IInv
  <2> QED BY <2>1, <2>2, CountsKeep DEF IInv, TypeOK, HandlerOK
<1> QED BY <1>1, <1>2

LEMMA RestartKeeps == ASSUME IInv, HubRestart PROVE IInv'
BY CountsKeep DEF HubRestart, agentVars, rowVars, historyVars, IInv, TypeOK, HandlerOK, At

LEMMA StepKeeps == IInv /\ [Next]_vars => IInv'
<1> SUFFICES ASSUME IInv, [Next]_vars PROVE IInv'
  OBVIOUS
<1>1. CASE UNCHANGED vars
  BY <1>1, CountsKeep DEF vars, IInv, TypeOK, HandlerOK
<1> QED BY <1>1, ArrivalKeeps, AgentKeeps, HandleKeeps, MarkKeeps, LoopKeeps, RestartKeeps
        DEF Next, StaleLoop

-----------------------------------------------------------------------------
\* The variables keep their types; the marks and the rows the loop has read are
\* of agents that have a row.
THEOREM TypeCorrect == Spec => []TypeOK
<1>1. IInv => TypeOK
  BY DEF IInv
<1> QED BY <1>1, InitHolds, StepKeeps, PTL DEF Spec

\* However many heartbeats of an agent run at once, and however they meet the
\* loop and restarts of the hub, a mark that was set is answered with at most
\* one reconnect, by the heartbeat that took it (server.go: handleHeartbeat
\* takes the mark under staleMu).
THEOREM ReconnectsAreAnswers == Spec => []OneReconnectPerDisconnect
<1>1. IInv => OneReconnectPerDisconnect
  BY DEF IInv
<1> QED BY <1>1, InitHolds, StepKeeps, PTL DEF Spec

=============================================================================
