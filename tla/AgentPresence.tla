--------------------------- MODULE AgentPresence ---------------------------
(***************************************************************************)
(* Who the hub believes is connected: handleRegister, handleHeartbeat and  *)
(* staleLoop of internal/hub/server.go over the agents table and the map   *)
(* staleAgents.                                                            *)
(*                                                                         *)
(* A heartbeat touches the row and then, in a step of its own under        *)
(* staleMu, takes the agent's mark; the loop reads the stale rows and      *)
(* then, agent by agent under staleMu, sets the mark.  The publication     *)
(* that either leads to comes after the lock is released, so heartbeats,   *)
(* registrations and the loop interleave between any two of these steps.   *)
(*                                                                         *)
(* Time is reduced to what the code asks of it: is last_seen older than    *)
(* StaleAfter?                                                             *)
(***************************************************************************)
EXTENDS Naturals, FiniteSets

CONSTANTS
  AgentID,      \* the agents
  Request,      \* the register and heartbeat requests served at one time
  StoreFaults,  \* may a query or a write fail?
  NoAgent

ASSUME PresenceAssumption ==
  /\ NoAgent \notin AgentID
  /\ StoreFaults \in BOOLEAN

VARIABLES
  alive,        \* the agents that are running, each registered since it started
  known,        \* the agents with a row
  fresh,        \* those whose last_seen is not older than StaleAfter
  stale,        \* staleAgents
  at,           \* where the handler of each request is
  who,          \* its agent
  loop,         \* where staleLoop is, and the agent it is about to announce
  todo,         \* the rows it has read and not looked at yet
  last,         \* the last presence event of each agent, or that it was lost
  \* History, read by the properties only:
  answered,     \* the heartbeats that took each agent's mark since it was set
  late          \* the agents whose mark was set while an earlier register or
                \* reconnect of theirs was still to be published

vars == <<alive, known, fresh, stale, at, who, loop, todo, last, answered, late>>

At == {"none",
       "upsert", "forget", "registered",  \* handleRegister
       "touch", "check", "reconnected"}   \* handleHeartbeat

InFlight(a) == {r \in Request : at[r] # "none" /\ who[r] = a}

Init ==
  /\ alive = {} /\ known = {} /\ fresh = {} /\ stale = {}
  /\ at = [r \in Request |-> "none"]
  /\ who = [r \in Request |-> NoAgent]
  /\ loop = NoAgent
  /\ todo = {}
  /\ last = [a \in AgentID |-> "none"]
  /\ answered = [a \in AgentID |-> 0]
  /\ late = {}

agentVars == <<alive>>
rowVars == <<known, fresh>>
loopVars == <<loop, todo>>
historyVars == <<answered, late>>

\* bus.Publish calls onEvent, which stores the event or logs that it cannot.
Publish(a, type) ==
  \/ last' = [last EXCEPT ![a] = type]
  \/ StoreFaults /\ last' = [last EXCEPT ![a] = "lost"]

Go(r, place) == at' = [at EXCEPT ![r] = place]

End(r) ==
  /\ Go(r, "none")
  /\ who' = [who EXCEPT ![r] = NoAgent]
-----------------------------------------------------------------------------
(* The agents and the time *)

\* An agent starts and registers; it goes on only if that succeeds.
Start(a, r) ==
  /\ a \notin alive /\ at[r] = "none"
  /\ alive' = alive \cup {a}
  /\ Go(r, "upsert")
  /\ who' = [who EXCEPT ![r] = a]
  /\ UNCHANGED <<rowVars, stale, loopVars, last, historyVars>>

\* A running agent's ticker, or a retry of a heartbeat it gave up on.
Beat(a, r) ==
  /\ a \in alive \cap known /\ at[r] = "none"
  /\ Go(r, "touch")
  /\ who' = [who EXCEPT ![r] = a]
  /\ UNCHANGED <<agentVars, rowVars, stale, loopVars, last, historyVars>>

Die(a) ==
  /\ a \in alive
  /\ alive' = alive \ {a}
  /\ UNCHANGED <<rowVars, stale, at, who, loopVars, last, historyVars>>

\* StaleAfter passes since the row was last touched.  It is far longer than
\* a handler, so none that has touched the row is still at work.
FallSilent(a) ==
  /\ a \in fresh
  /\ \A r \in InFlight(a) : at[r] \in {"upsert", "touch"}
  /\ fresh' = fresh \ {a}
  /\ UNCHANGED <<agentVars, known, stale, at, who, loopVars, last, historyVars>>
-----------------------------------------------------------------------------
(* handleRegister *)

\* Faulty: an UPDATE where the row may be missing.
UpdateAgent(r) ==
  /\ at[r] = "upsert"
  /\ fresh' = fresh \cup {who[r]}
  /\ Go(r, "forget")
  /\ UNCHANGED <<agentVars, known, stale, who, loopVars, last, historyVars>>

UpsertAgent(r) ==
  /\ at[r] = "upsert"
  /\ known' = known \cup {who[r]}
  /\ fresh' = fresh \cup {who[r]}
  /\ Go(r, "forget")
  /\ UNCHANGED <<agentVars, stale, who, loopVars, last, historyVars>>

\* Faulty: the mark is left alone, and the register stored over it.
KeepMark(r) ==
  /\ at[r] = "forget"
  /\ Go(r, "registered")
  /\ UNCHANGED <<agentVars, rowVars, stale, who, loopVars, last, historyVars>>

ForgetMark(r) ==
  /\ at[r] = "forget"
  /\ stale' = stale \ {who[r]}
  /\ Go(r, "registered")
  /\ UNCHANGED <<agentVars, rowVars, who, loopVars, last, historyVars>>

PublishRegister(r) ==
  /\ at[r] = "registered"
  /\ Publish(who[r], "register")
  /\ End(r)
  /\ UNCHANGED <<agentVars, rowVars, stale, loopVars, historyVars>>
-----------------------------------------------------------------------------
(* handleHeartbeat *)

TouchAgent(r) ==
  /\ at[r] = "touch"
  /\ fresh' = fresh \cup {who[r]}
  /\ Go(r, "check")
  /\ UNCHANGED <<agentVars, known, stale, who, loopVars, last, historyVars>>

\* Faulty: the mark is read but not taken.
ReadMark(r) ==
  /\ at[r] = "check"
  /\ IF who[r] \in stale
     THEN /\ Go(r, "reconnected")
          /\ answered' = [answered EXCEPT ![who[r]] = @ + 1]
          /\ UNCHANGED who
     ELSE End(r) /\ UNCHANGED answered
  /\ UNCHANGED <<agentVars, rowVars, stale, loopVars, last, late>>

\* Faulty: the mark is not looked at.
SkipMark(r) ==
  /\ at[r] = "check"
  /\ End(r)
  /\ UNCHANGED <<agentVars, rowVars, stale, loopVars, last, historyVars>>

\* Under staleMu: the mark is read and taken in one step.
TakeMark(r) ==
  /\ at[r] = "check"
  /\ stale' = stale \ {who[r]}
  /\ IF who[r] \in stale
     THEN /\ Go(r, "reconnected")
          /\ answered' = [answered EXCEPT ![who[r]] = @ + 1]
          /\ UNCHANGED who
     ELSE End(r) /\ UNCHANGED answered
  /\ UNCHANGED <<agentVars, rowVars, loopVars, last, late>>

PublishReconnect(r) ==
  /\ at[r] = "reconnected"
  /\ Publish(who[r], "reconnect")
  /\ End(r)
  /\ UNCHANGED <<agentVars, rowVars, stale, loopVars, historyVars>>

\* The write of either handler fails, and the request with it.
StoreError(r) ==
  /\ StoreFaults
  /\ at[r] \in {"upsert", "touch"}
  /\ End(r)
  /\ UNCHANGED <<agentVars, rowVars, stale, loopVars, last, historyVars>>
-----------------------------------------------------------------------------
(* staleLoop *)

\* A tick of the loop reads the rows older than the cutoff.
Scan ==
  /\ loop = NoAgent /\ todo = {}
  /\ todo' = known \ fresh
  /\ UNCHANGED <<agentVars, rowVars, stale, at, who, loop, last, historyVars>>

\* Under staleMu: an agent that is marked is skipped, another is marked.
Mark(a) ==
  /\ loop = NoAgent /\ a \in todo
  /\ todo' = todo \ {a}
  /\ IF a \in stale
     THEN UNCHANGED <<stale, loop, historyVars>>
     ELSE /\ stale' = stale \cup {a}
          /\ loop' = a
          /\ answered' = [answered EXCEPT ![a] = 0]
          /\ late' = IF \E r \in InFlight(a) : at[r] \in {"registered", "reconnected"}
                     THEN late \cup {a} ELSE late \ {a}
  /\ UNCHANGED <<agentVars, rowVars, at, who, last>>

PublishDisconnect ==
  /\ loop # NoAgent
  /\ Publish(loop, "disconnect")
  /\ loop' = NoAgent
  /\ UNCHANGED <<agentVars, rowVars, stale, at, who, todo, historyVars>>
-----------------------------------------------------------------------------
\* The hub restarts: the marks are gone with everything else in memory.
HubRestart ==
  /\ stale' = {}
  /\ at' = [r \in Request |-> "none"]
  /\ who' = [r \in Request |-> NoAgent]
  /\ loop' = NoAgent /\ todo' = {}
  /\ UNCHANGED <<agentVars, rowVars, last, historyVars>>

Handle(r) ==
  \/ UpsertAgent(r) \/ ForgetMark(r) \/ PublishRegister(r)
  \/ TouchAgent(r) \/ TakeMark(r) \/ PublishReconnect(r)

StaleLoop == Scan \/ PublishDisconnect \/ \E a \in AgentID : Mark(a)

Next ==
  \/ \E a \in AgentID :
       Die(a) \/ FallSilent(a) \/ \E r \in Request : Start(a, r) \/ Beat(a, r)
  \/ \E r \in Request : Handle(r) \/ StoreError(r)
  \/ StaleLoop \/ HubRestart

Spec == Init /\ [][Next]_vars

(***************************************************************************)
(* Fairness.  Handlers and the loop run, time passes for an agent that     *)
(* sends nothing, a running agent's ticker keeps ticking, and not every    *)
(* touch of its row fails.                                                 *)
(***************************************************************************)
Fairness ==
  /\ WF_vars(StaleLoop)
  /\ \A a \in AgentID :
       /\ WF_vars(a \notin alive /\ FallSilent(a))
       /\ SF_vars(\E r \in Request : Beat(a, r))
       /\ SF_vars(\E r \in Request : who[r] = a /\ TouchAgent(r))
  /\ \A r \in Request : WF_vars(Handle(r))

FairSpec == Spec /\ Fairness
-----------------------------------------------------------------------------
(* Properties *)

\* The values the variables take.
TypeOK ==
  /\ alive \subseteq AgentID /\ known \subseteq AgentID
  /\ fresh \subseteq known /\ stale \subseteq known /\ todo \subseteq known
  /\ at \in [Request -> At]
  /\ who \in [Request -> AgentID \cup {NoAgent}]
  /\ loop \in known \cup {NoAgent}
  /\ last \in [AgentID -> {"none", "register", "reconnect", "disconnect", "lost"}]
  /\ answered \in [AgentID -> Nat] /\ late \subseteq AgentID

\* However many heartbeats of an agent run at once, at most one of them
\* answers the loop's mark with a reconnect, and it has taken the mark.
OneReconnectPerDisconnect ==
  \A a \in AgentID : answered[a] + (IF a \in stale THEN 1 ELSE 0) <= 1

\* From some time on, the hub is not restarted any more.
HubStays == <>[][~HubRestart]_vars

\* An agent that is gone for good ends up marked and its disconnect is the
\* last thing stored of it, even if the hub was restarted or requests of the
\* agent were still being handled when it died.  There are two exceptions.
\* An event the store did not take is lost and not published again.  And the
\* mark the agent is left with may have been set while an earlier register or
\* reconnect of it was still to be published (the handlers publish after they
\* release staleMu, and the loop marks on rows it had read before).
DeadIsAnnounced ==
  HubStays =>
    \A a \in AgentID :
      <>[](a \in known \ alive)
        => <>[](/\ a \in stale /\ loop # a
                /\ last[a] \in {"disconnect", "lost"} \/ a \in late)

\* docs/flows/agent-connection.md on the disconnect that is detected: the
\* last_seen of an agent that is gone is older than StaleAfter, and the hub
\* publishes agent.disconnect, which is then the last word about it.  In the
\* code a reconnect published late stands after it, and the loop skips the
\* agent as one it has marked.
SilenceIsAnnounced ==
  HubStays =>
    \A a \in AgentID : <>[](a \in known \ alive) => <>[](last[a] = "disconnect")

\* An agent that keeps running does not stay marked: a disconnect announced
\* by mistake is taken back by a later heartbeat.
LiveIsCleared ==
  HubStays => \A a \in AgentID : a \in stale ~> (a \notin stale \/ a \notin alive)
=============================================================================
