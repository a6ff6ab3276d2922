--------------------------- MODULE TopologyProofs ---------------------------
(***************************************************************************)
(* The generations of the Topology page, proved for any set of ranges, any *)
(* answers of the hub and any number of acts of the user: answers to an    *)
(* earlier generation may arrive at any time and in any order.             *)
(***************************************************************************)
EXTENDS TopologyPage, TLAPS

\* The fields of the component's state.
Shape == /\ view = [generation |-> view.generation, loading |-> view.loading,
                    error |-> view.error, graph |-> view.graph, signals |-> view.signals]
         /\ view.generation \in Nat
         /\ view.signals = [k \in Signals |-> view.signals[k]]

\* No request is of a generation to come, and those of the current one ask for
\* the range of the address.
PendingOK == \A p \in pending :
                /\ p.run \in Nat /\ p.run <= view.generation
                /\ Current(p) => p.since = Since(search)

\* A page that loads waits for the graph of its own generation.
GraphAwaited == view.loading => Waiting("graph")

IInv == Shape /\ PendingOK /\ GraphAnnounced /\ SignalsOfTheRange /\ GraphAwaited

-----------------------------------------------------------------------------
\* A load asks for everything, in a generation of its own (topology.tsx:54).
LEMMA LoadAsks ==
    ASSUME NEW s, NEW run, NEW k \in Kinds
    PROVE  \E p \in LoadRequests(s, run) : p.to = k /\ p.run = run /\ p.since = Since(s)
<1>1. [to |-> k, run |-> run, since |-> Since(s)] \in LoadRequests(s, run)
  BY DEF LoadRequests
<1> QED BY <1>1

LEMMA LoadOnly ==
    ASSUME NEW s, NEW run, NEW p \in LoadRequests(s, run)
    PROVE  p.run = run /\ p.since = Since(s)
BY DEF LoadRequests

\* The first load, and every later one, establishes the invariant: everything
\* older is of another generation, and what is on screen waits for its answer.
LEMMA MountHolds ==
    ASSUME view = MountView(search), pending = MountRequests(search)
    PROVE  IInv
<1>1. Shape
  BY DEF MountView, Shape
<1>2. view.generation = 1 /\ view.loading = TRUE
  BY DEF MountView
<1>3. PendingOK
  BY <1>2, LoadOnly DEF MountRequests, PendingOK
<1>4. \A k \in Kinds : Waiting(k)
  BY <1>2, LoadAsks DEF MountRequests, Waiting, Current
<1> QED BY <1>1, <1>2, <1>3, <1>4 DEF IInv, GraphAnnounced, SignalsOfTheRange, GraphAwaited, Kinds

LEMMA InitHolds == Init => IInv
BY MountHolds DEF Init

LEMMA LoadKeeps ==
    ASSUME IInv, NEW s, Load(s), search' = s
    PROVE  IInv'
<1>1. /\ view' = [generation |-> view.generation + 1, loading |-> TRUE, error |-> FALSE,
                  graph |-> view.graph, signals |-> view.signals]
      /\ pending' = pending \cup LoadRequests(s, view.generation + 1)
  BY DEF IInv, Shape, Load
<1>2. Shape'
  BY <1>1 DEF IInv, Shape
<1>3. PendingOK'
  <2> SUFFICES ASSUME NEW p \in pending'
               PROVE  /\ p.run \in Nat /\ p.run <= view'.generation
                      /\ p.run = view'.generation => p.since = Since(s)
    BY DEF PendingOK, Current
  <2>1. CASE p \in pending
    BY <2>1, <1>1 DEF IInv, Shape, PendingOK
  <2>2. CASE p \in LoadRequests(s, view.generation + 1)
    BY <2>2, <1>1, LoadOnly DEF IInv, Shape
  <2> QED BY <2>1, <2>2, <1>1
<1>4. \A k \in Kinds : Waiting(k)'
  <2> SUFFICES ASSUME NEW k \in Kinds
               PROVE  \E p \in pending' : p.to = k /\ p.run = view'.generation
    BY DEF Waiting, Current
  <2> QED BY <1>1, LoadAsks
<1> QED BY <1>1, <1>2, <1>3, <1>4 DEF IInv, GraphAnnounced, SignalsOfTheRange, GraphAwaited, Kinds

\* What leaves the range, the state and the requests alone keeps the invariant.
LEMMA SameRange ==
    ASSUME IInv, Since(search') = Since(search), UNCHANGED <<view, pending>>
    PROVE  IInv'
BY DEF IInv, Shape, PendingOK, GraphAnnounced, SignalsOfTheRange, GraphAwaited, Waiting, Current

LEMMA FollowKeeps == ASSUME IInv, NEW s, Follow(s) PROVE IInv'
<1>1. CASE Since(s) # Since(search)
  BY <1>1, LoadKeeps DEF Follow
<1>2. CASE Since(s) = Since(search)
  BY <1>2, SameRange DEF Follow
<1> QED BY <1>1, <1>2

LEMMA UserKeeps == ASSUME IInv, User PROVE IInv'
<1>1. CASE ChooseSince
  BY <1>1, FollowKeeps DEF ChooseSince
<1>2. CASE TypeQuery
  BY <1>2, FollowKeeps DEF TypeQuery
<1>3. CASE ToggleAddresses
  BY <1>3, FollowKeeps DEF ToggleAddresses
<1>4. CASE Select
  BY <1>4, FollowKeeps DEF Select
<1>5. CASE Retry
  BY <1>5, LoadKeeps DEF Retry
<1>6. CASE FollowLink
  BY <1>6, FollowKeeps DEF FollowLink
<1> QED BY <1>1, <1>2, <1>3, <1>4, <1>5, <1>6 DEF User

-----------------------------------------------------------------------------
\* An answer to an earlier generation changes nothing but the requests left.
LEMMA StaleKeeps ==
    ASSUME IInv, NEW p \in pending, ~ Current(p), pending' = pending \ {p},
           view' = view, search' = search
    PROVE  IInv'
<1>1. Shape' /\ GraphAnnounced'
  BY DEF IInv, Shape, GraphAnnounced
<1>2. PendingOK'
  BY DEF IInv, PendingOK, Current
<1>3. \A k : Waiting(k) => Waiting(k)'
  BY DEF Waiting, Current
<1>4. SignalsOfTheRange' /\ GraphAwaited'
  BY <1>3 DEF IInv, SignalsOfTheRange, GraphAwaited
<1> QED BY <1>1, <1>2, <1>4 DEF IInv

\* An answer of the current generation ends the waiting of its own kind only.
LEMMA OthersWait ==
    ASSUME NEW p \in pending, pending' = pending \ {p},
           view'.generation = view.generation, NEW k, k # p.to, Waiting(k)
    PROVE  Waiting(k)'
BY DEF Waiting, Current

LEMMA FewerPending ==
    ASSUME IInv, NEW p \in pending, pending' = pending \ {p}, search' = search,
           view'.generation = view.generation
    PROVE  PendingOK'
BY DEF IInv, PendingOK, Current

LEMMA AnswerKeeps == ASSUME IInv, Answer PROVE IInv'
<1>1. PICK p \in pending :
        /\ pending' = pending \ {p}
        /\ \/ \E g \in Graphs : GraphAnswer(p, g)
           \/ GraphFailure(p)
           \/ p.to \in Signals /\ \E rows \in Answers(p.to) \cup {{}} : SignalAnswer(p, rows)
  BY DEF Answer
<1>2. search' = search
  BY DEF Answer
<1>3. CASE ~ Current(p)
  BY <1>1, <1>2, <1>3, StaleKeeps DEF GraphAnswer, GraphFailure, SignalAnswer
<1>4. CASE Current(p) /\ \E g \in Graphs : GraphAnswer(p, g)
  <2>1. PICK g \in Graphs : GraphAnswer(p, g)
    BY <1>4
  <2>2. /\ p.to = "graph"
        /\ view' = [generation |-> view.generation, loading |-> FALSE, error |-> view.error,
                    graph |-> [run |-> p.run, since |-> p.since, nodes |-> g.nodes,
                               edges |-> g.edges],
                    signals |-> view.signals]
    BY <1>4, <2>1 DEF GraphAnswer, IInv, Shape
  <2>3. Shape'
    BY <2>2 DEF IInv, Shape
  <2>4. GraphAnnounced' /\ GraphAwaited'
    BY <1>2, <1>4, <2>2 DEF IInv, PendingOK, GraphAnnounced, GraphAwaited
  <2>5. SignalsOfTheRange'
    BY <1>1, <1>2, <2>2, OthersWait DEF IInv, SignalsOfTheRange, Signals
  <2> QED BY <1>1, <1>2, <2>2, <2>3, <2>4, <2>5, FewerPending DEF IInv
<1>5. CASE Current(p) /\ GraphFailure(p)
  <2>2. /\ p.to = "graph"
        /\ view' = [generation |-> view.generation, loading |-> FALSE, error |-> TRUE,
                    graph |-> view.graph, signals |-> view.signals]
    BY <1>5 DEF GraphFailure, IInv, Shape
  <2>3. Shape' /\ GraphAnnounced' /\ GraphAwaited'
    BY <2>2 DEF IInv, Shape, GraphAnnounced, GraphAwaited
  <2>5. SignalsOfTheRange'
    BY <1>1, <1>2, <2>2, OthersWait DEF IInv, SignalsOfTheRange, Signals
  <2> QED BY <1>1, <1>2, <2>2, <2>3, <2>5, FewerPending DEF IInv
<1>6. CASE Current(p) /\ p.to \in Signals
                      /\ \E rows \in Answers(p.to) \cup {{}} : SignalAnswer(p, rows)
  <2>1. PICK rows : SignalAnswer(p, rows)
    BY <1>6
  <2> DEFINE new == [run |-> p.run, since |-> p.since, rows |-> rows]
  <2>2. view' = [generation |-> view.generation, loading |-> view.loading, error |-> view.error,
                 graph |-> view.graph, signals |-> [view.signals EXCEPT ![p.to] = new]]
    BY <1>6, <2>1 DEF SignalAnswer, IInv, Shape
  <2>3. Shape' /\ GraphAnnounced'
    BY <1>2, <1>6, <2>2 DEF IInv, Shape, GraphAnnounced
  <2>4. view'.signals[p.to].since = Since(search)
    BY <1>6, <2>2 DEF IInv, Shape, PendingOK
  <2>5. \A k \in Signals : k # p.to => view'.signals[k] = view.signals[k]
    BY <1>6, <2>2 DEF IInv, Shape
  <2>6. \A k \in Signals : k # p.to /\ ~ Waiting(k)' => ~ Waiting(k)
    BY <1>1, <2>2, OthersWait
  <2>7. SignalsOfTheRange'
    BY <1>2, <2>4, <2>5, <2>6 DEF IInv, SignalsOfTheRange
  <2>8. GraphAwaited'
    <3>1. p.to # "graph" /\ view'.generation = view.generation
      BY <1>6, <2>2 DEF Signals
    <3>2. Waiting("graph") => Waiting("graph")'
      BY <1>1, <3>1, OthersWait
    <3> QED BY <2>2, <3>2 DEF IInv, GraphAwaited
  <2> QED BY <1>1, <1>2, <2>2, <2>3, <2>7, <2>8, FewerPending DEF IInv
<1> QED BY <1>1, <1>3, <1>4, <1>5, <1>6

LEMMA StepKeeps == IInv /\ [Next]_vars => IInv'
<1> SUFFICES ASSUME IInv, [Next]_vars PROVE IInv'
  OBVIOUS
<1>1. CASE User
  BY <1>1, UserKeeps
<1>2. CASE Answer
  BY <1>2, AnswerKeeps
<1>3. CASE UNCHANGED vars
  BY <1>3, SameRange DEF vars
<1> QED BY <1>1, <1>2, <1>3 DEF Next

-----------------------------------------------------------------------------
\* A graph of another range than the address's stands under the announcement
\* that the page loads or that its load failed, however late the answers to
\* earlier loads arrive (topology.tsx:55-69).
THEOREM GraphIsAnnounced == Spec => []GraphAnnounced
<1>1. IInv => GraphAnnounced
  BY DEF IInv
<1> QED BY <1>1, InitHolds, StepKeeps, PTL DEF Spec

\* The four signals are those of the address's range once their requests have
\* ended: an answer to an earlier load never replaces one of the current load,
\* and every load asks for all of them (topology.tsx:70-78).
THEOREM SignalsAreOfTheRange == Spec => []SignalsOfTheRange
<1>1. IInv => SignalsOfTheRange
  BY DEF IInv
<1> QED BY <1>1, InitHolds, StepKeeps, PTL DEF Spec

=============================================================================
