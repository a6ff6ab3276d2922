---------------------------- MODULE TopologyPage ----------------------------
(***************************************************************************)
(* The Topology page: the graph of services and four lists of signals, one *)
(* load of five requests that are answered apart. Each load is a           *)
(* generation; an answer counts only for the generation that is current.   *)
(* Nothing is loaded on a timer, nothing is cancelled.                     *)
(***************************************************************************)
EXTENDS QueryState, ContainerState

CONSTANTS Ranges, Texts,
          ByLabel,          \* bound: the nodes of all graphs, in the order of their labels
          Addresses,        \* the nodes named by an address instead of a service
          RunsIn,           \* the containers that belong to each node
          Matching,         \* the nodes each text of the search finds
          Graphs, Fleets, Workloads, HTTP, Alerts,   \* bound: what the hub may answer
          TopologyLinks,    \* addresses that links of the panel lead to
          MaxActs           \* bound: acts of the user

VARIABLES search,           \* the query string
          view,             \* the state of the component
          pending,          \* the requests in flight, a set
          acts              \* acts of the user so far

vars == <<search, view, pending, acts>>

-----------------------------------------------------------------------------
Since(s)    == Read(s, "since", "24h")
Focus(s)    == Read(s, "focus", "")
Query(s)    == Read(s, "q", "")
ShowsAddresses(s) == Read(s, "addresses", "") # ""

Signals == {"fleet", "workloads", "http", "alerts"}
Kinds   == {"graph"} \cup Signals

\* The requests of one load, which is the generation run.
LoadRequests(s, run) == {[to |-> k, run |-> run, since |-> Since(s)] : k \in Kinds}

\* A signal on screen, and the load it came with: 0 is none.
NoGraph  == [run |-> 0, since |-> "", nodes |-> {}, edges |-> {}]
NoSignal == [run |-> 0, since |-> "", rows |-> {}]

MountView(s) == [generation |-> 1, loading |-> TRUE, error |-> FALSE,
                 graph |-> NoGraph, signals |-> [k \in Signals |-> NoSignal]]

MountRequests(s) == LoadRequests(s, 1)

Init == /\ search \in TopologyLinks
        /\ view = MountView(search)
        /\ pending = MountRequests(search)
        /\ acts = 0

Load(s) ==
    /\ view' = [view EXCEPT !.generation = @ + 1, !.loading = TRUE, !.error = FALSE]
    /\ pending' = pending \cup LoadRequests(s, view.generation + 1)

Act == acts < MaxActs /\ acts' = acts + 1

\* The address becomes s; another range is another load.
Follow(s) == /\ s # search
             /\ Act
             /\ search' = s
             /\ IF Since(s) # Since(search) THEN Load(s) ELSE UNCHANGED <<view, pending>>

-----------------------------------------------------------------------------
\* What the page makes of the signals. A smaller rank is worse.
Rank == [critical |-> 0, warning |-> 1, unknown |-> 2, healthy |-> 3]

\* Faulty: the order of the ranks reversed.
Better(a, b) == IF Rank[a] >= Rank[b] THEN a ELSE b

Worse(a, b) == IF Rank[a] <= Rank[b] THEN a ELSE b
WorstOf(statuses) == CHOOSE x \in statuses : \A y \in statuses : Worse(x, y) = x

fleetStatus(st) ==
    IF st.state = "dead" \/ st.disposition \in {"oom", "unexpected"} \/ st.oom THEN "critical"
    ELSE IF isUnstable(st) THEN "warning"
    ELSE IF st.state = "running" THEN "healthy"
    ELSE "unknown"

alertStatus(a) == IF a.severity \in {"critical", "warning"} THEN a.severity ELSE "unknown"

Rows(v, k) == v.signals[k].rows

Of(v, k, id) == {r \in Rows(v, k) : r.container \in RunsIn[id]}

HTTPOf(v, id) == {r \in Rows(v, "http") : r.service = id}

\* The fold starts from unknown, which is worse than healthy.
Status(v, id) ==
    LET failing == \E r \in HTTPOf(v, id) : r.errors > 0
        worst == WorstOf({"unknown"}
                         \cup {fleetStatus(r) : r \in Of(v, "fleet", id)}
                         \cup {alertStatus(r) : r \in Of(v, "alerts", id)}
                         \cup {x \in {"warning"} : failing})
        answering == \E r \in HTTPOf(v, id) : r.requests > 0 /\ r.errors = 0
    IN IF worst = "unknown" /\ answering THEN "healthy" ELSE worst

\* Every end of an edge is a node.
ServicesOf(v) == v.graph.nodes \cup {e.source : e \in v.graph.edges}
                             \cup {e.target : e \in v.graph.edges}

Upstream(v, id)   == {e \in v.graph.edges : e.target = id}
Downstream(v, id) == {e \in v.graph.edges : e.source = id}
Degree(v, id) == Cardinality(Upstream(v, id)) + Cardinality(Downstream(v, id))

Before(v, a, b) ==
    LET place(id) == CHOOSE i \in DOMAIN ByLabel : ByLabel[i] = id
        byStatus  == Rank[Status(v, a)] - Rank[Status(v, b)]
        byDegree  == Degree(v, b) - Degree(v, a)
    IN \/ byStatus < 0
       \/ byStatus = 0 /\ (byDegree < 0 \/ (byDegree = 0 /\ place(a) <= place(b)))

Named(v) == ServicesOf(v) \ Addresses

\* The first in the order of the page; none of no services.
First(v, ids) == IF ids = {} THEN None ELSE CHOOSE x \in ids : \A y \in ids : Before(v, x, y)

\* Faulty: the first of the list, whatever the address asks for.
pickFirst(v, ids, focus) == First(v, ids)

pickService(v, ids, focus) == IF focus \in ids THEN focus ELSE First(v, ids)

FocusMissing(v, s) == Focus(s) # "" /\ ServicesOf(v) # {} /\ Focus(s) \notin ServicesOf(v)

\* A focus that is gone gives way to the worst service with a name.
Selected(v, s) ==
    LET chosen == IF FocusMissing(v, s) THEN pickService(v, Named(v), "")
                  ELSE pickService(v, ServicesOf(v), Focus(s))
    IN IF chosen # None THEN chosen ELSE pickService(v, ServicesOf(v), "")

Listed(v, s)  == IF ShowsAddresses(s) THEN ServicesOf(v) ELSE Named(v)
Visible(v, s) == IF Query(s) = "" THEN Listed(v, s) ELSE Listed(v, s) \cap Matching[Query(s)]

Screen(v) == IF ServicesOf(v) # {} THEN "services"
             ELSE IF v.loading THEN "skeleton"
             ELSE IF v.error THEN "error"
             ELSE "empty"

\* Where the detail of the service selected leads.
Links(v, s) ==
    LET x == Selected(v, s) IN
    IF ServicesOf(v) = {} THEN {}
    ELSE {To("traces", [service |-> x, since |-> Since(s)])}
           \cup {To(page, [container |-> x, since |-> Since(s)]) : page \in {"logs", "metrics"}}

-----------------------------------------------------------------------------
Shows == Screen(view) = "services"

ChooseSince == \E r \in Ranges : Follow(SetState(search, "since", "24h", r))

TypeQuery == \E x \in Texts \cup {""} : Shows /\ Follow(SetState(search, "q", "", x))

ToggleAddresses ==
    /\ Shows /\ ServicesOf(view) \cap Addresses # {}
    /\ Follow(SetState(search, "addresses", "", IF ShowsAddresses(search) THEN "" ELSE "1"))

\* A service of the list, or one on the path of the service selected.
Select ==
    LET x == Selected(view, search)
        path == {e.source : e \in Upstream(view, x)} \cup {e.target : e \in Downstream(view, x)}
    IN /\ Shows
       /\ \E id \in Visible(view, search) \cup path : Follow(SetState(search, "focus", "", id))

Retry == view.error /\ Act /\ Load(search) /\ UNCHANGED search

FollowLink == \E s \in TopologyLinks : Follow(s)

-----------------------------------------------------------------------------
\* Faulty: loads are not told apart.
AnyLoad(p) == TRUE

Current(p) == p.run = view.generation

GraphAnswer(p, g) ==
    /\ p.to = "graph"
    /\ view' = IF ~ Current(p) THEN view
               ELSE [view EXCEPT !.graph = [run |-> p.run, since |-> p.since,
                                            nodes |-> g.nodes, edges |-> g.edges],
                                 !.loading = FALSE]

\* A failure keeps the graph before it.
GraphFailure(p) ==
    /\ p.to = "graph"
    /\ view' = IF ~ Current(p) THEN view
               ELSE [view EXCEPT !.error = TRUE, !.loading = FALSE]

\* Faulty: a signal counts whatever load it came with.
SignalOfAnyLoad(p, rows) ==
    /\ p.to \in Signals
    /\ view' = [view EXCEPT !.signals[p.to] = [run |-> p.run, since |-> p.since, rows |-> rows]]

\* Signals that could not be loaded are no signals.
SignalAnswer(p, rows) ==
    /\ p.to \in Signals
    /\ view' = IF ~ Current(p) THEN view
               ELSE [view EXCEPT !.signals[p.to] =
                        [run |-> p.run, since |-> p.since, rows |-> rows]]

Answers(k) == CASE k = "fleet" -> Fleets [] k = "workloads" -> Workloads
                [] k = "http" -> HTTP [] k = "alerts" -> Alerts

Answer == \E p \in pending :
    /\ pending' = pending \ {p}
    /\ \/ \E g \in Graphs : GraphAnswer(p, g)
       \/ GraphFailure(p)
       \/ p.to \in Signals /\ \E rows \in Answers(p.to) \cup {{}} : SignalAnswer(p, rows)
    /\ UNCHANGED <<search, acts>>

User == ChooseSince \/ TypeQuery \/ ToggleAddresses \/ Select \/ Retry \/ FollowLink

Next == User \/ Answer

Spec == Init /\ [][Next]_vars /\ WF_vars(Answer)

-----------------------------------------------------------------------------
Waiting(k) == \E p \in pending : p.to = k /\ Current(p)

\* A graph of another range than the address's is never on screen without its
\* announcement: the page says that it loads, or that the load failed.
GraphAnnounced == view.graph.since # Since(search) => view.loading \/ view.error

\* Signals are those of the address's range, as soon as their request has ended.
SignalsOfTheRange ==
    \A k \in Signals : ~ Waiting(k) => view.signals[k].since = Since(search)

\* Neither the search, the addresses hidden or shown, nor new signals take the
\* selection away from the focus of the address while its node is there.
FocusStays == /\ Focus(search') = Focus(search)
              /\ Focus(search) \in ServicesOf(view) \cap ServicesOf(view')
              => Selected(view', search') = Selected(view, search)

\* A service counts as healthy only if it was asked and answered without errors,
\* its containers are not in trouble and no alert on it is critical or a warning:
\* never better than the worst of its signals.
HealthIsEarned ==
    \A id \in ServicesOf(view) : Status(view, id) = "healthy" =>
        /\ \E r \in HTTPOf(view, id) : r.requests > 0 /\ r.errors = 0
        /\ \A r \in HTTPOf(view, id) : ~ (r.errors > 0)
        /\ \A r \in Of(view, "fleet", id) : ~ isUnstable(r)
        /\ \A r \in Of(view, "alerts", id) : r.severity \notin {"critical", "warning"}

=============================================================================
