-------------------------------- MODULE Panel --------------------------------
(***************************************************************************)
(* The web panel: one page at a time under one address. The router mounts  *)
(* the page of the address afresh; what is in flight for the page before   *)
(* reaches nobody. Only the hub and the browser's storage outlive a page.  *)
(***************************************************************************)
EXTENDS QueryState, SequencesExt

\* The constants of the pages; a bound of each page is a field of Acts or InFlight.
CONSTANTS Texts, TraceIds, Ranges, Levels, Topics, Groups, Services, Limit, Totals,
          ByLoad, ServiceOf, NamedAfter, MembersOf, Snapshots, TableSize, GridLimit, TopLimit,
          Keys, GroupIds, Metrics, Stats, Charts, FirstNames, StoredLimit, MaxSaves,
          Reports, Objectives, States, ListLimit,
          ByLabel, Addresses, RunsIn, Matching, Graphs, Fleets, Workloads, HTTP, Alerts,
          Bookmarks,        \* bound: addresses, of now and of before, that users kept
          LinksTo,          \* bound: for each page, the addresses its user goes back to
          Acts, InFlight    \* bounds: acts of the user on a page, requests in flight

VARIABLES route,            \* the page of the address
          search,           \* its query string
          view,             \* the state of the page's components
          pending, overtaken, acts,
          loads,            \* the requests in flight of the topology, which has no queue
          hub,              \* the groups saved on the hub
          stored            \* the views saved in the browser

vars == <<route, search, view, pending, overtaken, acts, loads, hub, stored>>

Names == ToSet(ByLoad)

\* Containers and the nodes of a graph have names; the hub answers the overview with
\* lists, and the containers page of containers it knows; a page of a table has rows,
\* and the overview's list and the saved views have a limit.
ASSUME PanelAssumption ==
    /\ ByLoad \in Seq(Names)
    /\ Names \cap {None, Blank} = {}
    /\ \A g \in Graphs : \A id \in g.nodes \cup {e.source : e \in g.edges}
                                       \cup {e.target : e \in g.edges} : id # None
    /\ \A x \in States : \A q \in {x.alerts, x.slos, x.fleet, x.http} : q \in Seq(ToSet(q))
    /\ \A x \in Snapshots : /\ DOMAIN x.cpu \cup DOMAIN x.status \subseteq DOMAIN ByLoad
                          /\ x.cpu \in [DOMAIN x.cpu -> Nat]
    /\ TableSize \in Nat \ {0} /\ ListLimit \in Nat /\ StoredLimit \in Nat

Overview == INSTANCE OverviewPage
            WITH MaxActs <- Acts.overview, MaxPending <- InFlight.overview
Problems == INSTANCE ProblemsPage
            WITH MaxActs <- Acts.problems, MaxPending <- InFlight.problems,
                 Sources <- Names, ProblemsLinks <- LinksTo.problems
Boxes == INSTANCE GroupsPanel
         WITH MaxActs <- Acts.containers, MaxPending <- InFlight.containers,
              NameOf <- ByLoad, ContainersLinks <- LinksTo.containers,
              MembersOf <- [g \in DOMAIN MembersOf |->
                               {i \in DOMAIN ByLoad : ByLoad[i] \in MembersOf[g]}]
Measures == INSTANCE MetricsPage
            WITH MaxActs <- Acts.metrics, MaxPending <- InFlight.metrics,
                 MetricsLinks <- LinksTo.metrics
Logs == INSTANCE LogsPage
        WITH MaxActs <- Acts.logs, MaxPending <- InFlight.logs,
             Containers <- Names, LogsLinks <- LinksTo.logs
Traces == INSTANCE TracesPage
          WITH MaxActs <- Acts.traces, MaxPending <- InFlight.traces,
               Containers <- Names, TracesLinks <- LinksTo.traces
Topology == INSTANCE TopologyPage
            WITH MaxActs <- Acts.topology, pending <- loads, TopologyLinks <- LinksTo.topology

\* The panel writes no range and no metric that is blank into an address.
Worded(s) == \A k \in {"metric", "since"} \cap DOMAIN s : s[k] \notin {None, Blank}

\* Addresses that were kept are addresses the panel has written, and the names of
\* containers can be told apart when they are joined: none holds a comma.
ASSUME AddressAssumption ==
    /\ \A b \in Bookmarks : Worded(b.search)
    /\ \A s \in LinksTo.metrics \cup LinksTo.topology : Worded(s)
    /\ \A S \in SUBSET Names : Measures!Join(S) # None
    /\ \A S, T \in SUBSET Names : Measures!Join(S) = Measures!Join(T) => S = T

Routes == {"overview", "problems", "containers", "metrics", "logs", "traces", "topology"}

-----------------------------------------------------------------------------
\* Addresses of before lead to a mode of a page, and keep what they received.
Legacy == [workloads |-> To("containers", NoDefaults),
           fleet     |-> To("containers", Only("view", "table")),
           groups    |-> To("containers", Only("panel", "groups")),
           explorer  |-> To("metrics", Only("mode", "compare")),
           patterns  |-> To("logs", Only("mode", "patterns")),
           insights  |-> To("problems", NoDefaults),
           slos      |-> To("problems", Only("tab", "slos")),
           events    |-> To("problems", Only("tab", "history"))]

\* Where an address leads: to its page, to the page it was moved to, or, being
\* none of these, to the overview.
Resolved(path, s) ==
    IF path \in Routes THEN To(path, s)
    ELSE IF path \in DOMAIN Legacy
         THEN To(Legacy[path].to, Redirected(s, Legacy[path].search))
         ELSE To("overview", NoDefaults)

Opened == {To(page, NoDefaults) : page \in Routes}
            \cup {Resolved(b.to, b.search) : b \in Bookmarks}

Mounted(page, s) ==
    CASE page = "overview"   -> [view |-> Overview!MountView(s), reqs |-> Overview!MountRequests(s)]
      [] page = "problems"   -> [view |-> Problems!MountView(s), reqs |-> Problems!MountRequests(s)]
      [] page = "containers" -> [view |-> Boxes!MountView(s), reqs |-> Boxes!MountRequests(s)]
      [] page = "metrics"    -> [view |-> Measures!MountView(s), reqs |-> Measures!MountRequests(s)]
      [] page = "logs"       -> [view |-> Logs!MountView(s), reqs |-> Logs!MountRequests(s)]
      [] page = "traces"     -> [view |-> Traces!MountView(s), reqs |-> Traces!MountRequests(s)]
      [] page = "topology"   -> [view |-> Topology!MountView(s), reqs |-> <<>>]

\* The page comes on screen and sends its first requests.
Mount(l, queue, loading) ==
    /\ queue = Logs!Sent(<<>>, Mounted(l.to, l.search).reqs)
    /\ loading = IF l.to = "topology" THEN Topology!MountRequests(l.search) ELSE {}

InitiallyHub == [saved |-> {[id |-> GroupIds[1], key |-> "stack"]}, given |-> 1]

\* The panel is opened at an address.
Init == /\ hub = InitiallyHub
        /\ stored = <<>>
        /\ \E l \in Opened :
             /\ route = l.to
             /\ search = l.search
             /\ view = Mounted(l.to, l.search).view
             /\ Mount(l, pending, loads)
        /\ overtaken = {}
        /\ acts = 0

\* The links of the page on screen, beside those of the menu.
Links == CASE route = "overview"   -> Overview!Links(view, search)
           [] route = "problems"   -> Problems!Links(view, search)
           [] route = "containers" -> IF Boxes!Free THEN Boxes!Links(view, search) ELSE {}
           [] route = "metrics"    -> Measures!Links(view, search)
           [] route = "logs"       -> Logs!Links(view, search)
           [] route = "traces"     -> Traces!Links(view, search)
           [] route = "topology"   -> Topology!Links(view, search)

\* Bound: the panel leaves a page with nothing saved by it.
NothingSaved == hub = InitiallyHub /\ stored = <<>>

\* A link goes through the router like any other address.
Navigate == \E k \in Links \cup {To(page, NoDefaults) : page \in Routes} :
    LET l == Resolved(k.to, k.search)
    IN /\ l.to # route
       /\ NothingSaved
       /\ route' = l.to
       /\ search' = l.search
       /\ view' = Mounted(l.to, l.search).view
       /\ Mount(l, pending', loads')
       /\ overtaken' = {}
       /\ acts' = 0
       /\ UNCHANGED <<hub, stored>>

OnOverview   == route = "overview" /\ Overview!Next /\ UNCHANGED <<route, loads, hub, stored>>
OnProblems   == route = "problems" /\ Problems!Next /\ UNCHANGED <<route, loads, hub, stored>>
OnContainers == route = "containers" /\ Boxes!Next /\ UNCHANGED <<route, loads, stored>>
OnMetrics    == route = "metrics" /\ Measures!Next /\ UNCHANGED <<route, loads, hub>>
OnLogs       == route = "logs" /\ Logs!Next /\ UNCHANGED <<route, loads, hub, stored>>
OnTraces     == route = "traces" /\ Traces!Next /\ UNCHANGED <<route, loads, hub, stored>>
OnTopology   == route = "topology" /\ Topology!Next
                /\ UNCHANGED <<route, pending, overtaken, hub, stored>>

Next == \/ Navigate \/ OnOverview \/ OnProblems \/ OnContainers \/ OnMetrics \/ OnLogs
        \/ OnTraces \/ OnTopology

\* The timers keep running, and every request ends, in an answer or a failure.
Polled == {"overview", "problems", "containers", "logs"}

Poll == /\ \/ route = "overview" /\ Overview!Poll
           \/ route = "problems" /\ Problems!Poll
           \/ route = "containers" /\ Boxes!Poll
           \/ route = "logs" /\ Logs!Poll
        /\ UNCHANGED <<route, loads, hub, stored>>

Answer == \/ route = "overview" /\ Overview!Answer /\ UNCHANGED <<route, loads, hub, stored>>
          \/ route = "problems" /\ Problems!Answer /\ UNCHANGED <<route, loads, hub, stored>>
          \/ route = "containers" /\ Boxes!Answer /\ UNCHANGED <<route, loads, stored>>
          \/ route = "metrics" /\ Measures!Answer /\ UNCHANGED <<route, loads, hub>>
          \/ route = "logs" /\ Logs!Answer /\ UNCHANGED <<route, loads, hub, stored>>
          \/ route = "traces" /\ Traces!Answer /\ UNCHANGED <<route, loads, hub, stored>>
          \/ route = "topology" /\ Topology!Answer
                /\ UNCHANGED <<route, pending, overtaken, hub, stored>>

Spec == Init /\ [][Next]_vars /\ WF_vars(Poll) /\ WF_vars(Answer)

-----------------------------------------------------------------------------
\* What the page's main part asks for at its address.
Asked == CASE route = "overview"   -> Overview!Request
           [] route = "problems"   -> Problems!Request(search)
           [] route = "containers" -> Boxes!LoadRequest(search)
           [] route = "metrics"    -> Measures!Request(search)
           [] route = "logs"       -> Logs!Request(search)
           [] route = "traces"     -> Traces!Request(search)
           [] route = "topology"   -> [to |-> "graph"]

InFlightFor(kind) == IF route = "topology" THEN Topology!Waiting(kind)
                     ELSE \E i \in DOMAIN pending : pending[i].req.to = kind

\* The request whose answer is on screen.
Shown == CASE route = "overview" -> Asked
           [] route = "metrics"  -> view.series
           [] OTHER -> view.shown.req

\* What is on screen is what the address asks for. The detail of a trace and the
\* charts have an own property; the topology's graph and signals too.
ShowsAsked == \/ route \in {"metrics", "topology"}
              \/ Shown = Asked
              \/ (route = "logs" /\ Logs!RowsBelong)
              \/ view.error

\* Every change of a filter, a page or a mode loads what it asks for: once
\* nothing is in flight, the screen shows what the address says, unless an
\* older answer came after a newer one or the load failed.
ScreenOfTheAddress == ~ InFlightFor(Asked.to) => ShowsAsked \/ Asked.to \in overtaken

\* A page that says it is loading waits for a request it will take the answer
\* of, whatever was cancelled, superseded or left behind.
LoadingWaits ==
    view.loading /\ (route = "metrics" => Measures!Loads(search)) => InFlightFor(Asked.to)

\* Where a timer loads the page again, an answer that came out of order does not
\* last: when the user stops, the screen ends up with what the address asks for.
UserStops == <>[][route' = route /\ acts' = acts /\ search' = search]_vars

ScreenCatchesUp == UserStops => <>[](route \in Polled => ShowsAsked)

\* Guarded parts: an answer to an earlier address never shows under a later one.
DetailIsTheTrace == route = "traces" => Traces!DetailIsTheTrace
ChartsAreOfTheAddress == route = "metrics" => Measures!ChartsAreOfTheAddress
GraphAnnounced    == route = "topology" => Topology!GraphAnnounced
SignalsOfTheRange == route = "topology" => Topology!SignalsOfTheRange

\* The overview calls nothing calm without an answer, nor under a failure.  The
\* problems page does without an answer only under the error of a failed load.
CalmIsTrue == /\ route = "overview" => Overview!CalmIsTrue
              /\ route = "problems" => Problems!CalmIsKnown

\* Containers: the group's members, the sheet's list, the pages of the table.
GroupFiltersUnlessOvertaken == route = "containers" => Boxes!GroupFiltersUnlessOvertaken
ListIsSaved                 == route = "containers" => Boxes!ListIsSaved
TablePagesAreTheRows        == route = "containers" => Boxes!TablePagesAreTheRows

\* Metrics: choices the page makes by itself, and the saved views.
NeverWithoutChoice == route = "metrics" => Measures!NeverWithoutChoice
ViewsAreStored     == route = "metrics" => Measures!ViewsAreStored
AppliedViewIsShown ==
    [][route = "metrics" /\ route' = route =>
          \A v \in ToSet(view.views) : Measures!Applies(v) => Measures!ShowsView(v)]_vars

\* Topology: health is earned, and the focus keeps the selection.
HealthIsEarned == route = "topology" => Topology!HealthIsEarned
FocusKept == [][route = "topology" /\ route' = route => Topology!FocusStays]_vars

=============================================================================
