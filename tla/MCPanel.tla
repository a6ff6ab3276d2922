------------------------------- MODULE MCPanel -------------------------------
(***************************************************************************)
(* A small panel: two containers of two services, one group, one trace,    *)
(* two ranges, lists of one row a page.                                    *)
(***************************************************************************)
EXTENDS Panel

MCByLoad    == <<"c1", "c2">>
MCServiceOf == [c1 |-> "s1", c2 |-> "s2"]
MCMembersOf == [g1 |-> {"c2"}]
MCGroupIds  == <<"g1", "g2">>

Status(c, state, d) == [container |-> c, state |-> state, disposition |-> d,
                        health |-> "", oom |-> FALSE, restarts |-> 3]

MCNamedAfter == {<<"c2", "s1">>}

\* Two workloads, the idle one with too many restarts, or the second busier than
\* the first and no status; or none, and a container stopped on purpose that had
\* run out of memory.
MCSnapshots ==
    {[cpu |-> <<5, 0>>, status |-> 2 :> [Status("c2", "running", "") EXCEPT !.restarts = 4]],
     [cpu |-> <<1, 2>>, status |-> <<>>],
     [cpu |-> <<>>,
      status |-> 1 :> [Status("c1", "exited", "intentional") EXCEPT !.oom = TRUE]]}

MCReports ==
    {[fleet |-> {[container |-> "c1", disposition |-> "oom"]}, alerts |-> {},
      insights |-> {[container |-> "c1", theme |-> "gc_thrashing"]}],
     [fleet |-> {}, alerts |-> {}, insights |-> {}]}

MCObjectives == {{}, {[service |-> "s1", metric |-> "latency_p95"]}}

Alert(sev) == [container |-> "c1", severity |-> sev]
Objective(b, budget) ==
    [service |-> "s1", metric |-> "availability", breached |-> b, budget |-> budget]
Service(x, rate) == [service |-> x, requests |-> 10, rate |-> rate]

MCStates ==
    {[alerts |-> <<>>, slos |-> <<Objective(FALSE, 30)>>,
      fleet |-> <<Status("c1", "running", "")>>, http |-> <<Service("s1", 0)>>],
     [alerts |-> <<Alert("warning")>>, slos |-> <<Objective(FALSE, 20)>>,
      fleet |-> <<Status("c1", "dead", "")>>, http |-> <<Service("s1", 1), Service("s2", 6)>>],
     [alerts |-> <<[Alert("critical") EXCEPT !.container = ""]>>, slos |-> <<Objective(TRUE, 0)>>,
      fleet |-> <<>>, http |-> <<>>]}

MCByLabel  == <<"10.0.0.1", "c1", "c2">>
MCRunsIn   == "10.0.0.1" :> {} @@ "c1" :> {"c1"} @@ "c2" :> {"c2"}
MCMatching == "x" :> {"c1"}

Edge(a, b) == [source |-> a, target |-> b, count |-> 1]
MCGraphs    == {[nodes |-> {"c1"}, edges |-> {Edge("10.0.0.1", "c1"), Edge("c1", "c2")}],
                [nodes |-> {"10.0.0.1"}, edges |-> {}]}
MCFleets    == {{Status("c1", "running", ""), Status("c2", "dead", "")}}
MCWorkloads == {{}}
MCHTTP      == {{[service |-> "c1", requests |-> 2, errors |-> e]} : e \in {0, 1}}
MCAlerts    == {{Alert("warning")}}

MCBookmarks ==
    {To("fleet", "page" :> "2" @@ "group" :> "g1"), To("groups", NoDefaults),
     To("workloads", NoDefaults), To("explorer", "group" :> "g1"),
     To("patterns", "mode" :> "lines" @@ "page" :> "2" @@ "group" :> "g1"),
     To("insights", NoDefaults), To("slos", NoDefaults), To("events", "page" :> "2"),
     To("nowhere", "page" :> "2"), To("traces", "page" :> "2"), To("topology", "focus" :> "gone")}

\* Within a page the user comes back to an address of before.
MCLinksTo ==
    [problems |-> {NoDefaults}, containers |-> {NoDefaults}, logs |-> {NoDefaults},
     metrics |-> {NoDefaults, "service" :> "s2"}, traces |-> {NoDefaults, "trace_id" :> "t"},
     topology |-> {NoDefaults}]

MCActs == [overview |-> 1, problems |-> 1, containers |-> 1, metrics |-> 1, logs |-> 1,
           traces |-> 2, topology |-> 1]
MCInFlight == [overview |-> 2, problems |-> 3, containers |-> 2, metrics |-> 3, logs |-> 3,
               traces |-> 3]

=============================================================================
