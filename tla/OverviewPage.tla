---------------------------- MODULE OverviewPage ----------------------------
(***************************************************************************)
(* The Overview page: the hub's health, then four lists in one answer,     *)
(* counted on cards and joined into one list of what needs action. It has  *)
(* no filters; it is loaded on a timer and takes every answer.             *)
(***************************************************************************)
EXTENDS Requests, ContainerState

CONSTANTS States,           \* bound: what the hub may know, lists of each kind
          ListLimit,        \* items the list shows
          MaxActs           \* bound: acts of the user

VARIABLES search, view, acts

vars == <<search, view, pending, overtaken, acts>>

-----------------------------------------------------------------------------
Empty == [alerts |-> <<>>, slos |-> <<>>, fleet |-> <<>>, http |-> <<>>]

\* The health check and the four calls after it: one failure fails them all.
Request == [to |-> "overview"]

MountView(s) == [data |-> Empty, answered |-> FALSE, loading |-> TRUE, error |-> FALSE]
MountRequests(s) == <<Request>>

Init == /\ search = NoDefaults
        /\ view = MountView(search)
        /\ pending = Sent(<<>>, MountRequests(search))
        /\ overtaken = {}
        /\ acts = 0

\* What the page keeps of an answer; rates and budgets are in percent.
AtRisk(o)  == o.breached \/ o.budget < 30
Failing(r) == r.requests > 0 /\ r.rate >= 1

\* The highest rate first; equal rates stay in their order.
ByRate(rows) ==
    LET before(i) == {j \in DOMAIN rows : \/ rows[j].rate > rows[i].rate
                                         \/ (rows[j].rate = rows[i].rate /\ j < i)}
    IN [n \in DOMAIN rows |->
           rows[CHOOSE i \in DOMAIN rows : Cardinality(before(i)) = n - 1]]

Kept(x) == [alerts |-> x.alerts,
            slos |-> Subsequence(x.slos, {i \in DOMAIN x.slos : AtRisk(x.slos[i])}),
            fleet |-> Subsequence(x.fleet, {i \in DOMAIN x.fleet : isUnstable(x.fleet[i])}),
            http |-> ByRate(Subsequence(x.http, {i \in DOMAIN x.http : Failing(x.http[i])}))]

Poll == Send(<<Request>>, {}) /\ UNCHANGED <<search, view, acts>>

Again == /\ acts < MaxActs /\ acts' = acts + 1
         /\ Send(<<Request>>, {}) /\ UNCHANGED <<search, view>>

Retry == view.error /\ Again
Translate == Again

Loaded(i) == /\ Receive(i)
             /\ \E x \in States :
                  view' = [data |-> Kept(x), answered |-> TRUE, loading |-> FALSE, error |-> FALSE]

\* Faulty: a failure is not remembered.
FailedInSilence(i) == Receive(i) /\ view' = [view EXCEPT !.loading = FALSE]

\* A failure keeps the data before it.
Failed(i) == /\ Receive(i)
             /\ view' = [view EXCEPT !.loading = FALSE, !.error = TRUE]

Answer == /\ \E i \in DOMAIN pending : Loaded(i) \/ Failed(i)
          /\ UNCHANGED <<search, acts>>

User == Retry \/ Translate

Next == User \/ Poll \/ Answer

Spec == Init /\ [][Next]_vars /\ WF_vars(Poll) /\ WF_vars(Answer)

-----------------------------------------------------------------------------
sloMetric(o) == IF o.metric = "latency_p95" THEN "http.duration_ms" ELSE "http.error_rate"

AlertItem(a) == [kind |-> "alert", status |-> a.severity,
                 link |-> IF a.container # "" THEN To("logs", Only("container", a.container))
                          ELSE To("problems", NoDefaults)]

SLOItem(o) == [kind |-> "slo", status |-> IF o.breached THEN "violated" ELSE "lowMargin",
               link |-> To("metrics", [mode |-> "compare", metric |-> sloMetric(o),
                                       service |-> o.service])]

ContainerItem(c) == [kind |-> "container", status |-> instabilityReason(c),
                     link |-> To("logs", Only("container", c.container))]

HTTPItem(r) == [kind |-> "http", status |-> IF r.rate >= 5 THEN "critical" ELSE "warning",
                link |-> To("metrics", [mode |-> "compare", metric |-> "http.error_rate",
                                        service |-> r.service])]

\* Alerts first, then objectives, containers and services.
Items(d) == [i \in DOMAIN d.alerts |-> AlertItem(d.alerts[i])]
              \o [i \in DOMAIN d.slos |-> SLOItem(d.slos[i])]
              \o [i \in DOMAIN d.fleet |-> ContainerItem(d.fleet[i])]
              \o [i \in DOMAIN d.http |-> HTTPItem(d.http[i])]

Listed(d) == SubSeq(Items(d), 1, Lesser(ListLimit, Len(Items(d))))

Breached(d) == Subsequence(d.slos, {i \in DOMAIN d.slos : d.slos[i].breached})

\* The number on each card, its colour, and where it leads.
Cards(d) ==
    [alerts |-> [value |-> Len(d.alerts), link |-> To("problems", NoDefaults),
                 tone |-> IF \E i \in DOMAIN d.alerts : d.alerts[i].severity = "critical"
                          THEN "critical" ELSE IF d.alerts # <<>> THEN "warning" ELSE "default"],
     slos |-> [value |-> Len(Breached(d)), link |-> To("problems", Only("tab", "slos")),
               tone |-> IF Breached(d) # <<>> THEN "critical"
                        ELSE IF d.slos # <<>> THEN "warning" ELSE "default"],
     fleet |-> [value |-> Len(d.fleet),
                link |-> To("containers", [filter |-> "unstable", view |-> "table"]),
                tone |-> IF d.fleet # <<>> THEN "critical" ELSE "default"],
     http |-> [value |-> Len(d.http),
               link |-> To("metrics", [mode |-> "compare", metric |-> "http.error_rate"]),
               tone |-> IF d.http # <<>> THEN "warning" ELSE "default"]]

Screen(v) == IF v.loading THEN "skeleton"
             ELSE IF Items(v.data) # <<>> THEN "items"
             ELSE IF v.error THEN "error" ELSE "calm"

Links(v, s) == {Cards(v.data)[k].link : k \in DOMAIN Cards(v.data)}
                 \cup {i.link : i \in ToSet(Listed(v.data))}

-----------------------------------------------------------------------------
\* "Nothing needs action" is said only when the hub's last answer says so, and
\* no failure since then has left it in doubt: then no card is coloured.
CalmIsTrue ==
    Screen(view) = "calm" =>
        /\ view.answered /\ ~ view.error
        /\ \A k \in DOMAIN Cards(view.data) : Cards(view.data)[k].tone = "default"

=============================================================================
