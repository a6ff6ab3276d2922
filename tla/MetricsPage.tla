---------------------------- MODULE MetricsPage -----------------------------
(***************************************************************************)
(* The Metrics page: the series of one container, or one metric compared   *)
(* across containers. Both views take only the answer to their last        *)
(* request; the list of containers and the members of the group come in    *)
(* their own time and may pick a container by themselves. Views of the     *)
(* comparison are kept in the browser.                                     *)
(***************************************************************************)
EXTENDS Requests

CONSTANTS Ranges, Metrics, Stats, Charts,
          ByLoad,           \* bound: the containers, a sequence, busiest first
          ServiceOf,        \* the service of each container
          NamedAfter,       \* pairs of a container and a service its name begins with or holds
          MembersOf,        \* external: the containers of each group
          FirstNames,       \* containers compared when nothing was chosen
          StoredLimit,      \* saved views the browser keeps
          MaxSaves,         \* bound: views ever saved
          MetricsLinks,     \* addresses that links of the panel lead to
          MaxActs           \* bound: acts of the user

VARIABLES search, view, acts,
          stored            \* local storage: the saved views, the newest first

vars == <<search, view, pending, overtaken, acts, stored>>

Names == ToSet(ByLoad)

-----------------------------------------------------------------------------
\* A set of containers is one text of the address; none is the blank text.
Join(S)  == IF S = {} THEN Blank ELSE ToString(S)
Split(x) == UNION {S \in SUBSET Names : Join(S) = x}

Compare(s)  == Read(s, "mode", "container") = "compare"
Since(s)    == Read(s, "since", "1h")
Group(s)    == Read(s, "group", "")
Chosen(s)   == Read(s, "container", "")
Service(s)  == Read(s, "service", "")
Metric(s)   == Read(s, "metric", "memory.usage_pct")
Chart(s)    == IF Read(s, "chart", "area") = "line" THEN "line" ELSE "area"
Selected(s) == Split(Read(s, "containers", ""))

\* What is not a statistic counts as the average.
parseStatMode(x) == IF x \in {"avg", "p85", "p90", "p95", "max"} THEN x ELSE "avg"
Stat(s) == parseStatMode(Read(s, "stat", "avg"))

\* The nine series of a container are one request: all succeed or none is used.
ContainerRequest(s) == [to |-> "series", container |-> Chosen(s), since |-> Since(s)]

\* One metric of the group, or of the chosen containers, or of all.
CompareRequest(s) ==
    [to |-> "series", metric |-> Metric(s), since |-> Since(s), group |-> Group(s),
     only |-> IF Group(s) = "" THEN Selected(s) ELSE {}]

Request(s) == IF Compare(s) THEN CompareRequest(s) ELSE ContainerRequest(s)

\* The effect that loads runs when one of these changes, and not for no container.
LoadDeps(s) == IF Compare(s) THEN <<Metric(s), Since(s), Group(s), Selected(s)>>
               ELSE <<Chosen(s), Since(s)>>
Loads(s) == Compare(s) \/ Chosen(s) # ""

-----------------------------------------------------------------------------
Nothing  == [to |-> "nothing"]
Everyone == [of |-> "", failed |-> FALSE]

\* The containers on offer: those of the group, once its members are known.
Offered(v) == {c \in v.workloads :
                 \/ v.members.of = ""
                 \/ ~ v.members.failed /\ c \in MembersOf[v.members.of]}

\* A container is of a service by its label, or by its name.
matchesService(c, x) == ServiceOf[c] = x \/ c = x \/ <<c, x>> \in NamedAfter

\* With none chosen, the first of the service named, wherever it is, or else the
\* busiest on offer.
DefaultContainer(s, v) ==
    LET served  == {i \in DOMAIN ByLoad : ByLoad[i] \in v.workloads /\ Service(s) # ""
                                          /\ matchesService(ByLoad[i], Service(s))}
        offered == {i \in DOMAIN ByLoad : ByLoad[i] \in Offered(v)}
        first(I) == CHOOSE i \in I : \A j \in I : i <= j
    IN IF served # {} THEN ByLoad[first(served)] ELSE ByLoad[first(offered)]

\* With nothing to compare chosen, once, the service's containers or the first few.
DefaultSelection(s, v) ==
    LET served == {c \in v.workloads : Service(s) # "" /\ matchesService(c, Service(s))}
    IN Join(IF served # {} THEN served
            ELSE {ByLoad[i] : i \in {j \in DOMAIN ByLoad : j <= FirstNames}} \cap v.workloads)

\* Faulty: a group keeps the page from choosing a container by itself.
FilledWithoutGroup(s, v) ==
    IF Compare(s) \/ Chosen(s) # "" \/ Group(s) # "" \/ Offered(v) = {} THEN s
    ELSE Patched(s, [container |-> DefaultContainer(s, v), service |-> None], NoDefaults)

\* The address after the effects that fill in what was not chosen.
Filled(s, v) ==
    IF Compare(s)
    THEN IF v.initialized \/ v.workloads = {} \/ Group(s) # "" \/ Selected(s) # {} THEN s
         ELSE Patched(s, [containers |-> DefaultSelection(s, v), service |-> None], NoDefaults)
    ELSE IF Chosen(s) # "" \/ Offered(v) = {} THEN s
         ELSE Patched(s, [container |-> DefaultContainer(s, v), service |-> None], NoDefaults)

FreshView(v, s) == [v EXCEPT !.series = Nothing, !.loading = FALSE, !.error = FALSE,
                             !.initialized = FALSE, !.name = "", !.views = stored]

MountView(s) ==
    [workloads |-> {}, members |-> Everyone, series |-> Nothing, loading |-> Loads(s),
     error |-> FALSE, initialized |-> FALSE, name |-> "", views |-> stored]

MountRequests(s) ==
    <<[to |-> "workloads"]>>
        \o (IF Group(s) = "" THEN <<>> ELSE <<[to |-> "summary", group |-> Group(s)]>>)
        \o (IF Loads(s) THEN <<Request(s)>> ELSE <<>>)

Init == /\ search \in MetricsLinks
        /\ stored = <<>>
        /\ view = MountView(search)
        /\ pending = Sent(<<>>, MountRequests(search))
        /\ overtaken = {}
        /\ acts = 0

\* Faulty: the effect returns no cleanup.
NoneCancelled == {}

\* What a change of what is loaded takes the answer away from.
Cancelled == {"series"}

\* What the effects do once the address is s and the state v: a change of what
\* is loaded, even one that what is filled in takes back, cancels the request
\* before and makes another; of two addresses in one step only the second one's
\* request has a reader.
Settle(s, v, queue, more) ==
    LET same    == Compare(s) = Compare(search)
        fresh   == IF same THEN v ELSE FreshView(v, s)
        settled == Filled(s, fresh)
        changed == \/ ~ same
                   \/ LoadDeps(s) # LoadDeps(search)
                   \/ LoadDeps(settled) # LoadDeps(s)
        load    == changed /\ Loads(settled)
    IN /\ search' = settled
       /\ view' = [fresh EXCEPT !.loading = IF load THEN TRUE ELSE @,
                                !.initialized = @ \/ (Compare(s) /\ v.workloads # {})]
       /\ pending' = Sent(IF changed THEN Without(queue, Cancelled) ELSE queue,
                          more \o (IF load THEN <<Request(settled)>> ELSE <<>>))
       /\ Len(pending') <= MaxPending

Follow(s) ==
    LET regroup == Group(s) # Group(search)
        cleared == regroup /\ Group(s) = ""
    IN /\ s # search
       /\ acts < MaxActs
       /\ acts' = acts + 1
       /\ Settle(s, IF cleared THEN [view EXCEPT !.members = Everyone] ELSE view,
                 IF cleared THEN Outdated(pending, "summary") ELSE pending,
                 IF regroup /\ ~ cleared THEN <<[to |-> "summary", group |-> Group(s)]>> ELSE <<>>)
       /\ overtaken' = IF cleared THEN {} ELSE overtaken

Choose(key, fallback, values) ==
    \E x \in values : Follow(SetState(search, key, fallback, x)) /\ UNCHANGED stored

ChooseGroup  == Choose("group", "", DOMAIN MembersOf \cup {""})
ChooseSince  == Choose("since", "1h", Ranges)
ChooseStat   == (Compare(search) \/ Chosen(search) # "") /\ Choose("stat", "avg", Stats)
ChooseMetric == Compare(search) /\ Choose("metric", "memory.usage_pct", Metrics)
ChooseChart  == Compare(search) /\ Choose("chart", "area", Charts)

ChooseMode == \E m \in {"container", "compare"} :
    /\ Follow(Patched(search, [mode |-> m], [mode |-> "container"]))
    /\ UNCHANGED stored

ChooseContainer == \E c \in Offered(view) :
    /\ ~ Compare(search)
    /\ Follow(Patched(search, [container |-> c], NoDefaults)) /\ UNCHANGED stored

ToggleContainer == \E c \in view.workloads :
    /\ Compare(search) /\ Group(search) = ""
    /\ LET next == IF c \in Selected(search) THEN Selected(search) \ {c}
                   ELSE Selected(search) \cup {c}
       IN Follow(Patched(search, [containers |-> Join(next)], NoDefaults))
    /\ UNCHANGED stored

FollowLink == \E s \in MetricsLinks : Follow(s) /\ UNCHANGED stored

\* The container opens in the comparison, one of the comparison by itself: the
\* links keep the range and drop everything else.
CompareOthers ==
    /\ ~ Compare(search) /\ Chosen(search) # ""
    /\ Follow([mode |-> "compare", containers |-> Join({Chosen(search)}), since |-> Since(search)])
    /\ UNCHANGED stored

Compared(req) == IF req = Nothing THEN {}
                 ELSE IF req.group # "" THEN MembersOf[req.group]
                 ELSE IF req.only = {} THEN Names ELSE req.only

\* The containers chosen, or, with a group or none, those of the series on screen.
Openable(s) == IF Group(s) = "" /\ Selected(s) # {} THEN Selected(s) ELSE Compared(view.series)

OpenContainer ==
    /\ Compare(search)
    /\ \E c \in Openable(search) : Follow([container |-> c, since |-> Since(search)])
    /\ UNCHANGED stored

\* Retry of the container's series, or another language: the same load again.
Again == /\ ~ Compare(search) /\ Chosen(search) # ""
         /\ acts < MaxActs /\ acts' = acts + 1
         /\ view' = [view EXCEPT !.loading = TRUE]
         /\ Send(<<Request(search)>>, Cancelled)
         /\ UNCHANGED <<search, stored>>

-----------------------------------------------------------------------------
TypeName == \E n \in {"", "name"} :
    /\ Compare(search) /\ view.name # n
    /\ view' = [view EXCEPT !.name = n]
    /\ UNCHANGED <<search, pending, overtaken, acts, stored>>

\* Faulty: views are added without an end.
addView(v) == <<v>> \o stored

\* The views but the one with this identifier.
Others(id) == Subsequence(stored, {i \in DOMAIN stored : stored[i].id # id})

saveView(v) ==
    SubSeq(<<v>> \o Others(v.id), 1, Lesser(StoredLimit, Len(Others(v.id)) + 1))

deleteView(id) == Others(id)

\* The view takes a new identifier: here, the next number that no view has.
SaveView ==
    LET free == CHOOSE n \in 1 .. MaxSaves : \A i \in DOMAIN stored : stored[i].id # n
    IN /\ Compare(search) /\ view.name # ""
       /\ \E n \in 1 .. MaxSaves : \A i \in DOMAIN stored : stored[i].id # n
       /\ stored' = saveView([id |-> free, metric |-> Metric(search),
                              containers |-> Selected(search),
                              since |-> Since(search), chart |-> Chart(search)])
       /\ view' = [view EXCEPT !.views = stored', !.name = ""]
       /\ UNCHANGED <<search, pending, overtaken, acts>>

\* Faulty: the group chosen stays.
AppliedInGroup(v) ==
    Patched(search, [metric |-> v.metric, since |-> v.since, containers |-> Join(v.containers),
                     chart |-> v.chart], NoDefaults)

Applied(v) ==
    Patched(search, [metric |-> v.metric, since |-> v.since, containers |-> Join(v.containers),
                     chart |-> v.chart, group |-> None], NoDefaults)

ApplyView == \E v \in ToSet(view.views) :
    Compare(search) /\ Follow(Applied(v)) /\ UNCHANGED stored

DeleteView == \E v \in ToSet(view.views) :
    /\ Compare(search)
    /\ stored' = deleteView(v.id)
    /\ view' = [view EXCEPT !.views = stored']
    /\ UNCHANGED <<search, pending, overtaken, acts>>

-----------------------------------------------------------------------------
\* A list of containers, or the members of a group, may fill in a choice.
WorkloadsAnswer(i) ==
    /\ pending[i].req.to = "workloads"
    /\ \E ws \in {{}, Names} :
         Settle(search, [view EXCEPT !.workloads = ws], AfterAnswer(i), <<>>)
    /\ UNCHANGED overtaken

SummaryAnswer(i) ==
    /\ pending[i].req.to = "summary"
    /\ \E f \in BOOLEAN :
         Settle(search, [view EXCEPT !.members = [of |-> pending[i].req.group, failed |-> f]],
                AfterAnswer(i), <<>>)
    /\ overtaken' = IF pending[i].old THEN {"summary"} ELSE {}

\* Faulty: a failure leaves the page loading.
SeriesOrNothing(i) ==
    /\ pending[i].req.to = "series"
    /\ Receive(i)
    /\ \/ view' = [view EXCEPT !.series = pending[i].req, !.loading = FALSE, !.error = FALSE]
       \/ view' = [view EXCEPT !.error = ~ Compare(search)]
    /\ UNCHANGED search

\* A failure keeps the series of the container before, under the error; the
\* comparison loses its series.
SeriesAnswer(i) ==
    /\ pending[i].req.to = "series"
    /\ Receive(i)
    /\ \/ view' = [view EXCEPT !.series = pending[i].req, !.loading = FALSE, !.error = FALSE]
       \/ view' = [view EXCEPT !.series = IF Compare(search) THEN Nothing ELSE @,
                               !.loading = FALSE, !.error = ~ Compare(search)]
    /\ UNCHANGED search

Answer == /\ \E i \in DOMAIN pending :
               WorkloadsAnswer(i) \/ SummaryAnswer(i) \/ SeriesAnswer(i)
          /\ UNCHANGED <<acts, stored>>

User == \/ ChooseGroup \/ ChooseSince \/ ChooseStat \/ ChooseMetric \/ ChooseChart \/ ChooseMode
        \/ ChooseContainer \/ ToggleContainer \/ FollowLink \/ CompareOthers \/ OpenContainer
        \/ Again \/ TypeName \/ SaveView \/ ApplyView \/ DeleteView

Next == User \/ Answer

Spec == Init /\ [][Next]_vars /\ WF_vars(Answer)

\* Where the head of a container and the series compared lead.
Links(v, s) ==
    LET c == Chosen(s)
        served == IF c \in v.workloads THEN ServiceOf[c] ELSE c
    IN IF Compare(s) \/ c = "" THEN {}
       ELSE {To("logs", [container |-> c, since |-> Since(s)]),
             To("traces", [service |-> served, since |-> Since(s)])}

-----------------------------------------------------------------------------
\* Charts that are not loading and report no error show what the address asks
\* for: no answer to an earlier choice replaces them.
ChartsAreOfTheAddress ==
    (Loads(search) /\ ~ view.loading /\ ~ view.error)
        => view.series = Request(search) \/ (Compare(search) /\ view.series = Nothing)

\* Containers known, none chosen: the page never stays without a choice.
NeverWithoutChoice ==
    /\ ~ Compare(search) => Chosen(search) # "" \/ Offered(view) = {}
    /\ Compare(search) /\ view.workloads # {} => view.initialized

\* A saved view, applied, is what is compared: a group chosen meanwhile does not
\* overrule its containers.
Applies(v) == Compare(search) /\ search # search' /\ search' = Applied(v)

ShowsView(v) == CompareRequest(search') = [to |-> "series", metric |-> v.metric, since |-> v.since,
                                           group |-> "", only |-> v.containers]

\* The list on screen is the one in the browser, each view once, the newest kept.
ViewsAreStored ==
    /\ Compare(search) => view.views = stored
    /\ Len(stored) <= StoredLimit
    /\ \A i, j \in DOMAIN stored : stored[i].id = stored[j].id => i = j

=============================================================================
