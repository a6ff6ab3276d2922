---------------------------- MODULE ProblemsPage ----------------------------
(***************************************************************************)
(* The Problems page: what is wrong now, the objectives, or the history of *)
(* events. The three are parts of their own; the one on screen is loaded   *)
(* when its filters change and on a timer, and takes every answer.         *)
(***************************************************************************)
EXTENDS Requests

CONSTANTS Ranges, Groups,
          Reports,          \* bound: what the hub may know now
          Objectives,       \* bound: the objectives the hub may have
          Sources,          \* the containers events come from
          Limit, Totals,    \* rows of one page; bound: events of the hub
          ProblemsLinks,    \* addresses that links of the panel lead to
          MaxActs           \* bound: acts of the user

VARIABLES search, view, acts

vars == <<search, view, pending, overtaken, acts>>

-----------------------------------------------------------------------------
Tab(s) == Read(s, "tab", "now")

defaultSince(s) == IF Tab(s) = "history" THEN "24h" ELSE "1h"
Since(s) == Read(s, "since", defaultSince(s))
Group(s) == Read(s, "group", "")
Page(s)  == pageIndex(Read(s, "page", "1"))

\* The part on screen; what is not a tab is the first one.
Part(s) == IF Tab(s) \in {"slos", "history"} THEN Tab(s) ELSE "now"

\* The three calls of the first part are one request.
Request(s) ==
    CASE Part(s) = "now"     -> [to |-> "now", since |-> Since(s), group |-> Group(s)]
      [] Part(s) = "slos"    -> [to |-> "slos"]
      [] Part(s) = "history" -> [to |-> "history", since |-> Since(s),
                                 offset |-> (Page(s) - 1) * Limit]

Nothing == [req |-> [to |-> "nothing"], content |-> {}, total |-> 0]

\* A part comes on screen with nothing; its select asks for the groups.
Fresh(s) == [sinceSeen |-> Since(s), shown |-> Nothing, loading |-> TRUE, error |-> FALSE,
             groups |-> {}]

OptionRequests(s) == IF Tab(s) = "now" THEN <<[to |-> "groups"]>> ELSE <<>>

MountView(s) == Fresh(s)
MountRequests(s) == OptionRequests(s) \o <<Request(s)>>

Init == /\ search \in ProblemsLinks
        /\ view = MountView(search)
        /\ pending = Sent(<<>>, MountRequests(search))
        /\ overtaken = {}
        /\ acts = 0

\* The address becomes s. Another range sends the history to page 1, after a
\* load of the page it was on.
Follow(s) ==
    LET same    == Part(s) = Part(search)
        reset   == same /\ Part(s) = "history" /\ Since(s) # view.sinceSeen
        settled == IF reset THEN SetState(s, "page", "1", "1") ELSE s
        first   == IF ~ same THEN MountRequests(s)
                   ELSE IF Request(s) = Request(search) THEN <<>> ELSE <<Request(s)>>
        second  == IF Request(settled) = Request(s) THEN <<>> ELSE <<Request(settled)>>
    IN /\ s # search
       /\ acts < MaxActs /\ acts' = acts + 1
       /\ search' = settled
       /\ view' = IF same THEN [view EXCEPT !.sinceSeen = Since(s)] ELSE Fresh(s)
       /\ Send(first \o second, IF same THEN {} ELSE {"now", "slos", "history", "groups"})

\* A tab forgets the range and keeps the page.
ChooseTab == \E x \in {"now", "slos", "history"} :
    Follow(Patched(search, [tab |-> x, since |-> None], [tab |-> "now"]))

ChooseSince == \E r \in Ranges :
    Tab(search) # "slos" /\ Follow(SetState(search, "since", defaultSince(search), r))

ChooseGroup == \E g \in view.groups \cup {""} :
    Tab(search) = "now" /\ Follow(SetState(search, "group", "", g))

TurnPage == /\ Part(search) = "history"
            /\ \E n \in PagerTargets(view.shown.total, Limit, Page(search)) :
                 Follow(SetState(search, "page", "1", PageText(n)))

FollowLink == \E s \in ProblemsLinks : Follow(s)

Poll == Send(<<Request(search)>>, {}) /\ UNCHANGED <<search, view, acts>>

Again == /\ acts < MaxActs /\ acts' = acts + 1
         /\ Send(<<Request(search)>>, {})
         /\ UNCHANGED <<search, view>>

\* The objectives have a retry only while there are none to show.
Retry == /\ view.error /\ (Part(search) = "slos" => view.shown.content = {})
         /\ Again

\* Another language is another load, except for the objectives.
Translate == Part(search) # "slos" /\ Again

-----------------------------------------------------------------------------
Contents(kind) == CASE kind = "now" -> Reports [] kind = "slos" -> Objectives
                    [] kind = "history" -> {{}}

PartAnswer(i) ==
    /\ pending[i].req.to \in {"now", "slos", "history"}
    /\ Receive(i)
    /\ \E x \in Contents(pending[i].req.to),
          n \in IF pending[i].req.to = "history" THEN Totals ELSE {0} :
         view' = [view EXCEPT !.shown = [req |-> pending[i].req, content |-> x, total |-> n],
                              !.loading = FALSE, !.error = FALSE]

\* A failure keeps what is on screen, under the error.
PartFailure(i) ==
    /\ pending[i].req.to \in {"now", "slos", "history"}
    /\ Receive(i)
    /\ view' = [view EXCEPT !.loading = FALSE, !.error = TRUE]

GroupsAnswer(i) ==
    /\ pending[i].req.to = "groups"
    /\ Receive(i)
    /\ \E gs \in {{}, Groups} : view' = [view EXCEPT !.groups = gs]

Answer == /\ \E i \in DOMAIN pending : PartAnswer(i) \/ PartFailure(i) \/ GroupsAnswer(i)
          /\ UNCHANGED <<search, acts>>

User == ChooseTab \/ ChooseSince \/ ChooseGroup \/ TurnPage \/ FollowLink \/ Retry \/ Translate

Next == User \/ Poll \/ Answer

Spec == Init /\ [][Next]_vars /\ WF_vars(Poll) /\ WF_vars(Answer)

-----------------------------------------------------------------------------
\* What the first part makes of a report: its lists.
Down(report)    == {c \in report.fleet : c.disposition \in {"unexpected", "oom"}}
Stopped(report) == {c \in report.fleet : c.disposition = "intentional"}

NoReport == [fleet |-> {}, alerts |-> {}, insights |-> {}]
Report(v) == IF v.shown.req.to = "now" THEN v.shown.content ELSE NoReport

Blankness(v) == CASE v.shown.req.to = "now"     -> v.shown.content = NoReport
                  [] v.shown.req.to = "slos"    -> v.shown.content = {}
                  [] v.shown.req.to = "history" -> v.shown.total <= v.shown.req.offset
                  [] v.shown.req.to = "nothing" -> TRUE

\* The first part shows its lists under an error even when it has loaded none.
Screen(v, s) ==
    IF v.loading /\ Blankness(v) THEN "skeleton"
    ELSE IF Part(s) = "slos" /\ v.error /\ Blankness(v) THEN "error"
    ELSE IF Blankness(v) THEN "empty" ELSE "rows"

\* The topic of the logs an insight leads to.
TopicOf(theme) ==
    CASE theme = "gc_thrashing" -> "gc"
      [] theme \in {"oom_risk", "memory_pressure"} -> "memory"
      [] theme = "error_spike" -> "error"
      [] OTHER -> "performance"

ContainerLinks(c) == {To("logs", Only("container", c)), To("metrics", Only("container", c))}

InsightLink(i, group) ==
    To("logs", IF group # "" THEN [topic |-> TopicOf(i.theme), group |-> group]
               ELSE [topic |-> TopicOf(i.theme), container |-> i.container])

sloMetricsLink(o) ==
    To("metrics", [mode |-> "compare", service |-> o.service,
                   metric |-> IF o.metric = "latency_p95" THEN "http.duration_ms"
                              ELSE "http.error_rate"])

\* Where the part on screen leads.
Links(v, s) ==
    CASE Part(s) = "now" ->
           LET named == {c.container : c \in Down(Report(v)) \cup Stopped(Report(v))}
                          \cup {a.container : a \in Report(v).alerts}
           IN {InsightLink(i, Group(s)) : i \in Report(v).insights}
                \cup UNION {ContainerLinks(c) : c \in named}
      [] Part(s) = "slos" ->
           UNION {{sloMetricsLink(o), To("traces", Only("service", o.service))} :
                     o \in v.shown.content}
      [] Part(s) = "history" ->
           IF Blankness(v) THEN {} ELSE {To("logs", Only("container", c)) : c \in Sources}

-----------------------------------------------------------------------------
\* "Nothing is down", and its like, is said without an error only after an answer.
\* When the first load fails, problems-now.tsx and event-history.tsx say it all the
\* same, under the error; the objectives (slo-list.tsx) do not.
CalmIsKnown ==
    Screen(view, search) = "empty" =>
        \/ view.shown.req.to # "nothing"
        \/ view.error /\ Part(search) # "slos"

=============================================================================
