----------------------------- MODULE TracesPage -----------------------------
(***************************************************************************)
(* The Traces page: the list of recent traces, or the detail of the trace  *)
(* in the address. The list is loaded when its filters change, never on a  *)
(* timer, and takes every answer; the detail takes only the answer to the  *)
(* last request it made.                                                   *)
(***************************************************************************)
EXTENDS Requests

CONSTANTS TraceIds, Ranges, Services, Containers,
          Limit, Totals,        \* rows of one page; bound: rows of the hub
          TracesLinks,          \* addresses that links of the panel lead to
          MaxActs               \* bound: acts of the user

VARIABLES search, view, acts

vars == <<search, view, pending, overtaken, acts>>

-----------------------------------------------------------------------------
TraceId(s) == Read(s, "trace_id", "")
Since(s)   == Read(s, "since", "1h")
Service(s) == Read(s, "service", "")
Page(s)    == pageIndex(Read(s, "page", "1"))
Detail(s)  == TraceId(s) # ""

FilterKey(s) == <<Since(s), Service(s)>>

fetchTraces(since, service, offset) ==
    [to |-> "list", since |-> since, service |-> service, offset |-> offset]

fetchTrace(id, since) == [to |-> "detail", trace |-> id, since |-> since]

Request(s) == IF Detail(s) THEN fetchTrace(TraceId(s), Since(s))
              ELSE fetchTraces(Since(s), Service(s), (Page(s) - 1) * Limit)

\* The address a trace of the list leads to.
useTraceHref(s, id) == Patched(s, [trace_id |-> id, page |-> None], NoDefaults)

-----------------------------------------------------------------------------
NoRows == [req |-> [to |-> "nothing", offset |-> 0], total |-> 0]

Fresh(v, s) == [v EXCEPT !.filterSeen = FilterKey(s), !.shown = NoRows, !.services = {},
                         !.loading = TRUE, !.error = FALSE]

MountView(s) == [filterSeen |-> FilterKey(s), shown |-> NoRows, services |-> {},
                 loading |-> TRUE, error |-> FALSE, draft |-> TraceId(s)]

MountRequests(s) == <<Request(s)>>

Init == /\ search \in TracesLinks
        /\ view = MountView(search)
        /\ pending = Sent(<<>>, MountRequests(search))
        /\ overtaken = {}
        /\ acts = 0

\* Faulty: the effect returns no cleanup.
NoneCancelled == {}

\* Leaving the detail, or asking it for something else, cancels its request.
Cancelled == {"detail"}

\* The address becomes s. List and detail are parts of their own, mounted
\* afresh; the list returns to page 1 when its filters change.
Follow(s) ==
    LET same    == Detail(s) = Detail(search)
        list    == ~ Detail(s)
        reset   == same /\ list /\ FilterKey(s) # view.filterSeen
        settled == IF reset THEN SetState(s, "page", "1", "1") ELSE s
        first   == IF same /\ Request(s) = Request(search) THEN <<>> ELSE <<Request(s)>>
        second  == IF Request(settled) = Request(s) THEN <<>> ELSE <<Request(settled)>>
        loading == first \o second # <<>> \/ view.loading
    IN /\ s # search
       /\ acts < MaxActs
       /\ acts' = acts + 1
       /\ search' = settled
       /\ view' = [(IF ~ same THEN Fresh(view, s)
                    ELSE IF list THEN [view EXCEPT !.filterSeen = FilterKey(s), !.loading = loading]
                    ELSE [view EXCEPT !.loading = loading,
                                      !.error = IF first # <<>> THEN FALSE ELSE @])
                   EXCEPT !.draft = IF TraceId(s) # TraceId(search) THEN TraceId(s) ELSE @]
       /\ Send(first \o second,
               (IF same THEN {} ELSE {"list"}) \cup (IF first = <<>> THEN {} ELSE Cancelled))

ChooseSince == \E r \in Ranges : Follow(SetState(search, "since", "1h", r))

\* The select offers the services of the first unfiltered page, and the one chosen.
ChooseService == \E x \in view.services \cup {"", Service(search)} :
    ~ Detail(search) /\ Follow(SetState(search, "service", "", x))

TypeTrace == \E x \in TraceIds \cup {""} :
    /\ acts < MaxActs /\ acts' = acts + 1
    /\ x # view.draft
    /\ view' = [view EXCEPT !.draft = x]
    /\ UNCHANGED <<search, pending, overtaken>>

\* The form opens the trace and keeps the page of the list.
SubmitTrace == /\ view.draft # ""
               /\ Follow(Patched(search, [trace_id |-> view.draft], NoDefaults))

OpenTrace == \E id \in TraceIds :
    /\ ~ Detail(search) /\ view.shown.total > view.shown.req.offset
    /\ Follow(useTraceHref(search, id))

Back == /\ Detail(search)
        /\ Follow(Patched(search, [trace_id |-> None], NoDefaults))

TurnPage == /\ ~ Detail(search)
            /\ \E n \in PagerTargets(view.shown.total, Limit, Page(search)) :
                 Follow(SetState(search, "page", "1", PageText(n)))

FollowLink == \E s \in TracesLinks : Follow(s)

\* Retry of either part, and, for the list, another language: the load again.
Again == /\ acts < MaxActs /\ acts' = acts + 1
         /\ view' = [view EXCEPT !.loading = TRUE, !.error = IF Detail(search) THEN FALSE ELSE @]
         /\ Send(<<Request(search)>>, Cancelled)
         /\ UNCHANGED search

Retry == view.error /\ Again
Translate == ~ Detail(search) /\ Again

-----------------------------------------------------------------------------
Rows(i, n) ==
    [view EXCEPT !.shown = [req |-> pending[i].req, total |-> n],
                 !.services = IF pending[i].req.service = "" /\ pending[i].req.offset = 0
                              THEN IF n > 0 THEN Services ELSE {}
                              ELSE @,
                 !.loading = FALSE, !.error = FALSE]

ListAnswer(i) == /\ pending[i].req.to = "list"
                 /\ Receive(i)
                 /\ \E n \in Totals : view' = Rows(i, n)

\* A failure of the list keeps its rows, under the error.
ListFailure(i) == /\ pending[i].req.to = "list"
                  /\ Receive(i)
                  /\ view' = [view EXCEPT !.error = TRUE, !.loading = FALSE]

\* The number of spans stands for the rows; a trace without spans has none.
DetailAnswer(i) ==
    /\ pending[i].req.to = "detail"
    /\ Receive(i)
    /\ \E n \in Totals :
         view' = [view EXCEPT !.shown = [req |-> pending[i].req, total |-> n], !.loading = FALSE]

DetailFailure(i) ==
    /\ pending[i].req.to = "detail"
    /\ Receive(i)
    /\ view' = [view EXCEPT !.shown = NoRows, !.error = TRUE, !.loading = FALSE]

Answer == /\ \E i \in DOMAIN pending :
               ListAnswer(i) \/ ListFailure(i) \/ DetailAnswer(i) \/ DetailFailure(i)
          /\ UNCHANGED <<search, acts>>

User == \/ ChooseSince \/ ChooseService \/ TypeTrace \/ SubmitTrace \/ OpenTrace \/ Back
        \/ TurnPage \/ FollowLink \/ Retry \/ Translate

Next == User \/ Answer

Spec == Init /\ [][Next]_vars /\ WF_vars(Answer)

-----------------------------------------------------------------------------
\* What the detail shows.
DetailScreen(v) ==
    CASE v.loading -> "skeleton"
      [] ~ v.loading /\ v.error -> "error"
      [] ~ v.loading /\ ~ v.error /\ v.shown.total = 0 -> "empty"
      [] OTHER -> "spans"

\* Where the rows of the list, the head of the detail and its spans lead.
Links(v, s) ==
    IF Detail(s)
    THEN {To("logs", [trace_id |-> TraceId(s), since |-> Since(s)])}
           \cup IF DetailScreen(v) # "spans" THEN {}
                ELSE {To("logs", [container |-> c, since |-> Since(s)]) : c \in Containers}
    ELSE IF v.shown.total > v.shown.req.offset
         THEN {To("metrics", Only("container", c)) : c \in Containers} ELSE {}

\* A trace on screen is the trace of the address over its range, however the
\* answers to earlier requests are delayed.
DetailIsTheTrace ==
    Detail(search) /\ DetailScreen(view) \in {"empty", "spans"}
        => view.shown.req = Request(search)

=============================================================================
