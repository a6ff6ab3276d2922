------------------------------ MODULE LogsPage ------------------------------
(***************************************************************************)
(* The Logs page: lines or repeated patterns under the filters of the      *)
(* address. Both lists are loaded when their filters change and again on a *)
(* timer; no request is ever cancelled.                                    *)
(***************************************************************************)
EXTENDS Requests

CONSTANTS Texts, TraceIds, Ranges, Levels, Topics, Containers, Groups,
          Limit,        \* rows of one page
          Totals,       \* bound: how many rows the hub may have
          LogsLinks,    \* addresses that links of the panel lead to
          MaxActs       \* bound: acts of the user

VARIABLES search,       \* the query string
          view,         \* the state of the components on screen
          acts          \* acts of the user so far

vars == <<search, view, pending, overtaken, acts>>

-----------------------------------------------------------------------------
\* The filters, read from the address.
Patterns(s)  == Read(s, "mode", "lines") = "patterns"
Query(s)     == Read(s, "q", "")
TraceId(s)   == Read(s, "trace_id", "")
SinceDefault(s) == IF TraceId(s) # "" THEN "24h" ELSE "1h"
Since(s)     == Read(s, "since", SinceDefault(s))
Level(s)     == Read(s, "level", "all")
Topic(s)     == Read(s, "topic", "all")
Container(s) == Read(s, "container", "all")
Group(s)     == Read(s, "group", "")
Page(s)      == pageIndex(Read(s, "page", "1"))

TraceActive(s) == ~ Patterns(s) /\ TraceId(s) # ""

\* A change of the key sends the list back to its first page.
FilterKey(s) ==
    IF Patterns(s) THEN <<"patterns", Since(s), Query(s), Container(s), Group(s)>>
    ELSE <<"lines", Query(s), Since(s), Level(s), Topic(s), Container(s), Group(s), TraceId(s)>>

\* What reaches the hub: blank filters are left out; "all" is no filter where it
\* is one of the choices, but a text like any other where it was typed.
Given(params, choices, texts) ==
    LET absent == {n \in choices : params[n] \in {Blank, "all"}}
                  \cup {n \in texts : params[n] = Blank}
    IN [k \in DOMAIN params \ absent |-> params[k]]

searchLogs(params) == Given(params, {"level", "container", "topic"}, {"q", "group", "trace"})
fetchLogPatterns(params) == Given(params, {"container"}, {"q", "group"})

\* A trace overrules the group, a group the container.
LinesRequest(s) == searchLogs(
    [to |-> "lines", q |-> Query(s), since |-> Since(s), level |-> Level(s),
     topic |-> Topic(s), trace |-> TraceId(s),
     container |-> IF TraceId(s) # "" \/ Group(s) # "" THEN "all" ELSE Container(s),
     group |-> IF TraceId(s) # "" THEN "" ELSE Group(s),
     offset |-> (Page(s) - 1) * Limit])

PatternsRequest(s) == fetchLogPatterns(
    [to |-> "patterns", since |-> Since(s), q |-> Query(s),
     container |-> Container(s), group |-> Group(s)])

Request(s) == IF Patterns(s) THEN PatternsRequest(s) ELSE LinesRequest(s)

\* Faulty: the load does not depend on the page.
FiltersOnly(s) == FilterKey(s)

\* load is a new function, and runs at once, when one of these changes.
LoadDeps(s) == <<FilterKey(s), IF Patterns(s) THEN 0 ELSE Page(s)>>

-----------------------------------------------------------------------------
NoRows == [req |-> [to |-> "nothing"], total |-> 0]

FreshList(v, s) == [v EXCEPT !.filterSeen = FilterKey(s), !.shown = NoRows,
                             !.loading = TRUE, !.error = FALSE]

MountView(s) ==
    [filterSeen |-> FilterKey(s), shown |-> NoRows, loading |-> TRUE, error |-> FALSE,
     queryDraft |-> Query(s), traceDraft |-> TraceId(s),
     containers |-> {}, groups |-> {}, groupsFailed |-> FALSE]

MountRequests(s) == <<[to |-> "workloads"], [to |-> "groups"], Request(s)>>

Init == /\ search \in LogsLinks
        /\ view = MountView(search)
        /\ pending = Sent(<<>>, MountRequests(search))
        /\ overtaken = {}
        /\ acts = 0

\* The address becomes s: drafts follow the address, the list of the other
\* mode leaves the screen, a changed key sends its list to page 1, and the
\* load runs for each address on the way.
Follow(s) ==
    LET same    == Patterns(s) = Patterns(search)
        reset   == same /\ FilterKey(s) # view.filterSeen
        settled == IF reset THEN SetState(s, "page", "1", "1") ELSE s
        first   == IF same /\ LoadDeps(s) = LoadDeps(search) THEN <<>> ELSE <<Request(s)>>
        second  == IF LoadDeps(settled) = LoadDeps(s) THEN <<>> ELSE <<Request(settled)>>
        list    == IF same THEN [view EXCEPT !.filterSeen = FilterKey(s)] ELSE FreshList(view, s)
    IN /\ s # search
       /\ acts < MaxActs
       /\ acts' = acts + 1
       /\ search' = settled
       /\ view' = [list EXCEPT
                    !.queryDraft = IF Query(s) # Query(search) THEN Query(s) ELSE @,
                    !.traceDraft = IF TraceId(s) # TraceId(search) THEN TraceId(s) ELSE @]
       /\ Send(first \o second, IF same THEN {} ELSE {"lines", "patterns"})

ChooseGroup == \E g \in view.groups \cup {""} :
    /\ ~ TraceActive(search)
    /\ g # Group(search)
    /\ Follow(Patched(search,
                [group |-> g, container |-> IF g # "" THEN None ELSE Container(search)],
                NoDefaults))

ChooseContainer == \E c \in view.containers \cup {"all"} :
    /\ ~ TraceActive(search) /\ Group(search) = ""
    /\ Follow(SetState(search, "container", "all", c))

ChooseSince == \E r \in Ranges : Follow(SetState(search, "since", SinceDefault(search), r))

ChooseMode == \E m \in {"lines", "patterns"} :
    /\ Patterns(search) # (m = "patterns")
    /\ Follow(Patched(search, [mode |-> m, page |-> None], [mode |-> "lines"]))

ChooseLevel == \E l \in Levels \cup {"all"} :
    /\ ~ Patterns(search)
    /\ Follow(SetState(search, "level", "all", l))

ChooseTopic == \E k \in Topics \cup {"all"} :
    /\ ~ Patterns(search)
    /\ Follow(SetState(search, "topic", "all", k))

Type(field, x) == /\ acts < MaxActs
                  /\ acts' = acts + 1
                  /\ view[field] # x
                  /\ view' = [view EXCEPT ![field] = x]
                  /\ UNCHANGED <<search, pending, overtaken>>

TypeQuery == \E x \in Texts \cup {""} : Type("queryDraft", x)
TypeTrace == \E x \in TraceIds \cup {""} : ~ Patterns(search) /\ Type("traceDraft", x)

SubmitQuery == Follow(Patched(search, [q |-> view.queryDraft], NoDefaults))

\* A trace is looked for in a day unless another range was chosen.
SubmitTrace ==
    LET wide == view.traceDraft # "" /\ Since(search) = "1h"
    IN /\ ~ Patterns(search)
       /\ Follow(Patched(search,
                    [trace_id |-> view.traceDraft,
                     since |-> IF wide THEN "24h" ELSE Since(search)],
                    [since |-> "1h"]))

ClearTrace == /\ TraceActive(search)
              /\ Follow(Patched(search, [trace_id |-> None], NoDefaults))

\* A pattern opens the lines it was made of.
OpenLines == \E x \in Texts, c \in Containers :
    /\ Patterns(search) /\ ~ view.error /\ view.shown.total > 0
    /\ Follow(Patched(search, [mode |-> None, q |-> x, container |-> c, group |-> None],
                      NoDefaults))

\* The pager of the lines counts from the last answer; the patterns are held
\* whole, and their pager counts from the page that is really cut.
TurnPage ==
    LET page == IF Patterns(search)
                THEN Lesser(Page(search), Pages(view.shown.total, Limit))
                ELSE Page(search)
    IN /\ Patterns(search) => ~ view.error /\ view.shown.total > 0
       /\ \E n \in PagerTargets(view.shown.total, Limit, page) :
            Follow(SetState(search, "page", "1", PageText(n)))

FollowLink == \E s \in LogsLinks : Follow(s)

-----------------------------------------------------------------------------
\* Faulty: the timer ends with the first answer.
PollWhileLoading == /\ view.loading
                    /\ Send(<<Request(search)>>, {})
                    /\ UNCHANGED <<search, view, acts>>

Poll == /\ Send(<<Request(search)>>, {})
        /\ UNCHANGED <<search, view, acts>>

Retry == view.error /\ acts < MaxActs /\ acts' = acts + 1
         /\ Send(<<Request(search)>>, {}) /\ UNCHANGED <<search, view>>

\* Another language makes another load, which runs at once.
Translate == acts < MaxActs /\ acts' = acts + 1
             /\ Send(<<Request(search)>>, {}) /\ UNCHANGED <<search, view>>

ListAnswer(i) == \E n \in Totals :
    /\ pending[i].req.to \in {"lines", "patterns"}
    /\ Receive(i)
    /\ view' = [view EXCEPT !.shown = [req |-> pending[i].req, total |-> n],
                            !.error = FALSE, !.loading = FALSE]

\* A failure empties the lines and keeps the patterns.
ListFailure(i) ==
    /\ pending[i].req.to \in {"lines", "patterns"}
    /\ Receive(i)
    /\ view' = [view EXCEPT !.shown = IF pending[i].req.to = "lines" THEN NoRows ELSE @,
                            !.error = TRUE, !.loading = FALSE]

OptionsAnswer(i) ==
    /\ Receive(i)
    /\ \/ /\ pending[i].req.to = "workloads"
          /\ \E cs \in {{}, Containers} : view' = [view EXCEPT !.containers = cs]
       \/ /\ pending[i].req.to = "groups"
          /\ \/ view' = [view EXCEPT !.groups = Groups, !.groupsFailed = FALSE]
             \/ view' = [view EXCEPT !.groups = {}, !.groupsFailed = TRUE]

Answer == /\ \E i \in DOMAIN pending : ListAnswer(i) \/ ListFailure(i) \/ OptionsAnswer(i)
          /\ UNCHANGED <<search, acts>>

User == \/ ChooseGroup \/ ChooseContainer \/ ChooseSince \/ ChooseMode \/ ChooseLevel
        \/ ChooseTopic \/ TypeQuery \/ TypeTrace \/ SubmitQuery \/ SubmitTrace
        \/ ClearTrace \/ OpenLines \/ TurnPage \/ FollowLink \/ Retry \/ Translate

Next == User \/ Poll \/ Answer

Spec == Init /\ [][Next]_vars /\ WF_vars(Poll) /\ WF_vars(Answer)

-----------------------------------------------------------------------------
\* How many rows of the answer the table holds, and what stands in its place.
Entries(shown) ==
    IF shown.req.to = "lines"
    THEN Greater(0, Lesser(Limit, shown.total - shown.req.offset))
    ELSE shown.total

Screen(v) == IF v.loading /\ Entries(v.shown) = 0 THEN "skeleton"
             ELSE IF v.shown.req.to = "patterns" /\ v.error THEN "error"
             ELSE IF Entries(v.shown) = 0 THEN "empty" ELSE "rows"

\* Where the rows, and the banner of a trace, lead.
Links(v, s) ==
    LET rows == IF Screen(v) # "rows" THEN {}
                ELSE {To("metrics", Only("container", c)) : c \in Containers}
                       \cup IF Patterns(s) THEN {}
                            ELSE {To("traces", [trace_id |-> x, since |-> Since(s)]) :
                                     x \in TraceIds}
    IN rows \cup {To("traces", [trace_id |-> x, since |-> Since(s)]) :
                     x \in IF TraceActive(s) THEN {TraceId(s)} ELSE {}}

\* Rows on screen belong to the filters and the page of the address.
RowsBelong == Screen(view) = "rows" => view.shown.req = Request(search)

=============================================================================
