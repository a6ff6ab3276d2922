--------------------------- MODULE ContainersPage ---------------------------
(***************************************************************************)
(* The Containers page without its groups sheet: the workloads and the     *)
(* fleet status, loaded together and on a timer, cut down to the members   *)
(* of the selected group, which are asked for once, when the group is      *)
(* selected.                                                               *)
(***************************************************************************)
EXTENDS Requests, ContainerState

CONSTANTS Ranges,
          NameOf,           \* the names of the containers, by which the fleet is listed
          MembersOf,        \* external: the containers of each group
          Snapshots,        \* bound: what the hub may know of the containers
          TableSize,        \* rows of one page of the table
          GridLimit,        \* cards of the grid
          TopLimit,         \* series of the stacked chart
          ContainersLinks,  \* addresses that links of the panel lead to
          MaxActs           \* bound: acts of the user

VARIABLES search, view, acts,
          hub               \* the saved groups: the hub's side of the sheet

vars == <<search, view, pending, overtaken, acts, hub>>

-----------------------------------------------------------------------------
Grid(s)     == Read(s, "view", "grid") = "grid"
Group(s)    == Read(s, "group", "")
Sheet(s)    == Read(s, "panel", "") = "groups"
Filter(s)   == Read(s, "filter", "")
Since(s)    == Read(s, "since", "1h")
Page(s)     == pageIndex(Read(s, "page", "1"))

FilterKey(s) == <<Group(s), Filter(s)>>

\* The four calls are one request: all of them succeed or none is used. The
\* table asks for no series, so that its answer does not depend on the range.
LoadDeps(s)    == <<Since(s), Grid(s)>>
LoadRequest(s) == [to |-> "load", since |-> Since(s), series |-> Grid(s)]
GroupsRequest  == [to |-> "groups", read |-> FALSE, list |-> {}]
SummaryRequest(g) == [to |-> "summary", group |-> g]
DiscoverRequest   == [to |-> "discover"]

NoStatus == [c \in {} |-> 0]
Nothing  == [req |-> [to |-> "nothing"], cpu |-> NoStatus, status |-> NoStatus]

\* Which members cut the rows down: those of no group are all containers; a
\* summary that failed counts as a group without members.
Everyone == [of |-> "", failed |-> FALSE]

\* Effects of the first render.
MountView(s) ==
    [filterSeen |-> FilterKey(s), shown |-> Nothing, loading |-> TRUE, error |-> FALSE,
     members |-> Everyone, groups |-> {}, groupsFailed |-> FALSE,
     discovered |-> {}, name |-> "", selected |-> {}, sheetError |-> FALSE]

MountRequests(s) ==
    <<LoadRequest(s), GroupsRequest>>
        \o (IF Group(s) = "" THEN <<>> ELSE <<SummaryRequest(Group(s))>>)
        \o (IF Sheet(s) THEN <<DiscoverRequest>> ELSE <<>>)

\* The address becomes s. The summary of the new group is asked for while the
\* members of the old one stay; without a group everyone is shown at once.
Follow(s) ==
    LET settled  == IF FilterKey(s) # view.filterSeen THEN SetState(s, "page", "1", "1") ELSE s
        regroup  == Group(s) # Group(search)
        asked    == (IF LoadDeps(s) = LoadDeps(search) THEN <<>> ELSE <<LoadRequest(s)>>)
                    \o (IF regroup /\ Group(s) # "" THEN <<SummaryRequest(Group(s))>> ELSE <<>>)
                    \o (IF Sheet(s) /\ ~ Sheet(search) THEN <<DiscoverRequest>> ELSE <<>>)
        cleared  == regroup /\ Group(s) = ""
        queue    == IF cleared THEN Outdated(pending, "summary") ELSE pending
    IN /\ s # search
       /\ acts < MaxActs
       /\ acts' = acts + 1
       /\ search' = settled
       /\ view' = [view EXCEPT !.filterSeen = FilterKey(s),
                               !.members = IF cleared THEN Everyone ELSE @]
       /\ pending' = Sent(queue, asked)
       /\ Len(pending') <= MaxPending
       /\ overtaken' = IF cleared THEN overtaken \ {"summary"} ELSE overtaken
       /\ UNCHANGED hub

-----------------------------------------------------------------------------
\* The containers that have a workload; the others of the page have a status only.
Measured(v) == DOMAIN v.shown.cpu

Troubled(v) == {c \in DOMAIN v.shown.status : isUnstable(v.shown.status[c])}

Member(v, c) == v.members.of = "" \/ (~ v.members.failed /\ c \in MembersOf[v.members.of])

\* The containers on the page: those of the group, and of the filter.
Listed(v, s) == {c \in Measured(v) \cup DOMAIN v.shown.status :
                    Member(v, c) /\ (Filter(s) = "unstable" => c \in Troubled(v))}

Row(v, c) == [container |-> c, workload |-> c \in Measured(v), unstable |-> c \in Troubled(v)]

\* The load of the last answer; a status alone says nothing of it.
Load(v, c) == IF c \in Measured(v) THEN v.shown.cpu[c] ELSE 0

\* The order of the answers: the workloads, here by name, then the other containers.
ListedBefore(v, c, d) == IF c \in Measured(v) <=> d \in Measured(v) THEN c < d
                         ELSE c \in Measured(v)

Busier(v, c, d) == Load(v, c) > Load(v, d)

\* The order of the rows: trouble first, then load.
Before(v, c, d) ==
    \/ c \in Troubled(v) /\ d \notin Troubled(v)
    \/ /\ c \in Troubled(v) <=> d \in Troubled(v)
       /\ Busier(v, c, d) \/ (Load(v, c) = Load(v, d) /\ ListedBefore(v, c, d))

\* The row a container has is told by how many do not come after it.
NotAfter(v, all, c) == {d \in all : ~ Before(v, c, d)}

Rows(v, s) ==
    LET all == Listed(v, s) IN
    [n \in 1 .. Cardinality(all) |->
        Row(v, CHOOSE c \in all : Cardinality(NotAfter(v, all, c)) = n)]

WithWorkload(v, s) == SelectSeq(Rows(v, s), LAMBDA r : r.workload)

GridRows(v, s) ==
    LET all == WithWorkload(v, s) IN SubSeq(all, 1, Lesser(GridLimit, Len(all)))

\* The busiest of the rows, as many as the chart has room for.
StackedCpu(v, s) ==
    LET charted == {r.container : r \in ToSet(WithWorkload(v, s))}
        ahead(c) == {d \in charted : \/ Busier(v, d, c)
                                     \/ Load(v, d) = Load(v, c) /\ Before(v, d, c)}
    IN {c \in charted : Cardinality(ahead(c)) < TopLimit}

TablePage(v, s) == pageSlice(Rows(v, s), Page(s), TableSize)

Unstable(v, s) == {r \in ToSet(Rows(v, s)) : r.unstable}

\* Where the cards or the rows of the table lead.
Links(v, s) ==
    LET onScreen == IF Grid(s) THEN ToSet(GridRows(v, s)) ELSE ToSet(TablePage(v, s).rows)
    IN {To(page, Only("container", NameOf[r.container])) :
           page \in {"metrics", "logs"}, r \in onScreen}

-----------------------------------------------------------------------------
\* The sheet is modal: while it is open the page behind takes no clicks.
Free == ~ Sheet(search)

ChooseGroup == \E g \in {x.id : x \in view.groups} \cup {""} :
    Free /\ Follow(SetState(search, "group", "", g))

ChooseSince == \E r \in Ranges : Free /\ Follow(SetState(search, "since", "1h", r))

OpenSheet == Free /\ Follow(SetState(search, "panel", "", "groups"))

ChooseView == \E w \in {"grid", "table"} : Free /\ Follow(SetState(search, "view", "grid", w))

\* The count of containers in trouble leads to them.
SeeThose ==
    /\ Free /\ ~ view.loading
    /\ Unstable(view, search) # {} /\ Filter(search) # "unstable"
    /\ Follow(IF Group(search) = "" THEN [filter |-> "unstable", view |-> "table"]
              ELSE [filter |-> "unstable", view |-> "table", group |-> Group(search)])

ShowAll == /\ Free /\ Filter(search) = "unstable"
           /\ Follow(SetState(search, "filter", "", ""))

SeeAllInTable == /\ Free /\ Grid(search)
                 /\ Len(WithWorkload(view, search)) > Len(GridRows(view, search))
                 /\ Follow(SetState(search, "view", "grid", "table"))

TurnPage == /\ Free /\ ~ Grid(search)
            /\ LET cut == TablePage(view, search) IN
               \E n \in PagerTargets(cut.total, TableSize, cut.page) :
                  Follow(SetState(search, "page", "1", PageText(n)))

FollowLink == \E s \in ContainersLinks : Free /\ Follow(s)

Poll == /\ Send(<<LoadRequest(search)>>, {})
        /\ UNCHANGED <<search, view, acts, hub>>

Reload == /\ acts < MaxActs /\ acts' = acts + 1
          /\ Send(<<LoadRequest(search)>>, {})
          /\ UNCHANGED <<search, view, hub>>

Retry == Free /\ view.error /\ Reload
Translate == Free /\ Reload

LoadAnswer(i) ==
    /\ pending[i].req.to = "load"
    /\ Receive(i)
    /\ \/ \E x \in Snapshots :
            view' = [view EXCEPT !.shown = [req |-> pending[i].req, cpu |-> x.cpu,
                                            status |-> x.status],
                                 !.error = FALSE, !.loading = FALSE]
       \/ view' = [view EXCEPT !.error = TRUE, !.loading = FALSE]

\* Faulty: a summary that fails leaves the members as they were.
SummaryIgnored(i) ==
    /\ pending[i].req.to = "summary"
    /\ Receive(i)
    /\ \/ /\ pending[i].req.group \in {x.id : x \in hub.saved}
          /\ view' = [view EXCEPT !.members = [of |-> pending[i].req.group, failed |-> FALSE]]
       \/ UNCHANGED view

\* The hub answers for the groups it has; any other is not found.
SummaryAnswer(i) ==
    /\ pending[i].req.to = "summary"
    /\ Receive(i)
    /\ LET g == pending[i].req.group IN
       \/ /\ g \in {x.id : x \in hub.saved}
          /\ view' = [view EXCEPT !.members = [of |-> g, failed |-> FALSE]]
       \/ view' = [view EXCEPT !.members = [of |-> g, failed |-> TRUE]]

PageAnswer == /\ \E i \in DOMAIN pending : LoadAnswer(i) \/ SummaryAnswer(i)
              /\ UNCHANGED <<search, acts, hub>>

PageUser == \/ ChooseGroup \/ ChooseSince \/ OpenSheet \/ ChooseView \/ SeeThose \/ ShowAll
            \/ SeeAllInTable \/ TurnPage \/ FollowLink \/ Retry \/ Translate

-----------------------------------------------------------------------------
\* docs/flows/ui-panel.md: "A selected group (`group`) filters the grid by the
\* summary". Nothing asks for the members again, so that a summary answered
\* after a newer one, or after the group was let go, stays.
SelectedGroupFilters == ~ Waiting("summary") => view.members.of = Group(search)

\* The same, except for such a summary.
GroupFiltersUnlessOvertaken == SelectedGroupFilters \/ "summary" \in overtaken

\* Every container on the page has one row, those in trouble first and the busiest
\* before the others. The pages of the table follow one another from the first row
\* to the last, say which rows they show, and the address always leads to one of
\* them: no page beyond the last is empty while there are rows.
TablePagesAreTheRows ==
    LET rows    == Rows(view, search)
        last    == Pages(Len(rows), TableSize)
        page(n) == pageSlice(rows, n, TableSize)
    IN /\ {rows[i].container : i \in DOMAIN rows} = Listed(view, search)
       /\ \A i, j \in DOMAIN rows : i < j =>
             \/ rows[i].unstable /\ ~ rows[j].unstable
             \/ /\ rows[i].unstable = rows[j].unstable
                /\ rows[i].container # rows[j].container
                /\ Load(view, rows[i].container) >= Load(view, rows[j].container)
       /\ rows # <<>> =>
             /\ page(1).start = 1 /\ page(last).end = Len(rows)
             /\ \A n \in 1 .. last - 1 : page(n + 1).start = page(n).end + 1
             /\ \A n \in 1 .. last : /\ page(n).rows # <<>>
                                     /\ page(n).rows = SubSeq(rows, page(n).start, page(n).end)
             /\ \E n \in 1 .. last : TablePage(view, search) = page(n)

=============================================================================
