----------------------------- MODULE GroupsPanel ----------------------------
(***************************************************************************)
(* The Containers page with its sheet of groups. The sheet writes to the   *)
(* hub and then loads the list of groups and the suggestions again. The    *)
(* hub performs a call before it answers; the answer may be lost.          *)
(***************************************************************************)
EXTENDS ContainersPage

CONSTANTS Keys,             \* kinds and labels the hub can suggest groups for
          GroupIds          \* bound: identifiers the hub may still give, a sequence

KeyOf(g) == g.key
GroupList == {[id |-> x.id, key |-> x.key] : x \in hub.saved}

Init == /\ search \in ContainersLinks
        /\ view = MountView(search)
        /\ pending = Sent(<<>>, MountRequests(search))
        /\ overtaken = {}
        /\ acts = 0
        /\ hub = [saved |-> {[id |-> GroupIds[1], key |-> "stack"]}, given |-> 1]

\* Suggestions already saved are not offered.
Suggestions == view.discovered \ {KeyOf(g) : g \in view.groups}

Act == acts < MaxActs /\ acts' = acts + 1

Call(req) == Send(<<req>>, {}) /\ UNCHANGED <<search, view, hub>>

CreateRequest(key, custom) == [to |-> "create", key |-> key, custom |-> custom, done |-> FALSE]

CloseSheet == Sheet(search) /\ Follow(SetState(search, "panel", "", ""))

SelectGroup == \E g \in view.groups :
    Sheet(search) /\ Follow(SetState(search, "group", "", g.id))

\* The button stays enabled while its call is in flight.
ImportDiscovered == \E k \in Suggestions :
    Sheet(search) /\ Act /\ Call(CreateRequest(k, FALSE))

TypeName == \E n \in {"", "name"} :
    /\ Sheet(search) /\ view.name # n
    /\ view' = [view EXCEPT !.name = n]
    /\ UNCHANGED <<search, acts, pending, overtaken, hub>>

ToggleContainer == \E c \in Measured(view) :
    /\ Sheet(search)
    /\ view' = [view EXCEPT !.selected = IF c \in @ THEN @ \ {c} ELSE @ \cup {c}]
    /\ UNCHANGED <<search, acts, pending, overtaken, hub>>

SaveCustomGroup ==
    /\ Sheet(search) /\ view.name # "" /\ view.selected # {}
    /\ Act /\ Call(CreateRequest("custom", TRUE))

\* The selected group is let go before the hub is asked to delete it.
RemoveGroup == \E g \in view.groups :
    LET active == Group(search) = g.id
        call   == [to |-> "delete", id |-> g.id, done |-> FALSE]
        cleared == IF active THEN Outdated(pending, "summary") ELSE pending
        settled == IF active
                   THEN SetState(SetState(search, "group", "", ""), "page", "1", "1")
                   ELSE search
    IN /\ Sheet(search) /\ Act
       /\ search' = settled
       /\ view' = [view EXCEPT !.filterSeen = FilterKey(settled),
                               !.members = IF active THEN Everyone ELSE @]
       /\ pending' = Sent(cleared, <<call>>)
       /\ Len(pending') <= MaxPending
       /\ overtaken' = IF active THEN overtaken \ {"summary"} ELSE overtaken
       /\ UNCHANGED hub

-----------------------------------------------------------------------------
\* The hub's side: a call is performed, or the list read, at one moment.
Performed(req) ==
    CASE req.to = "create" -> [saved |-> hub.saved \cup {[id |-> GroupIds[hub.given + 1],
                                                          key |-> req.key]},
                               given |-> hub.given + 1]
      [] req.to = "delete" -> [hub EXCEPT !.saved = {x \in @ : x.id # req.id}]

HubPerforms == \E i \in DOMAIN pending :
    /\ pending[i].req.to \in {"create", "delete"} /\ ~ pending[i].req.done
    /\ pending[i].req.to = "create" => hub.given < Len(GroupIds)
    /\ hub' = Performed(pending[i].req)
    /\ pending' = [pending EXCEPT ![i].req.done = TRUE]
    /\ UNCHANGED <<search, view, acts, overtaken>>

HubReads == \E i \in DOMAIN pending :
    /\ pending[i].req.to = "groups" /\ ~ pending[i].req.read
    /\ pending' = [pending EXCEPT ![i].req.read = TRUE, ![i].req.list = GroupList]
    /\ UNCHANGED <<search, view, acts, hub, overtaken>>

\* Faulty: the list is not loaded after a write.
CallDone(i) ==
    /\ pending[i].req.to \in {"create", "delete"} /\ pending[i].req.done
    /\ pending' = Sent(AfterAnswer(i), <<DiscoverRequest>>)
    /\ view' = [view EXCEPT !.sheetError = FALSE]
    /\ UNCHANGED overtaken

\* The form of a new group is emptied once it is saved; an import leaves it alone.
MakesCustom(req) == req.to = "create" /\ req.custom

\* What a call that succeeded does next: the list and the suggestions again.
CallAnswer(i) ==
    /\ pending[i].req.to \in {"create", "delete"} /\ pending[i].req.done
    /\ pending' = Sent(AfterAnswer(i), <<GroupsRequest, DiscoverRequest>>)
    /\ view' = [view EXCEPT !.sheetError = FALSE,
                    !.name = IF MakesCustom(pending[i].req) THEN "" ELSE @,
                    !.selected = IF MakesCustom(pending[i].req) THEN {} ELSE @]
    /\ UNCHANGED overtaken

\* The call or its answer is lost, or the hub refuses; nothing is loaded.
CallFailure(i) ==
    /\ pending[i].req.to \in {"create", "delete"}
    /\ pending' = AfterAnswer(i)
    /\ view' = [view EXCEPT !.sheetError = TRUE]
    /\ UNCHANGED overtaken

GroupsAnswer(i) ==
    /\ pending[i].req.to = "groups"
    /\ Receive(i)
    /\ \/ /\ pending[i].req.read
          /\ view' = [view EXCEPT !.groups = pending[i].req.list, !.groupsFailed = FALSE]
       \/ view' = [view EXCEPT !.groups = {}, !.groupsFailed = TRUE]

DiscoverAnswer(i) ==
    /\ pending[i].req.to = "discover"
    /\ Receive(i)
    /\ \E ks \in {{}, Keys} : view' = [view EXCEPT !.discovered = ks]

SheetAnswer == /\ \E i \in DOMAIN pending :
                    CallAnswer(i) \/ CallFailure(i) \/ GroupsAnswer(i) \/ DiscoverAnswer(i)
               /\ UNCHANGED <<search, acts, hub>>

Answer == PageAnswer \/ SheetAnswer

User == \/ PageUser \/ CloseSheet \/ SelectGroup \/ ImportDiscovered \/ TypeName
        \/ ToggleContainer \/ SaveCustomGroup \/ RemoveGroup

Next == User \/ Poll \/ HubPerforms \/ HubReads \/ Answer

Spec == Init /\ [][Next]_vars /\ WF_vars(Poll) /\ WF_vars(Answer) /\ WF_vars(HubReads)

-----------------------------------------------------------------------------
AnyWaiting(kinds) == \E k \in kinds : Waiting(k)

\* Each write that succeeds loads the list after it: once the sheet's calls are
\* answered the list is what the hub holds.  Three cases are not covered: a call
\* failed (sheetError, shown), the list could not be loaded and was emptied
\* (groupsFailed, shown by nothing), and an older list came last (the same).
ListIsSaved ==
    ~ AnyWaiting({"create", "delete", "groups"})
        => \/ view.groups = GroupList
           \/ view.sheetError \/ view.groupsFailed \/ "groups" \in overtaken

=============================================================================
