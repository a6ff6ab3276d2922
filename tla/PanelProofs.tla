---------------------------- MODULE PanelProofs -----------------------------
(***************************************************************************)
(* What the panel promises, proved for any values of its constants and any *)
(* number of requests in flight: the address and its pages, the screen of  *)
(* each page while requests are answered in any order, and what navigation *)
(* leaves behind.                                                          *)
(***************************************************************************)
EXTENDS PanelQueueProofs, WellFoundedInduction

-----------------------------------------------------------------------------
\* A patch says all there is to say of its own names: a default, a blank and a
\* null leave the query string, whatever it held before, and names that the
\* patch does not speak of keep their text (use-query-state.ts:6-27).
THEOREM PatchDecides ==
    ASSUME NEW s, NEW patch, NEW defaults, NEW k
    PROVE  LET t == Patched(s, patch, defaults) IN
           /\ k \notin DOMAIN patch =>
                (k \in DOMAIN t <=> k \in DOMAIN s) /\ (k \in DOMAIN s => t[k] = s[k])
           /\ k \in DOMAIN patch =>
                (k \in DOMAIN t <=> /\ patch[k] # None /\ patch[k] # Blank
                                    /\ k \in DOMAIN defaults => patch[k] # defaults[k])
           /\ k \in DOMAIN patch /\ k \in DOMAIN t => t[k] = patch[k]
BY DEF Patched

\* What is set by name and read with the same fallback is what was set: a value
\* equal to the fallback leaves the query string and is read from the fallback.
\* The blank text is the exception: it is read as the fallback too.
THEOREM SetIsRead ==
    ASSUME NEW s, NEW key, NEW fallback, NEW value, value # None, value # Blank
    PROVE  Read(SetState(s, key, fallback, value), key, fallback) = value
<1>1. DOMAIN Only(key, value) = {key} /\ Only(key, value)[key] = value
  BY DEF Only
<1>2. DOMAIN Only(key, fallback) = {key} /\ Only(key, fallback)[key] = fallback
  BY DEF Only
<1> DEFINE t == Patched(s, Only(key, value), Only(key, fallback))
<1>3. key \in DOMAIN t <=> value # fallback
  BY <1>1, <1>2, PatchDecides
<1>4. key \in DOMAIN t => t[key] = value
  BY <1>1, PatchDecides
<1> QED BY <1>3, <1>4 DEF Read, SetState

-----------------------------------------------------------------------------
LEMMA ProductGrows ==
    ASSUME NEW a \in Nat, NEW b \in Nat, NEW c \in Nat, a <= b
    PROVE  a * c <= b * c
<1>1. PICK d \in Nat : b = a + d
  <2>1. b - a \in Nat /\ b = a + (b - a)
    OBVIOUS
  <2> QED BY <2>1
<1>2. b * c = a * c + d * c /\ d * c \in Nat /\ a * c \in Nat
  BY <1>1
<1> QED BY <1>2

\* The number of pages is enough for the last row and not one too many.
LEMMA PagesBound ==
    ASSUME NEW total \in Nat, NEW size \in Nat \ {0}
    PROVE  /\ Pages(total, size) \in Nat \ {0}
           /\ total # 0 => (Pages(total, size) - 1) * size < total
           /\ total <= Pages(total, size) * size
<1> DEFINE q == (total + size - 1) \div size
<1>1. q \in Nat /\ q * size <= total + size - 1 /\ total + size - 1 < q * size + size
  OBVIOUS
<1>2. CASE q = 0
  <2>1. total < 1
    BY <1>1, <1>2
  <2>2. Pages(total, size) = 1
    BY <1>2 DEF Pages, Greater
  <2> QED BY <2>1, <2>2
<1>3. CASE q # 0
  <2>1. Pages(total, size) = q
    BY <1>1, <1>3 DEF Pages, Greater
  <2>2. (q - 1) * size = q * size - size
    BY <1>1
  <2> QED BY <1>1, <1>3, <2>1, <2>2
<1> QED BY <1>1, <1>2, <1>3

\* Any page number an address may hold is cut to a page that exists, and while
\* there are rows at all that page has some (page.ts:17-30).
THEOREM PageShowsRows ==
    ASSUME NEW total \in Nat, NEW size \in Nat \ {0}, NEW page \in Int
    PROVE  LET safe == Lesser(Greater(page, 1), Pages(total, size)) IN
           /\ safe \in 1 .. Pages(total, size)
           /\ total # 0 => (safe - 1) * size < total
<1> DEFINE n == Pages(total, size)
           safe == Lesser(Greater(page, 1), n)
<1>1. n \in Nat \ {0} /\ (total # 0 => (n - 1) * size < total)
  BY PagesBound
<1>2. safe \in 1 .. n
  BY <1>1 DEF Lesser, Greater
<1>3. (safe - 1) * size <= (n - 1) * size
  <2> HIDE DEF n, safe
  <2>1. safe - 1 \in Nat /\ n - 1 \in Nat /\ size \in Nat /\ safe - 1 <= n - 1
    BY <1>1, <1>2
  <2> QED BY <2>1, ProductGrows
<1>4. (safe - 1) * size \in Int /\ (n - 1) * size \in Int
  <2> HIDE DEF n, safe
  <2> QED BY <1>1, <1>2
<1>5. total # 0 => (safe - 1) * size < total
  <2> HIDE DEF n, safe
  <2> QED BY <1>1, <1>3, <1>4
<1> QED BY <1>2, <1>5

-----------------------------------------------------------------------------
\* The page's invariant and the lemmas about its steps.
T == INSTANCE TopologyProofs
     WITH MaxActs <- Acts.topology, pending <- loads, TopologyLinks <- LinksTo.topology

GenerationsInv == route = "topology" => T!IInv

-----------------------------------------------------------------------------
\* The page of the panel and the page the lemmas are about are one page.
LEMMA SameRead == \A s, k, d : T!Read(s, k, d) = Topology!Read(s, k, d)
BY DEF T!Read, Topology!Read

LEMMA SameSince == \A s : T!Since(s) = Topology!Since(s)
BY SameRead DEF T!Since, Topology!Since

LEMMA SameLoad == \A s : Topology!Load(s) => T!Load(s)
BY SameSince DEF T!Load, Topology!Load, T!LoadRequests, Topology!LoadRequests,
                 T!Kinds, Topology!Kinds, T!Signals, Topology!Signals

LEMMA SameFollow == ASSUME NEW s, Topology!Follow(s) PROVE T!Follow(s)
BY SameSince, SameLoad DEF T!Follow, Topology!Follow, T!Act, Topology!Act

LEMMA SameAnswer == Topology!Answer => T!Answer
BY DEF T!Answer, Topology!Answer, T!GraphAnswer, Topology!GraphAnswer,
       T!GraphFailure, Topology!GraphFailure, T!SignalAnswer, Topology!SignalAnswer,
       T!Current, Topology!Current, T!Signals, Topology!Signals, T!Answers, Topology!Answers

LEMMA SameProperties ==
    /\ T!GraphAnnounced => Topology!GraphAnnounced
    /\ T!SignalsOfTheRange => Topology!SignalsOfTheRange
BY SameSince DEF T!GraphAnnounced, Topology!GraphAnnounced,
   T!SignalsOfTheRange, Topology!SignalsOfTheRange, T!Waiting, Topology!Waiting,
   T!Current, Topology!Current, T!Signals, Topology!Signals

LEMMA SameMount ==
    ASSUME view = Topology!MountView(search), loads = Topology!MountRequests(search)
    PROVE  T!IInv
<1>1. view = T!MountView(search)
  BY DEF T!MountView, Topology!MountView, T!NoGraph, Topology!NoGraph,
         T!NoSignal, Topology!NoSignal, T!Signals, Topology!Signals
<1>2. loads = T!MountRequests(search)
  BY SameSince DEF T!MountRequests, Topology!MountRequests, T!LoadRequests,
         Topology!LoadRequests, T!Kinds, Topology!Kinds, T!Signals, Topology!Signals
<1> QED BY <1>1, <1>2, T!MountHolds

LEMMA NextMount ==
    (view = Topology!MountView(search) /\ loads = Topology!MountRequests(search) => T!IInv)'
<1>1. view = Topology!MountView(search) /\ loads = Topology!MountRequests(search) => T!IInv
  BY SameMount
<1> QED BY <1>1, PTL

-----------------------------------------------------------------------------
\* What comes on screen, at the start and by a navigation.
LEMMA MountedTopology ==
    ASSUME NEW s PROVE Mounted("topology", s).view = Topology!MountView(s)
BY DEF Mounted

LEMMA GenerationsInit == Init => GenerationsInv
<1> SUFFICES ASSUME Init, route = "topology" PROVE T!IInv
  BY DEF GenerationsInv
<1>1. PICK l \in Opened : /\ route = l.to /\ search = l.search
                          /\ view = Mounted(l.to, l.search).view
                          /\ Mount(l, pending, loads)
  BY DEF Init
<1>2. view = Topology!MountView(search)
  BY <1>1, MountedTopology
<1>3. loads = Topology!MountRequests(search)
  BY <1>1 DEF Mount
<1> QED BY <1>2, <1>3, SameMount

LEMMA GenerationsNavigate == Navigate => GenerationsInv'
<1> SUFFICES ASSUME Navigate, route' = "topology" PROVE T!IInv'
  BY DEF GenerationsInv
<1>1. PICK l : /\ route' = l.to /\ search' = l.search
               /\ view' = Mounted(l.to, l.search).view
               /\ Mount(l, pending', loads')
  BY DEF Navigate
<1>2. view' = Topology!MountView(search')
  BY <1>1, MountedTopology
<1>3. loads' = Topology!MountRequests(search')
  BY <1>1 DEF Mount
<1> QED BY <1>2, <1>3, NextMount

LEMMA TopologyUserKeeps == ASSUME T!IInv, Topology!User PROVE T!IInv'
<1>1. CASE \E s : Topology!Follow(s)
  BY <1>1, SameFollow, T!FollowKeeps
<1>2. CASE Topology!Retry
  BY <1>2, SameLoad, T!LoadKeeps DEF Topology!Retry
<1>3. Topology!ChooseSince => \E s : Topology!Follow(s)
  BY DEF Topology!ChooseSince
<1>4. Topology!TypeQuery => \E s : Topology!Follow(s)
  BY DEF Topology!TypeQuery
<1>5. Topology!ToggleAddresses => \E s : Topology!Follow(s)
  BY DEF Topology!ToggleAddresses
<1>6. Topology!Select => \E s : Topology!Follow(s)
  BY DEF Topology!Select
<1>7. Topology!FollowLink => \E s : Topology!Follow(s)
  BY DEF Topology!FollowLink
<1> QED BY <1>1, <1>2, <1>3, <1>4, <1>5, <1>6, <1>7 DEF Topology!User

LEMMA TopologyKeeps == GenerationsInv /\ OnTopology => GenerationsInv'
<1> SUFFICES ASSUME GenerationsInv, OnTopology PROVE T!IInv'
  BY DEF GenerationsInv
<1>1. T!IInv /\ Topology!Next
  BY DEF GenerationsInv, OnTopology
<1>2. CASE Topology!User
  BY <1>1, <1>2, TopologyUserKeeps
<1>3. CASE Topology!Answer
  BY <1>1, <1>3, SameAnswer, T!AnswerKeeps
<1> QED BY <1>1, <1>2, <1>3 DEF Topology!Next

\* The steps of the other pages, which leave the route as it is.
LEMMA ElsewhereKeeps ==
    OnOverview \/ OnProblems \/ OnContainers \/ OnMetrics \/ OnLogs \/ OnTraces => GenerationsInv'
BY DEF OnOverview, OnProblems, OnContainers, OnMetrics, OnLogs, OnTraces, GenerationsInv

LEMMA StutterKeeps == GenerationsInv /\ UNCHANGED vars => GenerationsInv'
<1> SUFFICES ASSUME GenerationsInv, UNCHANGED vars, route' = "topology" PROVE T!IInv'
  BY DEF GenerationsInv
<1>1. T!IInv /\ UNCHANGED <<view, loads>> /\ search' = search
  BY DEF GenerationsInv, vars
<1> QED BY <1>1, T!SameRange

LEMMA GenerationsStep == GenerationsInv /\ [Next]_vars => GenerationsInv'
BY GenerationsNavigate, TopologyKeeps, ElsewhereKeeps, StutterKeeps DEF Next

-----------------------------------------------------------------------------
\* The Overview page.
OverviewOn(q, v) == /\ PartOf(q, {"overview"}, Overview!Request)
                    /\ v.loading => Flies(q, "overview")
                    /\ "loading" \in DOMAIN v

OverviewInv == OverviewOn(pending, view)

\* The page comes on screen.
LEMMA OverviewMounts ==
    ASSUME NEW s
    PROVE  LET q == Logs!Sent(<<>>, Overview!MountRequests(s)) IN
           /\ PartOf(q, {"overview"}, Overview!Request) /\ Flies(q, "overview")
           /\ "loading" \in DOMAIN Overview!MountView(s)
<1> DEFINE r == Overview!Request
<1>1. Overview!MountRequests(s) = <<r>>
  BY DEF Overview!MountRequests
<1>2. r.to = "overview"
  BY DEF Overview!Request
<1>3. IsQueue(<<>>) /\ Reqs(<<>>) = {}
  BY ShortLists DEF IsQueue, Reqs
<1> HIDE DEF r
<1>4. IsQueue(Logs!Sent(<<>>, <<r>>)) /\ Reqs(Logs!Sent(<<>>, <<r>>)) = {r}
  BY <1>3, Short, SentAdds
<1>5. PartOf(Logs!Sent(<<>>, <<r>>), {"overview"}, r) /\ Flies(Logs!Sent(<<>>, <<r>>), "overview")
  BY <1>2, <1>4 DEF PartOf, Flies
<1> QED BY <1>1, <1>5 DEF r, Overview!MountView

\* Every step of the page.
LEMMA OverviewKeeps == ASSUME OverviewInv, Overview!Next PROVE OverviewInv'
<1> DEFINE r == Overview!Request
<1>1. r.to = "overview" /\ IsQueue(pending)
  BY DEF Overview!Request, OverviewInv, OverviewOn, PartOf
<1> HIDE DEF r
<1>2. CASE Overview!Poll \/ Overview!Retry \/ Overview!Translate
  <2>1. Sends(<<r>>, {}) /\ view' = view
    BY <1>2, SameSend DEF Overview!Poll, Overview!Retry, Overview!Translate, Overview!Again, r
  <2>2. PartOf(pending', {"overview"}, r) /\ Flies(pending', r.to)
    BY <1>1, <2>1, Short, AskedAnew
  <2> QED BY <1>1, <2>1, <2>2 DEF OverviewInv, OverviewOn, r
<1>3. CASE Overview!Answer
  <2>1. PICK i \in DOMAIN pending : Overview!Loaded(i) \/ Overview!Failed(i)
    BY <1>3 DEF Overview!Answer
  <2>2. Logs!Receive(i) /\ "loading" \in DOMAIN view' /\ ~ view'.loading
    <3>1. CASE Overview!Loaded(i)
      BY <3>1, SameReceive DEF Overview!Loaded
    <3>2. CASE Overview!Failed(i)
      BY <3>2, SameReceive DEF Overview!Failed, OverviewInv, OverviewOn
    <3> QED BY <2>1, <3>1, <3>2
  <2>3. IsQueue(pending') /\ Reqs(pending') \subseteq Reqs(pending)
    BY <1>1, <2>2, ReceiveLeaves
  <2> QED BY <2>2, <2>3 DEF OverviewInv, OverviewOn, PartOf
<1> QED BY <1>2, <1>3 DEF Overview!Next, Overview!User

-----------------------------------------------------------------------------
\* The Problems page.
\* The Problems page.
ProblemsKinds == {"now", "slos", "history"}

ProblemsInv == MainIn(pending, overtaken, view, ProblemsKinds, Problems!Request(search))

LEMMA ProblemsKind ==
    ASSUME NEW s
    PROVE  Problems!Request(s).to = Problems!Part(s) /\ Problems!Part(s) \in ProblemsKinds
<1>1. Problems!Part(s) \in ProblemsKinds
  BY DEF Problems!Part, ProblemsKinds
<1> QED BY <1>1 DEF Problems!Request, ProblemsKinds

\* Each part sends its request last.
LEMMA ProblemsFirst ==
    ASSUME NEW s
    PROVE  LET a == Problems!MountRequests(s)
               r == Problems!Request(s) IN
           /\ IsList(a) /\ Ends(a, r) /\ Items(a) \subseteq {[to |-> "groups"], r}
           /\ \A x \in Items(a) : x.to \in ProblemsKinds => x.to = r.to
<1> DEFINE r == Problems!Request(s)
           o == Problems!OptionRequests(s)
<1>1. Problems!MountRequests(s) = o \o <<r>>
  BY DEF Problems!MountRequests
<1>2. IsList(o) /\ Items(o) \subseteq {[to |-> "groups"]}
  BY Short DEF Problems!OptionRequests
<1> HIDE DEF o, r
<1>3. IsList(o \o <<r>>) /\ Ends(o \o <<r>>, r) /\ Items(o \o <<r>>) = Items(o) \cup {r}
  BY <1>2, Short, Lists
<1> QED BY <1>1, <1>2, <1>3 DEF r, ProblemsKinds

\* The page comes on screen.
LEMMA ProblemsMounts ==
    ASSUME NEW s
    PROVE  MainIn(Logs!Sent(<<>>, Problems!MountRequests(s)), {}, Problems!MountView(s),
                  ProblemsKinds, Problems!Request(s))
<1>1. Screened(Problems!MountView(s))
  BY DEF Screened, Problems!MountView, Problems!Fresh
<1>2. Problems!Request(s).to \in ProblemsKinds
  BY ProblemsKind
<1> QED BY <1>1, <1>2, ProblemsFirst, MainMounted

\* The address changes; another tab takes the requests of the one before away.
LEMMA ProblemsFollows == ASSUME ProblemsInv, NEW s, Problems!Follow(s) PROVE ProblemsInv'
<1> DEFINE same    == Problems!Part(s) = Problems!Part(search)
           reset   == same /\ Problems!Part(s) = "history" /\ Problems!Since(s) # view.sinceSeen
           settled == IF reset THEN Problems!SetState(s, "page", "1", "1") ELSE s
           first   == IF ~ same THEN Problems!MountRequests(s)
                      ELSE IF Problems!Request(s) = Problems!Request(search) THEN <<>>
                      ELSE <<Problems!Request(s)>>
           second  == IF Problems!Request(settled) = Problems!Request(s) THEN <<>>
                      ELSE <<Problems!Request(settled)>>
           gone    == IF same THEN {} ELSE {"now", "slos", "history", "groups"}
           r       == Problems!Request(search')
<1>1. /\ search' = settled
      /\ view' = IF same THEN [view EXCEPT !.sinceSeen = Problems!Since(s)] ELSE Problems!Fresh(s)
      /\ Sends(first \o second, gone)
  BY SameSend DEF Problems!Follow
<1>2. Problems!Part(settled) = Problems!Part(s)
  BY DEF Problems!Part, Problems!Tab, Problems!SetState, Problems!Read, Problems!Patched,
         Problems!Only
<1>3. /\ r = Problems!Request(settled) /\ r.to \in ProblemsKinds
      /\ Problems!Request(s).to = r.to
      /\ same => r.to = Problems!Request(search).to
  BY <1>1, <1>2, ProblemsKind
<1>4. Screened(view) /\ IsQueue(pending)
      /\ \A x \in Reqs(pending) : x.to \in ProblemsKinds => x.to = Problems!Request(search).to
  BY DEF ProblemsInv, MainIn, PartOf
<1>5. IsList(first) /\ \A x \in Items(first) : x.to \in ProblemsKinds => x.to = r.to
  <2>1. CASE ~ same
    BY <1>3, <2>1, ProblemsFirst
  <2>2. CASE same
    BY <1>3, <2>2, Short
  <2> QED BY <2>1, <2>2
<1>6. IsList(second) /\ Items(second) \subseteq {r}
  BY <1>3, Short
<1>7. Screened(view') /\ (same => SameScreen)
  BY <1>1, <1>4 DEF Screened, SameScreen, Problems!Fresh
<1>8. IsList(first \o second) /\ Items(first \o second) = Items(first) \cup Items(second)
  <2> HIDE DEF first, second
  <2> QED BY <1>5, <1>6, Lists
<1>9. CASE same /\ Problems!Request(s) = Problems!Request(search) /\ second = <<>>
  <2>1. r = Problems!Request(search) /\ first \o second = <<>> /\ gone = {}
    BY <1>3, <1>9
  <2>2. Sends(<<>>, {}) /\ SameScreen
    BY <1>1, <1>7, <1>9, <2>1
  <2> HIDE DEF r, first, second, gone, settled
  <2>3. MainIn(pending, overtaken, view, ProblemsKinds, r)
    BY <2>1 DEF ProblemsInv
  <2>4. MainIn(pending', overtaken', view', ProblemsKinds, r)
    BY <2>2, <2>3, Short, MainStays
  <2> QED BY <2>4 DEF ProblemsInv, r
<1>10. CASE ~ (same /\ Problems!Request(s) = Problems!Request(search) /\ second = <<>>)
  <2>1. second # <<>> => Ends(second, r)
    BY <1>3, Short
  <2>2. second = <<>> => Ends(first, r) /\ Lacks(second, r.to)
    <3>1. ASSUME second = <<>> PROVE r = Problems!Request(s)
      BY <1>3, <3>1
    <3>2. CASE ~ same
      BY <3>1, <3>2, Short, ProblemsFirst DEF Lacks
    <3>3. CASE same
      BY <1>10, <3>1, <3>3, Short DEF Lacks
    <3> QED BY <3>2, <3>3
  <2>3. \A x \in Reqs(pending) : x.to \in ProblemsKinds => x.to = r.to \/ x.to \in gone
    BY <1>3, <1>4 DEF ProblemsKinds
  <2> HIDE DEF r, first, second, gone, settled
  <2>4. Ends(first \o second, r)
    BY <1>5, <1>6, <2>1, <2>2, Lists
  <2>5. \A x \in Items(first \o second) : x.to \in ProblemsKinds => x.to = r.to
    BY <1>5, <1>6, <1>8
  <2>6. MainIn(pending', overtaken', view', ProblemsKinds, r)
    BY <1>1, <1>3, <1>4, <1>7, <1>8, <2>3, <2>4, <2>5, MainAsks
  <2> QED BY <2>6 DEF ProblemsInv, r
<1> QED BY <1>9, <1>10

\* The timer, a retry, another language.
LEMMA ProblemsReloads ==
    ASSUME ProblemsInv, Problems!Send(<<Problems!Request(search)>>, {}), UNCHANGED <<search, view>>
    PROVE  ProblemsInv'
<1> DEFINE r == Problems!Request(search)
<1>1. Sends(<<r>>, {})
  BY SameSend
<1>2. IsQueue(pending) /\ r.to \in ProblemsKinds /\ Screened(view')
      /\ \A x \in Reqs(pending) : x.to \in ProblemsKinds => x.to = r.to
  BY DEF ProblemsInv, MainIn, PartOf
<1>3. MainIn(pending', overtaken', view', ProblemsKinds, r)
  <2> HIDE DEF r
  <2> QED BY <1>1, <1>2, Short, MainAsks
<1> QED BY <1>3 DEF ProblemsInv

LEMMA ProblemsAnswers == ASSUME ProblemsInv, Problems!Answer PROVE ProblemsInv'
<1> DEFINE r == Problems!Request(search)
<1>1. PICK i \in DOMAIN pending :
         Problems!PartAnswer(i) \/ Problems!PartFailure(i) \/ Problems!GroupsAnswer(i)
  BY DEF Problems!Answer
<1>2. search' = search /\ MainIn(pending, overtaken, view, ProblemsKinds, r) /\ Screened(view)
      /\ r.to \in ProblemsKinds
  BY DEF Problems!Answer, ProblemsInv, MainIn
<1> HIDE DEF r
<1>3. CASE Problems!PartAnswer(i) \/ Problems!PartFailure(i)
  <2>1. /\ pending[i].req.to \in ProblemsKinds /\ Logs!Receive(i)
        /\ Screened(view') /\ ~ view'.loading
        /\ view'.shown.req = pending[i].req \/ view'.error
    <3>1. CASE Problems!PartAnswer(i)
      BY <1>2, <3>1, SameReceive DEF Problems!PartAnswer, ProblemsKinds, Screened
    <3>2. CASE Problems!PartFailure(i)
      BY <1>2, <3>2, SameReceive DEF Problems!PartFailure, ProblemsKinds, Screened
    <3> QED BY <1>3, <3>1, <3>2
  <2> QED BY <1>2, <2>1, MainTakes DEF ProblemsInv, r
<1>4. CASE Problems!GroupsAnswer(i)
  <2>1. Logs!Receive(i) /\ pending[i].req.to \notin ProblemsKinds /\ SameScreen
    BY <1>2, <1>4, SameReceive DEF Problems!GroupsAnswer, ProblemsKinds, Screened, SameScreen
  <2>2. pending[i].req.to # r.to
    BY <1>2, <2>1
  <2> QED BY <1>2, <2>1, <2>2, MainIgnores DEF ProblemsInv, r
<1> QED BY <1>1, <1>3, <1>4

\* Every step of the page.
LEMMA ProblemsKeeps == ASSUME ProblemsInv, Problems!Next PROVE ProblemsInv'
<1>1. CASE Problems!Answer
  BY <1>1, ProblemsAnswers
<1>2. CASE Problems!Poll \/ Problems!Retry \/ Problems!Translate
  BY <1>2, ProblemsReloads DEF Problems!Poll, Problems!Retry, Problems!Translate, Problems!Again
<1>3. CASE \E s : Problems!Follow(s)
  BY <1>3, ProblemsFollows
<1>4. /\ Problems!ChooseTab => \E s : Problems!Follow(s)
      /\ Problems!ChooseSince => \E s : Problems!Follow(s)
      /\ Problems!ChooseGroup => \E s : Problems!Follow(s)
      /\ Problems!TurnPage => \E s : Problems!Follow(s)
      /\ Problems!FollowLink => \E s : Problems!Follow(s)
  BY DEF Problems!ChooseTab, Problems!ChooseSince, Problems!ChooseGroup, Problems!TurnPage,
         Problems!FollowLink
<1> QED BY <1>1, <1>2, <1>3, <1>4 DEF Problems!Next, Problems!User

-----------------------------------------------------------------------------
\* Back to the first page of a list, which is no part of what a filter reads.
Reset(s) == SetState(s, "page", "1", "1")

LEMMA ResetKeeps ==
    ASSUME NEW s, NEW k, NEW d, k # "page"
    PROVE  Read(Reset(s), k, d) = Read(s, k, d)
BY DEF Read, Reset, SetState, Patched, Only

\* The Logs page.
LogsKinds == {"lines", "patterns"}

\* What holds of the page on screen.
LogsInv == MainIn(pending, overtaken, view, LogsKinds, Logs!Request(search))

LEMMA LogsKind ==
    ASSUME NEW s
    PROVE  Logs!Request(s).to = IF Logs!Patterns(s) THEN "patterns" ELSE "lines"
BY DEF Logs!Request, Logs!PatternsRequest, Logs!LinesRequest, Logs!searchLogs,
       Logs!fetchLogPatterns, Logs!Given

\* What the effect depends on is what the request is made of.
LEMMA LogsDeps ==
    ASSUME NEW s, NEW t, Logs!LoadDeps(s) = Logs!LoadDeps(t)
    PROVE  Logs!Request(s) = Logs!Request(t)
<1>1. /\ Logs!FilterKey(s) = Logs!FilterKey(t)
      /\ (IF Logs!Patterns(s) THEN 0 ELSE Logs!Page(s))
           = (IF Logs!Patterns(t) THEN 0 ELSE Logs!Page(t))
  BY DEF Logs!LoadDeps
<1>2. Logs!Patterns(s) <=> Logs!Patterns(t)
  BY <1>1 DEF Logs!FilterKey
<1>3. CASE Logs!Patterns(s)
  BY <1>1, <1>2, <1>3 DEF Logs!FilterKey, Logs!Request, Logs!PatternsRequest
<1>4. CASE ~ Logs!Patterns(s)
  BY <1>1, <1>2, <1>4 DEF Logs!FilterKey, Logs!Request, Logs!LinesRequest
<1> QED BY <1>3, <1>4

\* The page comes on screen.
LEMMA LogsMounts ==
    ASSUME NEW s
    PROVE  MainIn(Logs!Sent(<<>>, Logs!MountRequests(s)), {}, Logs!MountView(s),
                  LogsKinds, Logs!Request(s))
<1> DEFINE r == Logs!Request(s)
           a == <<[to |-> "workloads"], [to |-> "groups"], r>>
<1>1. r.to \in LogsKinds
  BY LogsKind DEF LogsKinds
<1>2. IsList(a) /\ Items(a) = {[to |-> "workloads"], [to |-> "groups"], r} /\ Ends(a, r)
  <2> HIDE DEF r
  <2>1. a = [i \in 1 .. 3 |-> a[i]]
    OBVIOUS
  <2>2. IsList(a) /\ DOMAIN a = 1 .. 3
    BY <2>1, FunctionIsList
  <2>3. a[1] = [to |-> "workloads"] /\ a[2] = [to |-> "groups"] /\ a[3] = r
    OBVIOUS
  <2> HIDE DEF a
  <2>4. DOMAIN a = {1, 2, 3}
    BY <2>2
  <2> QED BY <2>2, <2>3, <2>4 DEF Items, Ends
<1>3. Screened(Logs!MountView(s))
  BY DEF Screened, Logs!MountView
<1> HIDE DEF a
<1>4. \A x \in Items(a) : x.to \in LogsKinds => x.to = r.to
  BY <1>2 DEF LogsKinds
<1>5. Logs!MountRequests(s) = a
  BY DEF Logs!MountRequests, a
<1> QED BY <1>1, <1>2, <1>3, <1>4, <1>5, MainMounted

\* The address changes, twice when a filter takes the list back to its first page.
LEMMA LogsFollows == ASSUME LogsInv, NEW s, Logs!Follow(s) PROVE LogsInv'
<1> DEFINE same    == Logs!Patterns(s) = Logs!Patterns(search)
           reset   == same /\ Logs!FilterKey(s) # view.filterSeen
           settled == IF reset THEN Logs!SetState(s, "page", "1", "1") ELSE s
           first   == IF same /\ Logs!LoadDeps(s) = Logs!LoadDeps(search) THEN <<>>
                      ELSE <<Logs!Request(s)>>
           second  == IF Logs!LoadDeps(settled) = Logs!LoadDeps(s) THEN <<>>
                      ELSE <<Logs!Request(settled)>>
           list    == IF same THEN [view EXCEPT !.filterSeen = Logs!FilterKey(s)]
                      ELSE Logs!FreshList(view, s)
           r       == Logs!Request(search')
<1>1. /\ search' = settled
      /\ view' = [list EXCEPT
                    !.queryDraft = IF Logs!Query(s) # Logs!Query(search) THEN Logs!Query(s) ELSE @,
                    !.traceDraft = IF Logs!TraceId(s) # Logs!TraceId(search)
                                   THEN Logs!TraceId(s) ELSE @]
      /\ Sends(first \o second, IF same THEN {} ELSE {"lines", "patterns"})
  BY SameSend DEF Logs!Follow
<1>2. Logs!Patterns(settled) = Logs!Patterns(s)
  BY ResetKeeps DEF Logs!Patterns, Reset, Logs!SetState, SetState, Logs!Read, Read,
     Logs!Patched, Patched, Logs!Only, Only
<1>3. Logs!Request(s).to = Logs!Request(settled).to /\ r.to \in LogsKinds /\ r = Logs!Request(settled)
  BY <1>1, <1>2, LogsKind DEF LogsKinds
<1>4. Screened(view') /\ (same => SameScreen)
  BY <1>1 DEF LogsInv, MainIn, Screened, SameScreen, Logs!FreshList
<1>5. IsQueue(pending) /\ \A x \in Reqs(pending) : x.to \in LogsKinds => x.to = Logs!Request(search).to
  BY DEF LogsInv, MainIn, PartOf
<1>6. same => r.to = Logs!Request(search).to
  BY <1>2, <1>3, LogsKind
<1> HIDE DEF r, settled, list
<1>7. CASE first = <<>> /\ second = <<>>
  <2>1. same /\ Logs!Request(search) = r
    BY <1>3, <1>7, LogsDeps
  <2>2. first \o second = <<>>
    BY <1>7
  <2>3. Sends(<<>>, {}) /\ SameScreen
    BY <1>1, <1>4, <2>1, <2>2
  <2>4. MainIn(pending, overtaken, view, LogsKinds, r)
    BY <2>1 DEF LogsInv
  <2>5. MainIn(pending', overtaken', view', LogsKinds, r)
    BY <2>3, <2>4, Short, MainStays
  <2> QED BY <2>5 DEF LogsInv, r
<1>8. CASE first # <<>> \/ second # <<>>
  <2>1. /\ IsList(first) /\ Items(first) \subseteq {Logs!Request(s)}
        /\ IsList(second) /\ Items(second) \subseteq {r}
    BY <1>3, Short
  <2>2. second # <<>> => Ends(second, r)
    BY <1>3, Short
  <2>3. second = <<>> => first = <<r>> /\ Ends(first, r) /\ Lacks(second, r.to)
    BY <1>3, <1>8, LogsDeps, Short DEF Lacks
  <2> HIDE DEF first, second
  <2>4. /\ IsList(first \o second) /\ Ends(first \o second, r)
        /\ Items(first \o second) = Items(first) \cup Items(second)
    BY <2>1, <2>2, <2>3, Lists
  <2>5. \A x \in Items(first \o second) : x.to \in LogsKinds => x.to = r.to
    BY <1>3, <2>1, <2>4
  <2>6. \A x \in Reqs(pending) :
           x.to \in LogsKinds => x.to = r.to \/ x.to \in (IF same THEN {} ELSE {"lines", "patterns"})
    BY <1>5, <1>6 DEF LogsKinds
  <2>7. MainIn(pending', overtaken', view', LogsKinds, r)
    BY <1>1, <1>3, <1>4, <1>5, <2>4, <2>5, <2>6, MainAsks
  <2> QED BY <2>7 DEF LogsInv, r
<1> QED BY <1>7, <1>8

\* The timer, a retry, another language.
LEMMA LogsReloads ==
    ASSUME LogsInv, Logs!Send(<<Logs!Request(search)>>, {}), UNCHANGED <<search, view>>
    PROVE  LogsInv'
<1> DEFINE r == Logs!Request(search)
<1>1. Sends(<<r>>, {})
  BY SameSend
<1>2. IsQueue(pending) /\ r.to \in LogsKinds /\ Screened(view')
      /\ \A x \in Reqs(pending) : x.to \in LogsKinds => x.to = r.to
  BY DEF LogsInv, MainIn, PartOf
<1>3. MainIn(pending', overtaken', view', LogsKinds, r)
  <2> HIDE DEF r
  <2> QED BY <1>1, <1>2, Short, MainAsks
<1> QED BY <1>3 DEF LogsInv

\* The list, its failure, and the lists of choices.
LEMMA LogsAnswers == ASSUME LogsInv, Logs!Answer PROVE LogsInv'
<1> DEFINE r == Logs!Request(search)
<1>1. PICK i \in DOMAIN pending : Logs!ListAnswer(i) \/ Logs!ListFailure(i) \/ Logs!OptionsAnswer(i)
  BY DEF Logs!Answer
<1>2. /\ search' = search /\ MainIn(pending, overtaken, view, LogsKinds, r)
      /\ Screened(view) /\ r.to \in LogsKinds
  BY DEF Logs!Answer, LogsInv, MainIn
<1> HIDE DEF r
<1>3. CASE Logs!ListAnswer(i) \/ Logs!ListFailure(i)
  <2>1. /\ pending[i].req.to \in LogsKinds /\ Logs!Receive(i)
        /\ Screened(view') /\ ~ view'.loading
        /\ view'.shown.req = pending[i].req \/ view'.error
    <3>1. CASE Logs!ListAnswer(i)
      BY <1>2, <3>1 DEF Logs!ListAnswer, LogsKinds, Screened
    <3>2. CASE Logs!ListFailure(i)
      BY <1>2, <3>2 DEF Logs!ListFailure, LogsKinds, Screened
    <3> QED BY <1>3, <3>1, <3>2
  <2> QED BY <1>2, <2>1, MainTakes DEF LogsInv, r
<1>4. CASE Logs!OptionsAnswer(i)
  <2>1. Logs!Receive(i) /\ pending[i].req.to \notin LogsKinds /\ SameScreen
    BY <1>2, <1>4 DEF Logs!OptionsAnswer, LogsKinds, Screened, SameScreen
  <2>2. pending[i].req.to # r.to
    BY <1>2, <2>1
  <2> QED BY <1>2, <2>1, <2>2, MainIgnores DEF LogsInv, r
<1> QED BY <1>1, <1>3, <1>4

LEMMA LogsTypes ==
    ASSUME LogsInv, NEW field \in {"queryDraft", "traceDraft"}, NEW x, Logs!Type(field, x)
    PROVE  LogsInv'
<1>1. /\ UNCHANGED <<search, pending, overtaken>>
      /\ view' = [view EXCEPT ![field] = x]
  BY DEF Logs!Type
<1>2. SameScreen /\ Screened(view')
  BY <1>1 DEF SameScreen, Screened, LogsInv, MainIn
<1> QED BY <1>1, <1>2 DEF LogsInv, MainIn, SameScreen

\* Every step of the page.
LEMMA LogsKeeps == ASSUME LogsInv, Logs!Next PROVE LogsInv'
<1>1. CASE Logs!Answer
  BY <1>1, LogsAnswers
<1>2. CASE Logs!Poll \/ Logs!Retry \/ Logs!Translate
  BY <1>2, LogsReloads DEF Logs!Poll, Logs!Retry, Logs!Translate
<1>3. CASE Logs!TypeQuery \/ Logs!TypeTrace
  BY <1>3, LogsTypes DEF Logs!TypeQuery, Logs!TypeTrace
<1>4. CASE \E s : Logs!Follow(s)
  BY <1>4, LogsFollows
<1>5. /\ Logs!ChooseGroup => \E s : Logs!Follow(s)
      /\ Logs!ChooseContainer => \E s : Logs!Follow(s)
      /\ Logs!ChooseSince => \E s : Logs!Follow(s)
      /\ Logs!ChooseMode => \E s : Logs!Follow(s)
  BY DEF Logs!ChooseGroup, Logs!ChooseContainer, Logs!ChooseSince, Logs!ChooseMode
<1>6. /\ Logs!ChooseLevel => \E s : Logs!Follow(s)
      /\ Logs!ChooseTopic => \E s : Logs!Follow(s)
      /\ Logs!SubmitQuery => \E s : Logs!Follow(s)
      /\ Logs!SubmitTrace => \E s : Logs!Follow(s)
  BY DEF Logs!ChooseLevel, Logs!ChooseTopic, Logs!SubmitQuery, Logs!SubmitTrace
<1>7. /\ Logs!ClearTrace => \E s : Logs!Follow(s)
      /\ Logs!OpenLines => \E s : Logs!Follow(s)
      /\ Logs!TurnPage => \E s : Logs!Follow(s)
      /\ Logs!FollowLink => \E s : Logs!Follow(s)
  BY DEF Logs!ClearTrace, Logs!OpenLines, Logs!TurnPage, Logs!FollowLink
<1> QED BY <1>1, <1>2, <1>3, <1>4, <1>5, <1>6, <1>7 DEF Logs!Next, Logs!User

-----------------------------------------------------------------------------
\* The Traces page.
TracesKinds == {"list", "detail"}

\* A trace asks for nothing but itself, and shows nothing else (traces.tsx:247-265).
DetailOf(q, v, s) ==
    /\ \A x \in Reqs(q) : x.to = "detail" => x = Traces!Request(s)
    /\ Traces!Detail(s) /\ ~ v.loading /\ ~ v.error => v.shown.req = Traces!Request(s)

TracesInv == /\ MainIn(pending, overtaken, view, TracesKinds, Traces!Request(search))
             /\ DetailOf(pending, view, search)

LEMMA TracesKind ==
    ASSUME NEW s
    PROVE  Traces!Request(s).to = IF Traces!Detail(s) THEN "detail" ELSE "list"
BY DEF Traces!Request, Traces!fetchTrace, Traces!fetchTraces

\* The page comes on screen.
LEMMA TracesMounts ==
    ASSUME NEW s
    PROVE  LET q == Logs!Sent(<<>>, Traces!MountRequests(s)) IN
           /\ MainIn(q, {}, Traces!MountView(s), TracesKinds, Traces!Request(s))
           /\ DetailOf(q, Traces!MountView(s), s)
<1> DEFINE r == Traces!Request(s)
           q == Logs!Sent(<<>>, <<r>>)
<1>1. Traces!MountRequests(s) = <<r>> /\ r.to \in TracesKinds
  BY TracesKind DEF Traces!MountRequests, TracesKinds
<1>2. Screened(Traces!MountView(s)) /\ Traces!MountView(s).loading
  BY DEF Screened, Traces!MountView
<1> HIDE DEF r
<1>3. MainIn(q, {}, Traces!MountView(s), TracesKinds, r)
  BY <1>1, <1>2, Short, MainMounted
<1>4. IsQueue(<<>>) /\ Reqs(<<>>) = {}
  BY ShortLists DEF IsQueue, Reqs
<1>5. Reqs(q) = {r}
  BY <1>4, Short, SentAdds
<1> HIDE DEF q
<1>6. DetailOf(q, Traces!MountView(s), s)
  BY <1>2, <1>5 DEF DetailOf, r
<1> QED BY <1>1, <1>3, <1>6 DEF q, r

\* The address changes; the request for another trace is cancelled.
LEMMA TracesFollows == ASSUME TracesInv, NEW s, Traces!Follow(s) PROVE TracesInv'
<1> DEFINE same    == Traces!Detail(s) = Traces!Detail(search)
           list    == ~ Traces!Detail(s)
           reset   == same /\ list /\ Traces!FilterKey(s) # view.filterSeen
           settled == IF reset THEN Traces!SetState(s, "page", "1", "1") ELSE s
           first   == IF same /\ Traces!Request(s) = Traces!Request(search) THEN <<>>
                      ELSE <<Traces!Request(s)>>
           second  == IF Traces!Request(settled) = Traces!Request(s) THEN <<>>
                      ELSE <<Traces!Request(settled)>>
           loading == first \o second # <<>> \/ view.loading
           gone    == (IF same THEN {} ELSE {"list"})
                        \cup (IF first = <<>> THEN {} ELSE {"detail"})
           r       == Traces!Request(search')
<1>1. /\ search' = settled
      /\ view' = [(IF ~ same THEN Traces!Fresh(view, s)
                   ELSE IF list THEN [view EXCEPT !.filterSeen = Traces!FilterKey(s),
                                                  !.loading = loading]
                   ELSE [view EXCEPT !.loading = loading,
                                     !.error = IF first # <<>> THEN FALSE ELSE @])
                  EXCEPT !.draft = IF Traces!TraceId(s) # Traces!TraceId(search)
                                   THEN Traces!TraceId(s) ELSE @]
      /\ Sends(first \o second, gone)
  BY SameSend DEF Traces!Follow, Traces!Cancelled
<1>2. Traces!Detail(settled) = Traces!Detail(s)
  BY DEF Traces!Detail, Traces!TraceId, Traces!SetState, Traces!Read, Traces!Patched, Traces!Only
<1>3. /\ r = Traces!Request(settled) /\ r.to \in TracesKinds
      /\ Traces!Request(s).to = r.to
      /\ r.to = "detail" <=> ~ list
      /\ same => r.to = Traces!Request(search).to
  BY <1>1, <1>2, TracesKind DEF TracesKinds
<1>4. Screened(view) /\ IsQueue(pending)
      /\ \A x \in Reqs(pending) : x.to \in TracesKinds => x.to = Traces!Request(search).to
  BY DEF TracesInv, MainIn, PartOf
<1>5. Traces!Detail(search') <=> ~ list
  BY <1>1, <1>2
<1>6. IsList(first) /\ IsList(second) /\ IsList(first \o second)
      /\ Items(first) \subseteq {Traces!Request(s)} /\ Items(second) \subseteq {r}
      /\ Items(first \o second) = Items(first) \cup Items(second)
  BY <1>3, Short, Lists
<1>7. CASE first = <<>> /\ second = <<>>
  <2>1. same /\ Traces!Request(search) = r /\ first \o second = <<>> /\ gone = {}
    BY <1>3, <1>7
  <2>2. SameScreen /\ (view'.loading <=> view.loading) /\ (view'.error <=> view.error)
    BY <1>1, <1>4, <1>7, <2>1 DEF SameScreen, Screened
  <2>3. Sends(<<>>, {})
    BY <1>1, <2>1
  <2> HIDE DEF r, first, second, gone, loading, settled
  <2>4. MainIn(pending, overtaken, view, TracesKinds, r)
    BY <2>1 DEF TracesInv
  <2>5. MainIn(pending', overtaken', view', TracesKinds, r)
    BY <2>2, <2>3, <2>4, Short, MainStays
  <2>6. Reqs(pending') = Reqs(pending)
    BY <1>4, <2>3, NothingSent
  <2>7. Traces!Detail(search') <=> Traces!Detail(search)
    BY <1>5, <2>1
  <2>8. DetailOf(pending', view', search')
    BY <2>1, <2>2, <2>6, <2>7 DEF TracesInv, DetailOf, SameScreen, r
  <2> QED BY <2>5, <2>8 DEF TracesInv, r
<1>8. CASE first # <<>> \/ second # <<>>
  <2>1. second # <<>> => Ends(second, r) /\ list
    BY <1>3, Short
  <2>2. second = <<>> => first = <<r>> /\ Ends(first, r) /\ Lacks(second, r.to)
    BY <1>3, <1>8, Short DEF Lacks
  <2>3. Ends(first \o second, r)
    <3> HIDE DEF first, second, r
    <3> QED BY <1>6, <2>1, <2>2, Lists
  <2>4. first \o second # <<>>
    <3> HIDE DEF first, second
    <3> QED BY <1>6, <2>3 DEF Ends
  <2>5. Screened(view') /\ view'.loading
    BY <1>1, <1>4, <2>4 DEF Screened, Traces!Fresh
  <2>6. \A x \in Items(first \o second) : x.to = r.to
    BY <1>3, <1>6
  <2>7. \A x \in Reqs(pending) : x.to \in TracesKinds => x.to = r.to \/ x.to \in gone
    BY <1>3, <1>4 DEF TracesKinds
  <2>8. ~ list => /\ Items(first \o second) = {r} /\ "detail" \in gone
    BY <1>3, <1>6, <1>8, <2>1, <2>2, Short
  <2>9. list => \A x \in Reqs(pending) : x.to = "detail" => "detail" \in gone
    BY <1>3, <1>4 DEF TracesKinds
  <2> HIDE DEF r, first, second, gone, list, loading, settled
  <2>10. MainIn(pending', overtaken', view', TracesKinds, r)
    BY <1>1, <1>3, <1>4, <1>6, <2>3, <2>5, <2>6, <2>7, MainAsks
  <2>11. Reqs(pending') = {x \in Reqs(pending) : x.to \notin gone} \cup Items(first \o second)
    BY <1>1, <1>4, <1>6, SendLeaves
  <2>12. \A x \in Reqs(pending') : x.to = "detail" => x = r
    BY <1>3, <2>6, <2>8, <2>9, <2>11
  <2>13. DetailOf(pending', view', search')
    BY <2>5, <2>12 DEF DetailOf, r
  <2> QED BY <2>10, <2>13 DEF TracesInv, r
<1> QED BY <1>7, <1>8

\* A retry, another language.
LEMMA TracesReloads == ASSUME TracesInv, Traces!Again PROVE TracesInv'
<1> DEFINE r == Traces!Request(search)
<1>1. /\ Sends(<<r>>, {"detail"}) /\ search' = search
      /\ view' = [view EXCEPT !.loading = TRUE,
                              !.error = IF Traces!Detail(search) THEN FALSE ELSE @]
  BY SameSend DEF Traces!Again, Traces!Cancelled
<1>2. IsQueue(pending) /\ r.to \in TracesKinds /\ Screened(view)
      /\ \A x \in Reqs(pending) : x.to \in TracesKinds => x.to = r.to
  BY DEF TracesInv, MainIn, PartOf
<1>3. Screened(view') /\ view'.loading
  BY <1>1, <1>2 DEF Screened
<1> HIDE DEF r
<1>4. MainIn(pending', overtaken', view', TracesKinds, r)
  BY <1>1, <1>2, <1>3, Short, MainAsks
<1>5. Reqs(pending') = {x \in Reqs(pending) : x.to \notin {"detail"}} \cup {r}
  BY <1>1, <1>2, Short, SendLeaves
<1>6. DetailOf(pending', view', search')
  BY <1>1, <1>3, <1>5 DEF DetailOf, r
<1> QED BY <1>1, <1>4, <1>6 DEF TracesInv, r

\* Only the trace of the address can be answered.
LEMMA TracesAnswers == ASSUME TracesInv, Traces!Answer PROVE TracesInv'
<1> DEFINE r == Traces!Request(search)
<1>1. PICK i \in DOMAIN pending : \/ Traces!ListAnswer(i) \/ Traces!ListFailure(i)
                                  \/ Traces!DetailAnswer(i) \/ Traces!DetailFailure(i)
  BY DEF Traces!Answer
<1>2. /\ search' = search /\ MainIn(pending, overtaken, view, TracesKinds, r) /\ Screened(view)
      /\ IsQueue(pending) /\ \A x \in Reqs(pending) : x.to \in TracesKinds => x.to = r.to
  BY DEF Traces!Answer, TracesInv, MainIn, PartOf
<1>3. Traces!Detail(search) <=> r.to = "detail"
  BY TracesKind
<1>4. /\ pending[i].req.to \in TracesKinds /\ Logs!Receive(i)
      /\ Screened(view') /\ ~ view'.loading
      /\ view'.shown.req = pending[i].req \/ view'.error
  <2>1. CASE Traces!ListAnswer(i)
    BY <1>2, <2>1, SameReceive DEF Traces!ListAnswer, Traces!Rows, TracesKinds, Screened
  <2>2. CASE Traces!ListFailure(i)
    BY <1>2, <2>2, SameReceive DEF Traces!ListFailure, TracesKinds, Screened
  <2>3. CASE Traces!DetailAnswer(i)
    BY <1>2, <2>3, SameReceive DEF Traces!DetailAnswer, TracesKinds, Screened
  <2>4. CASE Traces!DetailFailure(i)
    BY <1>2, <2>4, SameReceive DEF Traces!DetailFailure, TracesKinds, Screened
  <2> QED BY <1>1, <2>1, <2>2, <2>3, <2>4
<1> HIDE DEF r
<1>5. MainIn(pending', overtaken', view', TracesKinds, r)
  BY <1>2, <1>4, MainTakes
<1>6. Reqs(pending') \subseteq Reqs(pending) /\ pending[i].req \in Reqs(pending)
  BY <1>2, <1>4, ReceiveLeaves
<1>7. Traces!Detail(search) => pending[i].req = r
  BY <1>2, <1>3, <1>4, <1>6 DEF TracesInv, DetailOf, r
<1>8. DetailOf(pending', view', search')
  BY <1>2, <1>4, <1>6, <1>7 DEF TracesInv, DetailOf, r
<1> QED BY <1>2, <1>5, <1>8 DEF TracesInv, r

\* Every step of the page.
LEMMA TracesKeeps == ASSUME TracesInv, Traces!Next PROVE TracesInv'
<1>1. CASE Traces!Answer
  BY <1>1, TracesAnswers
<1>2. CASE Traces!Retry \/ Traces!Translate
  BY <1>2, TracesReloads DEF Traces!Retry, Traces!Translate
<1>3. CASE Traces!TypeTrace
  <2>1. PICK x : view' = [view EXCEPT !.draft = x] /\ UNCHANGED <<search, pending, overtaken>>
    BY <1>3 DEF Traces!TypeTrace
  <2>2. Screened(view') /\ view'.shown = view.shown /\ view'.error = view.error
        /\ view'.loading = view.loading
    BY <2>1 DEF TracesInv, MainIn, Screened
  <2> QED BY <2>1, <2>2 DEF TracesInv, MainIn, DetailOf
<1>4. CASE \E s : Traces!Follow(s)
  BY <1>4, TracesFollows
<1>5. /\ Traces!ChooseSince => \E s : Traces!Follow(s)
      /\ Traces!ChooseService => \E s : Traces!Follow(s)
      /\ Traces!SubmitTrace => \E s : Traces!Follow(s)
      /\ Traces!OpenTrace => \E s : Traces!Follow(s)
  BY DEF Traces!ChooseSince, Traces!ChooseService, Traces!SubmitTrace, Traces!OpenTrace
<1>6. /\ Traces!Back => \E s : Traces!Follow(s)
      /\ Traces!TurnPage => \E s : Traces!Follow(s)
      /\ Traces!FollowLink => \E s : Traces!Follow(s)
  BY DEF Traces!Back, Traces!TurnPage, Traces!FollowLink
<1> QED BY <1>1, <1>2, <1>3, <1>4, <1>5, <1>6 DEF Traces!Next, Traces!User

LEMMA TracesDetail == TracesInv => Traces!DetailIsTheTrace
BY DEF TracesInv, DetailOf, Traces!DetailIsTheTrace, Traces!DetailScreen

-----------------------------------------------------------------------------
\* The Containers page.
ListOf(h) == {[id |-> x.id, key |-> x.key] : x \in h.saved}

\* The members on screen are of the group g, or its summary is on its way.
MembersOn(q, late, v, g) ==
    \/ Newest(q, Boxes!SummaryRequest(g))
    \/ AllOld(q, "summary") /\ (v.members.of = g \/ "summary" \in late)

\* The list on screen is the hub's, or the answer that brings it is on its way.
ListOn(q, late, v, h) ==
    \/ v.sheetError \/ Flies(q, "create") \/ Flies(q, "delete")
    \/ \E r \in Reqs(q) : r.to = "groups" /\ Newest(q, r) /\ (~ r.read \/ r.list = ListOf(h))
    \/ AllOld(q, "groups") /\ (v.groups = ListOf(h) \/ v.groupsFailed \/ "groups" \in late)

\* The fields of the requests the hub writes into.
Shaped(x) == /\ x.to = "groups" => {"to", "read", "list"} \subseteq DOMAIN x
             /\ x.to \in {"create", "delete"} => "to" \in DOMAIN x

\* The fields of the sheet and of the group.
Fields(v) == {"members", "groups", "groupsFailed", "sheetError"} \subseteq DOMAIN v

\* The three parts of the page, each with its own kind of requests.
BoxesOn(q, late, v, s, h) ==
    /\ MainIn(q, late, v, {"load"}, Boxes!LoadRequest(s))
    /\ MembersOn(q, late, v, Boxes!Group(s))
    /\ ListOn(q, late, v, h)
    /\ Fields(v) /\ \A x \in Reqs(q) : Shaped(x)

BoxesInv == BoxesOn(pending, overtaken, view, search, hub)

\* The requests of the page, by kind.
LEMMA BoxesKinds ==
    /\ \A s : Boxes!LoadRequest(s).to = "load"
    /\ \A g : Boxes!SummaryRequest(g).to = "summary" /\ Boxes!SummaryRequest(g).group = g
    /\ Boxes!GroupsRequest.to = "groups" /\ ~ Boxes!GroupsRequest.read
    /\ Boxes!DiscoverRequest.to = "discover"
    /\ \A x : x \in {Boxes!GroupsRequest, Boxes!DiscoverRequest} => Shaped(x)
    /\ \A s : Shaped(Boxes!LoadRequest(s))
    /\ \A g : Shaped(Boxes!SummaryRequest(g))
BY DEF Boxes!LoadRequest, Boxes!SummaryRequest, Boxes!GroupsRequest, Boxes!DiscoverRequest, Shaped

\* A step that leaves the requests of the sheet alone keeps its list.
LEMMA ListKept ==
    ASSUME NEW q, NEW late, NEW v, NEW h, ListOn(q, late, v, h),
           NEW q2, NEW late2, NEW v2,
           Preserves(q, q2, "create"), Preserves(q, q2, "delete"), Preserves(q, q2, "groups"),
           "groups" \in late => "groups" \in late2,
           v.sheetError => v2.sheetError, v2.groups = v.groups,
           v.groupsFailed => v2.groupsFailed
    PROVE  ListOn(q2, late2, v2, h)
<1>1. ASSUME NEW r \in Reqs(q), r.to = "groups", Newest(q, r)
      PROVE  Newest(q2, r) /\ r \in Reqs(q2)
  <2>1. Newest(q2, r)
    BY <1>1 DEF Preserves
  <2> QED BY <2>1 DEF Newest, Reqs
<1> QED BY <1>1 DEF ListOn, Preserves

\* Nothing changes but what no part of the invariant reads.
LEMMA BoxesView ==
    ASSUME BoxesInv, UNCHANGED <<search, pending, overtaken, hub>>, Screened(view'), Fields(view'),
           view'.shown = view.shown, view'.error = view.error, view'.loading = view.loading,
           view'.members = view.members, view'.groups = view.groups,
           view'.groupsFailed = view.groupsFailed, view'.sheetError = view.sheetError
    PROVE  BoxesInv'
BY DEF BoxesInv, BoxesOn, MainIn, MembersOn, ListOn

\* What is sent beside the summary and the list.
LEMMA BoxesFollows == ASSUME BoxesInv, NEW s, Boxes!Follow(s) PROVE BoxesInv'
<1> DEFINE settled == IF Boxes!FilterKey(s) # view.filterSeen
                      THEN Boxes!SetState(s, "page", "1", "1") ELSE s
           regroup == Boxes!Group(s) # Boxes!Group(search)
           a1 == IF Boxes!LoadDeps(s) = Boxes!LoadDeps(search) THEN <<>> ELSE <<Boxes!LoadRequest(s)>>
           a2 == IF regroup /\ Boxes!Group(s) # "" THEN <<Boxes!SummaryRequest(Boxes!Group(s))>>
                 ELSE <<>>
           a3 == IF Boxes!Sheet(s) /\ ~ Boxes!Sheet(search) THEN <<Boxes!DiscoverRequest>> ELSE <<>>
           cleared == regroup /\ Boxes!Group(s) = ""
           queue == IF cleared THEN Logs!Outdated(pending, "summary") ELSE pending
           asked == a1 \o a2 \o a3
           load == Boxes!LoadRequest(search')
           g == Boxes!Group(search')
<1>1. /\ search' = settled /\ hub' = hub
      /\ view' = [view EXCEPT !.filterSeen = Boxes!FilterKey(s),
                              !.members = IF cleared THEN Boxes!Everyone ELSE @]
      /\ pending' = Logs!Sent(queue, asked)
      /\ overtaken' = IF cleared THEN overtaken \ {"summary"} ELSE overtaken
  BY SameQueue DEF Boxes!Follow
<1>2. /\ Boxes!LoadRequest(settled) = Boxes!LoadRequest(s)
      /\ Boxes!Group(settled) = Boxes!Group(s)
  BY DEF Boxes!LoadRequest, Boxes!Since, Boxes!Grid, Boxes!Group, Boxes!SetState, Boxes!Read,
         Boxes!Patched, Boxes!Only
<1>3. load = Boxes!LoadRequest(s) /\ g = Boxes!Group(s) /\ load.to = "load"
  BY <1>1, <1>2, BoxesKinds
<1>4. Boxes!LoadDeps(s) = Boxes!LoadDeps(search) => load = Boxes!LoadRequest(search)
  BY <1>3 DEF Boxes!LoadDeps, Boxes!LoadRequest
<1>5. /\ IsQueue(pending) /\ Screened(view) /\ Fields(view)
      /\ \A x \in Reqs(pending) : Shaped(x)
  BY DEF BoxesInv, BoxesOn, MainIn, PartOf
<1>6. /\ Screened(view') /\ Fields(view')
      /\ view'.shown = view.shown /\ view'.error = view.error /\ view'.loading = view.loading
      /\ view'.groups = view.groups /\ view'.groupsFailed = view.groupsFailed
      /\ view'.sheetError = view.sheetError
      /\ cleared => view'.members.of = ""
      /\ ~ cleared => view'.members = view.members
  BY <1>1, <1>5 DEF Screened, Fields, Boxes!Everyone
<1>7. /\ IsQueue(queue) /\ Reqs(queue) = Reqs(pending)
      /\ cleared => AllOld(queue, "summary")
      /\ ~ cleared => queue = pending
      /\ \A kind : kind # "summary" => Preserves(pending, queue, kind)
  <2>1. CASE cleared
    BY <1>5, <2>1, OutdatedKeeps, OutdatedPreserves
  <2>2. CASE ~ cleared
    BY <1>5, <2>2 DEF Preserves
  <2> QED BY <2>1, <2>2
<1>8. /\ IsList(a1) /\ Items(a1) \subseteq {load}
      /\ a1 = <<>> => load = Boxes!LoadRequest(search)
      /\ a1 # <<>> => Ends(a1, load)
      /\ IsList(a2) /\ Items(a2) \subseteq {Boxes!SummaryRequest(g)}
      /\ regroup /\ ~ cleared => Ends(a2, Boxes!SummaryRequest(g))
      /\ ~ (regroup /\ ~ cleared) => a2 = <<>>
      /\ IsList(a3) /\ Items(a3) \subseteq {Boxes!DiscoverRequest}
  BY <1>3, <1>4, Short
<1>9. Items(<<>>) = {}
  BY Short
<1> HIDE DEF a1, a2, a3, load, g, settled, queue
<1>10. /\ IsList(a1 \o a2) /\ Items(a1 \o a2) = Items(a1) \cup Items(a2)
       /\ a1 # <<>> => Ends(a1 \o a2, load)
       /\ regroup /\ ~ cleared => Ends(a1 \o a2, Boxes!SummaryRequest(g))
  <2>1. Lacks(a2, "load")
    BY <1>8, BoxesKinds DEF Lacks
  <2>2. IsList(a1 \o a2) /\ Items(a1 \o a2) = Items(a1) \cup Items(a2)
    BY <1>8, Lists
  <2>3. ASSUME a1 # <<>> PROVE Ends(a1 \o a2, load)
    <3>1. IsList(a1) /\ IsList(a2) /\ Ends(a1, load) /\ Lacks(a2, load.to)
      BY <1>3, <1>8, <2>1, <2>3
    <3> QED BY <3>1, Lists
  <2>4. regroup /\ ~ cleared => Ends(a1 \o a2, Boxes!SummaryRequest(g))
    BY <1>8, Lists
  <2> QED BY <2>2, <2>3, <2>4
<1>11. /\ IsList(asked) /\ Items(asked) = Items(a1) \cup Items(a2) \cup Items(a3)
       /\ a1 # <<>> => Ends(asked, load)
       /\ regroup /\ ~ cleared => Ends(asked, Boxes!SummaryRequest(g))
  <2>1. Lacks(a3, "load") /\ Lacks(a3, "summary")
    BY <1>8, BoxesKinds DEF Lacks
  <2>2. IsList((a1 \o a2) \o a3) /\ Items((a1 \o a2) \o a3) = Items(a1 \o a2) \cup Items(a3)
    BY <1>8, <1>10, Lists
  <2>3. ASSUME a1 # <<>> PROVE Ends((a1 \o a2) \o a3, load)
    <3>1. IsList(a1 \o a2) /\ IsList(a3) /\ Ends(a1 \o a2, load) /\ Lacks(a3, load.to)
      BY <1>3, <1>8, <1>10, <2>1, <2>3
    <3> QED BY <3>1, Lists
  <2>4. ASSUME regroup, ~ cleared PROVE Ends((a1 \o a2) \o a3, Boxes!SummaryRequest(g))
    <3> DEFINE r == Boxes!SummaryRequest(g)
    <3>1. r.to = "summary"
      BY BoxesKinds
    <3>2. IsList(a1 \o a2) /\ IsList(a3) /\ Ends(a1 \o a2, r) /\ Lacks(a3, r.to)
      BY <1>8, <1>10, <2>1, <2>4, <3>1
    <3> HIDE DEF r
    <3>3. Ends((a1 \o a2) \o a3, r)
      BY <3>2, Lists
    <3> QED BY <3>3 DEF r
  <2> QED BY <1>10, <2>2, <2>3, <2>4
<1> HIDE DEF asked
<1>12. \A x \in Items(asked) : Shaped(x) /\ x.to \in {"load", "summary", "discover"}
  BY <1>3, <1>8, <1>11, BoxesKinds DEF load
<1>13. /\ IsQueue(pending') /\ Reqs(pending') = Reqs(pending) \cup Items(asked)
       /\ \A r : Ends(asked, r) => Newest(pending', r)
       /\ \A kind : Lacks(asked, kind) => Preserves(queue, pending', kind)
  BY <1>1, <1>7, <1>11, SentAdds, SentPreserves
<1>14. \A kind \in {"create", "delete", "groups"} : Preserves(pending, pending', kind)
  <2>1. ASSUME NEW kind \in {"create", "delete", "groups"}
        PROVE  Preserves(pending, queue, kind) /\ Preserves(queue, pending', kind)
    BY <1>7, <1>12, <1>13 DEF Lacks
  <2> QED BY <2>1, PreservesTwice
<1>15. \A x \in Reqs(pending') : Shaped(x)
  BY <1>5, <1>12, <1>13
<1>16. MainIn(pending', overtaken', view', {"load"}, load)
  <2>1. CASE a1 = <<>>
    <3>1. MainIn(pending, overtaken, view, {"load"}, load)
      BY <1>8, <2>1 DEF BoxesInv, BoxesOn
    <3>2. Lacks(asked, "load")
      BY <1>8, <1>9, <1>11, <2>1, BoxesKinds DEF Lacks
    <3>3. Preserves(pending, pending', "load")
      BY <1>7, <1>13, <3>2, PreservesTwice
    <3>4. /\ load.to \in overtaken => load.to \in overtaken'
          /\ \A x \in Reqs(pending') : x.to \in {"load"} => x.to = load.to
      BY <1>1, <1>3
    <3>5. Preserves(pending, pending', load.to)
      BY <1>3, <3>3
    <3> QED BY <1>6, <1>13, <3>1, <3>4, <3>5, MainKept
  <2>2. CASE a1 # <<>>
    BY <1>3, <1>6, <1>11, <1>13, <2>2, MainFresh
  <2> QED BY <2>1, <2>2
<1>17. MembersOn(pending', overtaken', view', g)
  <2>1. CASE regroup /\ ~ cleared
    BY <1>11, <1>13, <2>1 DEF MembersOn
  <2>2. CASE ~ (regroup /\ ~ cleared)
    <3>1. Lacks(asked, "summary")
      BY <1>3, <1>8, <1>9, <1>11, <2>2, BoxesKinds DEF Lacks
    <3>2. Preserves(queue, pending', "summary")
      BY <1>13, <3>1
    <3>3. CASE cleared
      BY <1>3, <1>6, <1>7, <3>2, <3>3 DEF MembersOn, Preserves
    <3>4. CASE ~ cleared
      <4>1. MembersOn(pending, overtaken, view, g) /\ queue = pending /\ overtaken' = overtaken
        BY <1>1, <1>3, <1>7, <2>2, <3>4 DEF BoxesInv, BoxesOn
      <4>2. Boxes!SummaryRequest(g).to = "summary"
        BY BoxesKinds
      <4> QED BY <1>6, <3>2, <3>4, <4>1, <4>2 DEF MembersOn, Preserves
    <3> QED BY <3>3, <3>4
  <2> QED BY <2>1, <2>2
<1>18. ListOn(pending', overtaken', view', hub')
  <2>1. ListOn(pending, overtaken, view, hub) /\ hub' = hub
    BY <1>1 DEF BoxesInv, BoxesOn
  <2>2. ListOn(pending', overtaken', view', hub)
    <3>1. /\ Preserves(pending, pending', "create") /\ Preserves(pending, pending', "delete")
          /\ Preserves(pending, pending', "groups")
      BY <1>14
    <3>2. "groups" \in overtaken => "groups" \in overtaken'
      BY <1>1
    <3> QED BY <1>6, <2>1, <3>1, <3>2, ListKept
  <2> QED BY <2>1, <2>2
<1> QED BY <1>6, <1>15, <1>16, <1>17, <1>18 DEF BoxesInv, BoxesOn, load, g

\* A step that leaves the summaries alone keeps the members.
LEMMA MembersKept ==
    ASSUME NEW q, NEW late, NEW v, NEW g, MembersOn(q, late, v, g),
           NEW q2, NEW late2, NEW v2, Preserves(q, q2, "summary"),
           "summary" \in late => "summary" \in late2, v2.members = v.members
    PROVE  MembersOn(q2, late2, v2, g)
<1>1. Boxes!SummaryRequest(g).to = "summary"
  BY BoxesKinds
<1> QED BY <1>1 DEF MembersOn, Preserves

\* The page comes on screen.
LEMMA BoxesMounts ==
    ASSUME NEW s, NEW h
    PROVE  BoxesOn(Logs!Sent(<<>>, Boxes!MountRequests(s)), {}, Boxes!MountView(s), s, h)
<1> DEFINE load == Boxes!LoadRequest(s)
           list == Boxes!GroupsRequest
           g == Boxes!Group(s)
           a1 == <<load, list>>
           a2 == IF g = "" THEN <<>> ELSE <<Boxes!SummaryRequest(g)>>
           a3 == IF Boxes!Sheet(s) THEN <<Boxes!DiscoverRequest>> ELSE <<>>
           asked == a1 \o a2 \o a3
           q == Logs!Sent(<<>>, asked)
           v == Boxes!MountView(s)
<1>1. Boxes!MountRequests(s) = asked
  BY DEF Boxes!MountRequests
<1>2. load.to = "load" /\ list.to = "groups" /\ ~ list.read
  BY BoxesKinds
<1>3. /\ IsList(a1) /\ Items(a1) = {load, list} /\ Ends(a1, list)
      /\ IsList(a2) /\ Items(a2) \subseteq {Boxes!SummaryRequest(g)}
      /\ g # "" => Ends(a2, Boxes!SummaryRequest(g))
      /\ g = "" => Items(a2) = {}
      /\ IsList(a3) /\ Items(a3) \subseteq {Boxes!DiscoverRequest}
  BY Short
<1>4. Ends(a1, load)
  <2>1. a1[1] = load /\ a1[2] = list /\ DOMAIN a1 = {1, 2}
    OBVIOUS
  <2> QED BY <1>2, <2>1 DEF Ends
<1>5. /\ Screened(v) /\ Fields(v) /\ v.members.of = ""
  BY DEF Screened, Fields, Boxes!MountView, Boxes!Everyone
<1> HIDE DEF a1, a2, a3, load, list, g, v
<1>6. /\ Lacks(a2, "load") /\ Lacks(a2, "groups")
      /\ Lacks(a3, "load") /\ Lacks(a3, "groups") /\ Lacks(a3, "summary")
  <2>1. Boxes!DiscoverRequest.to = "discover" /\ Boxes!SummaryRequest(g).to = "summary"
    BY BoxesKinds
  <2> QED BY <1>3, <2>1 DEF Lacks
<1>7. /\ IsList(a1 \o a2) /\ Items(a1 \o a2) = Items(a1) \cup Items(a2)
      /\ Ends(a1 \o a2, load) /\ Ends(a1 \o a2, list)
      /\ g # "" => Ends(a1 \o a2, Boxes!SummaryRequest(g))
  <2>1. IsList(a1 \o a2) /\ Items(a1 \o a2) = Items(a1) \cup Items(a2)
    BY <1>3, Lists
  <2>2. Ends(a1 \o a2, load)
    BY <1>2, <1>3, <1>4, <1>6, Lists
  <2>3. Ends(a1 \o a2, list)
    BY <1>2, <1>3, <1>6, Lists
  <2>4. g # "" => Ends(a1 \o a2, Boxes!SummaryRequest(g))
    BY <1>3, Lists
  <2> QED BY <2>1, <2>2, <2>3, <2>4
<1>8. /\ IsList(asked) /\ Items(asked) = Items(a1) \cup Items(a2) \cup Items(a3)
      /\ Ends(asked, load) /\ Ends(asked, list)
      /\ g # "" => Ends(asked, Boxes!SummaryRequest(g))
  <2>1. IsList(asked) /\ Items(asked) = Items(a1 \o a2) \cup Items(a3)
    BY <1>3, <1>7, Lists
  <2>2. Ends(asked, load)
    BY <1>2, <1>3, <1>6, <1>7, Lists
  <2>3. Ends(asked, list)
    BY <1>2, <1>3, <1>6, <1>7, Lists
  <2>4. ASSUME g # "" PROVE Ends(asked, Boxes!SummaryRequest(g))
    <3>1. Boxes!SummaryRequest(g).to = "summary"
      BY BoxesKinds
    <3> QED BY <1>3, <1>6, <1>7, <2>4, <3>1, Lists
  <2> QED BY <1>7, <2>1, <2>2, <2>3, <2>4
<1> HIDE DEF asked
<1>9. \A x \in Items(asked) :
        /\ Shaped(x) /\ (x.to = "load" => x.to = load.to)
        /\ g = "" => x.to # "summary"
  <2>1. \A x \in Items(asked) : x \in {load, list, Boxes!DiscoverRequest} \cup Items(a2)
    BY <1>3, <1>8
  <2>2. Shaped(load) /\ Shaped(list) /\ Shaped(Boxes!DiscoverRequest)
        /\ Shaped(Boxes!SummaryRequest(g))
    BY BoxesKinds DEF load, list
  <2>3. Boxes!DiscoverRequest.to = "discover" /\ Boxes!SummaryRequest(g).to = "summary"
    BY BoxesKinds
  <2> QED BY <1>2, <1>3, <2>1, <2>2, <2>3
<1>10. MainIn(q, {}, v, {"load"}, load)
  BY <1>2, <1>5, <1>8, <1>9, MainMounted
<1>11. /\ Reqs(q) = Items(asked) /\ \A r : Ends(asked, r) => Newest(q, r)
  <2>1. IsQueue(<<>>) /\ Reqs(<<>>) = {}
    BY ShortLists DEF IsQueue, Reqs
  <2> QED BY <1>8, <2>1, SentAdds
<1> HIDE DEF q
<1>12. MembersOn(q, {}, v, g)
  <2>1. CASE g = ""
    <3>1. AllOld(q, "summary")
      BY <1>9, <1>11, <2>1 DEF AllOld, Reqs
    <3> QED BY <1>5, <2>1, <3>1 DEF MembersOn
  <2>2. CASE g # ""
    BY <1>8, <1>11, <2>2 DEF MembersOn
  <2> QED BY <2>1, <2>2
<1>13. ListOn(q, {}, v, h)
  <2>1. Newest(q, list)
    BY <1>8, <1>11
  <2>2. list \in Reqs(q)
    BY <2>1 DEF Newest, Reqs
  <2> QED BY <1>2, <2>1, <2>2 DEF ListOn
<1> QED BY <1>1, <1>5, <1>9, <1>10, <1>11, <1>12, <1>13 DEF BoxesOn, q, load, g, v

\* The timer, a retry, another language.
LEMMA BoxesReloads == ASSUME BoxesInv, Boxes!Poll \/ Boxes!Reload PROVE BoxesInv'
<1> DEFINE r == Boxes!LoadRequest(search)
<1>1. Sends(<<r>>, {}) /\ UNCHANGED <<search, view, hub>>
  BY SameSend DEF Boxes!Poll, Boxes!Reload
<1>2. /\ MainIn(pending, overtaken, view, {"load"}, r) /\ IsQueue(pending)
      /\ MembersOn(pending, overtaken, view, Boxes!Group(search))
      /\ ListOn(pending, overtaken, view, hub) /\ Fields(view)
      /\ \A x \in Reqs(pending) : Shaped(x)
      /\ \A x \in Reqs(pending) : x.to \in {"load"} => x.to = r.to
      /\ Screened(view)
  BY DEF BoxesInv, BoxesOn, MainIn, PartOf
<1>3. r.to = "load" /\ Shaped(r)
  BY BoxesKinds
<1> HIDE DEF r
<1>4. IsList(<<r>>) /\ Items(<<r>>) = {r} /\ Ends(<<r>>, r)
  BY Short
<1>5. MainIn(pending', overtaken', view', {"load"}, r)
  BY <1>1, <1>2, <1>3, <1>4, MainAsks
<1>6. Reqs(pending') = {x \in Reqs(pending) : x.to \notin {}} \cup {r}
  BY <1>1, <1>2, <1>4, SendLeaves
<1>7. \A kind : kind # "load" => Preserves(pending, pending', kind)
  BY <1>1, <1>2, <1>3, <1>4, SendPreserves DEF Lacks
<1>8. overtaken' = overtaken
  BY <1>1 DEF Sends
<1>9. MembersOn(pending', overtaken', view', Boxes!Group(search))
  BY <1>1, <1>2, <1>7, <1>8, MembersKept
<1>10. ListOn(pending', overtaken', view', hub)
  BY <1>1, <1>2, <1>7, <1>8, ListKept
<1> QED BY <1>1, <1>2, <1>3, <1>5, <1>6, <1>9, <1>10 DEF BoxesInv, BoxesOn, r

\* A group is created: the list waits for the end of the call.
LEMMA BoxesCalls ==
    ASSUME BoxesInv, NEW req, req.to = "create", "to" \in DOMAIN req, Boxes!Call(req)
    PROVE  BoxesInv'
<1> DEFINE r == Boxes!LoadRequest(search)
<1>1. Sends(<<req>>, {}) /\ UNCHANGED <<search, view, hub>>
  BY SameSend DEF Boxes!Call
<1>2. /\ MainIn(pending, overtaken, view, {"load"}, r) /\ IsQueue(pending)
      /\ MembersOn(pending, overtaken, view, Boxes!Group(search)) /\ Fields(view)
      /\ \A x \in Reqs(pending) : Shaped(x)
      /\ Screened(view)
  BY DEF BoxesInv, BoxesOn, MainIn, PartOf
<1>3. r.to = "load" /\ Shaped(req)
  BY BoxesKinds DEF Shaped
<1> HIDE DEF r
<1>4. IsList(<<req>>) /\ Items(<<req>>) = {req}
  BY Short
<1>5. MainIn(pending', overtaken', view', {"load"}, r)
  <2>1. SameScreen
    BY <1>1, <1>2 DEF SameScreen
  <2> QED BY <1>1, <1>2, <1>3, <1>4, <2>1, MainStays
<1>6. Reqs(pending') = {x \in Reqs(pending) : x.to \notin {}} \cup {req}
  BY <1>1, <1>2, <1>4, SendLeaves
<1>7. Preserves(pending, pending', "summary")
  BY <1>1, <1>2, <1>4, SendPreserves DEF Lacks
<1>8. MembersOn(pending', overtaken', view', Boxes!Group(search))
  BY <1>1, <1>2, <1>7, MembersKept DEF Sends
<1>9. ListOn(pending', overtaken', view', hub')
  BY <1>6 DEF ListOn, Flies
<1> QED BY <1>1, <1>2, <1>3, <1>5, <1>6, <1>8, <1>9 DEF BoxesInv, BoxesOn, r

\* A group is deleted; selected, it is let go first.
LEMMA BoxesRemoves == ASSUME BoxesInv, Boxes!RemoveGroup PROVE BoxesInv'
<1> DEFINE r == Boxes!LoadRequest(search')
           g == Boxes!Group(search')
<1>1. PICK x : x \in view.groups /\
        LET active == Boxes!Group(search) = x.id
            call   == [to |-> "delete", id |-> x.id, done |-> FALSE]
            cleared == IF active THEN Boxes!Outdated(pending, "summary") ELSE pending
            settled == IF active
                       THEN Boxes!SetState(Boxes!SetState(search, "group", "", ""), "page", "1", "1")
                       ELSE search
        IN /\ search' = settled
           /\ view' = [view EXCEPT !.filterSeen = Boxes!FilterKey(settled),
                                   !.members = IF active THEN Boxes!Everyone ELSE @]
           /\ pending' = Boxes!Sent(cleared, <<call>>)
           /\ overtaken' = IF active THEN overtaken \ {"summary"} ELSE overtaken
           /\ UNCHANGED hub
  BY DEF Boxes!RemoveGroup
<1> DEFINE active == Boxes!Group(search) = x.id
           call   == [to |-> "delete", id |-> x.id, done |-> FALSE]
           queue == IF active THEN Logs!Outdated(pending, "summary") ELSE pending
           cut == Boxes!SetState(Boxes!SetState(search, "group", "", ""), "page", "1", "1")
<1>2. /\ search' = IF active THEN cut ELSE search
      /\ view' = [view EXCEPT !.filterSeen = Boxes!FilterKey(search'),
                              !.members = IF active THEN Boxes!Everyone ELSE @]
      /\ pending' = Logs!Sent(queue, <<call>>)
      /\ overtaken' = IF active THEN overtaken \ {"summary"} ELSE overtaken
      /\ hub' = hub
  BY <1>1, SameQueue
<1>3. Boxes!LoadRequest(cut) = Boxes!LoadRequest(search) /\ Boxes!Group(cut) = ""
  BY DEF Boxes!LoadRequest, Boxes!Since, Boxes!Grid, Boxes!Group, Boxes!SetState, Boxes!Read,
         Boxes!Patched, Boxes!Only, Boxes!Blank
<1>4. /\ r = Boxes!LoadRequest(search) /\ r.to = "load"
      /\ active => g = ""
      /\ ~ active => g = Boxes!Group(search)
  BY <1>2, <1>3, BoxesKinds
<1> HIDE DEF cut
<1>5. /\ MainIn(pending, overtaken, view, {"load"}, Boxes!LoadRequest(search)) /\ IsQueue(pending)
      /\ MembersOn(pending, overtaken, view, Boxes!Group(search)) /\ Fields(view)
      /\ \A y \in Reqs(pending) : Shaped(y)
      /\ \A y \in Reqs(pending) : y.to \in {"load"} => y.to = "load"
      /\ Screened(view)
  BY DEF BoxesInv, BoxesOn, MainIn, PartOf
<1>6. /\ Screened(view') /\ Fields(view')
      /\ view'.shown = view.shown /\ view'.error = view.error /\ view'.loading = view.loading
      /\ active => view'.members.of = ""
      /\ ~ active => view'.members = view.members
  BY <1>2, <1>5 DEF Screened, Fields, Boxes!Everyone
<1>7. /\ IsQueue(queue) /\ Reqs(queue) = Reqs(pending)
      /\ active => AllOld(queue, "summary")
      /\ \A kind : kind # "summary" => Preserves(pending, queue, kind)
  <2>1. CASE active
    BY <1>5, <2>1, OutdatedKeeps, OutdatedPreserves
  <2>2. CASE ~ active
    BY <1>5, <2>2 DEF Preserves
  <2> QED BY <2>1, <2>2
<1>8. call.to = "delete" /\ Shaped(call)
  BY DEF Shaped
<1>9. ~ active => queue = pending
  OBVIOUS
<1> HIDE DEF r, g, queue, active, call
<1>10. IsList(<<call>>) /\ Items(<<call>>) = {call}
  BY Short
<1>11. /\ IsQueue(pending') /\ Reqs(pending') = Reqs(pending) \cup {call}
       /\ \A kind : kind # "delete" => Preserves(queue, pending', kind)
  <2>1. IsQueue(pending') /\ Reqs(pending') = Reqs(pending) \cup {call}
    BY <1>2, <1>7, <1>10, SentAdds
  <2>2. ASSUME NEW kind, kind # "delete" PROVE Preserves(queue, pending', kind)
    BY <1>2, <1>7, <1>8, <1>10, <2>2, SentPreserves DEF Lacks
  <2> QED BY <2>1, <2>2
<1>12. MainIn(pending', overtaken', view', {"load"}, r)
  <2>1. Preserves(pending, pending', "load")
    BY <1>7, <1>11, PreservesTwice
  <2>2. MainIn(pending, overtaken, view, {"load"}, r)
    BY <1>4, <1>5
  <2>3. "load" \in overtaken => "load" \in overtaken'
    BY <1>2
  <2>4. IsQueue(pending') /\ \A y \in Reqs(pending') : y.to \in {"load"} => y.to = r.to
    BY <1>4, <1>11
  <2>5. r.to \in overtaken => r.to \in overtaken'
    BY <1>4, <2>3
  <2>6. Preserves(pending, pending', r.to)
    BY <1>4, <2>1
  <2> QED BY <1>6, <2>2, <2>4, <2>5, <2>6, MainKept
<1>13. MembersOn(pending', overtaken', view', g)
  <2>1. CASE active
    <3>1. AllOld(pending', "summary")
      BY <1>7, <1>11, <2>1 DEF Preserves
    <3> QED BY <1>4, <1>6, <2>1, <3>1 DEF MembersOn
  <2>2. CASE ~ active
    <3>1. Preserves(pending, pending', "summary")
      BY <1>9, <1>11, <2>2
    <3>2. MembersOn(pending, overtaken, view, g)
      BY <1>4, <1>5, <2>2
    <3> QED BY <1>2, <1>6, <2>2, <3>1, <3>2, MembersKept
  <2> QED BY <2>1, <2>2
<1>14. ListOn(pending', overtaken', view', hub')
  BY <1>8, <1>11 DEF ListOn, Flies
<1> QED BY <1>5, <1>6, <1>8, <1>11, <1>12, <1>13, <1>14 DEF BoxesInv, BoxesOn, r, g

\* The form of a new group.
LEMMA BoxesTypes ==
    ASSUME BoxesInv, Boxes!TypeName \/ Boxes!ToggleContainer PROVE BoxesInv'
<1>1. Screened(view) /\ Fields(view)
  BY DEF BoxesInv, BoxesOn, MainIn
<1>2. PICK n, m : /\ \/ view' = [view EXCEPT !.name = n]
                     \/ view' = [view EXCEPT !.selected = m]
                  /\ UNCHANGED <<search, pending, overtaken, hub>>
  BY DEF Boxes!TypeName, Boxes!ToggleContainer
<1>3. /\ Screened(view') /\ Fields(view')
      /\ view'.shown = view.shown /\ view'.error = view.error /\ view'.loading = view.loading
      /\ view'.members = view.members /\ view'.groups = view.groups
      /\ view'.groupsFailed = view.groupsFailed /\ view'.sheetError = view.sheetError
  <2>1. CASE view' = [view EXCEPT !.name = n]
    BY <1>1, <2>1 DEF Screened, Fields
  <2>2. CASE view' = [view EXCEPT !.selected = m]
    BY <1>1, <2>2 DEF Screened, Fields
  <2> QED BY <1>2, <2>1, <2>2
<1> QED BY <1>2, <1>3, BoxesView

\* The hub does something about one request in flight.
LEMMA BoxesEdits ==
    ASSUME BoxesInv, NEW i \in DOMAIN pending, NEW n, n.to = pending[i].req.to, Shaped(n),
           n.to \in {"create", "delete", "groups"},
           pending' = Edited(pending, i, n),
           UNCHANGED <<search, view, overtaken>>
    PROVE  /\ ListOn(pending', overtaken', view', hub') => BoxesInv'
           /\ Reqs(pending') \subseteq Reqs(pending) \cup {n}
           /\ \A kind : AllOld(pending, kind) => AllOld(pending', kind)
           /\ \A kind : Flies(pending, kind) => Flies(pending', kind)
           /\ \A r : Newest(pending, r) =>
                Newest(pending', r) \/ (Newest(pending', n) /\ r = pending[i].req)
<1> DEFINE r == Boxes!LoadRequest(search)
           g == Boxes!Group(search)
<1>1. /\ MainIn(pending, overtaken, view, {"load"}, r) /\ IsQueue(pending)
      /\ MembersOn(pending, overtaken, view, g) /\ Fields(view)
      /\ \A x \in Reqs(pending) : Shaped(x)
      /\ Screened(view)
  BY DEF BoxesInv, BoxesOn, MainIn, PartOf
<1>2. r.to = "load"
  BY BoxesKinds
<1> HIDE DEF r, g
<1>3. /\ IsQueue(pending') /\ Reqs(pending') \subseteq Reqs(pending) \cup {n}
      /\ \A kind : AllOld(pending, kind) => AllOld(pending', kind)
      /\ \A kind : Flies(pending, kind) => Flies(pending', kind)
      /\ \A x : Newest(pending, x) =>
           Newest(pending', x) \/ (Newest(pending', n) /\ x = pending[i].req)
  BY <1>1, EditKeeps
<1>4. Preserves(pending, pending', "load") /\ Preserves(pending, pending', "summary")
  BY <1>3 DEF Preserves
<1>5. MainIn(pending', overtaken', view', {"load"}, r)
  BY <1>1, <1>2, <1>3, <1>4, MainKept
<1>6. MembersOn(pending', overtaken', view', g)
  BY <1>1, <1>4, MembersKept
<1>7. search' = search /\ view' = view /\ \A x \in Reqs(pending') : Shaped(x)
  BY <1>1, <1>3
<1>8. ListOn(pending', overtaken', view', hub') => BoxesInv'
  BY <1>1, <1>5, <1>6, <1>7 DEF BoxesInv, BoxesOn, r, g
<1> QED BY <1>3, <1>8

\* The hub performs a call that is still in flight.
LEMMA BoxesPerforms == ASSUME BoxesInv, Boxes!HubPerforms PROVE BoxesInv'
<1>1. PICK i \in DOMAIN pending : /\ pending[i].req.to \in {"create", "delete"}
                                  /\ pending' = [pending EXCEPT ![i].req.done = TRUE]
                                  /\ UNCHANGED <<search, view, overtaken>>
  BY DEF Boxes!HubPerforms
<1> DEFINE n == [pending[i].req EXCEPT !.done = TRUE]
<1>2. pending' = Edited(pending, i, n)
  BY <1>1 DEF Edited
<1>3. Shaped(pending[i].req)
  BY DEF BoxesInv, BoxesOn, Reqs
<1>4. n.to = pending[i].req.to /\ DOMAIN n = DOMAIN pending[i].req
  BY <1>1, <1>3 DEF Shaped
<1>5. Shaped(n)
  BY <1>1, <1>3, <1>4 DEF Shaped
<1> HIDE DEF n
<1>6. /\ ListOn(pending', overtaken', view', hub') => BoxesInv'
      /\ \A kind : Flies(pending, kind) => Flies(pending', kind)
  BY <1>1, <1>2, <1>4, <1>5, BoxesEdits
<1>7. Flies(pending, "create") \/ Flies(pending, "delete")
  BY <1>1 DEF Flies, Reqs
<1> QED BY <1>6, <1>7 DEF ListOn

\* The hub reads the list for a request that is still in flight.
LEMMA BoxesReads == ASSUME BoxesInv, Boxes!HubReads PROVE BoxesInv'
<1>1. PICK i \in DOMAIN pending :
        /\ pending[i].req.to = "groups"
        /\ pending' = [pending EXCEPT ![i].req.read = TRUE, ![i].req.list = Boxes!GroupList]
        /\ UNCHANGED <<search, view, overtaken, hub>>
  BY DEF Boxes!HubReads
<1> DEFINE list == ListOf(hub)
           n == [pending[i].req EXCEPT !.read = TRUE, !.list = list]
<1>2. Boxes!GroupList = list
  BY DEF Boxes!GroupList, ListOf
<1> HIDE DEF list
<1>3. /\ Shaped(pending[i].req) /\ IsQueue(pending) /\ ListOn(pending, overtaken, view, hub)
  BY DEF BoxesInv, BoxesOn, Reqs, MainIn, PartOf
<1>4. pending' = Edited(pending, i, n)
  <2>1. DOMAIN pending = 1 .. Len(pending) /\ {"req", "old"} \subseteq DOMAIN pending[i]
    BY <1>3, ListIsFunction DEF IsQueue
  <2> QED BY <1>1, <1>2, <2>1 DEF Edited
<1>5. /\ n.to = "groups" /\ DOMAIN n = DOMAIN pending[i].req
      /\ n.list = list
  BY <1>1, <1>3 DEF Shaped
<1>6. Shaped(n)
  BY <1>1, <1>3, <1>5 DEF Shaped
<1> HIDE DEF n
<1>7. /\ ListOn(pending', overtaken', view', hub') => BoxesInv'
      /\ \A kind : AllOld(pending, kind) => AllOld(pending', kind)
      /\ \A kind : Flies(pending, kind) => Flies(pending', kind)
      /\ \A r : Newest(pending, r) =>
           Newest(pending', r) \/ (Newest(pending', n) /\ r = pending[i].req)
  BY <1>1, <1>4, <1>5, <1>6, BoxesEdits
<1>8. ASSUME NEW r \in Reqs(pending), r.to = "groups", Newest(pending, r),
             ~ r.read \/ r.list = list
      PROVE  \E x \in Reqs(pending') : /\ x.to = "groups" /\ Newest(pending', x)
                                       /\ ~ x.read \/ x.list = list
  <2>1. CASE Newest(pending', r)
    BY <1>8, <2>1 DEF Newest, Reqs
  <2>2. CASE Newest(pending', n)
    BY <1>5, <2>2 DEF Newest, Reqs
  <2> QED BY <1>7, <1>8, <2>1, <2>2
<1>9. ListOn(pending', overtaken', view', hub')
  BY <1>1, <1>3, <1>7, <1>8 DEF ListOn, list
<1> QED BY <1>7, <1>9

\* The rows and the members of a group are answered.
LEMMA BoxesAnswersPage ==
    ASSUME BoxesInv, NEW i \in DOMAIN pending, Boxes!LoadAnswer(i) \/ Boxes!SummaryAnswer(i),
           UNCHANGED <<search, hub>>
    PROVE  BoxesInv'
<1> DEFINE r == Boxes!LoadRequest(search)
           g == Boxes!Group(search)
<1>1. /\ MainIn(pending, overtaken, view, {"load"}, r) /\ IsQueue(pending)
      /\ MembersOn(pending, overtaken, view, g) /\ Fields(view)
      /\ ListOn(pending, overtaken, view, hub)
      /\ \A x \in Reqs(pending) : Shaped(x)
      /\ Screened(view)
  BY DEF BoxesInv, BoxesOn, MainIn, PartOf
<1>2. r.to = "load" /\ Boxes!SummaryRequest(g).to = "summary" /\ Boxes!SummaryRequest(g).group = g
  BY BoxesKinds
<1>3. Logs!Receive(i)
  BY SameReceive DEF Boxes!LoadAnswer, Boxes!SummaryAnswer
<1> DEFINE s == Logs!AfterAnswer(i)
           a == pending[i].req
<1>4. pending' = s /\ overtaken' = IF pending[i].old THEN overtaken \cup {a.to}
                                   ELSE overtaken \ {a.to}
  BY <1>3 DEF Logs!Receive
<1>5. /\ Reqs(s) \subseteq Reqs(pending)
      /\ \A x : Newest(pending, x) /\ a.to = x.to =>
                  Newest(s, x) \/ (a = x /\ ~ pending[i].old /\ AllOld(s, x.to))
      /\ \A kind : AllOld(pending, kind) =>
                  AllOld(s, kind) /\ (a.to = kind => pending[i].old)
  BY <1>1, AnswerKeeps
<1>6. \A kind : a.to # kind => Preserves(pending, s, kind)
  BY <1>1, AnswerPreserves
<1>7. a.to \in {"load", "summary"}
  BY DEF Boxes!LoadAnswer, Boxes!SummaryAnswer
<1>8. /\ Screened(view') /\ Fields(view')
      /\ view'.groups = view.groups /\ view'.groupsFailed = view.groupsFailed
      /\ view'.sheetError = view.sheetError
      /\ a.to = "load" => /\ view'.members = view.members /\ ~ view'.loading
                          /\ view'.shown.req = a \/ view'.error
      /\ a.to = "summary" => /\ view'.members.of = a.group
                             /\ view'.shown = view.shown /\ view'.error = view.error
                             /\ view'.loading = view.loading
  <2>1. CASE Boxes!LoadAnswer(i)
    <3>1. a.to = "load" /\ Screened(view) /\ Fields(view)
      BY <1>1, <2>1 DEF Boxes!LoadAnswer
    <3>2. CASE view' = [view EXCEPT !.error = TRUE, !.loading = FALSE]
      BY <3>1, <3>2 DEF Screened, Fields
    <3>3. CASE \E x \in Snapshots :
                 view' = [view EXCEPT !.shown = [req |-> a, cpu |-> x.cpu,
                                                 status |-> x.status],
                                      !.error = FALSE, !.loading = FALSE]
      BY <3>1, <3>3 DEF Screened, Fields
    <3> QED BY <2>1, <3>2, <3>3 DEF Boxes!LoadAnswer
  <2>2. CASE Boxes!SummaryAnswer(i)
    <3>1. a.to = "summary" /\ Screened(view) /\ Fields(view)
      BY <1>1, <2>2 DEF Boxes!SummaryAnswer
    <3>2. \E b : view' = [view EXCEPT !.members = [of |-> a.group, failed |-> b]]
      BY <2>2 DEF Boxes!SummaryAnswer
    <3> QED BY <3>1, <3>2 DEF Screened, Fields
  <2> QED BY <2>1, <2>2
<1> HIDE DEF r, g, s, a
<1>9. MainIn(pending', overtaken', view', {"load"}, r)
  <2>1. CASE a.to = "load"
    BY <1>1, <1>3, <1>8, <2>1, MainTakes DEF a
  <2>2. CASE a.to # "load"
    <3>1. SameScreen
      BY <1>1, <1>7, <1>8, <2>2 DEF SameScreen
    <3> QED BY <1>1, <1>2, <1>3, <2>2, <3>1, MainIgnores DEF a
  <2> QED BY <2>1, <2>2
<1>10. MembersOn(pending', overtaken', view', g)
  <2>1. CASE a.to = "summary"
    <3>1. CASE Newest(pending, Boxes!SummaryRequest(g))
      BY <1>2, <1>4, <1>5, <1>8, <2>1, <3>1 DEF MembersOn
    <3>2. CASE AllOld(pending, "summary")
      BY <1>4, <1>5, <2>1, <3>2 DEF MembersOn
    <3> QED BY <1>1, <3>1, <3>2 DEF MembersOn
  <2>2. CASE a.to # "summary"
    <3>1. Preserves(pending, pending', "summary")
      BY <1>4, <1>6, <2>2
    <3>2. "summary" \in overtaken => "summary" \in overtaken'
      BY <1>4, <2>2
    <3>3. view'.members = view.members
      BY <1>7, <1>8, <2>2
    <3> QED BY <1>1, <3>1, <3>2, <3>3, MembersKept
  <2> QED BY <2>1, <2>2
<1>11. ListOn(pending', overtaken', view', hub)
  <2>1. /\ Preserves(pending, pending', "create") /\ Preserves(pending, pending', "delete")
        /\ Preserves(pending, pending', "groups")
    BY <1>4, <1>6, <1>7
  <2>2. "groups" \in overtaken => "groups" \in overtaken'
    BY <1>4, <1>7
  <2> QED BY <1>1, <1>8, <2>1, <2>2, ListKept
<1>12. \A x \in Reqs(pending') : Shaped(x)
  BY <1>1, <1>4, <1>5
<1> QED BY <1>8, <1>9, <1>10, <1>11, <1>12 DEF BoxesInv, BoxesOn, r, g

\* The list and the suggestions are answered.
LEMMA BoxesAnswersSheet ==
    ASSUME BoxesInv, NEW i \in DOMAIN pending,
           Boxes!GroupsAnswer(i) \/ Boxes!DiscoverAnswer(i), UNCHANGED <<search, hub>>
    PROVE  BoxesInv'
<1> DEFINE r == Boxes!LoadRequest(search)
           g == Boxes!Group(search)
           list == ListOf(hub)
<1>1. /\ MainIn(pending, overtaken, view, {"load"}, r) /\ IsQueue(pending)
      /\ MembersOn(pending, overtaken, view, g) /\ Fields(view)
      /\ ListOn(pending, overtaken, view, hub)
      /\ \A x \in Reqs(pending) : Shaped(x)
      /\ Screened(view)
  BY DEF BoxesInv, BoxesOn, MainIn, PartOf
<1>2. r.to = "load"
  BY BoxesKinds
<1>3. Logs!Receive(i)
  BY SameReceive DEF Boxes!GroupsAnswer, Boxes!DiscoverAnswer
<1> DEFINE s == Logs!AfterAnswer(i)
           a == pending[i].req
<1>4. pending' = s /\ overtaken' = IF pending[i].old THEN overtaken \cup {a.to}
                                   ELSE overtaken \ {a.to}
  BY <1>3 DEF Logs!Receive
<1>5. /\ Reqs(s) \subseteq Reqs(pending)
      /\ \A x : Newest(pending, x) /\ a.to = x.to =>
                  Newest(s, x) \/ (a = x /\ ~ pending[i].old /\ AllOld(s, x.to))
      /\ \A kind : AllOld(pending, kind) =>
                  AllOld(s, kind) /\ (a.to = kind => pending[i].old)
  BY <1>1, AnswerKeeps
<1>6. \A kind : a.to # kind => Preserves(pending, s, kind)
  BY <1>1, AnswerPreserves
<1>7. a.to \in {"groups", "discover"}
  BY DEF Boxes!GroupsAnswer, Boxes!DiscoverAnswer
<1>8. /\ Screened(view') /\ Fields(view')
      /\ view'.shown = view.shown /\ view'.error = view.error
      /\ view'.loading = view.loading /\ view'.members = view.members
      /\ view'.sheetError = view.sheetError
      /\ a.to = "groups" => \/ a.read /\ view'.groups = a.list
                            \/ view'.groupsFailed
      /\ a.to = "discover" => /\ view'.groups = view.groups
                              /\ view'.groupsFailed = view.groupsFailed
  <2>1. CASE Boxes!GroupsAnswer(i)
    <3>1. a.to = "groups" /\ Screened(view) /\ Fields(view)
      BY <1>1, <2>1 DEF Boxes!GroupsAnswer
    <3>2. CASE a.read /\ view' = [view EXCEPT !.groups = a.list, !.groupsFailed = FALSE]
      BY <3>1, <3>2 DEF Screened, Fields
    <3>3. CASE view' = [view EXCEPT !.groups = {}, !.groupsFailed = TRUE]
      BY <3>1, <3>3 DEF Screened, Fields
    <3> QED BY <2>1, <3>2, <3>3 DEF Boxes!GroupsAnswer
  <2>2. CASE Boxes!DiscoverAnswer(i)
    <3>1. a.to = "discover" /\ Screened(view) /\ Fields(view)
      BY <1>1, <2>2 DEF Boxes!DiscoverAnswer
    <3>2. \E ks : view' = [view EXCEPT !.discovered = ks]
      BY <2>2 DEF Boxes!DiscoverAnswer
    <3> QED BY <3>1, <3>2 DEF Screened, Fields
  <2> QED BY <2>1, <2>2
<1> HIDE DEF r, g, s, a, list
<1>9. MainIn(pending', overtaken', view', {"load"}, r)
  <2>1. SameScreen
    BY <1>8 DEF SameScreen
  <2> QED BY <1>1, <1>2, <1>3, <1>7, <2>1, MainIgnores DEF a
<1>10. MembersOn(pending', overtaken', view', g)
  <2>1. Preserves(pending, pending', "summary")
    BY <1>4, <1>6, <1>7
  <2>2. "summary" \in overtaken => "summary" \in overtaken'
    BY <1>4, <1>7
  <2> QED BY <1>1, <1>8, <2>1, <2>2, MembersKept
<1>11. ListOn(pending', overtaken', view', hub)
  <2>1. Preserves(pending, pending', "create") /\ Preserves(pending, pending', "delete")
    BY <1>4, <1>6, <1>7
  <2>2. CASE a.to = "discover"
    <3>1. Preserves(pending, pending', "groups")
      BY <1>4, <1>6, <2>2
    <3>2. "groups" \in overtaken => "groups" \in overtaken'
      BY <1>4, <2>2
    <3> QED BY <1>1, <1>8, <2>1, <2>2, <3>1, <3>2, ListKept
  <2>3. CASE a.to = "groups"
    <3>1. CASE view.sheetError \/ Flies(pending, "create") \/ Flies(pending, "delete")
      BY <1>8, <2>1, <3>1 DEF ListOn, Preserves
    <3>2. ASSUME NEW x \in Reqs(pending), x.to = "groups", Newest(pending, x),
                 ~ x.read \/ x.list = list
          PROVE  ListOn(pending', overtaken', view', hub)
      <4>1. CASE Newest(pending', x)
        <5>1. x \in Reqs(pending')
          BY <4>1 DEF Newest, Reqs
        <5> QED BY <3>2, <4>1, <5>1 DEF ListOn, list
      <4>2. CASE a = x /\ AllOld(s, "groups")
        BY <1>4, <1>8, <2>3, <3>2, <4>2 DEF ListOn, list
      <4> QED BY <1>4, <1>5, <2>3, <3>2, <4>1, <4>2
    <3>3. CASE AllOld(pending, "groups")
      BY <1>4, <1>5, <2>3, <3>3 DEF ListOn
    <3> QED BY <1>1, <3>1, <3>2, <3>3 DEF ListOn, list
  <2> QED BY <1>7, <2>2, <2>3
<1>12. \A x \in Reqs(pending') : Shaped(x)
  BY <1>1, <1>4, <1>5
<1> QED BY <1>8, <1>9, <1>10, <1>11, <1>12 DEF BoxesInv, BoxesOn, r, g

\* A call is answered, and the list asked for again; or it fails.
LEMMA BoxesAnswersCall ==
    ASSUME BoxesInv, NEW i \in DOMAIN pending,
           Boxes!CallAnswer(i) \/ Boxes!CallFailure(i), UNCHANGED <<search, hub>>
    PROVE  BoxesInv'
<1> DEFINE r == Boxes!LoadRequest(search)
           g == Boxes!Group(search)
           list == Boxes!GroupsRequest
           s == Logs!AfterAnswer(i)
           a == pending[i].req
           next == <<list, Boxes!DiscoverRequest>>
<1>1. /\ MainIn(pending, overtaken, view, {"load"}, r) /\ IsQueue(pending)
      /\ MembersOn(pending, overtaken, view, g) /\ Fields(view)
      /\ \A x \in Reqs(pending) : Shaped(x)
      /\ Screened(view)
      /\ \A x \in Reqs(pending) : x.to \in {"load"} => x.to = r.to
  BY DEF BoxesInv, BoxesOn, MainIn, PartOf
<1>2. /\ r.to = "load" /\ list.to = "groups" /\ ~ list.read
      /\ Boxes!DiscoverRequest.to = "discover"
      /\ Shaped(list) /\ Shaped(Boxes!DiscoverRequest)
  BY BoxesKinds
<1>3. /\ a.to \in {"create", "delete"} /\ overtaken' = overtaken
      /\ \/ pending' = Logs!Sent(s, next)
         \/ pending' = s /\ view'.sheetError
      /\ Screened(view') /\ Fields(view')
      /\ view'.shown = view.shown /\ view'.error = view.error
      /\ view'.loading = view.loading /\ view'.members = view.members
  <2>1. CASE Boxes!CallAnswer(i)
    BY <1>1, <2>1, SameQueue DEF Boxes!CallAnswer, Screened, Fields
  <2>2. CASE Boxes!CallFailure(i)
    BY <1>1, <2>2, SameQueue DEF Boxes!CallFailure, Screened, Fields
  <2> QED BY <2>1, <2>2
<1>4. IsQueue(s) /\ Reqs(s) \subseteq Reqs(pending)
  BY <1>1, AnswerKeeps
<1>5. \A kind : a.to # kind => Preserves(pending, s, kind)
  BY <1>1, AnswerPreserves
<1>6. /\ IsList(next) /\ Items(next) = {list, Boxes!DiscoverRequest}
  BY Short
<1>7. Ends(next, list)
  <2>1. next[1] = list /\ next[2] = Boxes!DiscoverRequest /\ DOMAIN next = {1, 2}
    OBVIOUS
  <2> HIDE DEF next
  <2> QED BY <1>2, <2>1 DEF Ends
<1> HIDE DEF r, g, list, s, a, next
<1>8. /\ IsQueue(pending')
      /\ Reqs(pending') \subseteq Reqs(pending) \cup {list, Boxes!DiscoverRequest}
      /\ Preserves(pending, pending', "load") /\ Preserves(pending, pending', "summary")
      /\ Newest(pending', list) \/ view'.sheetError
  <2>1. CASE pending' = s /\ view'.sheetError
    BY <1>3, <1>4, <1>5, <2>1
  <2>2. CASE pending' = Logs!Sent(s, next)
    <3>1. /\ IsQueue(pending') /\ Reqs(pending') = Reqs(s) \cup Items(next)
          /\ Newest(pending', list)
      BY <1>4, <1>6, <1>7, <2>2, SentAdds
    <3>2. Lacks(next, "load") /\ Lacks(next, "summary")
      BY <1>2, <1>6 DEF Lacks
    <3>3. Preserves(s, pending', "load") /\ Preserves(s, pending', "summary")
      BY <1>4, <1>6, <2>2, <3>2, SentPreserves
    <3>4. Preserves(pending, s, "load") /\ Preserves(pending, s, "summary")
      BY <1>3, <1>5
    <3>5. Preserves(pending, pending', "load")
      BY <3>3, <3>4, PreservesTwice
    <3>6. Preserves(pending, pending', "summary")
      BY <3>3, <3>4, PreservesTwice
    <3> QED BY <1>4, <1>6, <3>1, <3>5, <3>6
  <2> QED BY <1>3, <2>1, <2>2
<1>9. MainIn(pending', overtaken', view', {"load"}, r)
  <2>1. \A x \in Reqs(pending') : x.to \in {"load"} => x.to = r.to
    BY <1>2
  <2> QED BY <1>1, <1>2, <1>3, <1>8, <2>1, MainKept
<1>10. MembersOn(pending', overtaken', view', g)
  BY <1>1, <1>3, <1>8, MembersKept
<1>11. ListOn(pending', overtaken', view', hub)
  <2>1. CASE view'.sheetError
    BY <2>1 DEF ListOn
  <2>2. CASE Newest(pending', list)
    <3>1. list \in Reqs(pending')
      BY <2>2 DEF Newest, Reqs
    <3> QED BY <1>2, <2>2, <3>1 DEF ListOn
  <2> QED BY <1>8, <2>1, <2>2
<1>12. \A x \in Reqs(pending') : Shaped(x)
  BY <1>1, <1>2, <1>8
<1> QED BY <1>3, <1>9, <1>10, <1>11, <1>12 DEF BoxesInv, BoxesOn, r, g

\* Every step of the page.
LEMMA BoxesKeeps == ASSUME BoxesInv, Boxes!Next PROVE BoxesInv'
<1>1. CASE Boxes!PageAnswer
  BY <1>1, BoxesAnswersPage DEF Boxes!PageAnswer
<1>2. CASE Boxes!SheetAnswer
  <2>1. PICK i \in DOMAIN pending : \/ Boxes!CallAnswer(i) \/ Boxes!CallFailure(i)
                                    \/ Boxes!GroupsAnswer(i) \/ Boxes!DiscoverAnswer(i)
    BY <1>2 DEF Boxes!SheetAnswer
  <2>2. UNCHANGED <<search, hub>>
    BY <1>2 DEF Boxes!SheetAnswer
  <2> QED BY <2>1, <2>2, BoxesAnswersCall, BoxesAnswersSheet
<1>3. CASE Boxes!Poll \/ Boxes!Retry \/ Boxes!Translate
  BY <1>3, BoxesReloads DEF Boxes!Retry, Boxes!Translate
<1>4. CASE Boxes!HubPerforms \/ Boxes!HubReads
  BY <1>4, BoxesPerforms, BoxesReads
<1>5. CASE Boxes!ImportDiscovered \/ Boxes!SaveCustomGroup
  <2>1. PICK k, c : Boxes!Call(Boxes!CreateRequest(k, c))
    BY <1>5 DEF Boxes!ImportDiscovered, Boxes!SaveCustomGroup
  <2>2. /\ Boxes!CreateRequest(k, c).to = "create"
        /\ "to" \in DOMAIN Boxes!CreateRequest(k, c)
    BY DEF Boxes!CreateRequest
  <2> QED BY <2>1, <2>2, BoxesCalls
<1>6. CASE Boxes!TypeName \/ Boxes!ToggleContainer \/ Boxes!RemoveGroup
  BY <1>6, BoxesTypes, BoxesRemoves
<1>7. CASE \E s : Boxes!Follow(s)
  BY <1>7, BoxesFollows
<1>8. /\ Boxes!ChooseGroup => \E s : Boxes!Follow(s)
      /\ Boxes!ChooseSince => \E s : Boxes!Follow(s)
      /\ Boxes!OpenSheet => \E s : Boxes!Follow(s)
      /\ Boxes!ChooseView => \E s : Boxes!Follow(s)
  BY DEF Boxes!ChooseGroup, Boxes!ChooseSince, Boxes!OpenSheet, Boxes!ChooseView
<1>9. /\ Boxes!SeeThose => \E s : Boxes!Follow(s)
      /\ Boxes!ShowAll => \E s : Boxes!Follow(s)
      /\ Boxes!SeeAllInTable => \E s : Boxes!Follow(s)
      /\ Boxes!TurnPage => \E s : Boxes!Follow(s)
  BY DEF Boxes!SeeThose, Boxes!ShowAll, Boxes!SeeAllInTable, Boxes!TurnPage
<1>10. /\ Boxes!FollowLink => \E s : Boxes!Follow(s)
       /\ Boxes!CloseSheet => \E s : Boxes!Follow(s)
       /\ Boxes!SelectGroup => \E s : Boxes!Follow(s)
  BY DEF Boxes!FollowLink, Boxes!CloseSheet, Boxes!SelectGroup
<1> QED BY <1>1, <1>2, <1>3, <1>4, <1>5, <1>6, <1>7, <1>8, <1>9, <1>10
        DEF Boxes!Next, Boxes!User, Boxes!PageUser, Boxes!Answer

\* What the invariant says of the screen.
LEMMA BoxesShow ==
    ASSUME BoxesInv PROVE Boxes!GroupFiltersUnlessOvertaken /\ Boxes!ListIsSaved
<1> DEFINE g == Boxes!Group(search)
<1>1. MembersOn(pending, overtaken, view, g) /\ ListOn(pending, overtaken, view, hub)
  BY DEF BoxesInv, BoxesOn
<1>2. Boxes!GroupList = ListOf(hub)
  BY DEF Boxes!GroupList, ListOf
<1>3. \A kind : Boxes!Waiting(kind) <=> Flies(pending, kind)
  BY DEF Boxes!Waiting, Flies, Reqs
<1>4. \A r : Newest(pending, r) => Flies(pending, r.to)
  BY DEF Newest, Flies, Reqs
<1>5. Boxes!SummaryRequest(g).to = "summary"
  BY BoxesKinds
<1> HIDE DEF g
<1>6. Boxes!GroupFiltersUnlessOvertaken
  BY <1>1, <1>3, <1>4, <1>5
     DEF MembersOn, Boxes!GroupFiltersUnlessOvertaken, Boxes!SelectedGroupFilters, g
<1>7. Boxes!ListIsSaved
  BY <1>1, <1>2, <1>3, <1>4 DEF ListOn, Boxes!ListIsSaved, Boxes!AnyWaiting
<1> QED BY <1>6, <1>7

-----------------------------------------------------------------------------
\* The Metrics page.
Charted(v) == {"series", "loading", "error"} \subseteq DOMAIN v

\* The series in flight are those of the address, and charts that are not loading
\* are of it: there is no other request whose answer could come late.
MetricsOn(q, v, s) ==
    /\ IsQueue(q) /\ Charted(v)
    /\ \A x \in Reqs(q) : x.to = "series" => Measures!Loads(s) /\ x = Measures!Request(s)
    /\ v.loading /\ Measures!Loads(s) => Flies(q, "series")
    /\ Measures!Loads(s) /\ ~ v.loading /\ ~ v.error =>
           \/ v.series = Measures!Request(s)
           \/ Measures!Compare(s) /\ v.series = Measures!Nothing

MetricsInv == MetricsOn(pending, view, search)

LEMMA MetricsKind == \A s : Measures!Request(s).to = "series"
BY DEF Measures!Request, Measures!CompareRequest, Measures!ContainerRequest

\* Choices the page makes by itself do not change its mode.
LEMMA MetricsMode == ASSUME NEW s, NEW v
                     PROVE  Measures!Compare(Measures!Filled(s, v)) <=> Measures!Compare(s)
<1>1. ASSUME NEW x PROVE Measures!Compare(Measures!Patched(s, [container |-> x, service |-> Measures!None],
                                            Measures!NoDefaults)) <=> Measures!Compare(s)
  BY DEF Measures!Compare, Measures!Read, Measures!Patched
<1>2. ASSUME NEW x PROVE Measures!Compare(Measures!Patched(s, [containers |-> x, service |-> Measures!None],
                                            Measures!NoDefaults)) <=> Measures!Compare(s)
  BY DEF Measures!Compare, Measures!Read, Measures!Patched
<1>3. \E x : Measures!Filled(s, v) \in
        {s, Measures!Patched(s, [container |-> x, service |-> Measures!None], Measures!NoDefaults),
            Measures!Patched(s, [containers |-> x, service |-> Measures!None], Measures!NoDefaults)}
  BY DEF Measures!Filled
<1> QED BY <1>1, <1>2, <1>3

\* What the effect depends on is what the request is made of.
LEMMA MetricsDeps ==
    ASSUME NEW s, NEW t, Measures!Compare(s) <=> Measures!Compare(t),
           Measures!LoadDeps(s) = Measures!LoadDeps(t)
    PROVE  /\ Measures!Request(s) = Measures!Request(t)
           /\ Measures!Loads(s) <=> Measures!Loads(t)
<1>1. CASE Measures!Compare(s)
  BY <1>1 DEF Measures!LoadDeps, Measures!Request, Measures!CompareRequest, Measures!Loads
<1>2. CASE ~ Measures!Compare(s)
  BY <1>2 DEF Measures!LoadDeps, Measures!Request, Measures!ContainerRequest, Measures!Loads
<1> QED BY <1>1, <1>2

\* The effects: what is loaded is cancelled and loaded anew, or stays.
LEMMA MetricsSettle ==
    ASSUME NEW s, NEW v, NEW queue, NEW more, MetricsOn(queue, v, search),
           IsList(more), Lacks(more, "series"), Measures!Settle(s, v, queue, more)
    PROVE  MetricsInv'
<1> DEFINE same    == Measures!Compare(s) = Measures!Compare(search)
           fresh   == IF same THEN v ELSE Measures!FreshView(v, s)
           settled == Measures!Filled(s, fresh)
           changed == \/ ~ same
                      \/ Measures!LoadDeps(s) # Measures!LoadDeps(search)
                      \/ Measures!LoadDeps(settled) # Measures!LoadDeps(s)
           load    == changed /\ Measures!Loads(settled)
           r       == Measures!Request(settled)
           kept    == IF changed THEN Logs!Without(queue, {"series"}) ELSE queue
           last    == IF load THEN <<r>> ELSE <<>>
           reqs    == more \o last
<1>1. /\ search' = settled
      /\ view' = [fresh EXCEPT !.loading = IF load THEN TRUE ELSE @,
                               !.initialized = @ \/ (Measures!Compare(s) /\ v.workloads # {})]
      /\ pending' = Logs!Sent(kept, reqs)
  BY SameQueue, SameWithout DEF Measures!Settle, Measures!Cancelled
<1>2. IsQueue(queue) /\ Charted(v)
  BY DEF MetricsOn
<1>3. Charted(fresh)
  BY <1>2 DEF Charted, Measures!FreshView
<1>4. r.to = "series" /\ (Measures!Compare(settled) <=> Measures!Compare(s))
  BY MetricsKind, MetricsMode
<1>5. ~ changed => /\ fresh = v /\ r = Measures!Request(search)
                   /\ Measures!Loads(settled) <=> Measures!Loads(search)
                   /\ Measures!Compare(settled) <=> Measures!Compare(search)
  <2>1. ASSUME ~ changed
        PROVE  /\ Measures!Compare(settled) <=> Measures!Compare(search)
               /\ Measures!LoadDeps(settled) = Measures!LoadDeps(search)
    BY <1>4, <2>1 DEF Measures!Compare
  <2> HIDE DEF settled
  <2> QED BY <2>1, MetricsDeps
<1>6. /\ view'.series = fresh.series /\ view'.error = fresh.error
      /\ view'.loading = IF load THEN TRUE ELSE fresh.loading
      /\ Charted(view')
  <2> HIDE DEF fresh, load
  <2> QED BY <1>1, <1>3 DEF Charted
<1>7. changed /\ ~ load => ~ Measures!Loads(settled)
  OBVIOUS
<1>8. load => changed
  OBVIOUS
<1>9. /\ changed => kept = Logs!Without(queue, {"series"})
      /\ ~ changed => kept = queue
      /\ load => last = <<r>>
      /\ ~ load => last = <<>>
  OBVIOUS
<1> HIDE DEF fresh, settled, changed, load, r, kept, last, same
<1>10. IsList(last) /\ (load => Items(last) = {r}) /\ (~ load => Items(last) = {})
  BY <1>9, Short
<1>11. IsList(reqs) /\ Items(reqs) = Items(more) \cup Items(last)
  BY <1>10, Lists
<1>12. /\ IsQueue(kept)
       /\ changed => Reqs(kept) = {x \in Reqs(queue) : x.to \notin {"series"}}
       /\ ~ changed => Reqs(kept) = Reqs(queue)
  BY <1>2, <1>9, WithoutKeeps
<1> HIDE DEF reqs
<1>13. IsQueue(pending') /\ Reqs(pending') = Reqs(kept) \cup Items(reqs)
  BY <1>1, <1>11, <1>12, SentAdds
<1>14. \A x \in Items(more) : x.to # "series"
  BY DEF Lacks
<1>15. CASE load
  <2>1. \A x \in Reqs(pending') : x.to = "series" => x = r
    BY <1>8, <1>10, <1>11, <1>12, <1>13, <1>14, <1>15
  <2>2. Measures!Loads(settled) /\ view'.loading
    BY <1>6, <1>15 DEF load
  <2>3. Flies(pending', "series")
    BY <1>4, <1>10, <1>11, <1>13, <1>15 DEF Flies
  <2> QED BY <1>1, <1>6, <1>13, <2>1, <2>2, <2>3 DEF MetricsInv, MetricsOn, r
<1>16. CASE changed /\ ~ load
  <2>1. \A x \in Reqs(pending') : x.to # "series"
    BY <1>10, <1>11, <1>12, <1>13, <1>14, <1>16
  <2> QED BY <1>1, <1>6, <1>7, <1>13, <1>16, <2>1 DEF MetricsInv, MetricsOn
<1>17. CASE ~ changed
  <2>1. ~ load
    BY <1>8, <1>17
  <2>2. \A x \in Reqs(pending') : x.to = "series" => x \in Reqs(queue)
    BY <1>10, <1>11, <1>12, <1>13, <1>14, <1>17, <2>1
  <2>3. Reqs(queue) \subseteq Reqs(pending')
    BY <1>12, <1>13, <1>17
  <2>4. /\ \A x \in Reqs(queue) : x.to = "series" => Measures!Loads(settled) /\ x = r
        /\ fresh.loading /\ Measures!Loads(settled) => Flies(queue, "series")
        /\ Measures!Loads(settled) /\ ~ fresh.loading /\ ~ fresh.error =>
               \/ fresh.series = r
               \/ Measures!Compare(settled) /\ fresh.series = Measures!Nothing
    BY <1>5, <1>17 DEF MetricsOn
  <2>5. Flies(queue, "series") => Flies(pending', "series")
    BY <2>3 DEF Flies
  <2> QED BY <1>1, <1>6, <1>13, <2>1, <2>2, <2>4, <2>5 DEF MetricsInv, MetricsOn, r
<1> QED BY <1>15, <1>16, <1>17

\* The page comes on screen.
LEMMA MetricsMounts ==
    ASSUME NEW s
    PROVE  MetricsOn(Logs!Sent(<<>>, Measures!MountRequests(s)), Measures!MountView(s), s)
<1> DEFINE g == Measures!Group(s)
           r == Measures!Request(s)
           a1 == <<[to |-> "workloads"]>>
           a2 == IF g = "" THEN <<>> ELSE <<[to |-> "summary", group |-> g]>>
           a3 == IF Measures!Loads(s) THEN <<r>> ELSE <<>>
           asked == a1 \o a2 \o a3
           q == Logs!Sent(<<>>, asked)
           v == Measures!MountView(s)
<1>1. Measures!MountRequests(s) = asked
  BY DEF Measures!MountRequests
<1>2. r.to = "series"
  BY MetricsKind
<1>3. Charted(v) /\ v.loading = Measures!Loads(s)
  BY DEF Charted, Measures!MountView
<1>4. /\ IsList(a1) /\ \A x \in Items(a1) : x.to # "series"
      /\ IsList(a2) /\ \A x \in Items(a2) : x.to # "series"
  <2>1. ASSUME NEW a, a.to # "series"
        PROVE  IsList(<<a>>) /\ \A x \in Items(<<a>>) : x.to # "series"
    BY <2>1, Short
  <2>2. IsList(<<>>) /\ \A x \in Items(<<>>) : x.to # "series"
    BY Short
  <2> QED BY <2>1, <2>2
<1>5. /\ IsList(a3) /\ (Measures!Loads(s) => Items(a3) = {r})
      /\ ~ Measures!Loads(s) => Items(a3) = {}
  BY Short
<1> HIDE DEF a1, a2, a3, g, r, v
<1>6. IsList(a1 \o a2) /\ Items(a1 \o a2) = Items(a1) \cup Items(a2)
  BY <1>4, Lists
<1>7. IsList(asked) /\ Items(asked) = Items(a1) \cup Items(a2) \cup Items(a3)
  BY <1>5, <1>6, Lists
<1> HIDE DEF asked
<1>8. IsQueue(<<>>) /\ Reqs(<<>>) = {}
  BY ShortLists DEF IsQueue, Reqs
<1>9. IsQueue(q) /\ Reqs(q) = Items(asked)
  BY <1>7, <1>8, SentAdds
<1> HIDE DEF q
<1>10. \A x \in Reqs(q) : x.to = "series" => Measures!Loads(s) /\ x = r
  BY <1>4, <1>5, <1>7, <1>9
<1>11. Measures!Loads(s) => Flies(q, "series")
  BY <1>2, <1>5, <1>7, <1>9 DEF Flies
<1> QED BY <1>1, <1>3, <1>9, <1>10, <1>11 DEF MetricsOn, q, r, v

\* The address changes.
LEMMA MetricsFollows == ASSUME MetricsInv, NEW s, Measures!Follow(s) PROVE MetricsInv'
<1> DEFINE regroup == Measures!Group(s) # Measures!Group(search)
           cleared == regroup /\ Measures!Group(s) = ""
           v == IF cleared THEN [view EXCEPT !.members = Measures!Everyone] ELSE view
           queue == IF cleared THEN Logs!Outdated(pending, "summary") ELSE pending
           more == IF regroup /\ ~ cleared
                   THEN <<[to |-> "summary", group |-> Measures!Group(s)]>> ELSE <<>>
<1>1. Measures!Settle(s, v, queue, more)
  BY SameQueue DEF Measures!Follow
<1>2. IsList(more) /\ Lacks(more, "series")
  <2>1. ASSUME NEW a, a.to # "series" PROVE IsList(<<a>>) /\ Lacks(<<a>>, "series")
    BY <2>1, Short DEF Lacks
  <2>2. IsList(<<>>) /\ Lacks(<<>>, "series")
    BY Short DEF Lacks
  <2> QED BY <2>1, <2>2
<1>3. IsQueue(pending) /\ Charted(view)
  BY DEF MetricsInv, MetricsOn
<1>4. IsQueue(queue) /\ Reqs(queue) = Reqs(pending)
  BY <1>3, OutdatedKeeps
<1>5. Charted(v) /\ v.series = view.series /\ v.loading = view.loading /\ v.error = view.error
  BY <1>3 DEF Charted
<1> HIDE DEF v, queue, more
<1>6. MetricsOn(queue, v, search)
  BY <1>4, <1>5 DEF MetricsInv, MetricsOn, Flies
<1> QED BY <1>1, <1>2, <1>6, MetricsSettle

\* A retry, another language.
LEMMA MetricsReloads == ASSUME MetricsInv, Measures!Again PROVE MetricsInv'
<1> DEFINE r == Measures!Request(search)
<1>1. /\ Sends(<<r>>, {"series"}) /\ search' = search
      /\ view' = [view EXCEPT !.loading = TRUE] /\ Measures!Loads(search)
  BY SameSend DEF Measures!Again, Measures!Cancelled, Measures!Loads
<1>2. IsQueue(pending) /\ Charted(view)
  BY DEF MetricsInv, MetricsOn
<1>3. r.to = "series"
  BY MetricsKind
<1>4. Charted(view') /\ view'.loading
  BY <1>1, <1>2 DEF Charted
<1> HIDE DEF r
<1>5. IsList(<<r>>) /\ Items(<<r>>) = {r}
  BY Short
<1>6. Reqs(pending') = {x \in Reqs(pending) : x.to \notin {"series"}} \cup {r}
  BY <1>1, <1>2, <1>5, SendLeaves
<1>7. IsQueue(pending')
  <2> DEFINE q == Logs!Without(pending, {"series"})
  <2>1. IsQueue(q)
    BY <1>2, WithoutKeeps
  <2>2. pending' = Logs!Sent(q, <<r>>)
    BY <1>1 DEF Sends
  <2> HIDE DEF q
  <2> QED BY <1>5, <2>1, <2>2, SentAdds
<1>8. Flies(pending', "series")
  BY <1>3, <1>6 DEF Flies
<1> QED BY <1>1, <1>4, <1>6, <1>7, <1>8 DEF MetricsInv, MetricsOn, r

\* The containers and the members of the group, which may make a choice.
LEMMA MetricsLists ==
    ASSUME MetricsInv, NEW i \in DOMAIN pending,
           Measures!WorkloadsAnswer(i) \/ Measures!SummaryAnswer(i)
    PROVE  MetricsInv'
<1> DEFINE queue == Logs!AfterAnswer(i)
<1>1. PICK v : /\ Measures!Settle(search, v, queue, <<>>)
               /\ v.series = view.series /\ v.loading = view.loading /\ v.error = view.error
               /\ Charted(v)
  <2>1. Charted(view)
    BY DEF MetricsInv, MetricsOn
  <2>2. ASSUME NEW ws
        PROVE  LET v == [view EXCEPT !.workloads = ws] IN
               /\ v.series = view.series /\ v.loading = view.loading /\ v.error = view.error
               /\ Charted(v)
    BY <2>1 DEF Charted
  <2>3. ASSUME NEW m
        PROVE  LET v == [view EXCEPT !.members = m] IN
               /\ v.series = view.series /\ v.loading = view.loading /\ v.error = view.error
               /\ Charted(v)
    BY <2>1 DEF Charted
  <2>4. CASE Measures!WorkloadsAnswer(i)
    BY <2>2, <2>4, SameQueue DEF Measures!WorkloadsAnswer
  <2>5. CASE Measures!SummaryAnswer(i)
    BY <2>3, <2>5, SameQueue DEF Measures!SummaryAnswer
  <2> QED BY <2>4, <2>5
<1>2. IsQueue(pending) /\ pending[i].req.to # "series"
  BY DEF MetricsInv, MetricsOn, Measures!WorkloadsAnswer, Measures!SummaryAnswer
<1>3. /\ IsQueue(queue) /\ Reqs(queue) \subseteq Reqs(pending)
      /\ Preserves(pending, queue, "series")
  BY <1>2, AnswerKeeps, AnswerPreserves
<1> HIDE DEF queue
<1>4. MetricsOn(queue, v, search)
  BY <1>1, <1>3 DEF MetricsInv, MetricsOn, Preserves
<1>5. IsList(<<>>) /\ Lacks(<<>>, "series")
  BY Short DEF Lacks
<1> QED BY <1>1, <1>4, <1>5, MetricsSettle

\* The series of the address are answered.
LEMMA MetricsAnswers ==
    ASSUME MetricsInv, NEW i \in DOMAIN pending, Measures!SeriesAnswer(i)
    PROVE  MetricsInv'
<1>1. Logs!Receive(i) /\ search' = search /\ pending[i].req.to = "series"
  BY SameReceive DEF Measures!SeriesAnswer
<1>2. IsQueue(pending) /\ Charted(view)
  BY DEF MetricsInv, MetricsOn
<1>3. /\ IsQueue(pending') /\ Reqs(pending') \subseteq Reqs(pending)
      /\ pending[i].req \in Reqs(pending)
  BY <1>1, <1>2, ReceiveLeaves
<1>4. /\ Charted(view') /\ ~ view'.loading
      /\ \/ view'.series = pending[i].req
         \/ Measures!Compare(search) /\ view'.series = Measures!Nothing
         \/ view'.error
  <2>1. CASE view' = [view EXCEPT !.series = pending[i].req, !.loading = FALSE, !.error = FALSE]
    BY <1>2, <2>1 DEF Charted
  <2>2. CASE view' = [view EXCEPT !.series = IF Measures!Compare(search) THEN Measures!Nothing ELSE @,
                                  !.loading = FALSE, !.error = ~ Measures!Compare(search)]
    BY <1>2, <2>2 DEF Charted
  <2> QED BY <2>1, <2>2 DEF Measures!SeriesAnswer
<1>5. pending[i].req = Measures!Request(search)
  BY <1>1, <1>3 DEF MetricsInv, MetricsOn
<1> QED BY <1>1, <1>3, <1>4, <1>5 DEF MetricsInv, MetricsOn

\* What is typed, and the views that are kept.
LEMMA MetricsViews ==
    ASSUME MetricsInv, Measures!TypeName \/ Measures!SaveView \/ Measures!DeleteView
    PROVE  MetricsInv'
<1>1. Charted(view)
  BY DEF MetricsInv, MetricsOn
<1>2. UNCHANGED <<search, pending>>
  BY DEF Measures!TypeName, Measures!SaveView, Measures!DeleteView
<1>3. \E n, k : view' \in {[view EXCEPT !.name = n], [view EXCEPT !.views = k, !.name = n],
                           [view EXCEPT !.views = k]}
  BY DEF Measures!TypeName, Measures!SaveView, Measures!DeleteView
<1>4. /\ Charted(view') /\ view'.series = view.series /\ view'.loading = view.loading
      /\ view'.error = view.error
  BY <1>1, <1>3 DEF Charted
<1> QED BY <1>2, <1>4 DEF MetricsInv, MetricsOn

\* Every step of the page.
LEMMA MetricsKeeps == ASSUME MetricsInv, Measures!Next PROVE MetricsInv'
<1>1. CASE Measures!Answer
  BY <1>1, MetricsLists, MetricsAnswers DEF Measures!Answer
<1>2. CASE Measures!Again
  BY <1>2, MetricsReloads
<1>3. CASE Measures!TypeName \/ Measures!SaveView \/ Measures!DeleteView
  BY <1>3, MetricsViews
<1>4. CASE \E s : Measures!Follow(s)
  BY <1>4, MetricsFollows
<1>5. ASSUME NEW key, NEW d, NEW values, Measures!Choose(key, d, values)
      PROVE  \E s : Measures!Follow(s)
  BY <1>5 DEF Measures!Choose
<1>6. /\ Measures!ChooseGroup => \E s : Measures!Follow(s)
      /\ Measures!ChooseSince => \E s : Measures!Follow(s)
      /\ Measures!ChooseStat => \E s : Measures!Follow(s)
      /\ Measures!ChooseMetric => \E s : Measures!Follow(s)
      /\ Measures!ChooseChart => \E s : Measures!Follow(s)
  BY <1>5 DEF Measures!ChooseGroup, Measures!ChooseSince, Measures!ChooseStat,
              Measures!ChooseMetric, Measures!ChooseChart
<1>7. /\ Measures!ChooseMode => \E s : Measures!Follow(s)
      /\ Measures!ChooseContainer => \E s : Measures!Follow(s)
      /\ Measures!ToggleContainer => \E s : Measures!Follow(s)
      /\ Measures!FollowLink => \E s : Measures!Follow(s)
  BY DEF Measures!ChooseMode, Measures!ChooseContainer, Measures!ToggleContainer,
         Measures!FollowLink
<1>8. /\ Measures!CompareOthers => \E s : Measures!Follow(s)
      /\ Measures!OpenContainer => \E s : Measures!Follow(s)
      /\ Measures!ApplyView => \E s : Measures!Follow(s)
  BY DEF Measures!CompareOthers, Measures!OpenContainer, Measures!ApplyView
<1> QED BY <1>1, <1>2, <1>3, <1>4, <1>5, <1>6, <1>7, <1>8 DEF Measures!Next, Measures!User

\* What the invariant says of the screen.
LEMMA MetricsShow ==
    ASSUME MetricsInv
    PROVE  /\ Measures!ChartsAreOfTheAddress
           /\ view.loading /\ Measures!Loads(search) => Flies(pending, "series")
BY DEF MetricsInv, MetricsOn, Measures!ChartsAreOfTheAddress

-----------------------------------------------------------------------------
\* The page on screen, and its requests in flight: what holds of each page.
PageOn(page, q, late, v, s, h) ==
    /\ page = "overview" => OverviewOn(q, v)
    /\ page = "problems" => MainIn(q, late, v, ProblemsKinds, Problems!Request(s))
    /\ page = "containers" => BoxesOn(q, late, v, s, h)
    /\ page = "metrics" => MetricsOn(q, v, s)
    /\ page = "logs" => MainIn(q, late, v, LogsKinds, Logs!Request(s))
    /\ page = "traces" => /\ MainIn(q, late, v, TracesKinds, Traces!Request(s))
                          /\ DetailOf(q, v, s)

PagesInv == route \in Routes /\ PageOn(route, pending, overtaken, view, search, hub)

\* The router leads to one of the pages, whatever the address (App.tsx:18-39).
LEMMA ResolvedLeads == \A path, s : Resolved(path, s).to \in Routes
<1>1. \A s : To("overview", s).to \in Routes
  BY DEF To, Routes
<1>2. \A p \in Routes : \A s : To(p, s).to \in Routes
  BY DEF To
<1>3. \A p \in DOMAIN Legacy : Legacy[p].to \in Routes
  BY DEF Legacy, To, Routes
<1>4. ASSUME NEW p \in DOMAIN Legacy, NEW s
      PROVE  To(Legacy[p].to, Redirected(s, Legacy[p].search)).to \in Routes
  BY <1>2, <1>3
<1> QED BY <1>1, <1>2, <1>4 DEF Resolved

\* What a page holds when it comes on screen.
LEMMA PageMounts ==
    ASSUME NEW page \in Routes, NEW s, NEW h
    PROVE  PageOn(page, Logs!Sent(<<>>, Mounted(page, s).reqs), {}, Mounted(page, s).view, s, h)
<1>1. CASE page = "overview"
  <2>1. Mounted(page, s) = [view |-> Overview!MountView(s), reqs |-> Overview!MountRequests(s)]
    BY <1>1 DEF Mounted
  <2>2. OverviewOn(Logs!Sent(<<>>, Overview!MountRequests(s)), Overview!MountView(s))
    BY OverviewMounts DEF OverviewOn
  <2> QED BY <1>1, <2>1, <2>2 DEF PageOn
<1>2. CASE page = "problems"
  <2>1. Mounted(page, s) = [view |-> Problems!MountView(s), reqs |-> Problems!MountRequests(s)]
    BY <1>2 DEF Mounted
  <2> QED BY <1>2, <2>1, ProblemsMounts DEF PageOn
<1>3. CASE page = "containers"
  <2>1. Mounted(page, s) = [view |-> Boxes!MountView(s), reqs |-> Boxes!MountRequests(s)]
    BY <1>3 DEF Mounted
  <2> QED BY <1>3, <2>1, BoxesMounts DEF PageOn
<1>4. CASE page = "metrics"
  <2>1. Mounted(page, s) = [view |-> Measures!MountView(s), reqs |-> Measures!MountRequests(s)]
    BY <1>4 DEF Mounted
  <2> QED BY <1>4, <2>1, MetricsMounts DEF PageOn
<1>5. CASE page = "logs"
  <2>1. Mounted(page, s) = [view |-> Logs!MountView(s), reqs |-> Logs!MountRequests(s)]
    BY <1>5 DEF Mounted
  <2> QED BY <1>5, <2>1, LogsMounts DEF PageOn
<1>6. CASE page = "traces"
  <2>1. Mounted(page, s) = [view |-> Traces!MountView(s), reqs |-> Traces!MountRequests(s)]
    BY <1>6 DEF Mounted
  <2> QED BY <1>6, <2>1, TracesMounts DEF PageOn
<1>7. CASE page = "topology"
  BY <1>7 DEF PageOn
<1> QED BY <1>1, <1>2, <1>3, <1>4, <1>5, <1>6, <1>7 DEF Routes

\* The panel is opened.
LEMMA PagesInit == Init => PagesInv
<1> SUFFICES ASSUME Init PROVE PagesInv
  OBVIOUS
<1>1. PICK l \in Opened : /\ route = l.to /\ search = l.search
                          /\ view = Mounted(l.to, l.search).view
                          /\ pending = Logs!Sent(<<>>, Mounted(l.to, l.search).reqs)
                          /\ overtaken = {}
  BY DEF Init, Mount
<1>2. \A p \in Routes : \A s : To(p, s).to \in Routes
  BY DEF To
<1>3. l.to \in Routes
  BY <1>2, ResolvedLeads DEF Opened
<1> QED BY <1>1, <1>3, PageMounts DEF PagesInv

\* Another page takes the place of the one on screen.
LEMMA PagesNavigate == Navigate => PagesInv'
<1> SUFFICES ASSUME Navigate PROVE PagesInv'
  OBVIOUS
<1>1. PICK k : LET l == Resolved(k.to, k.search) IN
                 /\ route' = l.to /\ search' = l.search
                 /\ view' = Mounted(l.to, l.search).view
                 /\ pending' = Logs!Sent(<<>>, Mounted(l.to, l.search).reqs)
                 /\ overtaken' = {}
  BY DEF Navigate, Mount
<1> DEFINE l == Resolved(k.to, k.search)
<1>2. l.to \in Routes
  BY ResolvedLeads
<1>3. /\ route' = l.to /\ search' = l.search
      /\ view' = Mounted(l.to, l.search).view
      /\ pending' = Logs!Sent(<<>>, Mounted(l.to, l.search).reqs)
      /\ overtaken' = {}
  BY <1>1
<1> HIDE DEF l
<1>4. PageOn(l.to, Logs!Sent(<<>>, Mounted(l.to, l.search).reqs), {},
             Mounted(l.to, l.search).view, l.search, hub')
  BY <1>2, PageMounts
<1> QED BY <1>2, <1>3, <1>4 DEF PagesInv

\* The steps of the page on screen.
LEMMA PagesStep == PagesInv /\ [Next]_vars => PagesInv'
<1> SUFFICES ASSUME PagesInv, [Next]_vars PROVE PagesInv'
  OBVIOUS
<1>1. CASE Navigate
  BY <1>1, PagesNavigate
<1>2. CASE OnOverview
  <2>1. OverviewInv /\ Overview!Next /\ route = "overview" /\ route' = route
    BY <1>2 DEF PagesInv, PageOn, OnOverview, OverviewInv
  <2>2. OverviewInv'
    BY <2>1, OverviewKeeps
  <2> QED BY <2>1, <2>2 DEF PagesInv, PageOn, OverviewInv
<1>3. CASE OnProblems
  <2>1. ProblemsInv /\ Problems!Next /\ route = "problems" /\ route' = route
    BY <1>3 DEF PagesInv, PageOn, OnProblems, ProblemsInv
  <2>2. ProblemsInv'
    BY <2>1, ProblemsKeeps
  <2> QED BY <2>1, <2>2 DEF PagesInv, PageOn, ProblemsInv
<1>4. CASE OnContainers
  <2>1. BoxesInv /\ Boxes!Next /\ route = "containers" /\ route' = route
    BY <1>4 DEF PagesInv, PageOn, OnContainers, BoxesInv
  <2>2. BoxesInv'
    BY <2>1, BoxesKeeps
  <2> QED BY <2>1, <2>2 DEF PagesInv, PageOn, BoxesInv
<1>5. CASE OnMetrics
  <2>1. MetricsInv /\ Measures!Next /\ route = "metrics" /\ route' = route
    BY <1>5 DEF PagesInv, PageOn, OnMetrics, MetricsInv
  <2>2. MetricsInv'
    BY <2>1, MetricsKeeps
  <2> QED BY <2>1, <2>2 DEF PagesInv, PageOn, MetricsInv
<1>6. CASE OnLogs
  <2>1. LogsInv /\ Logs!Next /\ route = "logs" /\ route' = route
    BY <1>6 DEF PagesInv, PageOn, OnLogs, LogsInv
  <2>2. LogsInv'
    BY <2>1, LogsKeeps
  <2> QED BY <2>1, <2>2 DEF PagesInv, PageOn, LogsInv
<1>7. CASE OnTraces
  <2>1. TracesInv /\ Traces!Next /\ route = "traces" /\ route' = route
    BY <1>7 DEF PagesInv, PageOn, OnTraces, TracesInv
  <2>2. TracesInv'
    BY <2>1, TracesKeeps
  <2> QED BY <2>1, <2>2 DEF PagesInv, PageOn, TracesInv
<1>8. CASE OnTopology
  <2>1. route = "topology" /\ route' = route /\ route \in Routes
    BY <1>8 DEF PagesInv, OnTopology
  <2> QED BY <2>1 DEF PagesInv, PageOn
<1>9. CASE UNCHANGED vars
  BY <1>9 DEF PagesInv, vars
<1> QED BY <1>1, <1>2, <1>3, <1>4, <1>5, <1>6, <1>7, <1>8, <1>9 DEF Next

\* Where the requests of the main part are in the queue.
LEMMA FliesInQueue == \A kind : Flies(pending, kind) <=> \E i \in DOMAIN pending : pending[i].req.to = kind
BY DEF Flies, Reqs

-----------------------------------------------------------------------------
\* In the panel, a graph of another range than the address's stands under the
\* announcement that the page loads or that its load failed: no late answer,
\* and no page left and opened again, undoes it (topology.tsx:55-69).
THEOREM GraphIsAnnounced == Spec => []GraphAnnounced
<1>1. GenerationsInv => GraphAnnounced
  BY SameProperties DEF GenerationsInv, T!IInv, GraphAnnounced
<1> QED BY <1>1, GenerationsInit, GenerationsStep, PTL DEF Spec

\* In the panel, the topology's signals are those of the address's range once
\* their requests have ended (topology.tsx:70-78).
THEOREM SignalsAreOfTheRange == Spec => []SignalsOfTheRange
<1>1. GenerationsInv => SignalsOfTheRange
  BY SameProperties DEF GenerationsInv, T!IInv, SignalsOfTheRange
<1> QED BY <1>1, GenerationsInit, GenerationsStep, PTL DEF Spec

\* Once its request is answered, the part of the page the address asks for shows the
\* answer to what the address says now, or an error: unless an older answer came
\* after a newer one, whatever was filtered, turned, polled, left behind or answered
\* out of order (logs.tsx, traces.tsx, problems.tsx, containers.tsx, use-polling.ts).
THEOREM ScreenIsOfTheAddress == Spec => []ScreenOfTheAddress
<1>1. PagesInv => ScreenOfTheAddress
  <2> SUFFICES ASSUME PagesInv PROVE ScreenOfTheAddress
    OBVIOUS
  <2>1. CASE route \in {"metrics", "topology"}
    BY <2>1 DEF ScreenOfTheAddress, ShowsAsked
  <2>2. CASE route = "overview"
    BY <2>2 DEF ScreenOfTheAddress, ShowsAsked, Shown
  <2>3. ASSUME NEW kinds, NEW r, MainIn(pending, overtaken, view, kinds, r), Asked = r,
               route \notin {"metrics", "topology", "overview"}
        PROVE  ScreenOfTheAddress
    <3>1. ~ Flies(pending, r.to) => view.shown.req = r \/ view.error \/ r.to \in overtaken
      BY <2>3, MainShows
    <3>2. InFlightFor(Asked.to) <=> Flies(pending, r.to)
      BY <2>3, FliesInQueue DEF InFlightFor
    <3>3. Shown = view.shown.req
      BY <2>3 DEF Shown
    <3> QED BY <2>3, <3>1, <3>2, <3>3 DEF ScreenOfTheAddress, ShowsAsked
  <2>4. CASE route = "problems"
    <3>1. MainIn(pending, overtaken, view, ProblemsKinds, Problems!Request(search))
          /\ Asked = Problems!Request(search)
      BY <2>4 DEF PagesInv, PageOn, Asked
    <3> QED BY <2>3, <2>4, <3>1
  <2>5. CASE route = "containers"
    <3>1. MainIn(pending, overtaken, view, {"load"}, Boxes!LoadRequest(search))
          /\ Asked = Boxes!LoadRequest(search)
      BY <2>5 DEF PagesInv, PageOn, Asked, BoxesOn
    <3> QED BY <2>3, <2>5, <3>1
  <2>6. CASE route = "logs"
    <3>1. MainIn(pending, overtaken, view, LogsKinds, Logs!Request(search))
          /\ Asked = Logs!Request(search)
      BY <2>6 DEF PagesInv, PageOn, Asked
    <3> QED BY <2>3, <2>6, <3>1
  <2>7. CASE route = "traces"
    <3>1. MainIn(pending, overtaken, view, TracesKinds, Traces!Request(search))
          /\ Asked = Traces!Request(search)
      BY <2>7 DEF PagesInv, PageOn, Asked
    <3> QED BY <2>3, <2>7, <3>1
  <2> QED BY <2>1, <2>2, <2>4, <2>5, <2>6, <2>7 DEF PagesInv, Routes
<1> QED BY <1>1, PagesInit, PagesStep, PTL DEF Spec

\* A trace on screen is the trace of the address over its range: the request for any
\* other was cancelled when the address changed (traces.tsx:247-265).
THEOREM DetailIsOfTheAddress == Spec => []DetailIsTheTrace
<1>1. PagesInv => DetailIsTheTrace
  BY TracesDetail DEF PagesInv, PageOn, TracesInv, DetailIsTheTrace
<1> QED BY <1>1, PagesInit, PagesStep, PTL DEF Spec

\* With a group selected the containers are cut down to its members, once its summary
\* is answered, and without one they are not; except after a summary that was
\* answered out of order (containers.tsx).
THEOREM GroupFilters == Spec => []GroupFiltersUnlessOvertaken
<1>1. PagesInv => GroupFiltersUnlessOvertaken
  BY BoxesShow DEF PagesInv, PageOn, BoxesInv, GroupFiltersUnlessOvertaken
<1> QED BY <1>1, PagesInit, PagesStep, PTL DEF Spec

\* Once the calls of the sheet of groups are answered its list is the one on the hub,
\* in whatever order calls were made, performed, answered and lost (groups-panel.tsx),
\* in all but three cases: a call failed, which the sheet says; the list could not be
\* loaded, which empties it in silence (containers.tsx: loadGroups); or an older list
\* was answered last, which nothing on screen tells.
THEOREM SavedGroupsAreListed == Spec => []ListIsSaved
<1>1. PagesInv => ListIsSaved
  BY BoxesShow DEF PagesInv, PageOn, BoxesInv, ListIsSaved
<1> QED BY <1>1, PagesInit, PagesStep, PTL DEF Spec

\* Charts that are not loading and report no error are of the container, or of the
\* comparison, of the address: no answer to an earlier choice, and no choice the
\* page made by itself, leaves others (container-metrics.tsx, metric-compare.tsx).
THEOREM ChartsFollowTheAddress == Spec => []ChartsAreOfTheAddress
<1>1. PagesInv => ChartsAreOfTheAddress
  BY MetricsShow DEF PagesInv, PageOn, MetricsInv, ChartsAreOfTheAddress
<1> QED BY <1>1, PagesInit, PagesStep, PTL DEF Spec

\* A page that says it is loading has a request in flight whose answer it will take:
\* no cancelled, superseded or abandoned request leaves it loading for good.
THEOREM LoadingIsAnswered == Spec => []LoadingWaits
<1>1. GenerationsInv /\ PagesInv => LoadingWaits
  <2> SUFFICES ASSUME GenerationsInv, PagesInv, view.loading, route = "metrics" => Measures!Loads(search)
               PROVE  InFlightFor(Asked.to)
    BY DEF LoadingWaits
  <2>1. CASE route = "topology"
    <3>1. T!Waiting("graph")
      BY <2>1 DEF GenerationsInv, T!IInv, T!GraphAwaited
    <3>2. Asked.to = "graph"
      BY <2>1 DEF Asked
    <3> QED BY <2>1, <3>1, <3>2 DEF InFlightFor, T!Waiting, Topology!Waiting,
                                    T!Current, Topology!Current
  <2>2. ASSUME route # "topology" PROVE InFlightFor(Asked.to) <=> Flies(pending, Asked.to)
    BY <2>2, FliesInQueue DEF InFlightFor
  <2>3. CASE route = "overview"
    BY <2>2, <2>3 DEF PagesInv, PageOn, OverviewOn, Asked, Overview!Request
  <2>4. CASE route = "metrics"
    BY <2>2, <2>4, MetricsKind DEF PagesInv, PageOn, MetricsOn, Asked
  <2>5. CASE route = "problems"
    BY <2>2, <2>5 DEF PagesInv, PageOn, MainIn, Asked
  <2>6. CASE route = "containers"
    BY <2>2, <2>6 DEF PagesInv, PageOn, BoxesOn, MainIn, Asked
  <2>7. CASE route = "logs"
    BY <2>2, <2>7 DEF PagesInv, PageOn, MainIn, Asked
  <2>8. CASE route = "traces"
    BY <2>2, <2>8 DEF PagesInv, PageOn, MainIn, Asked
  <2> QED BY <2>1, <2>3, <2>4, <2>5, <2>6, <2>7, <2>8 DEF PagesInv, Routes
<1> QED BY <1>1, GenerationsInit, GenerationsStep, PagesInit, PagesStep, PTL DEF Spec

-----------------------------------------------------------------------------
\* The worst of several statuses is one of them, and none is worse.
LEMMA WorstIsWorst ==
    ASSUME NEW statuses, statuses \subseteq {"critical", "warning", "unknown", "healthy"},
           "unknown" \in statuses
    PROVE  LET w == Topology!WorstOf(statuses) IN
           /\ w \in statuses /\ w # "healthy"
           /\ w = "unknown" => "critical" \notin statuses /\ "warning" \notin statuses
<1> DEFINE worst(x) == \A y \in statuses : Topology!Worse(x, y) = x
<1>1. ASSUME NEW x \in statuses, NEW y \in statuses
      PROVE  Topology!Worse(x, y) = x <=> Topology!Rank[x] <= Topology!Rank[y]
  BY DEF Topology!Worse, Topology!Rank
<1>2. \E x \in statuses : worst(x)
  <2>1. CASE "critical" \in statuses
    BY <1>1, <2>1 DEF Topology!Rank
  <2>2. CASE "critical" \notin statuses /\ "warning" \in statuses
    BY <1>1, <2>2 DEF Topology!Rank
  <2>3. CASE "critical" \notin statuses /\ "warning" \notin statuses
    BY <1>1, <2>3 DEF Topology!Rank
  <2> QED BY <2>1, <2>2, <2>3
<1> DEFINE w == Topology!WorstOf(statuses)
<1>3. w \in statuses /\ \A y \in statuses : Topology!Worse(w, y) = w
  BY <1>2 DEF Topology!WorstOf
<1> HIDE DEF w
<1>4. w \in statuses /\ \A y \in statuses : Topology!Rank[w] <= Topology!Rank[y]
  BY <1>1, <1>3
<1>5. w # "healthy"
  BY <1>4 DEF Topology!Rank
<1>6. w = "unknown" => "critical" \notin statuses /\ "warning" \notin statuses
  BY <1>4 DEF Topology!Rank
<1> QED BY <1>4, <1>5, <1>6 DEF w

\* Whatever signals there are, a service is healthy only if it answers and none is bad.
LEMMA HealthEarned == Topology!HealthIsEarned
<1> SUFFICES ASSUME NEW id \in Topology!ServicesOf(view), Topology!Status(view, id) = "healthy"
             PROVE  /\ \E r \in Topology!HTTPOf(view, id) : r.requests > 0 /\ r.errors = 0
                    /\ \A r \in Topology!HTTPOf(view, id) : ~ (r.errors > 0)
                    /\ \A r \in Topology!Of(view, "fleet", id) : ~ Topology!isUnstable(r)
                    /\ \A r \in Topology!Of(view, "alerts", id) : r.severity \notin {"critical", "warning"}
  BY DEF Topology!HealthIsEarned
<1> DEFINE failing == \E r \in Topology!HTTPOf(view, id) : r.errors > 0
           fleet   == {Topology!fleetStatus(r) : r \in Topology!Of(view, "fleet", id)}
           alerts  == {Topology!alertStatus(r) : r \in Topology!Of(view, "alerts", id)}
           all     == {"unknown"} \cup fleet \cup alerts \cup {x \in {"warning"} : failing}
           worst   == Topology!WorstOf(all)
           answers == \E r \in Topology!HTTPOf(view, id) : r.requests > 0 /\ r.errors = 0
<1>1. "healthy" = IF worst = "unknown" /\ answers THEN "healthy" ELSE worst
  BY DEF Topology!Status
<1>2. all \subseteq {"critical", "warning", "unknown", "healthy"} /\ "unknown" \in all
  BY DEF Topology!fleetStatus, Topology!alertStatus
<1>3. worst # "healthy" /\ (worst = "unknown" => "critical" \notin all /\ "warning" \notin all)
  <2> HIDE DEF all
  <2> QED BY <1>2, WorstIsWorst
<1>4. worst = "unknown" /\ answers
  <2> HIDE DEF worst, answers
  <2> QED BY <1>1, <1>3
<1>5. "critical" \notin all /\ "warning" \notin all
  BY <1>3, <1>4
<1>6. ASSUME NEW r \in Topology!Of(view, "fleet", id) PROVE ~ Topology!isUnstable(r)
  <2>1. Topology!fleetStatus(r) \in all
    OBVIOUS
  <2>2. Topology!fleetStatus(r) \notin {"critical", "warning"}
    <3> HIDE DEF all
    <3> QED BY <1>5, <2>1
  <2> QED BY <2>2 DEF Topology!fleetStatus
<1>7. ASSUME NEW r \in Topology!Of(view, "alerts", id) PROVE r.severity \notin {"critical", "warning"}
  <2>1. Topology!alertStatus(r) \in all
    OBVIOUS
  <2>2. Topology!alertStatus(r) \notin {"critical", "warning"}
    <3> HIDE DEF all
    <3> QED BY <1>5, <2>1
  <2> QED BY <2>2 DEF Topology!alertStatus
<1>8. ~ failing
  <2>1. failing => "warning" \in all
    OBVIOUS
  <2> HIDE DEF all, failing
  <2> QED BY <1>5, <2>1
<1> QED BY <1>4, <1>6, <1>7, <1>8

\* A service counts as healthy only if it was asked and answered without errors,
\* and neither its containers nor an alert on it are in trouble, whatever signals
\* have come and in whatever order (topology-view.ts, buildServices).
THEOREM HealthIsOfTheSignals == Spec => []HealthIsEarned
<1>1. HealthIsEarned
  BY HealthEarned DEF HealthIsEarned
<1> QED BY <1>1, PTL

-----------------------------------------------------------------------------
\* The graph on screen is none yet or one of the hub: its nodes have names.
Nodes(v) == Topology!ServicesOf(v)

NodesNamed == /\ {"graph", "generation", "loading", "error", "signals"} \subseteq DOMAIN view
              /\ None \notin Nodes(view)

NodesInv == route = "topology" => NodesNamed

LEMMA NoNodes == ASSUME NEW s, NEW v, v = Topology!MountView(s)
                 PROVE  /\ {"graph", "generation", "loading", "error", "signals"} \subseteq DOMAIN v
                        /\ None \notin Nodes(v)
BY DEF Nodes, Topology!ServicesOf, Topology!MountView, Topology!NoGraph

LEMMA NodesKept ==
    ASSUME NodesNamed, DOMAIN view' = DOMAIN view, view'.graph = view.graph
    PROVE  NodesNamed'
BY DEF NodesNamed, Nodes, Topology!ServicesOf

LEMMA LoadKeepsNodes == ASSUME NodesNamed, NEW s, Topology!Load(s) PROVE NodesNamed'
BY NodesKept DEF Topology!Load, NodesNamed

LEMMA FollowKeepsNodes == ASSUME NodesNamed, NEW s, Topology!Follow(s) PROVE NodesNamed'
<1>1. CASE UNCHANGED view
  BY <1>1, NodesKept
<1> QED BY <1>1, LoadKeepsNodes DEF Topology!Follow

LEMMA AnswerKeepsNodes == ASSUME NodesNamed, Topology!Answer PROVE NodesNamed'
<1>1. PICK p \in loads :
        \/ \E g \in Graphs : Topology!GraphAnswer(p, g)
        \/ Topology!GraphFailure(p)
        \/ \E rows : Topology!SignalAnswer(p, rows)
  BY DEF Topology!Answer
<1>2. CASE Topology!GraphFailure(p)
  BY <1>2, NodesKept DEF Topology!GraphFailure, NodesNamed
<1>3. ASSUME NEW rows, Topology!SignalAnswer(p, rows) PROVE NodesNamed'
  BY <1>3, NodesKept DEF Topology!SignalAnswer, NodesNamed
<1>4. ASSUME NEW g \in Graphs, Topology!GraphAnswer(p, g) PROVE NodesNamed'
  <2>1. CASE view' = view
    BY <2>1, NodesKept
  <2>2. CASE view' = [view EXCEPT !.graph = [run |-> p.run, since |-> p.since,
                                             nodes |-> g.nodes, edges |-> g.edges],
                                  !.loading = FALSE]
    <3>1. DOMAIN view' = DOMAIN view /\ view'.graph.nodes = g.nodes /\ view'.graph.edges = g.edges
      BY <2>2 DEF NodesNamed
    <3> QED BY <3>1, PanelAssumption DEF NodesNamed, Nodes, Topology!ServicesOf
  <2> QED BY <1>4, <2>1, <2>2 DEF Topology!GraphAnswer
<1> QED BY <1>1, <1>2, <1>3, <1>4

LEMMA UserKeepsNodes == ASSUME NodesNamed, Topology!User PROVE NodesNamed'
<1>1. CASE \E s : Topology!Follow(s)
  BY <1>1, FollowKeepsNodes
<1>2. CASE Topology!Retry
  BY <1>2, LoadKeepsNodes DEF Topology!Retry
<1> QED BY <1>1, <1>2 DEF Topology!User, Topology!ChooseSince, Topology!TypeQuery,
           Topology!ToggleAddresses, Topology!Select, Topology!FollowLink

LEMMA NodesInit == Init => NodesInv
<1> SUFFICES ASSUME Init, route = "topology" PROVE NodesNamed
  BY DEF NodesInv
<1>1. view = Topology!MountView(search)
  BY MountedTopology DEF Init
<1> QED BY <1>1, NoNodes DEF NodesNamed

LEMMA NodesStep == NodesInv /\ [Next]_vars => NodesInv'
<1> SUFFICES ASSUME NodesInv, [Next]_vars, route' = "topology" PROVE NodesNamed'
  BY DEF NodesInv
<1>1. CASE Navigate
  <2>1. view' = Topology!MountView(search')
    BY <1>1, MountedTopology DEF Navigate
  <2>2. {"graph", "generation", "loading", "error", "signals"} \subseteq DOMAIN view'
        /\ None \notin Nodes(view')
    BY <2>1, NoNodes
  <2> QED BY <2>2 DEF NodesNamed, Nodes, Topology!ServicesOf
<1>2. CASE OnTopology
  BY <1>2, AnswerKeepsNodes, UserKeepsNodes DEF NodesInv, OnTopology, Topology!Next
<1>3. CASE UNCHANGED vars
  BY <1>3, NodesKept DEF NodesInv, vars
<1>4. CASE OnOverview \/ OnProblems \/ OnContainers \/ OnMetrics \/ OnLogs \/ OnTraces
  BY <1>4 DEF OnOverview, OnProblems, OnContainers, OnMetrics, OnLogs, OnTraces
<1> QED BY <1>1, <1>2, <1>3, <1>4 DEF Next

\* A focus that is on the graph is what is selected, whatever is listed.
LEMMA FocusSelects ==
    ASSUME NEW v, NEW s, Topology!Focus(s) \in Nodes(v), Topology!Focus(s) # None
    PROVE  Topology!Selected(v, s) = Topology!Focus(s)
BY DEF Topology!Selected, Topology!FocusMissing, Topology!pickService, Nodes, None, Topology!None

\* Neither the search, addresses hidden or shown, nor a new graph or new signals take
\* the selection away from the focus while its node is there (topology-view.ts).
THEOREM FocusKeepsSelection == Spec => FocusKept
<1>1. NodesInv /\ [Next]_vars =>
        [route = "topology" /\ route' = route => Topology!FocusStays]_vars
  <2> SUFFICES ASSUME NodesInv, route = "topology",
                      Topology!Focus(search') = Topology!Focus(search),
                      Topology!Focus(search) \in Nodes(view) \cap Nodes(view')
               PROVE  Topology!Selected(view', search') = Topology!Selected(view, search)
    BY DEF Topology!FocusStays, Nodes
  <2>1. Topology!Focus(search) # None
    BY DEF NodesInv, NodesNamed
  <2> QED BY <2>1, FocusSelects
<1> QED BY <1>1, NodesInit, NodesStep, PTL DEF Spec, FocusKept

-----------------------------------------------------------------------------
\* The Metrics page's list of containers, and its choice of one by itself.
Furnished(v) ==
    /\ {"workloads", "members", "initialized", "views", "name", "series", "loading", "error"}
         \subseteq DOMAIN v
    /\ v.workloads \subseteq Names

ChoiceOn(v, s, kept) ==
    /\ Furnished(v)
    /\ Measures!Compare(s) => v.views = kept
    /\ ~ Measures!Compare(s) => Measures!Chosen(s) # "" \/ Measures!Offered(v) = {}
    /\ Measures!Compare(s) /\ v.workloads # {} => v.initialized

ChoiceInv == route = "metrics" => ChoiceOn(view, search, stored)

\* Of the containers at some places in the order of the page, the first.
LEMMA FirstIsOne ==
    ASSUME NEW I, I \subseteq DOMAIN ByLoad, I # {}
    PROVE  ByLoad[CHOOSE i \in I : \A j \in I : i <= j] \in Names
<1>1. Len(ByLoad) \in Nat /\ DOMAIN ByLoad = 1 .. Len(ByLoad) /\ \A i \in DOMAIN ByLoad : ByLoad[i] \in Names
  BY PanelAssumption
<1>2. I \subseteq Nat
  BY <1>1
<1>3. \E i \in I : \A j \in I : ~ (<<j, i>> \in OpToRel(<, Nat))
  BY <1>2, WFMin, NatLessThanWellFounded
<1>4. OpToRel(<, Nat) = {ss \in Nat \X Nat : ss[1] < ss[2]}
  BY Zenon DEF OpToRel
<1>5. \E i \in I : \A j \in I : i <= j
  <2>1. PICK i \in I : \A j \in I : ~ (<<j, i>> \in {ss \in Nat \X Nat : ss[1] < ss[2]})
    BY <1>3, <1>4
  <2>2. \A j \in I : ~ (j < i)
    BY <1>2, <2>1
  <2> QED BY <1>2, <2>2
<1> DEFINE first == CHOOSE i \in I : \A j \in I : i <= j
<1>6. first \in I
  BY <1>5
<1> HIDE DEF first
<1>7. ByLoad[first] \in Names
  BY <1>1, <1>6
<1> QED BY <1>7 DEF first

LEMMA DefaultIsOne ==
    ASSUME NEW s, NEW v, Furnished(v), Measures!Offered(v) # {}
    PROVE  Measures!DefaultContainer(s, v) \in Names
<1> DEFINE served  == {i \in DOMAIN ByLoad : ByLoad[i] \in v.workloads /\ Measures!Service(s) # ""
                                             /\ Measures!matchesService(ByLoad[i], Measures!Service(s))}
           offered == {i \in DOMAIN ByLoad : ByLoad[i] \in Measures!Offered(v)}
<1>1. Measures!DefaultContainer(s, v)
        = IF served # {} THEN ByLoad[CHOOSE i \in served : \A j \in served : i <= j]
          ELSE ByLoad[CHOOSE i \in offered : \A j \in offered : i <= j]
  BY DEF Measures!DefaultContainer
<1>2. served \subseteq DOMAIN ByLoad /\ offered \subseteq DOMAIN ByLoad
  OBVIOUS
<1>3. offered # {}
  <2>1. PICK c \in Measures!Offered(v) : TRUE
    OBVIOUS
  <2>2. c \in Names
    BY <2>1 DEF Furnished, Measures!Offered
  <2>3. \E i \in DOMAIN ByLoad : ByLoad[i] = c
    BY <2>2 DEF Names, ToSet
  <2> QED BY <2>1, <2>3
<1> HIDE DEF served, offered
<1> QED BY <1>1, <1>2, <1>3, FirstIsOne

\* Where there are containers on offer, one of them is chosen.
LEMMA FilledChooses ==
    ASSUME NEW s, NEW v, Furnished(v), ~ Measures!Compare(s), Measures!Offered(v) # {}
    PROVE  Measures!Chosen(Measures!Filled(s, v)) # ""
<1> DEFINE c == Measures!DefaultContainer(s, v)
           t == Measures!Patched(s, [container |-> c, service |-> Measures!None], Measures!NoDefaults)
<1>1. Measures!Filled(s, v) = IF Measures!Chosen(s) # "" THEN s ELSE t
  BY DEF Measures!Filled
<1>2. c \notin {Measures!None, Measures!Blank}
  <2>1. c \in Names
    BY DefaultIsOne
  <2> QED BY <2>1, PanelAssumption DEF Measures!None, Measures!Blank, None, Blank
<1> HIDE DEF c
<1>3. Measures!Chosen(t) = c
  BY <1>2 DEF Measures!Chosen, Measures!Read, Measures!Patched, Measures!NoDefaults
<1>4. c # ""
  BY <1>2 DEF Measures!Blank
<1> HIDE DEF t
<1> QED BY <1>1, <1>3, <1>4

\* The effects choose, and a part that comes on screen reads the storage.
LEMMA SettleChooses ==
    ASSUME NEW s, NEW v, NEW queue, NEW more, Furnished(v),
           Measures!Compare(search) => v.views = stored,
           Measures!Settle(s, v, queue, more), stored' = stored
    PROVE  ChoiceOn(view', search', stored')
<1> DEFINE same    == Measures!Compare(s) = Measures!Compare(search)
           fresh   == IF same THEN v ELSE Measures!FreshView(v, s)
           settled == Measures!Filled(s, fresh)
<1>1. PICK load : /\ search' = settled
                  /\ view' = [fresh EXCEPT !.loading = IF load THEN TRUE ELSE @,
                                           !.initialized = @ \/ (Measures!Compare(s) /\ v.workloads # {})]
  BY DEF Measures!Settle
<1>2. /\ Furnished(fresh) /\ fresh.workloads = v.workloads
      /\ Measures!Compare(s) => fresh.views = stored
  <2>1. CASE same
    BY <2>1 DEF Measures!Compare
  <2>2. CASE ~ same
    BY <2>2 DEF Measures!FreshView, Furnished
  <2> QED BY <2>1, <2>2
<1> HIDE DEF same, fresh
<1>3. /\ Furnished(view') /\ view'.workloads = fresh.workloads /\ view'.members = fresh.members
      /\ view'.views = fresh.views
      /\ view'.initialized = (fresh.initialized \/ (Measures!Compare(s) /\ v.workloads # {}))
  BY <1>1, <1>2 DEF Furnished
<1>4. Measures!Offered(view') = Measures!Offered(fresh)
  BY <1>3 DEF Measures!Offered
<1>5. Measures!Compare(settled) <=> Measures!Compare(s)
  BY MetricsMode
<1>6. ~ Measures!Compare(s) => Measures!Chosen(settled) # "" \/ Measures!Offered(fresh) = {}
  BY <1>2, FilledChooses
<1> HIDE DEF settled
<1> QED BY <1>1, <1>2, <1>3, <1>4, <1>5, <1>6 DEF ChoiceOn

LEMMA ChoiceMounts ==
    ASSUME NEW s, NEW v, v = Measures!MountView(s) PROVE ChoiceOn(v, s, stored)
BY DEF ChoiceOn, Furnished, Measures!MountView, Measures!Offered

LEMMA ChoiceFollows ==
    ASSUME ChoiceOn(view, search, stored), NEW s, Measures!Follow(s), stored' = stored
    PROVE  ChoiceOn(view', search', stored')
<1>1. PICK v, queue, more : /\ Measures!Settle(s, v, queue, more)
                            /\ v \in {view, [view EXCEPT !.members = Measures!Everyone]}
  BY DEF Measures!Follow
<1>2. Furnished(v) /\ v.views = view.views
  BY <1>1 DEF ChoiceOn, Furnished
<1> QED BY <1>1, <1>2, SettleChooses DEF ChoiceOn

LEMMA ChoiceAnswers ==
    ASSUME ChoiceOn(view, search, stored), Measures!Answer
    PROVE  ChoiceOn(view', search', stored')
<1>1. stored' = stored
  BY DEF Measures!Answer
<1>2. PICK i \in DOMAIN pending :
        Measures!WorkloadsAnswer(i) \/ Measures!SummaryAnswer(i) \/ Measures!SeriesAnswer(i)
  BY DEF Measures!Answer
<1>3. CASE Measures!WorkloadsAnswer(i)
  <2>1. PICK ws \in {{}, Names} :
          Measures!Settle(search, [view EXCEPT !.workloads = ws], Measures!AfterAnswer(i), <<>>)
    BY <1>3 DEF Measures!WorkloadsAnswer, Measures!Names, Measures!ToSet, Names, ToSet
  <2> DEFINE v == [view EXCEPT !.workloads = ws]
  <2>2. Furnished(v) /\ v.views = view.views
    BY DEF ChoiceOn, Furnished
  <2>3. Measures!Settle(search, v, Measures!AfterAnswer(i), <<>>)
    BY <2>1
  <2> HIDE DEF v
  <2> QED BY <1>1, <2>2, <2>3, SettleChooses DEF ChoiceOn
<1>4. CASE Measures!SummaryAnswer(i)
  <2>1. PICK m : Measures!Settle(search, [view EXCEPT !.members = m], Measures!AfterAnswer(i), <<>>)
    BY <1>4 DEF Measures!SummaryAnswer
  <2> DEFINE v == [view EXCEPT !.members = m]
  <2>2. Furnished(v) /\ v.views = view.views
    BY DEF ChoiceOn, Furnished
  <2>3. Measures!Settle(search, v, Measures!AfterAnswer(i), <<>>)
    BY <2>1
  <2> HIDE DEF v
  <2> QED BY <1>1, <2>2, <2>3, SettleChooses DEF ChoiceOn
<1>5. CASE Measures!SeriesAnswer(i)
  <2>1. search' = search
    BY <1>5 DEF Measures!SeriesAnswer
  <2>2. PICK x, y : view' = [view EXCEPT !.series = x, !.loading = FALSE, !.error = y]
    BY <1>5 DEF Measures!SeriesAnswer
  <2>3. /\ Furnished(view') /\ view'.workloads = view.workloads /\ view'.members = view.members
        /\ view'.views = view.views /\ view'.initialized = view.initialized
    BY <2>2 DEF ChoiceOn, Furnished
  <2> QED BY <1>1, <2>1, <2>3 DEF ChoiceOn, Measures!Offered
<1> QED BY <1>2, <1>3, <1>4, <1>5

LEMMA ChoiceReloads ==
    ASSUME ChoiceOn(view, search, stored), Measures!Again
    PROVE  ChoiceOn(view', search', stored')
<1>1. view' = [view EXCEPT !.loading = TRUE] /\ UNCHANGED <<search, stored>>
  BY DEF Measures!Again
<1>2. /\ Furnished(view') /\ view'.workloads = view.workloads /\ view'.members = view.members
      /\ view'.views = view.views /\ view'.initialized = view.initialized
  BY <1>1 DEF ChoiceOn, Furnished
<1> QED BY <1>1, <1>2 DEF ChoiceOn, Measures!Offered

\* A view saved or deleted is on screen as it is stored.
LEMMA ChoiceViews ==
    ASSUME ChoiceOn(view, search, stored),
           Measures!TypeName \/ Measures!SaveView \/ Measures!DeleteView
    PROVE  ChoiceOn(view', search', stored')
<1>1. search' = search /\ Measures!Compare(search)
  BY DEF Measures!TypeName, Measures!SaveView, Measures!DeleteView
<1>2. \/ stored' = stored /\ \E n : view' = [view EXCEPT !.name = n]
      \/ \E n : view' = [view EXCEPT !.views = stored', !.name = n]
      \/ view' = [view EXCEPT !.views = stored']
  BY DEF Measures!TypeName, Measures!SaveView, Measures!DeleteView
<1>3. /\ Furnished(view') /\ view'.workloads = view.workloads
      /\ view'.initialized = view.initialized
      /\ view'.views = stored'
  BY <1>1, <1>2 DEF ChoiceOn, Furnished
<1> QED BY <1>1, <1>3 DEF ChoiceOn

\* Every step of the page.
LEMMA ChoiceKeeps ==
    ASSUME ChoiceOn(view, search, stored), Measures!Next
    PROVE  ChoiceOn(view', search', stored')
<1>1. CASE Measures!Answer
  BY <1>1, ChoiceAnswers
<1>2. CASE Measures!Again
  BY <1>2, ChoiceReloads
<1>3. CASE Measures!TypeName \/ Measures!SaveView \/ Measures!DeleteView
  BY <1>3, ChoiceViews
<1>4. CASE \E s : Measures!Follow(s) /\ stored' = stored
  BY <1>4, ChoiceFollows
<1>5. ASSUME NEW key, NEW d, NEW values, Measures!Choose(key, d, values)
      PROVE  \E s : Measures!Follow(s) /\ stored' = stored
  BY <1>5 DEF Measures!Choose
<1>6. \/ Measures!ChooseGroup \/ Measures!ChooseSince \/ Measures!ChooseStat
      \/ Measures!ChooseMetric \/ Measures!ChooseChart
      => \E s : Measures!Follow(s) /\ stored' = stored
  BY <1>5 DEF Measures!ChooseGroup, Measures!ChooseSince, Measures!ChooseStat,
              Measures!ChooseMetric, Measures!ChooseChart
<1>7. \/ Measures!ChooseMode \/ Measures!ChooseContainer \/ Measures!ToggleContainer
      \/ Measures!FollowLink
      => \E s : Measures!Follow(s) /\ stored' = stored
  BY DEF Measures!ChooseMode, Measures!ChooseContainer, Measures!ToggleContainer,
         Measures!FollowLink
<1>8. Measures!CompareOthers \/ Measures!OpenContainer \/ Measures!ApplyView
      => \E s : Measures!Follow(s) /\ stored' = stored
  BY DEF Measures!CompareOthers, Measures!OpenContainer, Measures!ApplyView
<1> QED BY <1>1, <1>2, <1>3, <1>4, <1>6, <1>7, <1>8 DEF Measures!Next, Measures!User

LEMMA MountedMetrics == ASSUME NEW s PROVE Mounted("metrics", s).view = Measures!MountView(s)
BY DEF Mounted

LEMMA ChoiceInit == Init => ChoiceInv
<1> SUFFICES ASSUME Init, route = "metrics" PROVE ChoiceOn(view, search, stored)
  BY DEF ChoiceInv
<1>1. view = Measures!MountView(search)
  BY MountedMetrics DEF Init
<1> QED BY <1>1, ChoiceMounts

LEMMA ChoiceStep == ChoiceInv /\ [Next]_vars => ChoiceInv'
<1> SUFFICES ASSUME ChoiceInv, [Next]_vars, route' = "metrics"
             PROVE  ChoiceOn(view', search', stored')
  BY DEF ChoiceInv, ChoiceOn, Furnished, Measures!Offered
<1>1. CASE Navigate
  <2>1. view' = Measures!MountView(search') /\ stored' = stored
    BY <1>1, MountedMetrics DEF Navigate
  <2> QED BY <2>1, ChoiceMounts
<1>2. CASE OnMetrics
  BY <1>2, ChoiceKeeps DEF ChoiceInv, OnMetrics
<1>3. CASE UNCHANGED vars
  BY <1>3 DEF ChoiceInv, vars
<1>4. CASE OnOverview \/ OnProblems \/ OnContainers \/ OnLogs \/ OnTraces \/ OnTopology
  BY <1>4 DEF OnOverview, OnProblems, OnContainers, OnLogs, OnTraces, OnTopology
<1> QED BY <1>1, <1>2, <1>3, <1>4 DEF Next

\* With containers known and none chosen the page chooses: no order of answers, group
\* or change of mode leaves it without a choice (container-metrics.tsx, metric-compare.tsx).
THEOREM AlwaysAChoice == Spec => []NeverWithoutChoice
<1>1. ChoiceInv => NeverWithoutChoice
  BY DEF ChoiceInv, ChoiceOn, NeverWithoutChoice, Measures!NeverWithoutChoice
<1> QED BY <1>1, ChoiceInit, ChoiceStep, PTL DEF Spec

-----------------------------------------------------------------------------
\* The views in the browser: as many as it keeps, each once.
KeptViews(k) == /\ IsList(k) /\ Len(k) <= StoredLimit
                /\ \A i, j \in DOMAIN k : k[i].id = k[j].id => i = j

\* The library and the sequences of the page are those of the others.
LEMMA SameSubsequence == ASSUME NEW q, NEW places
                         PROVE  Measures!Subsequence(q, places) = Logs!Subsequence(q, places)
BY DEF Measures!Subsequence, Logs!Subsequence, Measures!Cardinality, Logs!Cardinality

\* The views but one: what is left is in order, each once, and is not that one.
LEMMA OthersAreKept ==
    ASSUME NEW id, KeptViews(stored)
    PROVE  /\ KeptViews(Measures!Others(id)) /\ Len(Measures!Others(id)) <= Len(stored)
           /\ \A n \in DOMAIN Measures!Others(id) : /\ Measures!Others(id)[n].id # id
                                                   /\ Measures!Others(id)[n] \in Items(stored)
<1> DEFINE places == {i \in DOMAIN stored : stored[i].id # id}
           m == Len(stored)
           s == Measures!Others(id)
<1>1. m \in Nat /\ DOMAIN stored = 1 .. m /\ places \in SUBSET (1 .. m)
  BY ListIsFunction DEF KeptViews
<1>2. s = Logs!Subsequence(stored, places)
  BY SameSubsequence DEF Measures!Others
<1> HIDE DEF s
<1>3. IsList(s) /\ \E f : InOrder(f, s, stored, places)
  <2> HIDE DEF places, m
  <2> QED BY <1>1, <1>2, Picked
<1>4. Len(s) \in Nat /\ DOMAIN s = 1 .. Len(s)
  BY <1>3, ListIsFunction
<1>5. PICK f \in [places -> DOMAIN s] :
        /\ \A n \in DOMAIN s : \E i \in places : f[i] = n
        /\ \A i \in places : s[f[i]] = stored[i]
        /\ \A i, k \in places : i < k => f[i] < f[k]
  <2> HIDE DEF places
  <2> QED BY <1>3, <1>4 DEF InOrder
<1>6. \A n \in DOMAIN s : \E i \in places : f[i] = n /\ s[n] = stored[i]
  <2> HIDE DEF places
  <2> QED BY <1>5
<1>7. \A n \in DOMAIN s : s[n].id # id
  BY <1>6
<1>8. ASSUME NEW a \in DOMAIN s, NEW b \in DOMAIN s, s[a].id = s[b].id PROVE a = b
  <2>1. PICK i \in places : f[i] = a /\ s[a] = stored[i]
    BY <1>6
  <2>2. PICK j \in places : f[j] = b /\ s[b] = stored[j]
    BY <1>6
  <2>3. i = j
    BY <1>8, <2>1, <2>2 DEF KeptViews
  <2> QED BY <2>1, <2>2, <2>3
<1>9. Len(s) <= m
  <2>1. Len(s) = Cardinality(places)
    <3>1. s = [n \in 1 .. Logs!Cardinality(places) |->
                 stored[CHOOSE i \in places : Logs!Cardinality({j \in places : j <= i}) = n]]
      BY <1>2 DEF Logs!Subsequence
    <3>2. DOMAIN s = 1 .. Cardinality(places) /\ Cardinality(places) \in Nat
      <4>1. Cardinality(places) \in Nat
        <5> HIDE DEF places, m
        <5> QED BY <1>1, RankIsOnto
      <4> HIDE DEF places
      <4> QED BY <3>1, <4>1, SameCardinality
    <3> HIDE DEF places
    <3> QED BY <1>4, <3>2
  <2>2. Cardinality(places) <= m
    <3>1. IsFiniteSet(1 .. m) /\ Cardinality(1 .. m) = m
      BY <1>1, FS_Interval
    <3> HIDE DEF places
    <3> QED BY <1>1, <3>1, FS_Subset
  <2> QED BY <2>1, <2>2
<1>10. m <= StoredLimit /\ StoredLimit \in Nat
  BY PanelAssumption DEF KeptViews
<1>11. Len(s) <= StoredLimit
  <2> HIDE DEF m
  <2> QED BY <1>1, <1>4, <1>9, <1>10
<1>12. \A n \in DOMAIN s : s[n] \in Items(stored)
  BY <1>6 DEF Items
<1> QED BY <1>3, <1>7, <1>8, <1>9, <1>11, <1>12 DEF KeptViews, s

\* A view more, and only as many as are kept: the oldest makes room.
LEMMA SavedAreKept ==
    ASSUME NEW v, KeptViews(stored)
    PROVE  /\ KeptViews(Measures!saveView(v))
           /\ Items(Measures!saveView(v)) \subseteq Items(stored) \cup {v}
<1> DEFINE o == Measures!Others(v.id)
           all == <<v>> \o o
           n == Measures!Lesser(StoredLimit, Len(o) + 1)
           s == SubSeq(all, 1, n)
<1>1. KeptViews(o) /\ \A i \in DOMAIN o : o[i].id # v.id /\ o[i] \in Items(stored)
  BY OthersAreKept
<1> HIDE DEF o
<1>2. IsList(o) /\ Len(o) \in Nat /\ DOMAIN o = 1 .. Len(o)
  BY <1>1, ListIsFunction DEF KeptViews
<1>3. IsList(<<v>>) /\ Len(<<v>>) = 1 /\ <<v>>[1] = v
  BY ShortLists
<1>4. /\ IsList(all) /\ Len(all) = Len(o) + 1 /\ all[1] = v
      /\ \A i \in 1 .. Len(o) : all[1 + i] = o[i]
  <2> DEFINE one == <<v>>
  <2>1. IsList(one) /\ Len(one) = 1 /\ one[1] = v
    BY <1>3
  <2> HIDE DEF one
  <2>2. /\ IsList(one \o o) /\ Len(one \o o) = Len(one) + Len(o)
        /\ \A i \in 1 .. Len(one) : (one \o o)[i] = one[i]
        /\ \A i \in 1 .. Len(o) : (one \o o)[Len(one) + i] = o[i]
    <3>1. IsList(one) /\ IsList(o)
      BY <1>2, <2>1
    <3> QED BY <3>1, Joined
  <2>3. /\ IsList(one \o o) /\ Len(one \o o) = Len(o) + 1 /\ (one \o o)[1] = v
        /\ \A i \in 1 .. Len(o) : (one \o o)[1 + i] = o[i]
    BY <1>2, <2>1, <2>2
  <2> QED BY <2>3 DEF one
<1> HIDE DEF all
<1>5. ASSUME NEW i \in 1 .. Len(all), NEW j \in 1 .. Len(all), all[i].id = all[j].id
      PROVE  i = j
  <2>1. ASSUME NEW k \in 1 .. Len(all), k # 1
        PROVE  k - 1 \in 1 .. Len(o) /\ all[k] = o[k - 1] /\ all[k].id # v.id
    <3>1. k - 1 \in 1 .. Len(o) /\ 1 + (k - 1) = k
      BY <1>2, <1>4, <2>1
    <3>2. all[k] = o[k - 1]
      BY <1>4, <3>1
    <3> QED BY <1>1, <1>2, <3>1, <3>2
  <2>2. CASE i = 1 \/ j = 1
    BY <1>4, <1>5, <2>1, <2>2
  <2>3. CASE i # 1 /\ j # 1
    <3>1. o[i - 1].id = o[j - 1].id /\ i - 1 \in DOMAIN o /\ j - 1 \in DOMAIN o
      BY <1>2, <1>5, <2>1, <2>3
    <3>2. i - 1 = j - 1
      BY <1>1, <3>1 DEF KeptViews
    <3> QED BY <3>2
  <2> QED BY <2>2, <2>3
<1>6. n \in 0 .. Len(all) /\ n <= StoredLimit
  BY <1>2, <1>4, PanelAssumption DEF Measures!Lesser
<1> HIDE DEF n
<1>7. IsList(s) /\ Len(s) = n /\ \A i \in 1 .. n : s[i] = all[i]
  <2>1. PICK S : all \in Seq(S)
    BY <1>4 DEF IsList
  <2>2. s \in Seq(S) /\ Len(s) = n /\ \A i \in 1 .. n : s[i] = all[i]
    BY <1>6, <2>1
  <2> QED BY <2>2, SeqIsList
<1>8. Measures!saveView(v) = s
  BY DEF Measures!saveView, n, all, o
<1> HIDE DEF s
<1>9. DOMAIN s = 1 .. n /\ 1 .. n \subseteq 1 .. Len(all)
  <2>1. Len(all) \in Nat
    BY <1>2, <1>4
  <2> QED BY <1>6, <1>7, <2>1, ListIsFunction
<1>10. \A i, j \in DOMAIN s : s[i].id = s[j].id => i = j
  BY <1>5, <1>7, <1>9
<1>11. ASSUME NEW i \in DOMAIN s PROVE s[i] \in Items(stored) \cup {v}
  <2>1. i \in 1 .. Len(all) /\ s[i] = all[i]
    BY <1>7, <1>9
  <2>2. CASE i = 1
    BY <1>4, <2>1, <2>2
  <2>3. CASE i # 1
    <3>1. i - 1 \in 1 .. Len(o) /\ 1 + (i - 1) = i
      BY <1>2, <1>4, <2>1, <2>3
    <3> QED BY <1>1, <1>2, <1>4, <2>1, <3>1
  <2> QED BY <2>2, <2>3
<1>12. Items(s) \subseteq Items(stored) \cup {v}
  BY <1>11 DEF Items
<1> QED BY <1>6, <1>7, <1>8, <1>10, <1>12 DEF KeptViews

LEMMA KeptInit == Init => KeptViews(stored)
<1>1. IsList(<<>>) /\ Len(<<>>) = 0 /\ DOMAIN <<>> = {}
  BY ShortLists
<1> QED BY <1>1, PanelAssumption DEF Init, KeptViews

\* Only saving and deleting a view changes what the browser keeps.
LEMMA StoredByTwo ==
    ASSUME Measures!Next PROVE stored' = stored \/ Measures!SaveView \/ Measures!DeleteView
<1>1. \A key, d, values : Measures!Choose(key, d, values) => stored' = stored
  BY DEF Measures!Choose
<1>2. \/ Measures!ChooseGroup \/ Measures!ChooseSince \/ Measures!ChooseStat
      \/ Measures!ChooseMetric \/ Measures!ChooseChart
      => stored' = stored
  BY <1>1 DEF Measures!ChooseGroup, Measures!ChooseSince, Measures!ChooseStat,
              Measures!ChooseMetric, Measures!ChooseChart
<1>3. \/ Measures!ChooseMode \/ Measures!ChooseContainer \/ Measures!ToggleContainer
      \/ Measures!FollowLink \/ Measures!CompareOthers \/ Measures!OpenContainer
      \/ Measures!Again \/ Measures!TypeName \/ Measures!ApplyView \/ Measures!Answer
      => stored' = stored
  BY DEF Measures!ChooseMode, Measures!ChooseContainer, Measures!ToggleContainer,
         Measures!FollowLink, Measures!CompareOthers, Measures!OpenContainer,
         Measures!Again, Measures!TypeName, Measures!ApplyView, Measures!Answer
<1> QED BY <1>2, <1>3 DEF Measures!Next, Measures!User

LEMMA KeptStep == KeptViews(stored) /\ [Next]_vars => KeptViews(stored')
<1> SUFFICES ASSUME KeptViews(stored), [Next]_vars PROVE KeptViews(stored')
  OBVIOUS
<1>1. CASE stored' = stored
  BY <1>1
<1>2. CASE Measures!SaveView
  BY <1>2, SavedAreKept DEF Measures!SaveView
<1>3. CASE Measures!DeleteView
  BY <1>3, OthersAreKept DEF Measures!DeleteView, Measures!deleteView
<1>4. CASE OnMetrics
  BY <1>1, <1>2, <1>3, <1>4, StoredByTwo DEF OnMetrics
<1>5. CASE Navigate \/ OnOverview \/ OnProblems \/ OnContainers \/ OnLogs \/ OnTraces \/ OnTopology
           \/ UNCHANGED vars
  <2>1. stored' = stored
    BY <1>5 DEF Navigate, OnOverview, OnProblems, OnContainers, OnLogs, OnTraces, OnTopology, vars
  <2> QED BY <1>1, <2>1
<1> QED BY <1>4, <1>5 DEF Next

\* The list of views on screen is the one in the browser, each view once and no more
\* than it keeps, after any saves, deletions, changes of mode and of page
\* (metric-compare.tsx, observability.ts).
THEOREM StoredViewsAreListed == Spec => []ViewsAreStored
<1>1. ChoiceInv /\ KeptViews(stored) => ViewsAreStored
  BY DEF ChoiceInv, ChoiceOn, KeptViews, ViewsAreStored, Measures!ViewsAreStored
<1>2. KeptViews(stored) /\ [Next]_vars => KeptViews(stored)'
  BY KeptStep DEF KeptViews, IsList
<1> QED BY <1>1, <1>2, ChoiceInit, ChoiceStep, KeptInit, PTL DEF Spec

-----------------------------------------------------------------------------
\* What is said of nothing: an answer is behind it, or a failure.
FourLists(d) == IsList(d.alerts) /\ IsList(d.slos) /\ IsList(d.fleet) /\ IsList(d.http)

CalmOn(page, v) ==
    CASE page = "overview" -> /\ {"data", "answered", "loading", "error"} \subseteq DOMAIN v
                              /\ FourLists(v.data)
                              /\ v.loading \/ v.error \/ v.answered
      [] page = "problems" -> /\ {"shown", "loading", "error"} \subseteq DOMAIN v
                              /\ v.loading \/ v.error \/ v.shown.req.to # "nothing"
      [] OTHER -> TRUE

CalmInv == CalmOn(route, view)

\* The overview has a copy of the library of its own.
LEMMA OverviewSubsequence ==
    ASSUME NEW q, IsList(q), NEW places \in SUBSET DOMAIN q
    PROVE  IsList(Overview!Subsequence(q, places))
<1>1. Overview!Subsequence(q, places) = Logs!Subsequence(q, places)
  BY DEF Overview!Subsequence, Logs!Subsequence, Overview!Cardinality, Logs!Cardinality
<1>2. Len(q) \in Nat /\ places \in SUBSET (1 .. Len(q))
  BY ListIsFunction
<1> QED BY <1>1, <1>2, Picked

\* Whatever the hub answers, the page keeps four lists.
LEMMA KeptAreLists == ASSUME NEW x \in States PROVE FourLists(Overview!Kept(x))
<1>1. IsList(x.alerts) /\ IsList(x.slos) /\ IsList(x.fleet) /\ IsList(x.http)
  <2>1. \A q \in {x.alerts, x.slos, x.fleet, x.http} : q \in Seq(ToSet(q))
    BY PanelAssumption
  <2> QED BY <2>1, SeqIsList
<1>2. IsList(Overview!Kept(x).slos) /\ IsList(Overview!Kept(x).fleet)
  BY <1>1, OverviewSubsequence DEF Overview!Kept
<1>3. IsList(Overview!Kept(x).http)
  <2> DEFINE q == Overview!Subsequence(x.http,
                                       {i \in DOMAIN x.http : Overview!Failing(x.http[i])})
             s == Overview!ByRate(q)
  <2>1. IsList(q)
    BY <1>1, OverviewSubsequence
  <2> HIDE DEF q
  <2>2. Len(q) \in Nat /\ DOMAIN q = 1 .. Len(q)
    BY <2>1, ListIsFunction
  <2>3. s = [n \in 1 .. Len(q) |-> s[n]]
    BY <2>2 DEF Overview!ByRate
  <2> HIDE DEF s
  <2>4. IsList(s)
    BY <2>2, <2>3, FunctionIsList
  <2> QED BY <2>4 DEF s, q, Overview!Kept
<1> QED BY <1>1, <1>2, <1>3 DEF FourLists, Overview!Kept

\* Nothing needs action: none of the lists holds anything.
LEMMA NoItems ==
    ASSUME NEW d, FourLists(d), Overview!Items(d) = <<>>
    PROVE  d.alerts = <<>> /\ d.slos = <<>> /\ d.fleet = <<>> /\ d.http = <<>>
<1> DEFINE a == [i \in DOMAIN d.alerts |-> Overview!AlertItem(d.alerts[i])]
           o == [i \in DOMAIN d.slos |-> Overview!SLOItem(d.slos[i])]
           c == [i \in DOMAIN d.fleet |-> Overview!ContainerItem(d.fleet[i])]
           h == [i \in DOMAIN d.http |-> Overview!HTTPItem(d.http[i])]
<1>1. ASSUME NEW q, IsList(q), NEW s, DOMAIN s = DOMAIN q, s = [i \in DOMAIN q |-> s[i]]
      PROVE  IsList(s) /\ Len(s) = Len(q)
  <2>1. Len(q) \in Nat /\ DOMAIN q = 1 .. Len(q)
    BY <1>1, ListIsFunction
  <2>2. s = [i \in 1 .. Len(q) |-> s[i]]
    BY <1>1, <2>1
  <2> QED BY <2>1, <2>2, FunctionIsList
<1>2. /\ IsList(a) /\ Len(a) = Len(d.alerts) /\ IsList(o) /\ Len(o) = Len(d.slos)
      /\ IsList(c) /\ Len(c) = Len(d.fleet) /\ IsList(h) /\ Len(h) = Len(d.http)
  <2>1. IsList(d.alerts) /\ IsList(d.slos) /\ IsList(d.fleet) /\ IsList(d.http)
    BY DEF FourLists
  <2>2. /\ DOMAIN a = DOMAIN d.alerts /\ a = [i \in DOMAIN d.alerts |-> a[i]]
        /\ DOMAIN o = DOMAIN d.slos /\ o = [i \in DOMAIN d.slos |-> o[i]]
        /\ DOMAIN c = DOMAIN d.fleet /\ c = [i \in DOMAIN d.fleet |-> c[i]]
        /\ DOMAIN h = DOMAIN d.http /\ h = [i \in DOMAIN d.http |-> h[i]]
    OBVIOUS
  <2> HIDE DEF a, o, c, h
  <2> QED BY <1>1, <2>1, <2>2
<1>3. a \o o \o c \o h = <<>>
  BY DEF Overview!Items
<1> HIDE DEF a, o, c, h
<1>4. /\ IsList(a \o o \o c \o h)
      /\ Len(a \o o \o c \o h) = Len(a) + Len(o) + Len(c) + Len(h)
  <2>1. IsList(a \o o) /\ Len(a \o o) = Len(a) + Len(o)
    BY <1>2, Joined
  <2>2. IsList(a \o o \o c) /\ Len(a \o o \o c) = Len(a \o o) + Len(c)
    BY <1>2, <2>1, Joined
  <2>3. IsList(a \o o \o c \o h) /\ Len(a \o o \o c \o h) = Len(a \o o \o c) + Len(h)
    BY <1>2, <2>2, Joined
  <2> QED BY <2>1, <2>2, <2>3
<1>5. /\ Len(d.alerts) \in Nat /\ Len(d.slos) \in Nat /\ Len(d.fleet) \in Nat
      /\ Len(d.http) \in Nat
  BY ListIsFunction DEF FourLists
<1>6. Len(d.alerts) + Len(d.slos) + Len(d.fleet) + Len(d.http) = 0
  <2>1. Len(a \o o \o c \o h) = 0
    BY <1>3, ShortLists
  <2> QED BY <1>2, <1>4, <2>1
<1>7. Len(d.alerts) = 0 /\ Len(d.slos) = 0 /\ Len(d.fleet) = 0 /\ Len(d.http) = 0
  <2>1. \A k, l, m, n \in Nat : k + l + m + n = 0 => k = 0 /\ l = 0 /\ m = 0 /\ n = 0
    OBVIOUS
  <2> HIDE DEF FourLists
  <2> QED BY <1>5, <1>6, <2>1
<1>8. ASSUME NEW q, IsList(q), Len(q) = 0 PROVE q = <<>>
  BY <1>8 DEF IsList
<1> QED BY <1>7, <1>8 DEF FourLists

\* No card is coloured over empty lists.
LEMMA NoColour ==
    ASSUME NEW d, d.alerts = <<>>, d.slos = <<>>, d.fleet = <<>>, d.http = <<>>
    PROVE  \A k \in DOMAIN Overview!Cards(d) : Overview!Cards(d)[k].tone = "default"
<1>1. Overview!Breached(d) = <<>>
  <2>1. {i \in DOMAIN d.slos : d.slos[i].breached} = {} /\ Overview!Cardinality({}) = 0
    BY FS_EmptySet DEF Overview!Cardinality, Cardinality
  <2> QED BY <2>1 DEF Overview!Breached, Overview!Subsequence
<1> QED BY <1>1 DEF Overview!Cards

LEMMA CalmMounts == ASSUME NEW page, NEW s PROVE CalmOn(page, Mounted(page, s).view)
<1>1. CASE page = "overview"
  <2>1. FourLists(Overview!Empty)
    BY ShortLists DEF FourLists, Overview!Empty
  <2> QED BY <1>1, <2>1 DEF CalmOn, Mounted, Overview!MountView
<1>2. CASE page = "problems"
  BY <1>2 DEF CalmOn, Mounted, Problems!MountView, Problems!Fresh
<1>3. CASE page \notin {"overview", "problems"}
  BY <1>3 DEF CalmOn
<1> QED BY <1>1, <1>2, <1>3

LEMMA CalmOverview ==
    ASSUME CalmOn("overview", view), Overview!Next PROVE CalmOn("overview", view')
<1>1. CASE view' = view
  BY <1>1
<1>2. ASSUME NEW i \in DOMAIN pending, Overview!Loaded(i) PROVE CalmOn("overview", view')
  <2>1. PICK x \in States : view' = [data |-> Overview!Kept(x), answered |-> TRUE,
                                     loading |-> FALSE, error |-> FALSE]
    BY <1>2 DEF Overview!Loaded
  <2> QED BY <2>1, KeptAreLists DEF CalmOn
<1>3. ASSUME NEW i \in DOMAIN pending, Overview!Failed(i) PROVE CalmOn("overview", view')
  BY <1>3 DEF Overview!Failed, CalmOn
<1>4. view' = view \/ \E i \in DOMAIN pending : Overview!Loaded(i) \/ Overview!Failed(i)
  BY DEF Overview!Next, Overview!User, Overview!Poll, Overview!Retry, Overview!Translate,
         Overview!Again, Overview!Answer
<1> QED BY <1>1, <1>2, <1>3, <1>4

LEMMA CalmProblems ==
    ASSUME CalmOn("problems", view), Problems!Next PROVE CalmOn("problems", view')
<1>1. CASE view' = view
  BY <1>1
<1>2. ASSUME NEW s, Problems!Follow(s) PROVE CalmOn("problems", view')
  <2>1. view' = [view EXCEPT !.sinceSeen = Problems!Since(s)] \/ view' = Problems!Fresh(s)
    BY <1>2 DEF Problems!Follow
  <2> QED BY <2>1 DEF CalmOn, Problems!Fresh
<1>3. CASE Problems!Answer
  <2>1. PICK i \in DOMAIN pending :
            Problems!PartAnswer(i) \/ Problems!PartFailure(i) \/ Problems!GroupsAnswer(i)
    BY <1>3 DEF Problems!Answer
  <2>2. CASE Problems!PartAnswer(i)
    <3>1. PICK x, n : view' = [view EXCEPT
                !.shown = [req |-> pending[i].req, content |-> x, total |-> n],
                !.loading = FALSE, !.error = FALSE]
      BY <2>2 DEF Problems!PartAnswer
    <3> QED BY <2>2, <3>1 DEF Problems!PartAnswer, CalmOn
  <2>3. CASE Problems!PartFailure(i)
    BY <2>3 DEF Problems!PartFailure, CalmOn
  <2>4. CASE Problems!GroupsAnswer(i)
    BY <2>4 DEF Problems!GroupsAnswer, CalmOn
  <2> QED BY <2>1, <2>2, <2>3, <2>4
<1>4. view' = view \/ Problems!Answer \/ \E s : Problems!Follow(s)
  BY DEF Problems!Next, Problems!User, Problems!Poll, Problems!Retry, Problems!Translate,
         Problems!Again, Problems!ChooseTab, Problems!ChooseSince, Problems!ChooseGroup,
         Problems!TurnPage, Problems!FollowLink
<1> QED BY <1>1, <1>2, <1>3, <1>4

LEMMA CalmInit == Init => CalmInv
<1> SUFFICES ASSUME Init PROVE CalmInv
  OBVIOUS
<1>1. view = Mounted(route, search).view
  BY DEF Init
<1> QED BY <1>1, CalmMounts DEF CalmInv

LEMMA CalmStep == CalmInv /\ [Next]_vars => CalmInv'
<1> SUFFICES ASSUME CalmInv, [Next]_vars PROVE CalmOn(route', view')
  BY DEF CalmInv, CalmOn, FourLists, IsList
<1>1. CASE Navigate
  <2>1. view' = Mounted(route', search').view
    BY <1>1 DEF Navigate
  <2> QED BY <2>1, CalmMounts
<1>2. CASE OnOverview
  <2>1. route = "overview" /\ route' = "overview" /\ Overview!Next
    BY <1>2 DEF OnOverview
  <2> QED BY <2>1, CalmOverview DEF CalmInv
<1>3. CASE OnProblems
  <2>1. route = "problems" /\ route' = "problems" /\ Problems!Next
    BY <1>3 DEF OnProblems
  <2> QED BY <2>1, CalmProblems DEF CalmInv
<1>4. CASE OnContainers \/ OnMetrics \/ OnLogs \/ OnTraces \/ OnTopology
  <2>1. route' \notin {"overview", "problems"}
    BY <1>4 DEF OnContainers, OnMetrics, OnLogs, OnTraces, OnTopology
  <2> QED BY <2>1 DEF CalmOn
<1>5. CASE UNCHANGED vars
  BY <1>5 DEF CalmInv, vars
<1> QED BY <1>1, <1>2, <1>3, <1>4, <1>5 DEF Next

\* The overview says that nothing needs action only when it was answered and no load has
\* failed since, and then no card says otherwise (overview.tsx).  The problems page says
\* that nothing is down once it was answered, or under the error of a failed load, where
\* the code does say it before any answer (problems-now.tsx, event-history.tsx); of the
\* objectives it never does (slo-list.tsx).
THEOREM NothingCalmUntold == Spec => []CalmIsTrue
<1>1. CalmInv => CalmIsTrue
  <2> SUFFICES ASSUME CalmInv PROVE CalmIsTrue
    OBVIOUS
  <2>1. ASSUME route = "overview", Overview!Screen(view) = "calm" PROVE Overview!CalmIsTrue
    <3>1. ~ view.loading /\ Overview!Items(view.data) = <<>> /\ ~ view.error
      BY <2>1 DEF Overview!Screen
    <3>2. view.answered /\ FourLists(view.data)
      BY <2>1, <3>1 DEF CalmInv, CalmOn
    <3> QED BY <3>1, <3>2, NoItems, NoColour DEF Overview!CalmIsTrue
  <2>2. ASSUME route = "problems" PROVE Problems!CalmIsKnown
    <3>1. view.loading \/ view.error \/ view.shown.req.to # "nothing"
      BY <2>2 DEF CalmInv, CalmOn
    <3> QED BY <3>1 DEF Problems!CalmIsKnown, Problems!Screen, Problems!Blankness
  <2>3. route = "overview" => Overview!CalmIsTrue
    BY <2>1 DEF Overview!CalmIsTrue
  <2> QED BY <2>2, <2>3 DEF CalmIsTrue
<1> QED BY <1>1, CalmInit, CalmStep, PTL DEF Spec

-----------------------------------------------------------------------------
\* A part of a list, from one of its places to another.
LEMMA Sliced ==
    ASSUME NEW q, IsList(q), NEW a \in 1 .. Len(q), NEW b \in a .. Len(q)
    PROVE  SubSeq(q, a, b) # <<>> /\ Len(SubSeq(q, a, b)) = b - a + 1
<1>1. PICK S : q \in Seq(S)
  BY DEF IsList
<1>2. SubSeq(q, a, b) \in Seq(S) /\ Len(SubSeq(q, a, b)) = b - a + 1
  BY <1>1
<1>3. Len(q) \in Nat
  BY <1>1
<1>4. b - a + 1 # 0
  BY <1>3
<1>5. Len(<<>>) = 0
  BY ShortLists
<1> HIDE DEF IsList
<1> QED BY <1>2, <1>4, <1>5

\* Where a page that exists starts and ends.
LEMMA Bounds ==
    ASSUME NEW total \in Nat \ {0}, NEW size \in Nat \ {0}, NEW n \in 1 .. Pages(total, size)
    PROVE  LET first == (n - 1) * size IN
           /\ first \in 0 .. total - 1
           /\ Lesser(first + size, total) \in first + 1 .. total
           /\ n < Pages(total, size) => Lesser(first + size, total) = n * size
           /\ n = Pages(total, size) => Lesser(first + size, total) = total
<1> DEFINE last == Pages(total, size)
           first == (n - 1) * size
<1>1. last \in Nat \ {0} /\ (last - 1) * size < total /\ total <= last * size
  BY PagesBound
<1> HIDE DEF last
<1>2. n \in 1 .. last /\ n \in Nat /\ n - 1 \in Nat /\ last - 1 \in Nat /\ n - 1 <= last - 1
  BY <1>1 DEF last
<1>3. first \in Nat /\ (last - 1) * size \in Nat /\ n * size \in Nat /\ last * size \in Nat
  BY <1>1, <1>2
<1>4. first <= (last - 1) * size
  BY <1>2, ProductGrows
<1>5. first + size = n * size
  BY <1>2
<1>6. ASSUME n < last PROVE n * size <= (last - 1) * size
  <2>1. n <= last - 1
    BY <1>1, <1>2, <1>6
  <2> QED BY <1>2, <2>1, ProductGrows
<1> HIDE DEF first
<1>7. first \in 0 .. total - 1
  BY <1>1, <1>3, <1>4
<1>8. Lesser(first + size, total) \in first + 1 .. total
  BY <1>3, <1>7 DEF Lesser
<1>9. ASSUME n < last PROVE Lesser(first + size, total) = n * size
  BY <1>1, <1>3, <1>5, <1>6, <1>9 DEF Lesser
<1>10. ASSUME n = last PROVE Lesser(first + size, total) = total
  BY <1>1, <1>3, <1>5, <1>10 DEF Lesser
<1> QED BY <1>7, <1>8, <1>9, <1>10 DEF first, last

\* One page of a list, whatever page is asked for.
LEMMA PageOfRows ==
    ASSUME NEW rows, IsList(rows), rows # <<>>, NEW size \in Nat \ {0}, NEW page \in Int
    PROVE  LET last  == Pages(Len(rows), size)
               n     == Lesser(Greater(page, 1), last)
               p     == pageSlice(rows, page, size)
           IN /\ n \in 1 .. last /\ p.page = n
              /\ p.start = (n - 1) * size + 1
              /\ p.end = Lesser((n - 1) * size + size, Len(rows))
              /\ p.rows # <<>> /\ p.rows = SubSeq(rows, p.start, p.end)
              /\ p = pageSlice(rows, n, size)
<1> DEFINE total == Len(rows)
           last  == Pages(total, size)
           n     == Lesser(Greater(page, 1), last)
           first == (n - 1) * size
           e     == Lesser(first + size, total)
           slice == SubSeq(rows, first + 1, e)
           p     == pageSlice(rows, page, size)
<1>1. total \in Nat \ {0}
  BY DEF IsList
<1>2. p = [page |-> n, rows |-> slice, total |-> total,
           start |-> IF total = 0 THEN 0 ELSE first + 1,
           end |-> Lesser(total, first + Len(slice))]
  BY DEF pageSlice
<1>3. n \in 1 .. last
  BY <1>1, PageShowsRows
<1>4. Lesser(Greater(n, 1), last) = n
  <2>1. last \in Nat
    BY <1>1, PagesBound
  <2> HIDE DEF n, last
  <2> QED BY <1>3, <2>1 DEF Lesser, Greater
<1>5. p = pageSlice(rows, n, size)
  <2> HIDE DEF n, p
  <2> QED BY <1>2, <1>4 DEF pageSlice
<1>6. first \in 0 .. total - 1 /\ e \in first + 1 .. total
  <2> HIDE DEF n, total
  <2> QED BY <1>1, <1>3, Bounds
<1> HIDE DEF p, n, last
<1>7. first + 1 \in 1 .. total /\ e \in first + 1 .. total
  BY <1>1, <1>6
<1> HIDE DEF first, e
<1>8. slice # <<>> /\ Len(slice) = e - (first + 1) + 1
  BY <1>7, Sliced
<1> HIDE DEF slice, total
<1>9. Lesser(total, first + Len(slice)) = e
  BY <1>1, <1>6, <1>8 DEF Lesser
<1>10. /\ p.page = n /\ p.start = first + 1 /\ p.end = e /\ p.rows = slice
  BY <1>1, <1>2, <1>9
<1>11. p.rows # <<>> /\ p.rows = SubSeq(rows, p.start, p.end)
  BY <1>8, <1>10 DEF slice
<1> QED BY <1>3, <1>5, <1>10, <1>11 DEF p, n, last, first, e, total

\* The pages of a list follow one another, and show it whole.
LEMMA PagesAreTheRows ==
    ASSUME NEW rows, IsList(rows), rows # <<>>, NEW size \in Nat \ {0}
    PROVE  LET last    == Pages(Len(rows), size)
               page(n) == pageSlice(rows, n, size)
           IN /\ page(1).start = 1 /\ page(last).end = Len(rows)
              /\ \A n \in 1 .. last - 1 : page(n + 1).start = page(n).end + 1
              /\ \A n \in 1 .. last : /\ page(n).rows # <<>>
                                      /\ page(n).rows = SubSeq(rows, page(n).start, page(n).end)
<1> DEFINE total   == Len(rows)
           last    == Pages(total, size)
           page(n) == pageSlice(rows, n, size)
<1>1. total \in Nat \ {0} /\ last \in Nat \ {0}
  <2>1. total \in Nat \ {0}
    BY DEF IsList
  <2> QED BY <2>1, PagesBound
<1>2. ASSUME NEW n \in 1 .. last
      PROVE  /\ page(n).start = (n - 1) * size + 1
             /\ page(n).end = Lesser((n - 1) * size + size, total)
             /\ page(n).rows # <<>> /\ page(n).rows = SubSeq(rows, page(n).start, page(n).end)
  <2>1. Lesser(Greater(n, 1), last) = n
    <3> HIDE DEF last
    <3> QED BY <1>1, <1>2 DEF Lesser, Greater
  <2> DEFINE m == Lesser(Greater(n, 1), last)
  <2>2. n \in Int
    OBVIOUS
  <2>3. /\ page(n).start = (m - 1) * size + 1
        /\ page(n).end = Lesser((m - 1) * size + size, total)
        /\ page(n).rows # <<>> /\ page(n).rows = SubSeq(rows, page(n).start, page(n).end)
    BY <2>2, PageOfRows
  <2>4. m = n
    BY <2>1
  <2> HIDE DEF m, page
  <2> QED BY <2>3, <2>4
<1> HIDE DEF page
<1>3. ASSUME NEW n \in 1 .. last
      PROVE  /\ n < last => page(n).end = n * size
             /\ n = last => page(n).end = total
  <2> HIDE DEF total
  <2>1. /\ n < last => Lesser((n - 1) * size + size, total) = n * size
        /\ n = last => Lesser((n - 1) * size + size, total) = total
    BY <1>1, Bounds
  <2> QED BY <1>2, <2>1
<1> HIDE DEF last
<1>4. page(1).start = 1
  <2>1. (1 - 1) * size = 0 /\ 1 \in 1 .. last
    BY <1>1
  <2> QED BY <1>2, <2>1
<1>5. page(last).end = total
  <2>1. last \in 1 .. last
    BY <1>1
  <2> QED BY <1>3, <2>1
<1>6. ASSUME NEW n \in 1 .. last - 1 PROVE page(n + 1).start = page(n).end + 1
  <2>1. n \in 1 .. last /\ n + 1 \in 1 .. last /\ n < last /\ n + 1 - 1 = n
    BY <1>1
  <2> QED BY <1>2, <1>3, <2>1
<1> QED BY <1>2, <1>4, <1>5, <1>6 DEF page, last, total

-----------------------------------------------------------------------------
\* The rows of the containers page.
LEMMA SameSlice ==
    ASSUME NEW rows, NEW page, NEW size
    PROVE  /\ Boxes!pageSlice(rows, page, size) = pageSlice(rows, page, size)
           /\ Boxes!Pages(Len(rows), size) = Pages(Len(rows), size)
BY DEF Boxes!pageSlice, pageSlice, Boxes!Lesser, Lesser, Boxes!Greater, Greater, Boxes!Pages, Pages

\* An order of a finite set, as pairs, each element after the first: how many
\* elements do not come after one tells its place.
IsOrder(R, all) ==
    /\ \A c \in all : <<c, c>> \notin R
    /\ \A c, d \in all : c # d => <<c, d>> \in R \/ <<d, c>> \in R
    /\ \A c, d, e \in all : <<c, d>> \in R /\ <<d, e>> \in R => <<c, e>> \in R

LEMMA PlacesAreOnto ==
    ASSUME NEW all, IsFiniteSet(all), NEW R, IsOrder(R, all)
    PROVE  LET place(c) == Cardinality({d \in all : <<c, d>> \notin R})
           IN /\ Cardinality(all) \in Nat
              /\ \A n \in 1 .. Cardinality(all) : \E c \in all : place(c) = n
              /\ \A c \in all : place(c) \in 1 .. Cardinality(all)
              /\ \A c, d \in all : place(c) < place(d) <=> <<c, d>> \in R
<1> DEFINE N == Cardinality(all)
           upTo(c) == {d \in all : <<c, d>> \notin R}
           place(c) == Cardinality(upTo(c))
<1>1. N \in Nat
  BY FS_CardinalityType
<1>2. ASSUME NEW c \in all
      PROVE  IsFiniteSet(upTo(c)) /\ place(c) \in 1 .. N
  <2>1. upTo(c) \subseteq all /\ c \in upTo(c)
    BY DEF IsOrder
  <2> HIDE DEF upTo
  <2>2. IsFiniteSet(upTo(c)) /\ place(c) <= N /\ place(c) \in Nat
    BY <2>1, FS_Subset, FS_CardinalityType
  <2>3. place(c) # 0
    BY <2>1, <2>2, FS_EmptySet
  <2> QED BY <1>1, <2>2, <2>3
<1>3. ASSUME NEW c \in all, NEW d \in all, <<c, d>> \in R
      PROVE  place(c) < place(d)
  <2>1. upTo(c) \subseteq upTo(d)
    <3>1. ASSUME NEW e \in all, <<d, e>> \in R PROVE <<c, e>> \in R
      BY <1>3, <3>1 DEF IsOrder
    <3> QED BY <3>1
  <2>2. d \in upTo(d) /\ d \notin upTo(c)
    BY <1>3 DEF IsOrder
  <2> HIDE DEF upTo
  <2>3. place(c) \in Nat /\ place(d) \in Nat /\ place(c) <= place(d) /\ place(c) # place(d)
    BY <1>1, <1>2, <2>1, <2>2, FS_Subset
  <2> QED BY <2>3
<1> HIDE DEF upTo
<1>4. ASSUME NEW c \in all, NEW d \in all, c # d
      PROVE  place(c) # place(d)
  <2>1. place(c) \in Nat /\ place(d) \in Nat
    BY <1>1, <1>2
  <2>2. <<c, d>> \in R \/ <<d, c>> \in R
    BY <1>4 DEF IsOrder
  <2> HIDE DEF place
  <2> QED BY <1>3, <2>1, <2>2
<1>5. ASSUME NEW c \in all, NEW d \in all, place(c) < place(d)
      PROVE  <<c, d>> \in R
  <2>1. place(c) \in Nat /\ place(d) \in Nat
    BY <1>1, <1>2
  <2>2. c # d
    BY <1>5, <2>1
  <2>3. <<c, d>> \in R \/ <<d, c>> \in R
    BY <2>2 DEF IsOrder
  <2> HIDE DEF place
  <2> QED BY <1>3, <1>5, <2>1, <2>3
<1>6. ASSUME NEW n \in 1 .. N, \A c \in all : place(c) # n
      PROVE  FALSE
  <2> DEFINE others == (1 .. N) \ {n}
             places == [c \in all |-> place(c)]
  <2>1. IsFiniteSet(1 .. N) /\ Cardinality(1 .. N) = N
    BY <1>1, FS_Interval
  <2>2. IsFiniteSet(others) /\ Cardinality(others) < N
    <3>1. IsFiniteSet(others) /\ Cardinality(others) = Cardinality(1 .. N) - 1
      BY <2>1, FS_RemoveElement
    <3> QED BY <1>1, <2>1, <3>1
  <2>3. places \in [all -> others]
    BY <1>2, <1>6
  <2>4. \E c, d \in all : c # d /\ places[c] = places[d]
    <3> HIDE DEF places, others
    <3> QED BY <1>1, <2>2, <2>3, FS_PigeonHole
  <2> QED BY <1>4, <2>4
<1> HIDE DEF place
<1>7. /\ N \in Nat
      /\ \A n \in 1 .. N : \E c \in all : place(c) = n
      /\ \A c \in all : place(c) \in 1 .. N
      /\ \A c, d \in all : place(c) < place(d) <=> <<c, d>> \in R
  BY <1>1, <1>2, <1>3, <1>5, <1>6
<1> QED BY <1>7 DEF place, upTo

\* What the hub may know is of containers the page has a number for.
TableOn(v) == /\ "shown" \in DOMAIN v
              /\ DOMAIN v.shown.cpu \cup DOMAIN v.shown.status \subseteq DOMAIN ByLoad
              /\ v.shown.cpu \in [DOMAIN v.shown.cpu -> Nat]

TableInv == route = "containers" => TableOn(view)

\* The comparison the rows are sorted by is an order of the containers.
LEMMA BeforeIsOrder ==
    ASSUME NEW v, TableOn(v), NEW all \in SUBSET DOMAIN ByLoad,
           NEW R, R = {p \in all \X all : Boxes!Before(v, p[1], p[2])}
    PROVE  /\ IsFiniteSet(all)
           /\ IsOrder(R, all)
           /\ \A c, d \in all : <<c, d>> \in R <=> Boxes!Before(v, c, d)
<1>1. Len(ByLoad) \in Nat /\ DOMAIN ByLoad = 1 .. Len(ByLoad)
  BY PanelAssumption
<1>2. IsFiniteSet(all)
  <2>1. IsFiniteSet(1 .. Len(ByLoad))
    BY <1>1, FS_Interval
  <2>2. all \subseteq 1 .. Len(ByLoad)
    BY <1>1
  <2> QED BY <2>1, <2>2, FS_Subset
<1>3. \A c \in all : c \in Int /\ Boxes!Load(v, c) \in Nat
  BY <1>1 DEF TableOn, Boxes!Load, Boxes!Measured
<1>4. \A c, d \in all : <<c, d>> \in R <=> Boxes!Before(v, c, d)
  OBVIOUS
<1> DEFINE load(c) == Boxes!Load(v, c)
           bad(c)  == c \in Boxes!Troubled(v)
           work(c) == c \in Boxes!Measured(v)
<1>5. \A c, d \in all : Boxes!Before(v, c, d) <=>
         \/ bad(c) /\ ~ bad(d)
         \/ /\ bad(c) <=> bad(d)
            /\ \/ load(c) > load(d)
               \/ load(c) = load(d) /\ IF work(c) <=> work(d) THEN c < d ELSE work(c)
  BY DEF Boxes!Before, Boxes!Busier, Boxes!ListedBefore
<1> HIDE DEF load, bad, work
<1>6. \A c \in all : c \in Int /\ load(c) \in Nat
  BY <1>3 DEF load
<1>7. \A c \in all : ~ Boxes!Before(v, c, c)
  BY <1>5, <1>6
<1>8. ASSUME NEW c \in all, NEW d \in all, c # d
      PROVE  Boxes!Before(v, c, d) \/ Boxes!Before(v, d, c)
  BY <1>5, <1>6, <1>8
<1>9. ASSUME NEW c \in all, NEW d \in all, NEW e \in all,
             Boxes!Before(v, c, d), Boxes!Before(v, d, e)
      PROVE  Boxes!Before(v, c, e)
  BY <1>5, <1>6, <1>9
<1> QED BY <1>2, <1>4, <1>7, <1>8, <1>9 DEF IsOrder

LEMMA SameCount == ASSUME NEW S PROVE Boxes!Cardinality(S) = Cardinality(S)
BY DEF Boxes!Cardinality, Cardinality

\* Every container on the page has one row, in the order of the table.
LEMMA RowsInOrder ==
    ASSUME NEW v, NEW s, TableOn(v), NEW rows, rows = Boxes!Rows(v, s)
    PROVE  /\ IsList(rows)
           /\ {rows[i].container : i \in DOMAIN rows} = Boxes!Listed(v, s)
           /\ \A i, j \in DOMAIN rows : i < j =>
                 \/ rows[i].unstable /\ ~ rows[j].unstable
                 \/ /\ rows[i].unstable = rows[j].unstable
                    /\ rows[i].container # rows[j].container
                    /\ Boxes!Load(v, rows[i].container) >= Boxes!Load(v, rows[j].container)
<1> DEFINE all == Boxes!Listed(v, s)
           N   == Cardinality(all)
           R   == {p \in all \X all : Boxes!Before(v, p[1], p[2])}
           place(c) == Cardinality({d \in all : <<c, d>> \notin R})
           at(n) == CHOOSE c \in all : place(c) = n
<1>1. all \in SUBSET DOMAIN ByLoad
  BY DEF TableOn, Boxes!Listed, Boxes!Measured
<1>2. /\ IsFiniteSet(all) /\ IsOrder(R, all)
      /\ \A c, d \in all : <<c, d>> \in R <=> Boxes!Before(v, c, d)
  <2> HIDE DEF all
  <2> QED BY <1>1, BeforeIsOrder
<1>3. rows = [n \in 1 .. N |-> Boxes!Row(v, at(n))]
  <2>1. ASSUME NEW c \in all
        PROVE  Boxes!Cardinality(Boxes!NotAfter(v, all, c)) = place(c)
    <3>1. Boxes!NotAfter(v, all, c) = {d \in all : <<c, d>> \notin R}
      <4> HIDE DEF all, R
      <4> QED BY <1>2, <2>1 DEF Boxes!NotAfter
    <3> HIDE DEF all, R
    <3> QED BY <3>1, SameCount
  <2>2. rows = [n \in 1 .. Boxes!Cardinality(all) |->
                   Boxes!Row(v, CHOOSE c \in all :
                                   Boxes!Cardinality(Boxes!NotAfter(v, all, c)) = n)]
    BY DEF Boxes!Rows
  <2> HIDE DEF all, place
  <2>3. ASSUME NEW n
        PROVE  (CHOOSE c \in all : Boxes!Cardinality(Boxes!NotAfter(v, all, c)) = n) = at(n)
    BY <2>1
  <2> HIDE DEF at
  <2> QED BY <2>2, <2>3, SameCount
<1> HIDE DEF all, R
<1>4. /\ N \in Nat
      /\ \A n \in 1 .. N : \E c \in all : place(c) = n
      /\ \A c \in all : place(c) \in 1 .. N
      /\ \A c, d \in all : place(c) < place(d) <=> <<c, d>> \in R
  BY <1>2, PlacesAreOnto
<1> HIDE DEF N, place
<1>5. ASSUME NEW n \in 1 .. N PROVE at(n) \in all /\ place(at(n)) = n
  BY <1>4
<1>6. ASSUME NEW c \in all, NEW d \in all, place(c) = place(d) PROVE c = d
  <2>1. c # d => <<c, d>> \in R \/ <<d, c>> \in R
    BY <1>2 DEF IsOrder
  <2>2. place(c) \in Int /\ place(d) \in Int
    BY <1>4
  <2>3. <<c, d>> \notin R /\ <<d, c>> \notin R
    BY <1>4, <1>6, <2>2
  <2> QED BY <2>1, <2>3
<1> HIDE DEF at
<1>7. IsList(rows) /\ DOMAIN rows = 1 .. N
  <2>1. rows = [n \in 1 .. N |-> rows[n]]
    BY <1>3
  <2> QED BY <1>4, <2>1, FunctionIsList
<1>8. ASSUME NEW n \in 1 .. N
      PROVE  /\ rows[n].container = at(n)
             /\ rows[n].unstable = (at(n) \in Boxes!Troubled(v))
  BY <1>3 DEF Boxes!Row
<1>9. {rows[i].container : i \in DOMAIN rows} = all
  <2>1. ASSUME NEW c \in all PROVE \E n \in DOMAIN rows : rows[n].container = c
    <3>1. place(c) \in 1 .. N
      BY <1>4
    <3>2. at(place(c)) = c
      BY <1>5, <1>6, <3>1
    <3> QED BY <1>7, <1>8, <3>1, <3>2
  <2>2. ASSUME NEW n \in DOMAIN rows PROVE rows[n].container \in all
    BY <1>5, <1>7, <1>8
  <2> QED BY <2>1, <2>2
<1>10. ASSUME NEW i \in DOMAIN rows, NEW j \in DOMAIN rows, i < j
       PROVE  \/ rows[i].unstable /\ ~ rows[j].unstable
              \/ /\ rows[i].unstable = rows[j].unstable
                 /\ rows[i].container # rows[j].container
                 /\ Boxes!Load(v, rows[i].container) >= Boxes!Load(v, rows[j].container)
  <2> DEFINE c == at(i)
             d == at(j)
  <2>1. c \in all /\ d \in all /\ place(c) = i /\ place(d) = j
    BY <1>5, <1>7
  <2>2. /\ rows[i].container = c /\ rows[i].unstable = (c \in Boxes!Troubled(v))
        /\ rows[j].container = d /\ rows[j].unstable = (d \in Boxes!Troubled(v))
    BY <1>7, <1>8
  <2> HIDE DEF c, d
  <2>3. <<c, d>> \in R
    BY <1>4, <1>10, <2>1
  <2>4. c # d /\ Boxes!Before(v, c, d)
    BY <1>2, <2>1, <2>3 DEF IsOrder
  <2>5. Boxes!Load(v, c) \in Nat /\ Boxes!Load(v, d) \in Nat
    BY <1>1, <2>1 DEF TableOn, Boxes!Load, Boxes!Measured
  <2>6. \/ c \in Boxes!Troubled(v) /\ d \notin Boxes!Troubled(v)
        \/ /\ c \in Boxes!Troubled(v) <=> d \in Boxes!Troubled(v)
           /\ Boxes!Load(v, c) >= Boxes!Load(v, d)
    <3> DEFINE bad(x) == x \in Boxes!Troubled(v)
    <3>1. \/ bad(c) /\ ~ bad(d)
          \/ (bad(c) <=> bad(d)) /\ (Boxes!Load(v, c) > Boxes!Load(v, d)
                                     \/ Boxes!Load(v, c) = Boxes!Load(v, d))
      BY <2>4 DEF Boxes!Before, Boxes!Busier
    <3> HIDE DEF bad
    <3>2. \/ bad(c) /\ ~ bad(d)
          \/ (bad(c) <=> bad(d)) /\ Boxes!Load(v, c) >= Boxes!Load(v, d)
      BY <2>5, <3>1
    <3> QED BY <3>2 DEF bad
  <2>7. CASE c \in Boxes!Troubled(v) /\ d \notin Boxes!Troubled(v)
    <3>1. rows[i].unstable /\ ~ rows[j].unstable
      BY <2>2, <2>7
    <3> QED BY <3>1
  <2>8. CASE /\ c \in Boxes!Troubled(v) <=> d \in Boxes!Troubled(v)
             /\ Boxes!Load(v, c) >= Boxes!Load(v, d)
    <3>1. (c \in Boxes!Troubled(v)) = (d \in Boxes!Troubled(v))
      BY <2>8
    <3>2. rows[i].unstable = rows[j].unstable
      BY <2>2, <3>1
    <3> QED BY <2>2, <2>4, <2>8, <3>2
  <2> QED BY <2>6, <2>7, <2>8
<1> QED BY <1>7, <1>9, <1>10 DEF all

\* A page of the table, at any address.
LEMMA TableIsPaged == TableOn(view) => Boxes!TablePagesAreTheRows
<1> SUFFICES ASSUME TableOn(view) PROVE Boxes!TablePagesAreTheRows
  OBVIOUS
<1> DEFINE rows    == Boxes!Rows(view, search)
           last    == Pages(Len(rows), TableSize)
           page(n) == pageSlice(rows, n, TableSize)
           p       == Boxes!Page(search)
<1>1. /\ IsList(rows)
      /\ {rows[i].container : i \in DOMAIN rows} = Boxes!Listed(view, search)
      /\ \A i, j \in DOMAIN rows : i < j =>
            \/ rows[i].unstable /\ ~ rows[j].unstable
            \/ /\ rows[i].unstable = rows[j].unstable
               /\ rows[i].container # rows[j].container
               /\ Boxes!Load(view, rows[i].container) >= Boxes!Load(view, rows[j].container)
  BY RowsInOrder
<1>2. p \in Int
  BY DEF Boxes!Page, Boxes!pageIndex
<1>3. TableSize \in Nat \ {0}
  BY PanelAssumption
<1>4. Boxes!TablePage(view, search) = pageSlice(rows, p, TableSize)
  BY SameSlice DEF Boxes!TablePage
<1> HIDE DEF rows, p
<1>5. ASSUME rows # <<>>
      PROVE  /\ page(1).start = 1 /\ page(last).end = Len(rows)
             /\ \A n \in 1 .. last - 1 : page(n + 1).start = page(n).end + 1
             /\ \A n \in 1 .. last : /\ page(n).rows # <<>>
                                     /\ page(n).rows = SubSeq(rows, page(n).start, page(n).end)
             /\ \E n \in 1 .. last : pageSlice(rows, p, TableSize) = page(n)
  <2>1. /\ page(1).start = 1 /\ page(last).end = Len(rows)
        /\ \A n \in 1 .. last - 1 : page(n + 1).start = page(n).end + 1
        /\ \A n \in 1 .. last : /\ page(n).rows # <<>>
                                /\ page(n).rows = SubSeq(rows, page(n).start, page(n).end)
    BY <1>1, <1>3, <1>5, PagesAreTheRows
  <2>2. \E n \in 1 .. last : pageSlice(rows, p, TableSize) = page(n)
    BY <1>1, <1>2, <1>3, <1>5, PageOfRows
  <2> QED BY <2>1, <2>2
<1> QED BY <1>1, <1>4, <1>5, SameSlice DEF Boxes!TablePagesAreTheRows, rows

LEMMA TableMounts == ASSUME NEW s PROVE TableOn(Boxes!MountView(s))
BY DEF TableOn, Boxes!MountView, Boxes!Nothing, Boxes!NoStatus

\* Every step of the page: only an answer changes what it knows of the containers.
LEMMA TableKeeps == ASSUME TableOn(view), Boxes!Next PROVE TableOn(view')
<1>1. ASSUME "shown" \in DOMAIN view', view'.shown = view.shown PROVE TableOn(view')
  BY <1>1 DEF TableOn
<1>2. "shown" \in DOMAIN view
  BY DEF TableOn
<1>3. CASE view' = view
  BY <1>1, <1>2, <1>3
<1>4. CASE \E s : Boxes!Follow(s)
  <2>1. "shown" \in DOMAIN view' /\ view'.shown = view.shown
    BY <1>2, <1>4 DEF Boxes!Follow
  <2> QED BY <1>1, <2>1
<1>5. CASE Boxes!RemoveGroup \/ Boxes!TypeName \/ Boxes!ToggleContainer
  <2>1. "shown" \in DOMAIN view' /\ view'.shown = view.shown
    BY <1>2, <1>5 DEF Boxes!RemoveGroup, Boxes!TypeName, Boxes!ToggleContainer
  <2> QED BY <1>1, <2>1
<1>6. ASSUME NEW i \in DOMAIN pending, Boxes!LoadAnswer(i) PROVE TableOn(view')
  <2>1. CASE view' = [view EXCEPT !.error = TRUE, !.loading = FALSE]
    <3>1. "shown" \in DOMAIN view' /\ view'.shown = view.shown
      BY <1>2, <2>1
    <3> QED BY <1>1, <3>1
  <2>2. CASE \E x \in Snapshots :
               view' = [view EXCEPT !.shown = [req |-> pending[i].req, cpu |-> x.cpu,
                                               status |-> x.status],
                                    !.error = FALSE, !.loading = FALSE]
    <3>1. PICK x \in Snapshots :
               view' = [view EXCEPT !.shown = [req |-> pending[i].req, cpu |-> x.cpu,
                                               status |-> x.status],
                                    !.error = FALSE, !.loading = FALSE]
      BY <2>2
    <3>2. /\ "shown" \in DOMAIN view'
          /\ view'.shown.cpu = x.cpu /\ view'.shown.status = x.status
      BY <1>2, <3>1
    <3>3. DOMAIN x.cpu \cup DOMAIN x.status \subseteq DOMAIN ByLoad /\ x.cpu \in [DOMAIN x.cpu -> Nat]
      BY PanelAssumption
    <3> QED BY <3>2, <3>3 DEF TableOn
  <2> QED BY <1>6, <2>1, <2>2 DEF Boxes!LoadAnswer
<1>7. ASSUME NEW i \in DOMAIN pending,
             \/ Boxes!SummaryAnswer(i)
             \/ Boxes!CallAnswer(i) \/ Boxes!CallFailure(i) \/ Boxes!GroupsAnswer(i)
             \/ Boxes!DiscoverAnswer(i)
      PROVE  TableOn(view')
  <2>1. "shown" \in DOMAIN view' /\ view'.shown = view.shown
    <3>1. CASE Boxes!SummaryAnswer(i)
      BY <1>2, <3>1 DEF Boxes!SummaryAnswer
    <3>2. CASE Boxes!CallAnswer(i) \/ Boxes!CallFailure(i)
      BY <1>2, <3>2 DEF Boxes!CallAnswer, Boxes!CallFailure
    <3>3. CASE Boxes!GroupsAnswer(i) \/ Boxes!DiscoverAnswer(i)
      BY <1>2, <3>3 DEF Boxes!GroupsAnswer, Boxes!DiscoverAnswer
    <3> QED BY <1>7, <3>1, <3>2, <3>3
  <2> QED BY <1>1, <2>1
<1>8. CASE Boxes!Answer
  <2>1. \E i \in DOMAIN pending :
           \/ Boxes!LoadAnswer(i) \/ Boxes!SummaryAnswer(i)
           \/ Boxes!CallAnswer(i) \/ Boxes!CallFailure(i) \/ Boxes!GroupsAnswer(i)
           \/ Boxes!DiscoverAnswer(i)
    BY <1>8 DEF Boxes!Answer, Boxes!PageAnswer, Boxes!SheetAnswer
  <2> QED BY <1>6, <1>7, <2>1
<1>9. CASE Boxes!User
  <2>1. /\ Boxes!ChooseGroup => \E s : Boxes!Follow(s)
        /\ Boxes!ChooseSince => \E s : Boxes!Follow(s)
        /\ Boxes!OpenSheet => \E s : Boxes!Follow(s)
        /\ Boxes!ChooseView => \E s : Boxes!Follow(s)
    BY DEF Boxes!ChooseGroup, Boxes!ChooseSince, Boxes!OpenSheet, Boxes!ChooseView
  <2>2. /\ Boxes!SeeThose => \E s : Boxes!Follow(s)
        /\ Boxes!ShowAll => \E s : Boxes!Follow(s)
        /\ Boxes!SeeAllInTable => \E s : Boxes!Follow(s)
        /\ Boxes!TurnPage => \E s : Boxes!Follow(s)
    BY DEF Boxes!SeeThose, Boxes!ShowAll, Boxes!SeeAllInTable, Boxes!TurnPage
  <2>3. /\ Boxes!FollowLink => \E s : Boxes!Follow(s)
        /\ Boxes!CloseSheet => \E s : Boxes!Follow(s)
        /\ Boxes!SelectGroup => \E s : Boxes!Follow(s)
    BY DEF Boxes!FollowLink, Boxes!CloseSheet, Boxes!SelectGroup
  <2>4. /\ Boxes!Retry \/ Boxes!Translate => view' = view
        /\ Boxes!ImportDiscovered \/ Boxes!SaveCustomGroup => view' = view
    BY DEF Boxes!Retry, Boxes!Translate, Boxes!Reload, Boxes!ImportDiscovered,
           Boxes!SaveCustomGroup, Boxes!Call
  <2> QED BY <1>3, <1>4, <1>5, <1>9, <2>1, <2>2, <2>3, <2>4 DEF Boxes!User, Boxes!PageUser
<1>10. CASE Boxes!Poll \/ Boxes!HubPerforms \/ Boxes!HubReads
  <2>1. view' = view
    BY <1>10 DEF Boxes!Poll, Boxes!HubPerforms, Boxes!HubReads
  <2> QED BY <1>3, <2>1
<1> QED BY <1>8, <1>9, <1>10 DEF Boxes!Next

LEMMA MountedContainers ==
    ASSUME NEW s PROVE Mounted("containers", s).view = Boxes!MountView(s)
BY DEF Mounted

LEMMA TableInit == Init => TableInv
<1> SUFFICES ASSUME Init, route = "containers" PROVE TableOn(view)
  BY DEF TableInv
<1>1. view = Boxes!MountView(search)
  BY MountedContainers DEF Init
<1> QED BY <1>1, TableMounts

LEMMA TableStep == TableInv /\ [Next]_vars => TableInv'
<1> SUFFICES ASSUME TableInv, [Next]_vars, route' = "containers" PROVE TableOn(view')
  BY DEF TableInv, TableOn
<1>1. CASE Navigate
  <2>1. view' = Boxes!MountView(search')
    BY <1>1, MountedContainers DEF Navigate
  <2> QED BY <2>1, TableMounts
<1>2. CASE OnContainers
  BY <1>2, TableKeeps DEF TableInv, OnContainers
<1>3. CASE UNCHANGED vars
  BY <1>3 DEF TableInv, vars
<1>4. CASE OnOverview \/ OnProblems \/ OnMetrics \/ OnLogs \/ OnTraces \/ OnTopology
  BY <1>4 DEF OnOverview, OnProblems, OnMetrics, OnLogs, OnTraces, OnTopology
<1> QED BY <1>1, <1>2, <1>3, <1>4 DEF Next

\* At every address, filter, group and answer of the hub, the pages of the containers
\* table show each of its rows once and in order, and the one on screen has some
\* while there are any (containers.tsx, page.ts).
THEOREM TablePagesShowTheRows == Spec => []TablePagesAreTheRows
<1>1. TableInv => TablePagesAreTheRows
  BY TableIsPaged DEF TableInv, TablePagesAreTheRows
<1> QED BY <1>1, TableInit, TableStep, PTL DEF Spec

-----------------------------------------------------------------------------
\* The views in the browser can be written into an address and read back.
Sound(v) == /\ v.metric \notin {None, Blank} /\ v.since \notin {None, Blank}
            /\ v.containers \in SUBSET Names

WordedInv == /\ route \in {"metrics", "topology"} => Worded(search)
             /\ \A v \in Items(stored) : Sound(v)

\* A set of containers is read back from its text.
LEMMA JoinedIsRead ==
    ASSUME NEW S \in SUBSET Names
    PROVE  /\ Measures!Split(Measures!Join(S)) = S
           /\ Measures!Join(S) # None /\ (Measures!Join(S) = Blank => S = {})
<1>1. Measures!Names = Names
  BY DEF Measures!Names, Measures!ToSet, Names, ToSet
<1>2. Measures!Join(S) # None
  BY AddressAssumption
<1>3. ASSUME NEW R \in SUBSET Names, Measures!Join(R) = Measures!Join(S) PROVE R = S
  BY <1>3, AddressAssumption
<1>4. Measures!Join({}) = Blank
  BY DEF Measures!Join, Measures!Blank, Blank
<1>5. {R \in SUBSET Names : Measures!Join(R) = Measures!Join(S)} = {S}
  BY <1>3
<1>6. Measures!Split(Measures!Join(S)) = UNION {S}
  BY <1>1, <1>5 DEF Measures!Split
<1>7. Measures!Join(S) = Blank => S = {}
  <2>1. {} \in SUBSET Names
    OBVIOUS
  <2> QED BY <1>3, <1>4, <2>1
<1> QED BY <1>2, <1>6, <1>7

\* What is on screen after a view was applied is the view.
LEMMA AppliedShows ==
    ASSUME NEW v, Sound(v), Measures!Applies(v) PROVE Measures!ShowsView(v)
<1> DEFINE c == Measures!Join(v.containers)
           patch == [metric |-> v.metric, since |-> v.since, containers |-> c,
                     chart |-> v.chart, group |-> None]
           t == search'
<1>1. t = Measures!Patched(search, patch, Measures!NoDefaults)
  BY DEF Measures!Applies, Measures!Applied, Measures!None, None
<1>2. /\ DOMAIN patch = {"metric", "since", "containers", "chart", "group"}
      /\ patch.metric = v.metric /\ patch.since = v.since /\ patch.containers = c
      /\ patch.group = None
  OBVIOUS
<1>3. v.metric \notin {None, Blank} /\ v.since \notin {None, Blank}
  BY DEF Sound
<1>4. Measures!Split(c) = v.containers /\ c # None /\ (c = Blank => v.containers = {})
  BY JoinedIsRead DEF Sound
<1> HIDE DEF patch, c, t
<1>5. ASSUME NEW k \in DOMAIN patch
      PROVE  /\ k \in DOMAIN t <=> patch[k] \notin {None, Blank}
             /\ k \in DOMAIN t => t[k] = patch[k]
  BY <1>1, <1>5 DEF Measures!Patched, Measures!NoDefaults, Measures!None, Measures!Blank, None, Blank
<1>6. Measures!Metric(t) = v.metric /\ Measures!Since(t) = v.since
  BY <1>2, <1>3, <1>5 DEF Measures!Metric, Measures!Since, Measures!Read
<1>7. Measures!Group(t) = ""
  BY <1>2, <1>5 DEF Measures!Group, Measures!Read
<1>8. Measures!Read(t, "containers", "") = c
  <2>1. CASE c = Blank
    BY <1>2, <1>5, <2>1 DEF Measures!Read, Blank
  <2>2. CASE c # Blank
    BY <1>2, <1>4, <1>5, <2>2 DEF Measures!Read
  <2> QED BY <2>1, <2>2
<1>9. Measures!Selected(t) = v.containers
  BY <1>4, <1>8 DEF Measures!Selected
<1> QED BY <1>6, <1>7, <1>9 DEF Measures!ShowsView, Measures!CompareRequest, t

-----------------------------------------------------------------------------
\* No step writes a blank into the address of the metrics page.
LEMMA PatchWords ==
    ASSUME NEW s, NEW patch, NEW d, Worded(s)
    PROVE  Worded(Measures!Patched(s, patch, d)) /\ Worded(Topology!Patched(s, patch, d))
<1>1. Worded(Measures!Patched(s, patch, d))
  BY DEF Worded, Measures!Patched, Measures!None, Measures!Blank, None, Blank
<1>2. Worded(Topology!Patched(s, patch, d))
  BY DEF Worded, Topology!Patched, Topology!None, Topology!Blank, None, Blank
<1> QED BY <1>1, <1>2

LEMMA SettleWords ==
    ASSUME NEW s, NEW v, NEW queue, NEW more, Worded(s), Measures!Settle(s, v, queue, more)
    PROVE  Worded(search')
<1>1. PICK x : search' = Measures!Filled(s, x)
  BY DEF Measures!Settle
<1>2. Measures!Filled(s, x) = s \/ \E p, d : Measures!Filled(s, x) = Measures!Patched(s, p, d)
  BY DEF Measures!Filled
<1> QED BY <1>1, <1>2, PatchWords

LEMMA FollowWords == ASSUME NEW s, Worded(s), Measures!Follow(s) PROVE Worded(search')
<1>1. PICK v, queue, more : Measures!Settle(s, v, queue, more)
  BY DEF Measures!Follow
<1> QED BY <1>1, SettleWords

LEMMA MetricsWords == ASSUME Worded(search), Measures!Next PROVE Worded(search')
<1>1. ASSUME NEW s, Measures!Follow(s),
             s \in LinksTo.metrics \/ \E p, d : s = Measures!Patched(search, p, d)
      PROVE  Worded(search')
  BY <1>1, FollowWords, PatchWords, AddressAssumption
<1>2. CASE search' = search
  BY <1>2
<1>3. ASSUME NEW key, NEW d, NEW values, Measures!Choose(key, d, values) PROVE Worded(search')
  BY <1>1, <1>3 DEF Measures!Choose, Measures!SetState
<1>4. CASE \/ Measures!ChooseGroup \/ Measures!ChooseSince \/ Measures!ChooseStat
           \/ Measures!ChooseMetric \/ Measures!ChooseChart
  BY <1>3, <1>4 DEF Measures!ChooseGroup, Measures!ChooseSince, Measures!ChooseStat,
                    Measures!ChooseMetric, Measures!ChooseChart
<1>5. CASE \/ Measures!ChooseMode \/ Measures!ChooseContainer \/ Measures!ToggleContainer
           \/ Measures!FollowLink \/ Measures!ApplyView
  BY <1>1, <1>5 DEF Measures!ChooseMode, Measures!ChooseContainer, Measures!ToggleContainer,
                    Measures!FollowLink, Measures!ApplyView, Measures!Applied
<1>6. Measures!Since(search) \notin {None, Blank}
  BY DEF Worded, Measures!Since, Measures!Read, None, Blank
<1>7. CASE Measures!CompareOthers \/ Measures!OpenContainer
  <2>1. \/ \E c : Measures!Follow([mode |-> "compare", containers |-> c,
                                   since |-> Measures!Since(search)])
        \/ \E c : Measures!Follow([container |-> c, since |-> Measures!Since(search)])
    BY <1>7 DEF Measures!CompareOthers, Measures!OpenContainer
  <2>2. \A c : Worded([mode |-> "compare", containers |-> c, since |-> Measures!Since(search)])
    BY <1>6 DEF Worded
  <2>3. \A c : Worded([container |-> c, since |-> Measures!Since(search)])
    BY <1>6 DEF Worded
  <2> QED BY <2>1, <2>2, <2>3, FollowWords
<1>8. CASE Measures!Again \/ Measures!TypeName \/ Measures!SaveView \/ Measures!DeleteView
  <2>1. search' = search
    BY <1>8 DEF Measures!Again, Measures!TypeName, Measures!SaveView, Measures!DeleteView
  <2> QED BY <1>2, <2>1
<1>9. CASE Measures!Answer
  <2>1. PICK i \in DOMAIN pending :
           Measures!WorkloadsAnswer(i) \/ Measures!SummaryAnswer(i) \/ Measures!SeriesAnswer(i)
    BY <1>9 DEF Measures!Answer
  <2>2. CASE Measures!WorkloadsAnswer(i)
    <3>1. \E v, queue, more : Measures!Settle(search, v, queue, more)
      BY <2>2 DEF Measures!WorkloadsAnswer
    <3> QED BY <3>1, SettleWords
  <2>3. CASE Measures!SummaryAnswer(i)
    <3>1. \E v, queue, more : Measures!Settle(search, v, queue, more)
      BY <2>3 DEF Measures!SummaryAnswer
    <3> QED BY <3>1, SettleWords
  <2>4. CASE Measures!SeriesAnswer(i)
    <3>1. search' = search
      BY <2>4 DEF Measures!SeriesAnswer
    <3> QED BY <1>2, <3>1
  <2> QED BY <2>1, <2>2, <2>3, <2>4
<1> QED BY <1>4, <1>5, <1>7, <1>8, <1>9 DEF Measures!Next, Measures!User

\* What is saved is what the address says.
LEMMA SavedAreSound ==
    ASSUME Worded(search), KeptViews(stored), \A v \in Items(stored) : Sound(v), Measures!Next
    PROVE  \A v \in Items(stored') : Sound(v)
<1>1. CASE stored' = stored
  BY <1>1
<1>2. CASE Measures!SaveView
  <2>1. PICK n : stored' = Measures!saveView(
                     [id |-> n, metric |-> Measures!Metric(search),
                      containers |-> Measures!Selected(search),
                      since |-> Measures!Since(search), chart |-> Measures!Chart(search)])
    BY <1>2 DEF Measures!SaveView
  <2> DEFINE v == [id |-> n, metric |-> Measures!Metric(search),
                   containers |-> Measures!Selected(search),
                   since |-> Measures!Since(search), chart |-> Measures!Chart(search)]
  <2>2. Measures!Metric(search) \notin {None, Blank} /\ Measures!Since(search) \notin {None, Blank}
    BY DEF Worded, Measures!Metric, Measures!Since, Measures!Read, None, Blank
  <2>3. Measures!Selected(search) \in SUBSET Names
    BY DEF Measures!Selected, Measures!Split, Measures!Names, Measures!ToSet, Names, ToSet
  <2>4. Sound(v)
    BY <2>2, <2>3 DEF Sound
  <2>5. stored' = Measures!saveView(v)
    BY <2>1
  <2> HIDE DEF v
  <2>6. Items(stored') \subseteq Items(stored) \cup {v}
    BY <2>5, SavedAreKept
  <2> QED BY <2>4, <2>6
<1>3. CASE Measures!DeleteView
  <2>1. PICK id : stored' = Measures!Others(id)
    BY <1>3 DEF Measures!DeleteView, Measures!deleteView
  <2>2. Items(stored') \subseteq Items(stored)
    BY <2>1, OthersAreKept DEF Items
  <2> QED BY <2>2
<1>4. stored' = stored \/ Measures!SaveView \/ Measures!DeleteView
  BY StoredByTwo
<1> QED BY <1>1, <1>2, <1>3, <1>4

\* The graph's page sets what it is given, and leaves out what is blank.
LEMMA TopologyWords == ASSUME Worded(search), Topology!Next PROVE Worded(search')
<1>1. ASSUME NEW s, Topology!Follow(s),
             s \in LinksTo.topology \/ \E p, d : s = Topology!Patched(search, p, d)
      PROVE  Worded(search')
  BY <1>1, PatchWords, AddressAssumption DEF Topology!Follow
<1>2. CASE Topology!ChooseSince \/ Topology!TypeQuery \/ Topology!ToggleAddresses \/ Topology!Select
           \/ Topology!FollowLink
  BY <1>1, <1>2 DEF Topology!ChooseSince, Topology!TypeQuery, Topology!ToggleAddresses,
                    Topology!Select, Topology!FollowLink, Topology!SetState
<1>3. CASE Topology!Retry \/ Topology!Answer
  <2>1. search' = search
    BY <1>3 DEF Topology!Retry, Topology!Answer
  <2> QED BY <2>1
<1> QED BY <1>2, <1>3 DEF Topology!Next, Topology!User

-----------------------------------------------------------------------------
\* A link that ends up on the metrics page or the topology brings no blank.
Words(k) == k.to \in {"metrics", "topology", "explorer"} => Worded(k.search)

LEMMA ResolvedWords ==
    ASSUME NEW k, Words(k)
    PROVE  LET l == Resolved(k.to, k.search)
           IN l.to \in {"metrics", "topology"} => Worded(l.search)
<1>1. CASE k.to \in Routes
  BY <1>1 DEF Resolved, Words, To
<1>2. CASE k.to \notin Routes /\ k.to = "explorer"
  <2> DEFINE s == Redirected(k.search, Only("mode", "compare"))
  <2>1. Resolved(k.to, k.search) = To("metrics", s)
    BY <1>2 DEF Resolved, Legacy, To
  <2>2. Worded(k.search)
    BY <1>2 DEF Words
  <2>3. Worded(s)
    BY <2>2 DEF Worded, Redirected, Only
  <2> QED BY <2>1, <2>3 DEF To
<1>3. CASE k.to \notin Routes \cup {"explorer"}
  <2>1. \A p \in DOMAIN Legacy \ {"explorer"} : Legacy[p].to \notin {"metrics", "topology"}
    BY DEF Legacy, To
  <2>2. Resolved(k.to, k.search).to \notin {"metrics", "topology"}
    BY <1>3, <2>1 DEF Resolved, To
  <2> QED BY <2>2
<1> QED BY <1>1, <1>2, <1>3

\* A name alone, and a comparison by a metric.
LEMMA ShortWords ==
    /\ \A k, v : k \notin {"metric", "since"} => Worded(Only(k, v))
    /\ Worded(NoDefaults)
BY DEF Worded, Only, NoDefaults

LEMMA ComparedWords ==
    ASSUME NEW m, m \notin {None, Blank}, NEW v
    PROVE  Worded([mode |-> "compare", metric |-> m, service |-> v])
BY DEF Worded

\* The links of a page to the others, with one name or with none that matters.
LEMMA PlainWords ==
    /\ \A page, v : Words(To(page, Only("container", v)))
    /\ \A page : Words(To(page, NoDefaults))
    /\ \A s : Words(To("logs", s)) /\ Words(To("traces", s))
<1>1. \A v : Worded(Only("container", v))
  BY ShortWords
<1>2. \A page, s : Worded(s) => Words(To(page, s))
  BY DEF Words, To
<1>3. \A s : Words(To("logs", s)) /\ Words(To("traces", s))
  BY DEF Words, To
<1> QED BY <1>1, <1>2, <1>3, ShortWords

LEMMA SameLinks ==
    ASSUME NEW page, NEW s
    PROVE  /\ Problems!To(page, s) = To(page, s) /\ Boxes!To(page, s) = To(page, s)
           /\ Measures!To(page, s) = To(page, s) /\ Logs!To(page, s) = To(page, s)
           /\ Traces!To(page, s) = To(page, s) /\ Overview!To(page, s) = To(page, s)
BY DEF To, Overview!To, Problems!To, Boxes!To, Measures!To, Logs!To, Traces!To

LEMMA SameNames ==
    ASSUME NEW k, NEW v
    PROVE  /\ Problems!Only(k, v) = Only(k, v) /\ Boxes!Only(k, v) = Only(k, v)
           /\ Logs!Only(k, v) = Only(k, v) /\ Traces!Only(k, v) = Only(k, v)
BY DEF Only, Problems!Only, Boxes!Only, Logs!Only, Traces!Only

\* The links of the overview: its cards, and the items of its list.
LEMMA OverviewItems ==
    ASSUME NEW d, FourLists(d)
    PROVE  /\ IsList(Overview!Items(d))
           /\ \A x \in Items(Overview!Items(d)) : Words(x.link)
<1> DEFINE a == [i \in DOMAIN d.alerts |-> Overview!AlertItem(d.alerts[i])]
           o == [i \in DOMAIN d.slos |-> Overview!SLOItem(d.slos[i])]
           c == [i \in DOMAIN d.fleet |-> Overview!ContainerItem(d.fleet[i])]
           h == [i \in DOMAIN d.http |-> Overview!HTTPItem(d.http[i])]
<1>1. \A q : /\ Overview!AlertItem(q).link.to \in {"logs", "problems"}
             /\ Overview!ContainerItem(q).link.to = "logs"
  BY DEF Overview!AlertItem, Overview!ContainerItem, Overview!To
<1>2. \A q : Worded(Overview!SLOItem(q).link.search) /\ Worded(Overview!HTTPItem(q).link.search)
  <2> TAKE q
  <2>1. Overview!SLOItem(q).link.search = [mode |-> "compare", metric |-> Overview!sloMetric(q),
                                           service |-> q.service]
    BY DEF Overview!SLOItem, Overview!To
  <2>2. Overview!HTTPItem(q).link.search = [mode |-> "compare", metric |-> "http.error_rate",
                                            service |-> q.service]
    BY DEF Overview!HTTPItem, Overview!To
  <2>3. Overview!sloMetric(q) \notin {None, Blank} /\ "http.error_rate" \notin {None, Blank}
    BY DEF Overview!sloMetric, None, Blank
  <2> QED BY <2>1, <2>2, <2>3, ComparedWords
<1>3. \A y \in Items(a) \cup Items(o) \cup Items(c) \cup Items(h) : Words(y.link)
  BY <1>1, <1>2 DEF Items, Words
<1>4. ASSUME NEW q, IsList(q), NEW s, DOMAIN s = DOMAIN q, s = [i \in DOMAIN q |-> s[i]]
      PROVE  IsList(s)
  <2>1. Len(q) \in Nat /\ DOMAIN q = 1 .. Len(q)
    BY <1>4, ListIsFunction
  <2>2. s = [i \in 1 .. Len(q) |-> s[i]]
    BY <1>4, <2>1
  <2> QED BY <2>1, <2>2, FunctionIsList
<1>5. IsList(a) /\ IsList(o) /\ IsList(c) /\ IsList(h)
  <2>1. IsList(d.alerts) /\ IsList(d.slos) /\ IsList(d.fleet) /\ IsList(d.http)
    BY DEF FourLists
  <2>2. /\ DOMAIN a = DOMAIN d.alerts /\ a = [i \in DOMAIN d.alerts |-> a[i]]
        /\ DOMAIN o = DOMAIN d.slos /\ o = [i \in DOMAIN d.slos |-> o[i]]
        /\ DOMAIN c = DOMAIN d.fleet /\ c = [i \in DOMAIN d.fleet |-> c[i]]
        /\ DOMAIN h = DOMAIN d.http /\ h = [i \in DOMAIN d.http |-> h[i]]
    OBVIOUS
  <2> HIDE DEF a, o, c, h
  <2> QED BY <1>4, <2>1, <2>2
<1>6. Overview!Items(d) = a \o o \o c \o h
  BY DEF Overview!Items
<1> HIDE DEF a, o, c, h
<1>7. /\ IsList(a \o o \o c \o h)
      /\ Items(a \o o \o c \o h) = Items(a) \cup Items(o) \cup Items(c) \cup Items(h)
  <2>1. IsList(a \o o) /\ Items(a \o o) = Items(a) \cup Items(o)
    BY <1>5, Lists
  <2>2. IsList(a \o o \o c) /\ Items(a \o o \o c) = Items(a \o o) \cup Items(c)
    BY <1>5, <2>1, Lists
  <2>3. IsList(a \o o \o c \o h) /\ Items(a \o o \o c \o h) = Items(a \o o \o c) \cup Items(h)
    BY <1>5, <2>2, Lists
  <2> QED BY <2>1, <2>2, <2>3
<1> QED BY <1>3, <1>6, <1>7

LEMMA OverviewWords ==
    ASSUME NEW v, FourLists(v.data), NEW s, NEW k \in Overview!Links(v, s) PROVE Words(k)
<1> DEFINE d == v.data
           all == Overview!Items(d)
           n == Overview!Lesser(ListLimit, Len(all))
<1>1. CASE \E c \in DOMAIN Overview!Cards(d) : k = Overview!Cards(d)[c].link
  <2> DEFINE q == [mode |-> "compare", metric |-> "http.error_rate"]
  <2>1. PICK c \in DOMAIN Overview!Cards(d) : k = Overview!Cards(d)[c].link
    BY <1>1
  <2>2. c \in {"alerts", "slos", "fleet", "http"}
    BY <2>1 DEF Overview!Cards
  <2>3. /\ Overview!Cards(d).alerts.link.to = "problems"
        /\ Overview!Cards(d).slos.link.to = "problems"
        /\ Overview!Cards(d).fleet.link.to = "containers"
    BY DEF Overview!Cards, Overview!To
  <2>4. Overview!Cards(d).http.link = Overview!To("metrics", q)
    BY DEF Overview!Cards
  <2>5. Worded(q)
    <3>1. \A x : x \in {"metric", "since"} \cap DOMAIN q => x = "metric"
      OBVIOUS
    <3>2. q.metric = "http.error_rate"
      OBVIOUS
    <3> HIDE DEF q
    <3> QED BY <3>1, <3>2 DEF Worded, None, Blank
  <2> HIDE DEF q
  <2>6. Overview!Cards(d).http.link.search = q
    BY <2>4 DEF Overview!To
  <2> QED BY <2>1, <2>2, <2>3, <2>5, <2>6 DEF Words
<1>2. CASE \E x \in Overview!ToSet(Overview!Listed(d)) : k = x.link
  <2>1. IsList(all)
    BY OverviewItems
  <2> HIDE DEF all
  <2>2. Len(all) \in Nat /\ DOMAIN all = 1 .. Len(all)
    BY <2>1, ListIsFunction
  <2>3. n \in Nat /\ n <= Len(all)
    BY <2>2, PanelAssumption DEF Overview!Lesser
  <2> HIDE DEF n
  <2>4. /\ DOMAIN SubSeq(all, 1, n) = 1 .. n
        /\ \A i \in 1 .. n : SubSeq(all, 1, n)[i] = all[i]
    BY <2>1, <2>2, <2>3 DEF IsList
  <2>5. Overview!Listed(d) = SubSeq(all, 1, n)
    BY DEF Overview!Listed, all, n
  <2>6. PICK x \in Items(all) : k = x.link
    BY <1>2, <2>2, <2>3, <2>4, <2>5 DEF Overview!ToSet, Items
  <2> QED BY <2>6, OverviewItems DEF all
<1> QED BY <1>1, <1>2 DEF Overview!Links

LEMMA ProblemsWords == ASSUME NEW v, NEW s, NEW k \in Problems!Links(v, s) PROVE Words(k)
<1>1. ASSUME NEW c, NEW x \in Problems!ContainerLinks(c) PROVE Words(x)
  <2>1. \E page : x = Problems!To(page, Problems!Only("container", c))
    BY DEF Problems!ContainerLinks
  <2> QED BY <2>1, PlainWords, SameLinks, SameNames
<1>2. ASSUME NEW i, NEW g PROVE Words(Problems!InsightLink(i, g))
  <2>1. \E q : Problems!InsightLink(i, g) = Problems!To("logs", q)
    BY DEF Problems!InsightLink
  <2> QED BY <2>1, PlainWords, SameLinks
<1>3. \A o : Words(Problems!sloMetricsLink(o))
  <2> TAKE o
  <2> DEFINE m == IF o.metric = "latency_p95" THEN "http.duration_ms" ELSE "http.error_rate"
             q == [mode |-> "compare", service |-> o.service, metric |-> m]
  <2>1. m \notin {None, Blank}
    BY DEF None, Blank
  <2>2. Problems!sloMetricsLink(o) = Problems!To("metrics", q)
    BY DEF Problems!sloMetricsLink
  <2> HIDE DEF m
  <2>3. Worded(q)
    BY <2>1 DEF Worded
  <2> QED BY <2>2, <2>3 DEF Problems!To, Words
<1>4. \A q : Words(Problems!To("traces", q)) /\ Words(Problems!To("logs", q))
  BY PlainWords, SameLinks
<1>5. Problems!Part(s) \in {"now", "slos", "history"}
  BY DEF Problems!Part
<1>6. CASE Problems!Part(s) = "now"
  <2>1. \/ \E c : k \in Problems!ContainerLinks(c)
        \/ \E i : k = Problems!InsightLink(i, Problems!Group(s))
    BY <1>6 DEF Problems!Links
  <2> QED BY <1>1, <1>2, <2>1
<1>7. CASE Problems!Part(s) = "slos"
  <2>1. \E o : k = Problems!sloMetricsLink(o) \/ \E q : k = Problems!To("traces", q)
    BY <1>7 DEF Problems!Links
  <2> QED BY <1>3, <1>4, <2>1
<1>8. CASE Problems!Part(s) = "history"
  <2>1. \E q : k = Problems!To("logs", q)
    BY <1>8 DEF Problems!Links
  <2> QED BY <1>4, <2>1
<1> QED BY <1>5, <1>6, <1>7, <1>8

LEMMA OtherWords ==
    ASSUME NEW v, NEW s
    PROVE  \A k \in Boxes!Links(v, s) \cup Measures!Links(v, s) \cup Logs!Links(v, s)
                    \cup Traces!Links(v, s) : Words(k)
<1>1. ASSUME NEW k \in Boxes!Links(v, s) PROVE Words(k)
  <2>1. \E page, c : k = Boxes!To(page, Boxes!Only("container", c))
    BY DEF Boxes!Links
  <2> QED BY <2>1, PlainWords, SameLinks, SameNames
<1>2. ASSUME NEW k \in Measures!Links(v, s) PROVE Words(k)
  <2>1. \E q : k = Measures!To("logs", q) \/ k = Measures!To("traces", q)
    BY DEF Measures!Links
  <2> QED BY <2>1, PlainWords, SameLinks
<1>3. ASSUME NEW k \in Logs!Links(v, s) PROVE Words(k)
  <2>1. \/ \E c : k = Logs!To("metrics", Logs!Only("container", c))
        \/ \E q : k = Logs!To("traces", q)
    BY DEF Logs!Links
  <2> QED BY <2>1, PlainWords, SameLinks, SameNames
<1>4. ASSUME NEW k \in Traces!Links(v, s) PROVE Words(k)
  <2>1. \/ \E c : k = Traces!To("metrics", Traces!Only("container", c))
        \/ \E q : k = Traces!To("logs", q)
    BY DEF Traces!Links
  <2> QED BY <2>1, PlainWords, SameLinks, SameNames
<1> QED BY <1>1, <1>2, <1>3, <1>4

\* The topology gives its links the range it shows.
LEMMA GraphWords ==
    ASSUME NEW v, NEW s, Worded(s), NEW k \in Topology!Links(v, s) PROVE Words(k)
<1>1. Topology!Since(s) \notin {None, Blank}
  BY DEF Worded, Topology!Since, Topology!Read, None, Blank
<1>2. \A c : Worded([container |-> c, since |-> Topology!Since(s)])
  BY <1>1 DEF Worded
<1> QED BY <1>2 DEF Topology!Links, Topology!To, Words

\* Wherever the links of the page on screen lead.
LEMMA LinkWords ==
    ASSUME route \in Routes, CalmInv, WordedInv, NEW k \in Links PROVE Words(k)
<1>1. CASE route = "overview"
  BY <1>1, OverviewWords DEF Links, CalmInv, CalmOn
<1>2. CASE route = "problems"
  BY <1>2, ProblemsWords DEF Links
<1>3. CASE route = "containers"
  BY <1>3, OtherWords DEF Links
<1>4. CASE route = "metrics"
  BY <1>4, OtherWords DEF Links
<1>5. CASE route = "logs"
  BY <1>5, OtherWords DEF Links
<1>6. CASE route = "traces"
  BY <1>6, OtherWords DEF Links
<1>7. CASE route = "topology"
  BY <1>7, GraphWords DEF Links, WordedInv
<1> QED BY <1>1, <1>2, <1>3, <1>4, <1>5, <1>6, <1>7 DEF Routes

-----------------------------------------------------------------------------
LEMMA WordedInit == Init => WordedInv
<1> SUFFICES ASSUME Init PROVE WordedInv
  OBVIOUS
<1>1. Items(stored) = {}
  BY ShortLists DEF Init, Items
<1>2. PICK l \in Opened : route = l.to /\ search = l.search
  BY DEF Init
<1>3. ASSUME NEW page, l = To(page, NoDefaults) PROVE Worded(search)
  <2>1. search = NoDefaults
    BY <1>2, <1>3 DEF To
  <2> QED BY <2>1, ShortWords
<1>4. ASSUME NEW b \in Bookmarks, l = Resolved(b.to, b.search)
      PROVE  route \in {"metrics", "topology"} => Worded(search)
  <2>1. Worded(b.search)
    BY AddressAssumption
  <2>2. Words(b)
    BY <2>1 DEF Words
  <2> QED BY <1>2, <1>4, <2>2, ResolvedWords
<1>5. route \in {"metrics", "topology"} => Worded(search)
  BY <1>2, <1>3, <1>4 DEF Opened
<1> QED BY <1>1, <1>5 DEF WordedInv

LEMMA WordedStep ==
    PagesInv /\ CalmInv /\ KeptViews(stored) /\ WordedInv /\ [Next]_vars => WordedInv'
<1> SUFFICES ASSUME route \in Routes, CalmInv, KeptViews(stored), WordedInv, [Next]_vars
             PROVE  /\ route' \in {"metrics", "topology"} => Worded(search')
                    /\ \A v \in Items(stored') : Sound(v)
  BY DEF PagesInv, WordedInv, Worded, Items, Sound
<1>1. CASE Navigate
  <2>1. PICK k \in Links \cup {To(page, NoDefaults) : page \in Routes} :
           LET l == Resolved(k.to, k.search) IN route' = l.to /\ search' = l.search
    BY <1>1 DEF Navigate
  <2>2. Words(k)
    BY <2>1, PlainWords, LinkWords
  <2>3. stored' = stored
    BY <1>1 DEF Navigate
  <2> QED BY <2>1, <2>2, <2>3, ResolvedWords DEF WordedInv
<1>2. CASE OnMetrics
  <2>1. route = "metrics" /\ Measures!Next /\ Worded(search)
    BY <1>2 DEF OnMetrics, WordedInv
  <2>2. \A v \in Items(stored) : Sound(v)
    BY DEF WordedInv
  <2> QED BY <2>1, <2>2, MetricsWords, SavedAreSound
<1>3. CASE OnTopology
  <2>1. route = "topology" /\ Topology!Next /\ stored' = stored /\ Worded(search)
    BY <1>3 DEF OnTopology, WordedInv
  <2> QED BY <2>1, TopologyWords DEF WordedInv
<1>4. CASE OnOverview \/ OnProblems \/ OnContainers \/ OnLogs \/ OnTraces
  <2>1. route' \notin {"metrics", "topology"} /\ stored' = stored
    BY <1>4 DEF OnOverview, OnProblems, OnContainers, OnLogs, OnTraces
  <2> QED BY <2>1 DEF WordedInv
<1>5. CASE UNCHANGED vars
  BY <1>5 DEF WordedInv, vars
<1> QED BY <1>1, <1>2, <1>3, <1>4, <1>5 DEF Next

\* A saved view, applied, is what is compared: its metric, its range and its containers,
\* though a group was chosen meanwhile, whatever the views were saved from and however
\* the page was reached (metric-compare.tsx).
THEOREM AppliedViewsAreShown == Spec => AppliedViewIsShown
<1>1. ChoiceInv /\ WordedInv /\ [Next]_vars =>
        [route = "metrics" /\ route' = route =>
            \A v \in ToSet(view.views) : Measures!Applies(v) => Measures!ShowsView(v)]_vars
  <2> SUFFICES ASSUME ChoiceInv, WordedInv, route = "metrics",
                      NEW v \in ToSet(view.views), Measures!Applies(v)
               PROVE  Measures!ShowsView(v)
    OBVIOUS
  <2>1. view.views = stored
    BY DEF ChoiceInv, ChoiceOn, Measures!Applies
  <2>2. v \in Items(stored)
    BY <2>1 DEF ToSet, Items
  <2>3. Sound(v)
    BY <2>2 DEF WordedInv
  <2> QED BY <2>3, AppliedShows
<1>2. KeptViews(stored) /\ [Next]_vars => KeptViews(stored)'
  BY KeptStep DEF KeptViews, IsList
<1> QED BY <1>1, <1>2, ChoiceInit, ChoiceStep, KeptInit, CalmInit, CalmStep, PagesInit,
           PagesStep, WordedInit, WordedStep, PTL DEF Spec, AppliedViewIsShown

=============================================================================
