SPECIFICATION Spec
CONSTANTS
    MaxPage = 2
    Texts = {"x"}
    TraceIds = {"t"}
    Ranges = {"1h", "24h"}
    Levels = {"error"}
    Topics = {"gc"}
    Groups = {"g1"}
    Services = {"s1"}
    Limit = 1
    Totals = {0, 2}
    ByLoad <- MCByLoad
    ServiceOf <- MCServiceOf
    NamedAfter <- MCNamedAfter
    MembersOf <- MCMembersOf
    Snapshots <- MCSnapshots
    TableSize = 1
    GridLimit = 1
    TopLimit = 1
    Keys = {"stack", "web"}
    GroupIds <- MCGroupIds
    Metrics = {"cpu.usage"}
    Stats = {"max"}
    Charts = {"line"}
    FirstNames = 1
    StoredLimit = 1
    MaxSaves = 2
    Reports <- MCReports
    Objectives <- MCObjectives
    States <- MCStates
    ListLimit = 2
    ByLabel <- MCByLabel
    Addresses = {"10.0.0.1"}
    RunsIn <- MCRunsIn
    Matching <- MCMatching
    Graphs <- MCGraphs
    Fleets <- MCFleets
    Workloads <- MCWorkloads
    HTTP <- MCHTTP
    Alerts <- MCAlerts
    Bookmarks <- MCBookmarks
    LinksTo <- MCLinksTo
    Acts <- MCActs
    InFlight <- MCInFlight
INVARIANTS
    ScreenOfTheAddress
    LoadingWaits
    DetailIsTheTrace
    ChartsAreOfTheAddress
    GraphAnnounced
    SignalsOfTheRange
    CalmIsTrue
    GroupFiltersUnlessOvertaken
    ListIsSaved
    TablePagesAreTheRows
    NeverWithoutChoice
    ViewsAreStored
    
PROPERTIES
    AppliedViewIsShown
    FocusKept
    ScreenCatchesUp
CHECK_DEADLOCK FALSE
