SPECIFICATION SamplesSpec
CONSTANTS
    Parts <- AllParts
    Keys = {k1}
    Values = {v1, v2}
    Nothing = Nothing
    NoOperation = NoOperation
    MaxTransientFailures = 3
    CacheUnits = {u1, u2, u3}
    MaxEntries = 2
    MaxSessions = 2
    TaskKeys = {t1, t2, t3}
    BatchSize = 2
    MaxTasks = 4
    PlannedUnits = {d1, d2, d3}
    MaxDelay = 2
    MaxTime = 4
    EntryKeys = {e1, e2, e3, e4, UndefinedKey}
    UndefinedKey = UndefinedKey
    Limit = 2
    None = None
    MaxParses = 3
    MaxCalls = 2
    EventTopics = {"joined", "left"}
    Rooms = {"hall"}
    Handlers = {l1, l2}
    Nobody = Nobody
    MaxSteps = 3
    MaxPuts = 2
    Published <- SampleTopics
    Askers = {"a", "b"}
    Hooks = {"adds", "refuses", "throws"}
    MaxAsked = 2
    MaxReplays = 1
    Trees <- SampleTrees
    Endings <- SampleEndings
    Answers = {0, 200, 404, 429}
    Checkers = {c1, c2}
    Workspaces <- SampleWorkspaces
    RootVersion <- FirstRelease
    Bumps <- NextReleases
    MaxStarts = 2
    Lines <- SampleLines
    Positive = {"1"}
    Sockets = {"ws", "local"}
    ModuleOf <- ModulesOf
INVARIANTS NoWriteIsLost NothingScheduledIsLost CachesKeepRecent EventsArrive ToolsFinish ToolsDoTheirWork ValuesAreKept ClientsFollowTheApi
PROPERTIES CallsRevive QueuedWritesAreTaken
CHECK_DEADLOCK FALSE
