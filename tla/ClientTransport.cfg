SPECIFICATION Spec
CONSTANTS
    Options <- AllKinds
    MaxRequests = 2
    MaxSockets = 3
    MaxTasks = 1
INVARIANTS RequestsAreKept PendingIsWatched ReconnectIsArmed
PROPERTIES ImplementsRequestLife
