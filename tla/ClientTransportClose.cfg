SPECIFICATION Spec
CONSTANTS
    Options <- OnlyPlain
    MaxRequests = 2
    MaxSockets = 2
    MaxTasks = 1
PROPERTIES CloseRejectsEverything
