SPECIFICATION MCSpec
CONSTANTS
    c1 = c1
    c2 = c2
    q1 = q1
    q2 = q2
    q3 = q3
    Clients = {c1, c2}
    Requests = {q1, q2, q3}
    Topics <- OneTopic
    Limits = {1, 2, 3}
    MaxRejections = 1
    MaxExecutions = 4
    Hooks = {h1}
    Behaviours = {"pass"}
    MaxCalls = 5
    Schemas = {A, B}
    Nothing = Nothing
    MaxAttempts = 2
    MaxFailures = 2
    MaxChanges = 2
    MaxStarts = 2
    Parts <- OnlyFiles
CHECK_DEADLOCK FALSE
INVARIANTS SyncIsBuilt
