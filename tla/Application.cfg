SPECIFICATION Spec
CONSTANTS
    Listeners = {l1, l2}
    Payloads = {p1, p2}
    NoContent = NoContent
    MaxCalls = 3
    Instances <- AllInstances
    First = f
    Second = s
    Values = {1, 2}
    Branch = {2}
    Viewers = {w1}
    MaxChanges = 2
    MaxApplies = 1
    u1 = u1
    u2 = u2
    u3 = u3
    a = a
    b = b
    MaxEdits = 3
    Adapters = {a1, a2}
    Shots = {s1, s2, s3}
    None = None
SYMMETRY Symmetry
CHECK_DEADLOCK FALSE
INVARIANTS ListenersAreCurrent OneRunPerPayload LoadingIsUnderWay DerivedUnitsFollow DraftsAreOwned
PROPERTIES RunsAreCleanedUp
