SPECIFICATION Spec
CONSTANTS
    l1 = l1
    l2 = l2
    f1 = f1
    f2 = f2
    Workers = {w1}
    Payouts = {}
    Licences = {l1, l2}
    Legacy = {l1}
    Batched = {}
    Aged = {l2}
    Requests = {r1}
    Moments = {0}
    MaxQueued = 1
    MaxFaults = 0
    Tools = {"cli", "widget", "poll", "smoke"}
    Ours = ours
    Foreign = foreign
    ForeignMessage <- Altered
    Files = {f1, f2}
    Contents <- MCContents
    MirrorAttempts = 2
    PollAttempts = 2
    Settings <- MCSettings
    MaxChecks = 2
    None = None
INVARIANTS
    TypeOK
    VerifiedIsAnchored
    ShownIsCurrent
    
CHECK_DEADLOCK FALSE
