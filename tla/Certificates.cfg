SPECIFICATION FairCertSpec
CONSTANTS
    l1 = l1
    l2 = l2
    Workers = {w1, w2}
    Payouts = {x1}
    Licences = {l1, l2}
    Legacy = {l2}
    Batched = {l1}
    Aged = {l1}
    Requests = {}
    Moments = {0, 1}
    MaxQueued = 1
    MaxFaults = 1
    None = None
INVARIANTS
    CertTypeOK
    AnchoredAtItsOwn
    BatchGivenIsAnchored
    PayoutAnswersTrue
PROPERTIES
    DeliveredIsAnchored
CHECK_DEADLOCK FALSE
