SPECIFICATION FairSpec
CONSTANTS
    b1 = b1
    b2 = b2
    b3 = b3
    s1 = s1
    k1 = k1
    k2 = k2
    k3 = k3
    k4 = k4
    o1 = o1
    o2 = o2
    Batches = {b1, b2, b3}
    Singles = {}
    Children = {k1, k2, k3, k4}
    BatchOf <- MCBatchOf
    Position <- MCPosition
    OfferOf <- MCOfferOf
    Offers = {o1, o2}
    Amount <- MCAmount
    MaxUnits <- MCMaxUnits
    Requests = {r1}
    Reaper = reaper
    Overlap = {}
    Aged = {k3}
    Detached = {o1}
    MaxFaults = 1
    None = None
INVARIANTS
    BatchTypeOK
    OneFate
    BatchBacked
    PaidFits
PROPERTIES
    PaidBatchDelivered
