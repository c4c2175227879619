SPECIFICATION Spec
CONSTANTS
    p1 = p1
    p2 = p2
    p3 = p3
    o1 = o1
    r1 = r1
    r2 = r2
    Payments = {p1, p2}
    Offers = {o1}
    Requests = {r1, r2}
    Reaper = reaper
    OfferOf <- MCOfferOf
    PriceOf <- SamePrice
    MaxUnits <- OneUnit
    Sandbox = {}
    Overlap = {p1, p2}
    Aged = {}
    Relisted = {}
    Detached = {}
    MaxCrashes = 1
    None = None
SYMMETRY Alike
INVARIANTS
    TypeOK
    RevenueBacked
    SalesAreBooked
    EditionRespected
PROPERTIES
    IsASale
