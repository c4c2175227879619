SPECIFICATION Spec
CONSTANTS
    p1 = p1
    p2 = p2
    p3 = p3
    o1 = o1
    r1 = r1
    r2 = r2
    Payments = {p1, p2, p3}
    Offers = {o1}
    Requests = {r1, r2}
    Reaper = reaper
    OfferOf <- ThreeOffers
    PriceOf <- ThreePrices
    MaxUnits <- OneUnit
    Sandbox = {p3}
    Overlap = {p3}
    Aged = {p1, p2}
    Relisted = {}
    Detached = {}
    MaxCrashes = 1
    None = None
SYMMETRY Alike
INVARIANTS
    
    UnitsReserved
PROPERTIES
    LifecycleForward
