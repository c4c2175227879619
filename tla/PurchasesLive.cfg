SPECIFICATION FairSpec
CONSTANTS
    p1 = p1
    p2 = p2
    p3 = p3
    o1 = o1
    r1 = r1
    r2 = r2
    Payments = {p1, p2}
    Offers = {o1}
    Requests = {r1}
    Reaper = reaper
    OfferOf <- MCOfferOf
    PriceOf <- OwnPrice
    MaxUnits <- OneUnit
    Sandbox = {}
    Overlap = {}
    Aged = {p1, p2}
    Relisted = {o1}
    Detached = {o1}
    MaxCrashes = 1
    None = None
PROPERTIES
    PaidIsDelivered
    
