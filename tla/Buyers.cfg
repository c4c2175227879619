SPECIFICATION Spec
CONSTANTS
    p1 = p1
    p2 = p2
    p3 = p3
    p4 = p4
    o1 = o1
    o2 = o2
    Payments = {p1, p2, p4}
    Offers = {o1, o2}
    KindOf <- MCKindOf
    OfferOf <- MCOfferOf
    Cents <- MCCents
    MaxUnits <- Two
    Revision <- MCRevision
    PagePayments = {p1, p2}
    Carts = {FALSE}
    MaxVisits = 1
    Calls = {c1}
    AgentPayments = {p4}
    MaxSpend = 1
    MaxCalls = 1
    None = None
INVARIANTS
    TypeOK
    ToldIsSold
    DoubtKept
    CapHolds

    
