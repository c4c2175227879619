SPECIFICATION FairSpec
CONSTANTS
    p1 = p1
    p2 = p2
    p3 = p3
    p4 = p4
    o1 = o1
    o2 = o2
    Payments = {p1, p2}
    Offers = {o1, o2}
    KindOf <- MCKindOf
    OfferOf <- MCOfferOf
    Cents <- MCCents
    MaxUnits <- Two
    Revision <- MCRevision
    PagePayments = {p1, p2}
    Carts = {TRUE, FALSE}
    MaxVisits = 0
    Calls = {}
    AgentPayments = {}
    MaxSpend = 1
    MaxCalls = 1
    None = None
PROPERTIES
    DoubtResolved
    AttemptEnds
