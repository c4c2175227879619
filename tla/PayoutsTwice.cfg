SPECIFICATION Spec
CONSTANTS
    p1 = p1
    p2 = p2
    d1 = d1
    d2 = d2
    a1 = a1
    a2 = a2
    c1 = c1
    Shares = {p1, p2}
    Designers = {d1, d2}
    Assets = {a1, a2}
    Checkouts = {c1}
    SweepRefs = {s1, s2}
    Owner <- TwoOwners
    AssetOf <- TwoAssets
    CheckoutOf <- OneCheckout
    Rechecked = {d1}
    MaxTries = 1
    MaxQueued = 1
    MaxMoved = 2
    MaxCrashes = 0
    None = None
INVARIANT
    PaidOnce
