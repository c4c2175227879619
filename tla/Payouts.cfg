SPECIFICATION Spec
CONSTANTS
    p1 = p1
    p2 = p2
    d1 = d1
    d2 = d2
    a1 = a1
    a2 = a2
    c1 = c1
    Shares = {p1, p2}
    Designers = {d1, d2}
    Assets = {a1, a2}
    Checkouts = {c1}
    SweepRefs = {s1}
    Owner <- TwoOwners
    AssetOf <- TwoAssets
    CheckoutOf <- OneCheckout
    Rechecked = {d2}
    MaxTries = 2
    MaxQueued = 2
    MaxMoved = 2
    MaxCrashes = 1
    None = None
INVARIANTS
    TypeOK
    MoneyAccounted
    LedgerIsTrue
    RetryingHasJob
