\* Two syncs, beside each other or not, one trouble, one change of address.
SPECIFICATION CardSyncSpec
CONSTANTS
    ann = ann
    bob = bob
    one = one
    a1 = a1
    a2 = a2
    k1 = k1
    k2 = k2
    r1 = r1
    r2 = r2
    Customers = {ann, bob}
    CompanyOf <- CompanyOfEach
    Addresses = {a1, a2}
    MapleradCards = {k1, k2}
    Runs = {r1, r2}
    Nobody = Nobody
    MaxCalls = 2
    MaxChanges = 1
    MaxTroubles = 1
SYMMETRY Symmetry
INVARIANTS
    FoundIsStoredOnce
    RecentMeansMapped
CHECK_DEADLOCK FALSE
