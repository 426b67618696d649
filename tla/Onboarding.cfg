\* Two requests at a time of three in all, one trouble.
SPECIFICATION OnboardingSpec
CONSTANTS
    ann = ann
    bob = bob
    r1 = r1
    r2 = r2
    Emails = {ann, bob}
    Requests = {r1, r2}
    MaxCompanies = 3
    MaxCalls = 3
    MaxTroubles = 1
SYMMETRY Symmetry
INVARIANTS
    
    AtOnceIsWhole
    ApprovedWasReviewed
CHECK_DEADLOCK FALSE
