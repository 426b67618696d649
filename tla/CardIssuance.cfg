\* Two issuances for one customer, one fault, one crash.
SPECIFICATION IssuanceSpec
CONSTANTS
    Issues = {i1, i2}
    Amount = 2
    IssuanceFee = 2
    CardLimit = 2
    OpeningBalance = 7
    MaxPolls = 2
    MaxFaults = 1
    MaxStops = 1
    Placeholder = Placeholder
    NoCard = NoCard
INVARIANTS
    WalletPaysForAccepted
    IssuedOrRefunded
    AdoptedOnceUnlessTogether
    WithinLimitUnlessTogether
PROPERTY IssuanceEnds
CHECK_DEADLOCK FALSE
