\* Two requests of any kind, one change and one trouble at any time.
CONSTANTS
    xaf = xaf
    usd = usd
    r1 = r1
    r2 = r2
    Wallets = {xaf, usd}
    Dollar = {usd}
    Requests = {r1, r2}
    Amount = 2
    Surcharge = 1
    Percentages <- SomePercentages
    Rates <- SomeRates
    OpeningBalance = 3
    Adjusted <- Negative
    PreprodLimit = 40
    MaxChanges = 1
    MaxTroubles = 1
SPECIFICATION TransfersSpec
SYMMETRY RequestSymmetry
INVARIANTS
    OverdrawnTogetherOrByRate
    LastRowShowsBalance
PROPERTY TransfersAreBooked
CHECK_DEADLOCK FALSE
