\* Three requests or payments, two requests at once, and one trouble of any kind.
CONSTANTS
    h1 = h1
    h2 = h2
    Handlers = {h1, h2}
    Amount = 2
    Fee = 1
    OpeningWallet = 3
    OpeningCard = 2
    MaxCalls = 3
    MaxTroubles = 1
SPECIFICATION AlphaSpaceFairSpec
INVARIANTS
    AlphaCardFollowsProvider
    OutcomeIsTold
    TokenlessOnlyAfterFailure
PROPERTY RequestsEnd
CHECK_DEADLOCK FALSE
