\* One card at Maplerad and one at Sudo, two requests and two deliveries at a
\* time, three in all, two moves of the provider, one fault, one crash.
SPECIFICATION CardsSpec
CONSTANTS
    Cards = {k1}
    Handlers = {h1, h2}
    NoCard = NoCard
    OpeningCard = 1
    OpeningWallet = 2
    FrozenWord = "DISABLED"
    TerminatedWord = "TERMINATED"
    Settled = {p1}
    Rejected = {p2}
    Deliveries = {d1, d2}
    SudoBalance = 1
    NoEvent = NoEvent
    MaxCalls = 3
    MaxMoves = 2
    MaxFaults = 1
    MaxStops = 1
SYMMETRY SlotSymmetry
INVARIANTS
    RefundOnlyWhenTerminated
    RefundedOncePerPath
    RefundsReachWallet
    StatementShowsPayments
CHECK_DEADLOCK FALSE
