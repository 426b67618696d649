\* Two fundings and a withdrawal of one card, one fault, one crash.
SPECIFICATION CardSpec
CONSTANTS
    Fundings = {f1, f2}
    Withdrawals = {w1}
    Cards = {k1}
    k1 = k1
    CardOf <- OneCard
    Sum <- SumTwo
    OpeningWallet = 3
    OpeningCard = 2
    MaxFaults = 1
    MaxStops = 1
SYMMETRY OpSymmetry
INVARIANTS
    WalletFollowsProvider
    CardFollowsProvider
    RowTellsOutcome
CHECK_DEADLOCK FALSE
