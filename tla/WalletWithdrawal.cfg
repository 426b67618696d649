\* Three calls of any kind on one wallet, one crash.
SPECIFICATION WithdrawalSpec
CONSTANTS
    Calls = {c1, c2, c3}
    AmountOf <- AmountTwo
    FeeOf <- FeeOne
    OpeningPocket <- PayoutFour
    MaxDeaths = 1
SYMMETRY CallSymmetry
INVARIANTS
    BooksBalance
    OverdrawnOnlyByLateWrites
    PayoutStaysDebited
    DebitedIsTakenUnlessStranded
CHECK_DEADLOCK FALSE
