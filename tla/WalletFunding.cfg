\* One funding, one webhook beside listings, one crash.
CONSTANTS
    t1 = t1
    t2 = t2
    w1 = w1
    h1 = h1
    h2 = h2
    Trx = {t1}
    Wallets = {w1}
    Handlers = {h1, h2}
    NoTrx = NoTrx
    WalletOf <- OneWallet
    Amount <- OneAmount
    Opening <- OpeningOne
    Preprod = FALSE
    PreprodLimit = 3
    MaxWebhooks = 1
    MaxCrashes = 1
SPECIFICATION LiveSpec
INVARIANTS
    TypeOK
    CreditIsPaidFor
    SuccessIsCredited
    CreditedOnceUnlessRaced
    BalanceExactUnlessCrossed
PROPERTIES
    ListedRowSettles
CHECK_DEADLOCK FALSE
