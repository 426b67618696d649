\* Two overlapping runs over one item, enough failing writes to use up its
\* attempts, one crash.
SPECIFICATION QueueFairSpec
CONSTANTS
    Items = {1}
    Runs = {cron, manual}
    MaxTries = 2
    MaxFaults = 4
    MaxDeaths = 1
    Calls <- QueueCalls
    AmountOf <- QueueAmount
    FeeOf <- QueueFee
    OpeningPocket <- QueuePocket
INVARIANTS
    PaidOnceUnlessContended
PROPERTY WaitingIsServed
CHECK_DEADLOCK FALSE
