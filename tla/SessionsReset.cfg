\* One request at a time, nothing fails: a link is asked for and used.
SPECIFICATION SessionsSpec
CONSTANTS
    c1 = c1
    c2 = c2
    r1 = r1
    r2 = r2
    s1 = s1
    s2 = s2
    Companies = {c1}
    Requests = {r1}
    Slots = {s1}
    MaxMails = 1
    MaxCalls = 2
    MaxTroubles = 0
INVARIANT ResetPasswordLogsIn
CHECK_DEADLOCK FALSE
