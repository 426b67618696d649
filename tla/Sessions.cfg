\* Two requests at a time, two tokens, three mails, one trouble.
SPECIFICATION SessionsSpec
CONSTANTS
    c1 = c1
    c2 = c2
    r1 = r1
    r2 = r2
    s1 = s1
    s2 = s2
    Companies = {c1, c2}
    Requests = {r1, r2}
    Slots = {s1, s2}
    MaxMails = 3
    MaxCalls = 4
    MaxTroubles = 1
SYMMETRY Symmetry
INVARIANTS
    CodeOpensOnce
    MailedCodeWorks
    ProdOnlyFromBefore
CHECK_DEADLOCK FALSE
