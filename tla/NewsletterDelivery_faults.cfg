\* One issue, two bodies stored under its title, three subscribers and pages of
\* two, every failure.
SPECIFICATION Spec
CONSTANTS
    t1 = t1
    b1 = b1
    b2 = b2
    w1 = w1
    w2 = w2
    None = None
    Emails <- MCEmails
    Titles <- OneTitle
    Bodies <- MCBodies
    Workers <- MCWorkers
    BatchSize = 2
    PageSize = 2
    DeliveryFaults <- AllFaults
    MaxRedeliveries = 1
INVARIANTS
    TypeOK
    EveryIssueAccountedFor
    OnlyDueIsMailed
    OneIssueUnlessRedelivered
    LossFollowsFailure
\* Every issue handled, the body stored once and for all: the end.
CHECK_DEADLOCK FALSE
