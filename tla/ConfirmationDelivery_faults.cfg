\* Every failure, two redeliveries; every token stored and handled is the end.
SPECIFICATION Spec
CONSTANTS
    e1 = e1
    e2 = e2
    e3 = e3
    t1 = t1
    t2 = t2
    t3 = t3
    w1 = w1
    w2 = w2
    Emails <- MCEmails
    Tokens <- MCTokens
    Workers <- MCWorkers
    BatchSize = 2
    DeliveryFaults <- AllFaults
    MaxRedeliveries = 2
SYMMETRY DeliverySymmetry
INVARIANTS
    TypeOK
    EveryTokenAccountedFor
    MailMatchesToken
    OneMailUnlessRedelivered
    LossHasOwnCause
CHECK_DEADLOCK FALSE
