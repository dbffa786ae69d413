\* One refused mail.
SPECIFICATION Spec
CONSTANTS
    t1 = t1
    b2 = b2
    w2 = w2
    b1 = b1
    w1 = w1
    None = None
    Emails <- TwoEmails
    Titles <- OneTitle
    Bodies <- OneBody
    Workers <- OneWorker
    BatchSize = 2
    PageSize = 2
    DeliveryFaults <- SendFaults
    MaxRedeliveries = 0
INVARIANTS
    FailureCostsOneMail
\* Every issue handled, the body stored once and for all: the end.
CHECK_DEADLOCK FALSE
