\* Requests one after another, with any key; every failure of the API's calls,
\* and an invocation that crashes; every mail is taken.
SPECIFICATION FairSpec
CONSTANTS
    e1 = e1
    e2 = e2
    t1 = t1
    t2 = t2
    r1 = r1
    w1 = w1
    None = None
    Emails <- MCEmails
    Tokens <- MCTokens
    Titles <- MCTitles
    Requests <- MCRequests
    Faults <- AllFaults
    Workers <- MCWorkers
    BatchSize = 2
    DeliveryFaults <- RedeliveryFaults
    MaxRedeliveries = 1
INVARIANTS
    ConfirmedByMailOrOwnKey
    MailedLinkWorks
PROPERTIES
    ImplementsDelivery
    OkIsMailed
