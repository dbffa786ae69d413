\* Titles that may be addresses, failing puts, crashes; every mail is taken.
SPECIFICATION FairNewsletterSpec
CONSTANTS
    a1 = a1
    b1 = b1
    n1 = n1
    s1 = s1
    w1 = w1
    None = None
    Emails <- MCEmails
    Tokens <- MCTokens
    Titles <- MCTitles
    Authors <- MCAuthors
    Bodies <- MCBodies
    PublishFaults <- AllPublishFaults
    Workers <- MCWorkers
    BatchSize = 2
    PageSize = 2
    DeliveryFaults <- RedeliveryFaults
    MaxRedeliveries = 1
INVARIANTS
    OnlyConfirmedGetIssues
    BodyIsFound
PROPERTIES
    ImplementsSending
    IssueReachesIndex
