\* Two addresses, every failure, titles that collide with an address and a token.
SPECIFICATION Spec
CONSTANTS
    e1 = e1
    e2 = e2
    t1 = t1
    t2 = t2
    r1 = r1
    r2 = r2
    None = None
    Emails <- MCEmails
    Tokens <- MCTokens
    Titles <- MCTitles
    Requests <- MCRequests
    Faults <- AllFaults
INVARIANTS
    TypeOK
    OneTokenPerSubscriber
    TokenOwnerIsSubscriber
    OkIsDurable
PROPERTIES
    ItemsKeepTheirMeaning
    ImplementsLifecycle
