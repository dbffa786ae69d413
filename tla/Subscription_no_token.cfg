\* One failing write, and a request with an address instead of a token.
SPECIFICATION Spec
CONSTANTS
    e1 = e1
    e2 = e2
    t1 = t1
    t2 = t2
    r1 = r1
    r2 = r2
    None = None
    Emails <- OneEmail
    Tokens <- MCTokens
    Titles <- NoTitles
    Requests <- MCRequests
    Faults <- WriteFaults
INVARIANTS
    ConfirmedHasToken
