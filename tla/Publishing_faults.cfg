\* Titles that equal an address and a token, every failure.
SPECIFICATION Spec
CONSTANTS
    a1 = a1
    a2 = a2
    b1 = b1
    b2 = b2
    e1 = e1
    t1 = t1
    n1 = n1
    None = None
    Authors <- MCAuthors
    Bodies <- MCBodies
    Emails <- MCEmails
    Tokens <- MCTokens
    Titles <- MCTitles
    SkipS3 = FALSE
    PublishFaults <- AllFaults
INVARIANTS
    TypeOK
    IssueHasBody
SYMMETRY Symmetric
