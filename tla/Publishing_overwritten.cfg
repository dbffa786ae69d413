\* Two issues under one title, one after the other.
SPECIFICATION Spec
CONSTANTS
    a1 = a1
    a2 = a2
    b1 = b1
    b2 = b2
    e1 = e1
    t1 = t1
    n1 = n1
    None = None
    Authors <- OneAuthor
    Bodies <- MCBodies
    Emails <- MCEmails
    Tokens <- MCTokens
    Titles <- OwnTitle
    SkipS3 = FALSE
    PublishFaults <- NoFaults
INVARIANTS
    AnnouncedIsPublished
