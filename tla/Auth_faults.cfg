\* Two requests at a time, two users, three sessions, every failure.
SPECIFICATION Spec
CONSTANTS
    r1 = r1
    r2 = r2
    k1 = k1
    k2 = k2
    k3 = k3
    admin = admin
    author = author
    p1 = p1
    p2 = p2
    Nobody = Nobody
    NoKey = NoKey
    NoPassword = NoPassword
    Requests <- MCRequests
    Keys <- MCKeys
    Users <- MCUsers
    Admin = admin
    Passwords <- MCPasswords
    SeedPassword = p1
    FirstPassword = p2
    StoreFaults <- MCStoreFaults
    AuthFaults <- AllFaults
INVARIANTS
    TypeOK
    SessionsAreEarned
    RetiredIsGone
PROPERTIES
    SessionKeepsItsUser
    PasswordsChangeHands
SYMMETRY Symmetric
