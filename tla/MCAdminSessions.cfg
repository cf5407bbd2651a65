\* Two calls of one device and one of another, two sessions, two sockets.
CONSTANTS
    b1 = b1
    b2 = b2
    c1 = c1
    c2 = c2
    c3 = c3
    Browsers = {b1, b2}
    Sessions = {s1, s2}
    Sockets = {k1, k2}
    Calls = {c1, c2, c3}
    Browser <- MCBrowser
    Lifetime = 1
    LastInstant = 2
    Faults <- AllFaults
    Absent = Absent
SPECIFICATION FairSpec
INVARIANT TypeOK
INVARIANT LogoutMissesNone
PROPERTY ClosesOnlyItsOwn
PROPERTY SessionsEnd
