\* Two tabs of one browser, one account, two sessions, two requests at a time, an hour of ten minutes.
CONSTANTS
    None = None
    Tabs = {t1, t2}
    Users = {u1}
    MaxSessions = 2
    Calls = {c1, c2}
    MaxRequests = 4
    Idle = 3
    Absolute = 4
    Interval = 1
    Window = 2
    AccountLimit = 1
    IpLimit = 2
    Delay = 1
    MaxNow = 4
    MaxChanges = 1
SPECIFICATION Spec
CHECK_DEADLOCK FALSE
SYMMETRY Interchangeable
INVARIANTS
    TypeOK
    GuessesBounded
PROPERTIES
    EndedStaysOut
    LetInWhileLive
    KeptWhileUsed
    ActsForWhomItShows
