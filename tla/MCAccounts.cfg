SPECIFICATION AccountsSpec
CONSTANTS
    a1 = a1
    a2 = a2
    x1 = x1
    t1 = t1
    t2 = t2
    b1 = b1
    b2 = b2
    NoOne = NoOne
    Accounts <- MCAccounts
    Known <- MCKnown
    Discords <- MCDiscords
    EmailOf <- MCEmailOf
    Tabs <- MCTabs
    Browsers <- MCBrowsers
    Life = 3
    Slide = 2
    MaxTime = 3
    MaxSessions = 1
    MaxStarts = 2
    MaxEvents = 4
    Lifetime = 1
    Window = 1
    MaxNow = 2
    MaxAdminSessions = 2
    MaxSecrets = 2
SYMMETRY Symmetry
INVARIANTS TermFollowsUse EveryAccountCanSignIn OneCodeOneSession
PROPERTIES DoneStaysDone
CHECK_DEADLOCK FALSE
