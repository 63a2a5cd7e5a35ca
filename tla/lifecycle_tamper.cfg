\* People also reopen issues and edit markers away.
CONSTANTS
    p = p
    i = i
    c = c
    drift = drift
    testbed = testbed
    none = none
    Fingerprint <- MCPlanInventory
    LegOf <- MCLegOfPlanInventory
    NoMarker = none
    Run = {drift, testbed}
    PlanOnly = {testbed}
    HumanMoves = {"close", "reopen", "unmark"}
    MaxIssue = 5
    MaxLive = 3
    MaxFault = 1
    MaxHuman = 2
    MaxEdit = 0
SPECIFICATION FairSpec
INVARIANTS
    TypeOK
    NoPhantomAction
PROPERTIES
    EventuallyReported
    EventuallyCleared
