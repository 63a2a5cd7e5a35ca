\* One divergence per leg, two workflows in one group; people close issues.
CONSTANTS
    p = p
    i = i
    c = c
    drift = drift
    testbed = testbed
    none = none
    Fingerprint <- MCThree
    LegOf <- MCLegOfThree
    NoMarker = none
    Run = {drift, testbed}
    PlanOnly = {testbed}
    HumanMoves = {"close"}
    MaxIssue = 4
    MaxLive = 3
    MaxFault = 1
    MaxHuman = 1
    MaxEdit = 1
SPECIFICATION FairSpec
INVARIANTS
    OneOpenIssue
    NoPhantomAction
    DegradedUntouched
    RunReportsWhatItRead
PROPERTIES
    ClosedWithReason
    ImplementsContract
    EventuallyReported
    EventuallyCleared
