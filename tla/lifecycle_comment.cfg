\* What the resolution comment says of an issue the tool closes.
CONSTANTS
    p = p
    i = i
    c = c
    drift = drift
    testbed = testbed
    none = none
    Fingerprint <- MCThree
    LegOf <- MCLegOfThree
    NoMarker = none
    Run = {drift, testbed}
    PlanOnly = {testbed}
    HumanMoves = {"close"}
    MaxIssue = 3
    MaxLive = 1
    MaxFault = 0
    MaxHuman = 0
    MaxEdit = 1
SPECIFICATION Spec
INVARIANTS
    ClosedForTheReasonGiven
