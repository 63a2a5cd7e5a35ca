\* The rows of the table and the secret families, while the organization changes and a read fails.
CONSTANTS
    s1 = s1
    s2 = s2
    stray = stray
    Table <- MCTable
    Families <- MCFamilies
    Declared = {s1, s2}
    Selected = {s1, s2}
    Stray = stray
    MaxLive = 2
    MaxFault = 1
SPECIFICATION Spec
INVARIANTS
    TypeOK
    OneVerdict
    OneReading
    IssuesFollowVerdicts
    FamilyReadWhole
CHECK_DEADLOCK FALSE
