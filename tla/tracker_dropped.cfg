\* The header of apply-reminder.yml: each merge earns its own line.
CONSTANTS
    Resource = {"r1", "r2"}
    Setting = {"s1", "s2"}
    Absent = "absent"
    Tree <- MCTree
    MaxMerge = 3
    MaxDispatch = 0
    MaxFault = 0
SPECIFICATION Spec
INVARIANTS
    EveryMergeReminded
CHECK_DEADLOCK FALSE
