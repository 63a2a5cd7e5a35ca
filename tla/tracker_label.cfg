\* The comment of apply.yml: what the label answers.
CONSTANTS
    Resource = {"r1", "r2"}
    Setting = {"s1", "s2"}
    Absent = "absent"
    Tree <- MCTree
    MaxMerge = 2
    MaxDispatch = 1
    MaxFault = 0
SPECIFICATION Spec
INVARIANTS
    LabelAnswers
CHECK_DEADLOCK FALSE
