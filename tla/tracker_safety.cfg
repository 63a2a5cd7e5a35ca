\* Reminders and applies of three merges, with a failing call.
CONSTANTS
    Resource = {"r1", "r2"}
    Setting = {"s1", "s2"}
    Absent = "absent"
    Tree <- MCTree
    MaxMerge = 3
    MaxDispatch = 3
    MaxFault = 1
SPECIFICATION Spec
INVARIANTS
    TypeOK
    NewestReminded
    

    
CHECK_DEADLOCK FALSE
