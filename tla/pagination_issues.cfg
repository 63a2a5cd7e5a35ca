\* Cursor pages: the open issues, with a pull request among them.
CONSTANTS
    Paging = "cursor"
    PageSize = 2
    Hidden = {2}
    Faults = {"error", "unlinked", "loop"}
    MaxElement = 6
SPECIFICATION FairSpec
INVARIANTS
    TypeOK
    CompleteOrRefused
PROPERTIES
    WalkEnds
CHECK_DEADLOCK FALSE
