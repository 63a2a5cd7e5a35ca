\* Numbered pages: the repositories of the organization, one of which is deleted.
CONSTANTS
    Paging = "number"
    PageSize = 2
    Hidden = {}
    Faults = {}
    MaxElement = 4
SPECIFICATION FairSpec
INVARIANTS
    CompleteOrRefused
CHECK_DEADLOCK FALSE
