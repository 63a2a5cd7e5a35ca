\* A pull request with three pushes and its two checks; previews of any short text, and of plans with their sweep.
CONSTANTS
    NoSummary = noSummary
    NoFile = noFile
    NotPrinted = notPrinted
    Dummy = "***"
    NoSecret = "none"
    Text <- MCText
    Config <- MCConfigs
    Org <- MCOrg
    DefaultOrg <- MCO1
    ResourceHeader <- MCHeader
    RepoName <- MCSwept
    Expected <- MCExpected
    Unmanaged = {"r3"}
    Declared <- MCDeclared
    Hash = {"#maintain"}
    At = {"@org/team"}
    Spaced = {"ci / a"}
    Digits = {"15368"}
    Fold <- MCFold
    Allowed = {"peer"}
    Secrets <- MCSecrets
    Repo = {"r1", "r2"}
    MaxLive = 1
    MaxFault = 1
    MaxPush = 3
SPECIFICATION MCSpec
INVARIANTS
    TypeOK
    VerdictIsThePlans
    OneComment
    CommentTellsUnchecked
    ActorReportIsTrue
    ReaderReportIsTrue
    RecordsAreBlocks
    DeclaredAsCommitted
    PreviewIsWhole
PROPERTIES
    CommentNeverOlder
    EventuallyTold
CHECK_DEADLOCK FALSE
