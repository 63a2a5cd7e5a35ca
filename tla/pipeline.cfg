\* Merges, a manual run, an edit by hand, a lost run; the scan repairs and reports.
CONSTANTS
    Reruns = {"apply"}
    MaxMerge = 3
    MaxManual = 1
    MaxTamper = 1
    MaxFault = 1
SPECIFICATION FairSpec
INVARIANTS
    TypeOK
PROPERTIES
    NeverRollsBack
    NoPhantomDrift
    EventuallyReported
    EventuallySilent
