\* The notice of the supersession guard.
CONSTANTS
    Reruns = {"apply"}
    MaxMerge = 2
    MaxManual = 0
    MaxTamper = 0
    MaxFault = 0
SPECIFICATION Spec
INVARIANTS
    SkippedIsCarried
