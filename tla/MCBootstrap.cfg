SPECIFICATION BFairSpec
CONSTANTS
    Procs <- MCProcs
    Loop = "loop"
    Names = {"w1"}
    MaxUid = 1
    MaxRuns = 2
    None = None
PROPERTY BootstrapContextsKept
PROPERTY RepairedAfterDeployment
