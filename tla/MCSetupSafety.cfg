SPECIFICATION FairSpec
CONSTANTS
    Procs <- TwoProcs
    Names = {"w1"}
    Bindings = {"dbaas", "kubernetes"}
    Tampering = {}
    Broken = {}
    MaxUid = 1
    None = None
INVARIANT TypeOK
INVARIANT MarkedIsSetUp
PROPERTY ImplementsLife
PROPERTY SetupCompletes
