SPECIFICATION FairSpec
CONSTANTS
    Procs = {"p1"}
    Names = {"w1", "w2"}
    Bindings = {"dbaas"}
    Tampering = {"w1"}
    Broken = {"w2"}
    MaxUid = 1
    None = None
PROPERTY SetupCompletes
