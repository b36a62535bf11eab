SPECIFICATION Spec
CONSTANTS
    Versions = {"7.0.0", "8.0.0"}
    MaxUid = 2
    MaxGeneration = 3
    None = None
INVARIANT TypeOK
INVARIANT NothingLeftUndone
PROPERTY StatusSettles
PROPERTY OnPremiseComesUp
