SPECIFICATION FairSpec
CONSTANTS
    Names = {"w1"}
    MaxUid = 2
    None = None
INVARIANT TypeOK
PROPERTY NeverBackToAdmin
PROPERTY DeletionStatusAdvances
PROPERTY PageComesToRest
PROPERTY AdminDownloadsEnd
