SPECIFICATION FairSpec
CONSTANTS
    Procs <- Syncers2
    Loop = "loop"
    Names = {"w1"}
    MaxUid = 2
    None = None
INVARIANT TypeOK
INVARIANT NoContextOfTheGone
PROPERTY NeverFromOlderListing
PROPERTY TokenContextKept
PROPERTY CurrentListingWritten
PROPERTY SecretAligned
PROPERTY HeadlampAligned
