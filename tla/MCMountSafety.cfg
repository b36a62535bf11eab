SPECIFICATION Spec
CONSTANTS
    Controllers = {"c1"}
    Keys <- TwoKeys
    Clusters = {"a"}
    Workspaces = {"alice"}
    Home <- MCHome
    LogicalCluster <- MCLogicalCluster
    RemoteName <- MCRemoteName
    RemoteNamespace <- MCRemoteNamespace
    Hashed <- MCHashed
    ChildNames = {"web", "web-5f2c"}
    TenantNames = {}
    AllowScheduling <- MCUnscheduled
    Nodes = {}
    ReuseNames = FALSE
    MaxUid = 1
    Absent = Absent
    None = None
    Plain = Plain
CONSTRAINT ComesUpAtOnce
CHECK_DEADLOCK FALSE
INVARIANT TypeOK
INVARIANT NoOrphanMount
PROPERTY OnlyOwnMountDeleted
PROPERTY ImplementsContract
