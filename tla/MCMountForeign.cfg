SPECIFICATION Spec
CONSTANTS
    Controllers = {"c1"}
    Keys <- OneKey
    Clusters = {"a"}
    Workspaces = {"alice"}
    Home <- MCHome
    LogicalCluster <- MCLogicalCluster
    RemoteName <- MCRemoteName
    RemoteNamespace <- MCRemoteNamespace
    Hashed <- MCHashed
    ChildNames = {"web"}
    TenantNames = {"web"}
    AllowScheduling <- MCScheduled
    Nodes = {"n1"}
    ReuseNames = FALSE
    MaxUid = 1
    Absent = Absent
    None = None
    Plain = Plain
CHECK_DEADLOCK FALSE
PROPERTY OnlyOwnMountDeleted
