SPECIFICATION FairSpec
CONSTANTS
    Controllers = {"c1"}
    Keys <- OneKey
    Clusters = {"a"}
    Workspaces = {"alice"}
    Home <- MCNoHome
    LogicalCluster <- MCLogicalCluster
    RemoteName <- MCRemoteName
    RemoteNamespace <- MCRemoteNamespace
    Hashed <- MCHashed
    ChildNames = {"web"}
    TenantNames = {"web"}
    AllowScheduling <- MCScheduled
    Nodes = {"n1", "n2"}
    ReuseNames = FALSE
    MaxUid = 2
    Absent = Absent
    None = None
    Plain = Plain
CHECK_DEADLOCK FALSE
INVARIANT NoOrphanMount
INVARIANT ReadyIsPrepared
PROPERTY DeletionCompletes
PROPERTY BecomesReady
PROPERTY ReadyWithdrawn
PROPERTY SchedulingSettles
