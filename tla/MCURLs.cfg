SPECIFICATION Spec
CONSTANTS
    Tokens <- MCTokens
    HostNames <- MCHostNames
    Ports <- MCPorts
    MaxHops = 3
    WorkspacePath <- MCWorkspacePath
    ProxyBasePaths <- MCProxyBasePaths
    Mounts <- MCMounts
    ClusterPaths <- MCClusterPaths
    RestPaths <- MCRestPaths
    Failed = Failed
    BadRequest = BadRequest
    NotLoaded = NotLoaded
    NotUsable = NotUsable
    None = None
INVARIANT URLsNameTheClientsHost
PROPERTY MountRequestReachesItsCluster
