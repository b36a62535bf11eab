---------------------------- MODULE MCExternalURLs ----------------------------
EXTENDS ExternalURLs

MCTokens         == STRING
MCHostNames      == {<<"name">>, <<":", ":", "1">>}
MCPorts          == {<<>>, <<"8090">>}
MCWorkspacePath  == <<"/", "clusters", "/", "root:consumers:w1">>
MCProxyBasePaths == {<<>>, <<"/">>}
MCMounts         == {<<"ns", "k1">>, <<"mounts", "k2">>}
MCClusterPaths   == {<<>>, <<"/">>, <<"/", "c">>, <<"/", "c", "/">>}
MCRestPaths ==
    {<<>>, <<"/">>, <<"/", "api">>, <<"/", "/", "api", "/">>,
     <<"/", "mounts", "/", "ns", "/", "k1", "/", "api">>}
=============================================================================
