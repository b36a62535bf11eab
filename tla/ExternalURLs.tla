----------------------------- MODULE ExternalURLs -----------------------------
(***************************************************************************)
(* The URLs the system hands out and takes in.  The provisioner is reached *)
(* through reverse proxies, and the kubeconfigs it generates must name the  *)
(* host under which the client reached it (cmd/provisioner/main.go,        *)
(* kubeconfig.go of internal/provisioner).  The controller publishes a URL *)
(* for every mount, through which kcp sends the tenants' requests to the   *)
(* mount proxy, which must find the cluster and the path in it             *)
(* (controller.go and mount_proxy.go of internal/controller/kubernetes).   *)
(*                                                                         *)
(* Text is a sequence of tokens: the characters that the code looks for    *)
(* are tokens of their own, what lies between them is one.                 *)
(***************************************************************************)
EXTENDS Naturals, SequencesExt

CONSTANTS
    Tokens,         \* tokens of paths, hosts and headers
    HostNames,      \* names and addresses of the provisioner, as tokens
    Ports,          \* ports of it, <<>> for the default one
    MaxHops,        \* bound: reverse proxies in front of the provisioner
    WorkspacePath,  \* path of the URL of a workspace
    ProxyBasePaths, \* path of ProxyBaseURL, a flag of the controller
    Mounts,         \* mounts, as <<namespace, name>>
    ClusterPaths,   \* paths of cluster URLs in the kubeconfig secrets
    RestPaths,      \* what a tenant asks of a cluster, as tokens
    Failed,         \* the answer is an error
    BadRequest,     \* refused: the path does not name a cluster and a path in it
    NotLoaded,      \* refused: the kubeconfig secret has not been read
    NotUsable,      \* refused: no request can be made of the kubeconfig
    None            \* no request, no answer

\* The tokens that separate the entries of a header, and their parts.
Comma     == ","
Semicolon == ";"
Space     == " "
Quote     == "\""

ASSUME BasePathIsRoot == ProxyBasePaths \subseteq {<<>>, <<"/">>}

\* Names, addresses and ports have none of the tokens that headers and URLs are
\* made of; only addresses have colons.
Marks == {Comma, Semicolon, Space, Quote, "[", "]", "/", "://", "host=", "Host="}

ASSUME HostTypes ==
    /\ Marks \cup {":", "for=", "a", "proto=", "http", "inner", "80"} \subseteq Tokens
    /\ HostNames \subseteq Seq(Tokens \ Marks) \ {<<>>}
    /\ Ports \subseteq Seq(Tokens \ (Marks \cup {":"}))

ASSUME PathTypes ==
    /\ {"/", "mounts"} \subseteq Tokens
    /\ ClusterPaths \cup RestPaths \subseteq Seq(Tokens)
    /\ Mounts \subseteq (Tokens \ {"/"}) \X (Tokens \ {"/"})
    /\ \A rest \in RestPaths : rest = <<>> \/ rest[1] = "/"

VARIABLES
    request,     \* the request on its way: what the handler will see of it
    client,      \* history: whom or what the sender means
    hops,        \* history: what the proxies did
    answer,      \* the answer of the handler
    kubeconfigs  \* kubeconfigs[m]: path of the server in the secret of cluster m

vars == <<request, client, hops, answer, kubeconfigs>>

\* A secret can be there and of no use: its value is empty, is no kubeconfig, or
\* has a host or credentials of which no URL and no transport can be made.
NoSecret == <<"no secret">>
Unusable == <<"unusable secret">>

Init ==
    /\ request = None /\ client = None /\ hops = <<>> /\ answer = None
    /\ kubeconfigs = [m \in Mounts |-> NoSecret]

-----------------------------------------------------------------------------
(* Go's strings and net packages, as the code uses them.                   *)

\* What remains of s when the tokens of cut are taken from both ends.
Trim(s, cut) ==
    LET kept == {i \in DOMAIN s : s[i] \notin cut}
    IN  IF kept = {} THEN <<>> ELSE SubSeq(s, Min(kept), Max(kept))

TrimSpace(s) == Trim(s, {Space})

TrimSuffix(s, end) ==
    IF IsSuffix(end, s) THEN SubSeq(s, 1, Len(s) - Len(end)) ELSE s

TrimPrefix(s, start) ==
    IF IsPrefix(start, s) THEN SubSeq(s, Len(start) + 1, Len(s)) ELSE s

\* The parts of s between the tokens sep, the first n - 1 of which cut.
SplitN(s, sep, n) ==
    LET seps   == {i \in DOMAIN s : s[i] = sep}
        parts  == Min({n, Cardinality(seps) + 1})
        Cut(k) == CHOOSE i \in seps : Cardinality({j \in seps : j <= i}) = k
    IN  [k \in 1..parts |->
            SubSeq(s, IF k = 1 THEN 1 ELSE Cut(k - 1) + 1,
                      IF k = parts THEN Len(s) ELSE Cut(k) - 1)]

\* strings.Cut: what comes before the first of the tokens seps, or all of s.
Before(s, seps) ==
    SubSeq(s, 1, Min({i \in DOMAIN s : s[i] \in seps} \cup {Len(s) + 1}) - 1)

\* What comes after position i.
After(s, i) == SubSeq(s, i + 1, Len(s))

JoinHostPort(host, port) ==
    (IF Contains(host, ":") THEN <<"[">> \o host \o <<"]">> ELSE host)
    \o <<":">> \o port

\* The ways to read s as a host and a port: one at most.
HostPorts(s) ==
    {hp \in {[host |-> SubSeq(s, 1, i - 1), port |-> SubSeq(s, i + 1, Len(s))] :
             i \in {j \in DOMAIN s : s[j] = ":"}} :
        /\ ~Contains(hp.port, ":") /\ ~Contains(hp.port, "]")
        /\ IF IsPrefix(<<"[">>, hp.host) THEN IsSuffix(<<"]">>, hp.host)
           ELSE ~Contains(hp.host, ":")}

-----------------------------------------------------------------------------
(* The host a client has used, and the URLs made of it.                    *)

firstForwardedHost(value) == TrimSpace(Before(value, {Comma}))

\* Where a part of the header (entries are separated by commas, their parts by
\* semicolons) has the host: at its beginning, but for spaces.
PartSeparators == {Comma, Semicolon}
HostAt(value) ==
    {i \in DOMAIN value :
        /\ value[i] \in {"host=", "Host="}
        /\ \E start \in 1..i : /\ start = 1 \/ value[start - 1] \in PartSeparators
                              /\ \A j \in start..(i - 1) : value[j] = Space}

\* The host of the part that has it at position i.
HostOfPart(value, i) ==
    Trim(TrimSpace(Before(After(value, i), PartSeparators)), {Quote})

\* Faulty variant of forwardedHeaderHost: the proxy that is nearest.
LastForwardedHeaderHost(value) ==
    IF HostAt(value) = {} THEN <<>> ELSE HostOfPart(value, Max(HostAt(value)))

\* The host of the first entry that has one.
forwardedHeaderHost(value) ==
    IF HostAt(value) = {} THEN <<>> ELSE HostOfPart(value, Min(HostAt(value)))

forwardedOrRequestHost(r) ==
    LET forwarded  == forwardedHeaderHost(r.forwarded)
        xForwarded == firstForwardedHost(r.xForwardedHost)
    IN  CASE forwarded # <<>> -> forwarded
          [] forwarded = <<>> /\ xForwarded # <<>> -> xForwarded
          [] OTHER -> r.host

\* A host may come in quotes, as a URL, in brackets, and with a port.
Unquoted(hostport) == TrimSpace(Trim(hostport, {Quote}))

HostOfURL(s) ==
    LET schemes == {i \in DOMAIN s : s[i] = "://"}
    IN  IF schemes = {} THEN s ELSE Before(After(s, Min(schemes)), {"/"})

hostWithoutPort(hostport) ==
    LET parsed == HostOfURL(Unquoted(hostport))
        split  == {hp \in HostPorts(parsed) : hp.port # <<>>}
        host   == IF split = {} THEN parsed ELSE (CHOOSE hp \in split : TRUE).host
    IN  IF IsPrefix(<<"[">>, parsed) THEN Trim(host, {"[", "]"}) ELSE host

ExternalBaseURLForHost(host, scheme, port) ==
    [scheme |-> scheme, host |-> JoinHostPort(hostWithoutPort(host), port), path |-> <<>>]

externalURLForServer(server, base) ==
    [server EXCEPT !.scheme = base.scheme, !.host = base.host]

\* The URL in the answer: of Headlamp on the status page, of kcp's root in the
\* admin kubeconfig, of the workspace in its own.  Without a host the page links
\* to the machine of the browser, and there is no kubeconfig.
WorkspaceURL == [scheme |-> "https", host |-> <<"kcp", ":", "6443">>,
                 path |-> WorkspacePath]

AnswerWith(r) ==
    LET host == forwardedOrRequestHost(r)
        kcp  == ExternalBaseURLForHost(host, "https", <<"6443">>)
    IN  IF Unquoted(host) = <<>>
        THEN IF r.route = "page"
             THEN [scheme |-> "http", host |-> <<"localhost", ":", "4466">>, path |-> <<>>]
             ELSE Failed
        ELSE CASE r.route = "page" -> ExternalBaseURLForHost(host, "http", <<"4466">>)
               [] r.route = "admin" ->
                    [kcp EXCEPT !.path = <<"/", "clusters", "/", "root">>]
               [] r.route = "workspace" -> externalURLForServer(WorkspaceURL, kcp)

-----------------------------------------------------------------------------
(* The client and the proxies.                                             *)

HostHeader(c) ==
    (IF Contains(c.name, ":") THEN <<"[">> \o c.name \o <<"]">> ELSE c.name)
    \o (IF c.port = <<>> THEN <<>> ELSE <<":">> \o c.port)

Send(route) ==
    /\ request = None
    /\ \E name \in HostNames, port \in Ports :
        /\ client' = [name |-> name, port |-> port]
        /\ request' = [route |-> route, host |-> HostHeader(client'),
                       forwarded |-> <<>>, xForwardedHost |-> <<>>]
    /\ hops' = <<>> /\ answer' = None
    /\ UNCHANGED kubeconfigs

AddEntry(header, entry) ==
    IF header = <<>> THEN entry ELSE header \o <<Comma, Space>> \o entry

\* A proxy that writes Forwarded, with the host or without; one that writes the
\* host passes the request on under the next host's name.
ForwardedEntries(host) ==
    {<<"for=", "a", Semicolon, "host=", Quote>> \o host \o <<Quote>>,
     <<"Host=">> \o host \o <<Semicolon, "proto=", "http">>}

Forward(hop) ==
    /\ request # None /\ Len(hops) < MaxHops
    /\ hops' = Append(hops, hop)
    /\ UNCHANGED <<client, answer, kubeconfigs>>

Inner == <<"inner", ":", "80">>

ProxyForwarded ==
    /\ Forward("host")
    /\ request.route # "mount"
    /\ \E entry \in ForwardedEntries(request.host) :
        request' = [request EXCEPT !.forwarded = AddEntry(@, entry), !.host = Inner]

ProxyForwardedFor ==
    /\ Forward("for")
    /\ request.route # "mount"
    /\ request' = [request EXCEPT !.forwarded = AddEntry(@, <<"for=", "a">>)]

ProxyXForwarded ==
    /\ Forward("x-host")
    /\ request.route # "mount"
    /\ \E value \in {request.host, <<"http", "://">> \o request.host \o <<"/">>} :
        request' = [request EXCEPT !.xForwardedHost = AddEntry(@, value), !.host = Inner]

\* handleIndex, the handler of the admin kubeconfig, and handleKubeconfig.
Handle ==
    /\ request # None
    /\ request.route # "mount"
    /\ answer' = [route |-> request.route, url |-> AnswerWith(request)]
    /\ request' = None
    /\ UNCHANGED <<client, hops, kubeconfigs>>

-----------------------------------------------------------------------------
(* The mounts.                                                             *)

\* What the controller publishes in the status of mount m.
PublishedPath(basePath, m) ==
    TrimSuffix(basePath, <<"/">>) \o <<"/", "mounts", "/", m[1], "/", m[2]>>

SendThroughMount ==
    /\ request = None
    /\ \E m \in Mounts, rest \in RestPaths, basePath \in ProxyBasePaths :
        /\ client' = [mount |-> m, rest |-> rest]
        /\ request' = [route |-> "mount", path |-> PublishedPath(basePath, m) \o rest]
    /\ hops' = <<>> /\ answer' = None
    /\ UNCHANGED kubeconfigs

\* Faulty variant of joinURLPath: the paths put together.
ConcatURLPath(basePath, requestPath) == basePath \o requestPath

joinURLPath(basePath, requestPath) ==
    CASE IsSuffix(<<"/">>, basePath) /\ IsPrefix(<<"/">>, requestPath) ->
            basePath \o Tail(requestPath)
      [] ~IsSuffix(<<"/">>, basePath) /\ ~IsPrefix(<<"/">>, requestPath) ->
            basePath \o <<"/">> \o requestPath
      [] OTHER -> basePath \o requestPath

\* What the proxy makes of a secret it has loaded: where it sends the request.
SendOn(m, path) ==
    IF kubeconfigs[m] = Unusable THEN NotUsable
    ELSE [cluster |-> m, path |-> joinURLPath(kubeconfigs[m], path)]

\* The secret may be there and the Get fail.
HandleMount ==
    LET parts       == SplitN(TrimPrefix(request.path, <<"/", "mounts", "/">>), "/", 3)
        m           == <<parts[1][1], parts[2][1]>>
        Answer(url) == answer' = [route |-> "mount", url |-> url]
    IN  /\ request # None
        /\ request.route = "mount"
        /\ \/ Len(parts) < 3 /\ Answer(BadRequest)
           \/ Len(parts) >= 3 /\ Answer(NotLoaded)
           \/ /\ Len(parts) >= 3
              /\ kubeconfigs[m] # NoSecret
              /\ Answer(SendOn(m, <<"/">> \o parts[3]))
        /\ request' = None
        /\ UNCHANGED <<client, hops, kubeconfigs>>

\* Cluster API writes and removes the secret of a cluster.
ChangeSecret(m) ==
    /\ \E path \in ClusterPaths \cup {NoSecret, Unusable} :
        kubeconfigs' = [kubeconfigs EXCEPT ![m] = path]
    /\ UNCHANGED <<request, client, hops, answer>>

-----------------------------------------------------------------------------
Next ==
    \/ \E route \in {"page", "admin", "workspace"} : Send(route)
    \/ ProxyForwarded \/ ProxyForwardedFor \/ ProxyXForwarded
    \/ Handle
    \/ SendThroughMount \/ HandleMount
    \/ \E m \in Mounts : ChangeSecret(m)

Spec == Init /\ [][Next]_vars

-----------------------------------------------------------------------------
(* Properties.                                                             *)

\* The first proxy that changed the host has recorded the client's where the
\* handler looks first.  (Forwarded wins, even when a later proxy has written
\* it.)
HostRecorded ==
    Contains(hops, "host") =>
        \A i \in DOMAIN hops : hops[i] = "x-host" => \E j \in 1..i : hops[j] = "host"

ExpectedURL(route) ==
    [scheme |-> IF route = "page" THEN "http" ELSE "https",
     host |-> JoinHostPort(client.name, IF route = "page" THEN <<"4466">> ELSE <<"6443">>),
     path |-> CASE route = "page" -> <<>>
                [] route = "admin" -> <<"/", "clusters", "/", "root">>
                [] route = "workspace" -> WorkspacePath]

\* Whatever the proxies between, a client gets URLs it can reach: those of the
\* kubeconfigs and of Headlamp name the host under which it has reached the
\* provisioner, by name or address, with the port of the service, and lead to
\* the workspace.
URLsNameTheClientsHost ==
    answer # None => (answer.route # "mount" /\ HostRecorded =>
                        answer.url = ExpectedURL(answer.route))

\* What may become of the request that has come through the mount.
ExpectedAnswers ==
    LET path == kubeconfigs[client.mount]
    IN  IF client.rest = <<>> THEN {BadRequest}
        ELSE {NotLoaded} \cup
             CASE path = NoSecret -> {}
               [] path = Unusable -> {NotUsable}
               [] OTHER -> {[cluster |-> client.mount,
                             path |-> TrimSuffix(path, <<"/">>) \o client.rest]}

\* A request that kcp sends on through the URL published for a mount is sent to
\* the cluster of that mount and no other, with the path the tenant has asked
\* for below the cluster's own, slash for slash.  It is refused as a bad request
\* only when it asks for no path, as one without a usable kubeconfig only when the
\* cluster of the mount has none, and otherwise only when the secret is not read.
MountRequestReachesItsCluster ==
    [][(request # None /\ answer' # answer) =>
          (request.route = "mount" => answer'.url \in ExpectedAnswers)]_vars

=============================================================================
