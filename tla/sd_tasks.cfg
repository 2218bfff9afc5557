CONSTANTS
    a1 = a1
    a2 = a2
    b1 = b1
    NoPod = NoPod
    Pods = {a1, a2, b1}
    Name <- NameOf
    Namespace <- OneNamespace
    Ip <- SameIp
    Role <- OnePool
    Deployments = {{"watcher"}, {"reconciler"}, {"watcher", "reconciler"}}
    MaxEvents = 1
SPECIFICATION FairSpec
INVARIANT TypeOK
INVARIANT UniqueName
INVARIANT PoolMatchesTracker
PROPERTY TrackerConverges
PROPERTY PoolConverges
