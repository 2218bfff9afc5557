CONSTANTS
    a1 = a1
    a2 = a2
    b1 = b1
    NoPod = NoPod
    Pods = {a1, a2}
    Name <- NameOf
    Namespace <- OneNamespace
    Ip <- SameIp
    Role <- OnePool
    Deployments = {{"watcher", "reconciler"}}
    MaxEvents = 2
SPECIFICATION FairSpec
PROPERTY ReadyServed
