SPECIFICATION FairSpec
CONSTANTS
    Contexts = {c1, c2, c3}
    CPUs = {k1, k2, k3}
    Affinity <- Pinned
    NoCtx = NoCtx
    c1 = c1
    c2 = c2
    c3 = c3
    k1 = k1
    k2 = k2
    k3 = k3
    NoCPU = NoCPU
PROPERTIES
    QueueExits
    SleeperWakes
