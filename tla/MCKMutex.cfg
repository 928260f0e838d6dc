SPECIFICATION Spec
CONSTANTS
    Contexts = {c1, c2, c3, c4}
    CPUs = {k1, k2, k3, k4}
    Affinity <- AnyCPU
    NoCtx = NoCtx
    c1 = c1
    c2 = c2
    c3 = c3
    k1 = k1
    k2 = k2
    k3 = k3
    NoCPU = NoCPU
SYMMETRY Symm
INVARIANTS
    MutualExclusion
    McsIsSound
    SleeperIsHeld
    NoLostWakeup
