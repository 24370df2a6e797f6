SPECIFICATION Spec

CONSTANTS
    Instances = {i1, i2}
    Ports = {p1, p2}
    BlitSurfaces = {b1, b2}
    Infos = {n1, n2}
    CGSSurfaces = {w1, w2}
    None = None
    MaxRefs = 2

    GLContexts = {c1}
    Devices = {d1}
    Others = {o1}
    Objects = {k1, k2, k3, k4, k5, k6}
    Channel = ch
    Null = Null
    MaxDoublings = 2

    Framebuffers = {f1, f2}
    Drivers = {"QEMUDisplay", "IONDRVFramebuffer", "VMsvga2"}
    MatchedDrivers = {"IONDRVFramebuffer"}
    Modes = {m1, m2, m3}
    KnownModes = {m1, m2}
    NDRVModes = {m1, m3}
    FittingModes = {m1}
    FirstMode = m1
    RouteOutcomes <- MCRouteOutcomes
    Nil = Nil
    MaxRanges = 1

    Half = 4
    HalfWord = 32
    PageSize = 4
    Screen <- MCScreen
    Shapes <- MCShapes
    Regions <- MCRegions
    Points <- MCPoints

INVARIANTS
    PlugInHandles
    ClientMemoryCounted
    FramebufferHeld
    BlitContained
    BlitExact
PROPERTY
    HelperFinishes
\* Every framebuffer may be gone and every helper stopped.
CHECK_DEADLOCK FALSE
