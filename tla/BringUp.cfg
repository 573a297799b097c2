SPECIFICATION Spec
CONSTANTS
    Vectors = 5
    Ip = {i1, i2}
    TargetIp = i1
    MaxFrames = 3
    Ap <- MCAp
    Machines <- MCMachines
    MaxCpus = 4
    MaxIoApics = 1
    MaxOverrides = 2
    MaxRegions = 2
    MaxPciDevices = 4
    MaxBlocks = 2
    MaxRoutes = 2
    MaxSteps = 4
    BootSources = {"BiosLegacy", "Limine"}
INVARIANTS MessageReachesOwner VectorsAccounted StartedComplete RemovedClean PlatformFaithful ReplySeenIsCached ApOwnRecord
PROPERTIES BootEnds
