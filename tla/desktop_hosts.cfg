SPECIFICATION DesktopSpec
CONSTANTS
    MaxSpawns = 2
    MaxMemory = 2
    AutoBalloon = TRUE
    Backends = {"qemu", "wsl", "utm"}
    Ids = {i1, i2}
    Profiles = {hermes, zero}
    Published = 2
    MaxOps = 3
    MaxFaults = 1
    None = None
SYMMETRY LauncherSymmetry
INVARIANTS NoStray GuestFollowsHost RegistryTellsTruth
    UpToDateIsTrue NeverHalfAnUpdate RegistryKeeps GuestFollowsTool ReachableWhereSaid
CHECK_DEADLOCK FALSE
