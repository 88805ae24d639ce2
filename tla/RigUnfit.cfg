\* One rig and the commands on it, none of which fails.
SPECIFICATION RigHostSpec
CONSTANTS
    Rigs = {r1}
    MaxLandings = 1
    MaxHostFaults = 0
    HostFailAt = {}
INVARIANT
    UnfitIsStopped
CHECK_DEADLOCK FALSE
