\* Two monitors, one of them plugged or unplugged, one switch, one workspace the user goes to.
SPECIFICATION Spec
CONSTANTS
    Monitors = {1, 2}
    Spaces = {"default", "a"}
    Default = "default"
    Slots = 3
    Global = {1}
    None = "none"
    MaxPlugs = 1
    MaxMoves = 1
    MaxSwitches = 1
    MaxFollows = 2
CHECK_DEADLOCK FALSE
INVARIANTS TypeOK MemoryConnected
PROPERTIES RestoreComplete AdoptComplete HotplugKeepsTaskspace
