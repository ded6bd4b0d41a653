CONSTANTS
    Tasks = {a, b}
    Pages = {x, y}
    Hosts = {h}
    Launchers = {l}
    Daemon = Daemon
    Desk = Desk
    None = None
    MaxWindows = 2
    MaxActs = 2
    MaxPushes = 1
    MaxFaults = 1
SPECIFICATION Spec
SYMMETRY Symmetry
INVARIANT SnapshotFrozen
CHECK_DEADLOCK FALSE
