\* Three requests at once on two tasks, the daemon alone, one death or reboot, also in the middle of recovery.
SPECIFICATION Spec
CONSTANTS
    Tasks = {a, b}
    Default = Default
    Rpcs = {p, q, r}
    Writers = {}
    Main = Main
    None = None
    Faults = {}
    MaxTasks = 2
    MaxReloads = 0
    MaxStops = 1
SYMMETRY Symmetry
INVARIANTS TypeOK SessionConsistent SnapshotCurrent ActiveAttached
PROPERTIES NoLostUpdate EnterOnlyActive RefinesRegistry RecoveryComplete
