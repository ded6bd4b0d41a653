\* Fair threads: saves and teardowns that fail, one config reload, one death.
SPECIFICATION FairSpec
CONSTANTS
    Tasks = {a}
    Default = Default
    Rpcs = {p, q}
    Writers = {}
    Main = Main
    None = None
    Faults = {"save", "windows", "checkout"}
    MaxTasks = 2
    MaxReloads = 1
    MaxStops = 1
PROPERTIES RequestsEnd DaemonServes
