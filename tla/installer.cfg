\* Two terminals, four commands (three with Waybar), or three and one that fails or dies half way, on each kind of desktop.
SPECIFICATION Spec
CONSTANTS
    Terminals = {t1, t2}
    Desks = {"lua", "waybar", "bare"}
    MaxCommands = 4
    MaxFaults = 1
INVARIANTS TypeOK Left SourcedExists DoctorSatisfied
SYMMETRY Symmetry
CHECK_DEADLOCK FALSE
