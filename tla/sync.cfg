\* Three taskspaces, two workspaces the user goes to and two switches.
SPECIFICATION MCSpec
CONSTANTS
    Spaces <- MCSpaces
    Default = "default"
    Workspaces <- MCWorkspaces
    Home <- MCHome
    Global = {"1"}
    None = "none"
    MaxFocuses = 2
    MaxSwitches = 2
INVARIANTS TypeOK SessionFollowsFocus MemoryOwned SlotsCurrent
PROPERTIES NoBounceBack QueueDrains
