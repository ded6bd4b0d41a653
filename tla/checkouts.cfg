CONSTANTS
    home = home
    guest = guest
    main = main
    side = side
    other = other
    tracked = tracked
    local = local
    Kinds = {"git", "jj"}
    Procs = {p}
    Tasks <- TaskSet
    Isolated = {home}
    Checkouts <- CheckoutSet
    Owner <- Owners
    Primary <- Primaries
    Tracked = {tracked}
    Untracked = {local}
    CopyLocal = {local}
    MaxEdits = 1
    MaxFaults = 1
SPECIFICATION Spec
INVARIANTS TypeOK NoWorkLost FilesRestored PlaceKept ContainerFollows
PROPERTY OthersStay
CHECK_DEADLOCK FALSE
