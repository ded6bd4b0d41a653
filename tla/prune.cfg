CONSTANTS
    home = home
    guest = guest
    main = main
    side = side
    other = other
    tracked = tracked
    local = local
    Kinds = {"git", "jj"}
    Procs = {p}
    Tasks <- TaskSet
    Isolated = {}
    Checkouts <- CheckoutSet
    Owner <- Owners
    Primary <- Primaries
    Tracked = {tracked}
    Untracked = {local}
    CopyLocal = {local}
    MaxEdits = 0
    MaxFaults = 0
SPECIFICATION Spec
INVARIANT RestoreFinds
CHECK_DEADLOCK FALSE
