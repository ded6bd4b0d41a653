\* Two daemons, one of them started by an alias, one stop and three edits of the config.
SPECIFICATION FairSpec
CONSTANTS
    Daemons = {d, h}
    Hidden = {h}
    Stoppers = {s}
    Texts = {default, x}
    Fresh = default
    Broken = Broken
    Missing = Missing
    None = None
    MaxEdits = 3
INVARIANTS OneDaemon Published
PROPERTIES ChangeLoaded
