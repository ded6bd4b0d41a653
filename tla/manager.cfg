CONSTANTS
    t1 = t1
    t2 = t2
    r1 = r1
    Tasks = {t1, t2}
    Default = Default
    Scratch = Scratch
    None = None
    RepoOrder <- OneRepo
    Source <- Sources
    Fresh = {t2}
    Background = FALSE
    MaxOthers = 1
SPECIFICATION Spec
INVARIANTS TypeOK ListsShowRegistry
PROPERTY SelectionStays
CHECK_DEADLOCK FALSE
