CONSTANTS
    t1 = t1
    t2 = t2
    r1 = r1
    Tasks = {t1}
    Default = Default
    Scratch = Scratch
    None = None
    RepoOrder <- NoRepo
    Source <- Sources
    Fresh = {}
    Background = TRUE
    MaxOthers = 1
SPECIFICATION FairSpec
PROPERTY BannerFollowsDaemon
CHECK_DEADLOCK FALSE
