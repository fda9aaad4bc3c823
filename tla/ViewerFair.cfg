CONSTANTS
    Thread = {t1}
    Look = {plain, hex}
    Place = {top}
    Begin = top
    None = None
    MaxDisk = 1
    Timer = TRUE
    MayFail = TRUE
SPECIFICATION FairSpec
INVARIANTS RequestsKept
PROPERTIES StopEnds FollowsDisk
