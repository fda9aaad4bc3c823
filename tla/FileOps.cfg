CONSTANTS
    Name = {"S", "D", "a", "b", "c"}
    Job <- Jobs
    Ops = {"copy", "move", "delete"}
    Relations = {"same", "equal", "mount", "other"}
    FtpUser = {u1, u2}
    FtpNodes = {1, 2}
    FtpOps = {"list", "read", "write", "mkdir", "rename", "delete", "rmdir"}
SPECIFICATION MCSpec
INVARIANTS NothingLost NoHalfFile AllDone PoolExact InStep
PROPERTIES StopEndsIt
